# Verification of the network core

TLA+ models of the networking core of this repository, TLC configurations that
check them on small instances, and TLAPS proofs of the most important results
for every size. `PROJECT.json` lists runs, theorems, hazards, findings and the
source lines behind each definition.

To repeat the work: `tlc -config X.cfg M` for each run of `PROJECT.json`,
`tlapm M.tla` for each module `M` whose name ends in `Proofs`.

## Inventory

| part | state | operations | meets the others through |
|---|---|---|---|
| `eventloop` (core) | `_conns`, `_tasks`, `_timers`, `_running`, eventfd, three spinlocks | `loop`, `add_net`, `remove_net`, `remove_all`, `add_task`, `add_timer`, `remove_timer`, `wakeup`, `stop` | called by any thread; calls `OnRead`, `OnSend`, `release` of connections |
| `net_io` | `_ref`, `_loop`, `_brk_tm`, callbacks | `add_ref`, `release`, `terminate`, `OnClose` | `terminate` calls `remove_net`, which calls `release` |
| `tcp_conn` | `_snd_buf`, `_snd_len`, `_wait_snds`, `_rcv_buf`, a pool, a mutex | `send_msg` (any thread), `OnRead`, `OnSend`, `wait_sndmsg_size` (loop) | holds its mutex while it calls `terminate` |
| `ngx_acceptor` | listening socket | `OnRead`, `init` | its callback makes a `tcp_conn` and calls `add_net` |
| `ngx_queue` | ring with two cursors | create, get, push, size, empty | `tcp_conn`, `ngx_log` |
| `ngx_pool`, `ngx_buf` | list of blocks, list of large pieces | palloc, free, create buffer | `tcp_conn`, `ngx_log`, `ngx_queue` |
| `eventthread`, `ngx_core` | a loop in a thread of its own, `started` | run/stop, init/uninit | own an `eventloop` on a thread's stack |
| `BizUser`/`Impl` (example) | one client connection, `logoned` | start, stop, reconnect, send_message | `ngx_core`, `tcp_conn` |
| `demo/main.cpp` | a global loop | main, accept and disconnect callbacks, signal handler | `eventloop` |
| `ngx_log` | bounded queue of records | write, flush to file | `ngx_queue`, `ngx_pool` |
| `BatchSynchronizer` (threadpool) | id -> promise and future | `wait`, `notify` | the thread that asks and the one that answers |
| `SyncPair`, `AsyncResultSyncer` | id -> promise, future, `is_set_` | `wait_for`, `set` | the same, under a mutex for the map only |
| `ringbuffer`, `lock_free_array`, `staging_buffer` | slots and indices | push, pop, allocate, peek | one or more producers and consumers |
| `bheap`, `fixed_bit_set`, `fstring`, `fbuffer`, `dynamic_buffer`, `repeat_filter_limit` | their elements | all | one thread |
| `fixed_shm` | a file, a descriptor, a mapping | open, map, move, close | processes that share the file, one after another |
| `rx_bsd_mcbc`, `tx_bsd_mcbc`, descriptor of `net_io` | `fd_` | open, create, close, destructor | the descriptor table of the process |
| configuration (`config_parser.h`, `.cpp`) | a tree of nodes | parse, dump, get, `operator[]`, set, append, clear, reset | one thread |

What is hard here: connections are shared between the loop thread and the
users with a reference count and *bare* user pointers; two locks (loop, connection)
are taken in both orders; wakeups are separate from the data they announce;
`select()` can time out, fail, or report more than there is; `accept()` blocks; `send()` takes
part of a message; broken connections are used again; `stop` races everything. Loop threads are started and
stopped through a pointer that both sides use without a lock. In `basic/` the
queues synchronise by indices alone, and several classes own memory,
descriptors or mappings that moves, copies and repeated calls must hand on
exactly once.

## Modules

| module | models | checked by |
|---|---|---|
| `LossyFifo` | what `ngx_queue` promises | through `NgxQueue`, `TcpSend`, `NgxLog` |
| `NgxQueue` | `core/ngx_queue.cpp` | `Queues` |
| `NgxQueueProofs` | proofs about `NgxQueue` | tlapm |
| `BoundedFifo` | what the SPSC ring promises | through `Ringbuffer` |
| `Ringbuffer` | `basic/ringbuffer.hpp` | `Queues` |
| `LockFreeArray` | `basic/lock_free_array.h` | `Queues` |
| `StagingBuffer` | `basic/staging_buffer.h` | `Queues` |
| `Queues` | the sum of the four queues | `MCQueues.cfg` |
| `QueuesProofs` | proofs about the last three queues | tlapm |
| `EventLoop` | `core/eventloop.cpp` with `net_io`, `ngx_acceptor` and what `tcp_conn` shares with them | `MCLoop` with three configurations |
| `EventLoopProofs` | proofs about `EventLoop` | tlapm |
| `LoopTimer` | timers of the loop | `MCLoopTimer` with two configurations |
| `TcpSend` | send path of `tcp_conn`, over `LossyFifo` | `MCTcpSend` |
| `TcpSendProofs` | proofs about `TcpSend` | tlapm |
| `TcpRecv` | receive path of `tcp_conn`, with the demo's `msg_head_parse` | `MCTcpRecv` |
| `NgxPool` | `core/ngx_pool.cpp` | `MCNgxPool` |
| `NgxPoolProofs` | proofs about `NgxPool` | tlapm |
| `AsyncResult` | `SyncPair` of `basic/async_result_syncer.h` | `MCAnswers` |
| `BatchSync` | `BatchSynchronizer` of `threadpool/synchronizer.h` | `MCAnswers` |
| `Answers` | the sum of the two | `MCAnswers` |
| `AnswersProofs` | proofs about `Answers` | tlapm |
| `EventThread` | `core/eventthread.cpp` | `MCProcess` |
| `ClientCore` | `core/ngx_core.cpp` as the client example uses it | `MCProcess` |
| `NgxLog` | `core/ngx_log.cpp`, `ngx_buf.cpp`, over `LossyFifo` | `MCProcess` |
| `SocketFd` | descriptors of `network/io/bsd` and of `net_io` | `MCProcess` |
| `FixedShm` | `basic/fixed_shm.h` | `MCProcess` |
| `Process` | the sum of the last five | `MCProcess` |
| `ProcessProofs` | proofs about `Process` | tlapm |
| `Bheap`, `FixedBitSet`, `Fstring`, `FBuffer`, `DynamicBuffer`, `RepeatFilter` | the headers of the same names in `basic/` | `MCValues` |
| `ConfigText` | how `IniParser` and `ConfParser` write and read one value | `MCValues` |
| `ConfigTree` | the tree of nodes, the API on each of them, and a document through dump and parse | `MCValues` |
| `Values` | the sum of these, without `ConfigText`, which is recursive and which `MCValues` adds | `MCValues` |
| `ValuesProofs` | proofs about `Values` | tlapm |

`Queues`, `Answers`, `Process` and `Values` each join several parts that
share no state. They are sums: the variable `unit`, chosen in the initial state and never
changed, says which part a behaviour is about; the others keep their initial
values. The behaviours of the sum are therefore those of the parts, and no
interleaving of unrelated parts is explored. Parts that do interact are
composed for real: connections, acceptor and loop in `EventLoop`, queue and
connection in `TcpSend`, queue, buffers, pool and timer in `NgxLog`, client, core and
loop thread in `ClientCore`, all owners of descriptors in `SocketFd`.

### EventLoop

One thread `Loop` runs `eventloop::loop`; the threads of `User` call the public
operations. A step is the code between two points where another thread could
see a difference: a critical section of the loop's spinlock is one step,
except the snapshot (`SnapLock`, `SnapWalk`, `SnapUnlock`), which takes the
connection's mutex inside it. `terminate` is eight steps, because every
assignment in it can interleave with another `terminate` of the same
connection. `mem` says whether a connection is made, in the loop, or deleted;
`ref` is the counter the code keeps, and the properties compare it with the
holders there really are.

Undefined behaviour (a freed connection, a destroyed loop, a null `_loop`) is
recorded in `ub`, with the thread that did it, and ends the behaviour. When
other threads only stop the loop (demo) there is none (`NoUndefined`). With user
threads that do more there is: `terminate` of a user deletes the connection inside
`remove_net` and goes on to use it, and users keep bare pointers. What the
design does achieve, and what is proved, is that the *loop thread* never
touches a deleted connection, unless one was reconnected (`LoopNeverUsesFreed`).

`reconnect` takes an object that `terminate` has just broken and adds it to the loop again. `add_net`
takes no reference: it relies on the one the creator had, which the first `remove_net` released. If the
snapshot still holds the connection it is now in `_conns` with a count that is one too low (`reused`), and the
loop's `release` at the end of the turn deletes it (`ReleaseReused`). Its destructor then calls `terminate`, which takes it out of
`_conns`, so the ordinary reconnect leaves users with a dead pointer and the loop unharmed; but a `terminate` that was
still under way when `reconnect` came clears `_loop` behind it, the destructor then finds no loop, and the
deleted object stays in `_conns` for the next turn. This is what the exceptions in `RefExact`, `DeletedUnlinked`
and `LoopNeverUsesFreed` are, and nothing else.

The listening socket is never made non-blocking. `accept()` is therefore a place to wait in (`AcceptBlocks`): when the
client has gone again, and always when `select()` failed with EINTR and the acceptor only looks readable. The demo's
SIGTERM is such a signal: its handler stops the loop, `select()` fails, and the loop waits in `accept()` for a client to come.
`StopExits` has that as its hypothesis.

`ub` covers freed connections, destroyed loops and null pointers to them, no other undefined behaviour (the data race
on a connection's pool is in the hazards only).

Left out: a connection carried over from one loop to the next by `stop` and `start` (a run of the model is the life of one
loop); timers, whose scan, once there is a timer, never ends (`LoopTimer`) and is one more way for `stop` to fail;
the bytes read (`TcpRecv` has them); what the
application's callbacks do (they are assumed not to call back into the loop;
those of the demo only print); the eventfd's exact count. The connections of
the client example are taken to have a disconnect callback, as the demo's do.

Two abstractions are wider than the code: `SelectReady` allows any set of
descriptors, and `send_msg` chooses freely between the outcomes of `send()`.

### TcpSend

All of `send_msg` and `OnSend` run under the connection's mutex, so each outcome
is one step. `<<m, i>>` is the i-th byte of the m-th accepted message, and `wire`
what the socket took. `_snd_len` counts modulo `SizeMod`, since the code adds
the -1 of a failed `send()` to a `size_t`. `_wait_snds` is `LossyFifo`, used through
its actions, so what `NgxQueue` is proved to implement is what `TcpSend` assumes.

### LoopTimer

`process_timer` at the grain of its loop. A test of a timer that is not due
changes nothing and is therefore no step: a thread that can only repeat it is
stuck, which is what the code does. Erasing the element under the iterator ends
the behaviour.

### NgxPool

Offsets inside a block instead of addresses, alignment kept. A caller frees
what it was given, once, as all callers in the repository do.

### AsyncResult

One id of `SyncPair`: a waiter that calls `wait_for` again after a timeout, and
notifiers. Each critical section of `lck_` is a step, and so is each access to the
`SyncData` whose reference was taken out of it. With one answer for the id the protocol
is sound (`NoUndefined` is about that case). With several, two notifiers can both call `set_value`, and a late
one can hold a reference to an erased entry (`ub`); the waiter stays safe (`WaiterRefLive`). An entry
whose wait ended between `set_value` and `is_set_` stays in the map for good.
`wait` and `wait_until` cannot be instantiated (they do not compile) and are left
out, as is the predicate `AsyncResultSyncer` applies to what `wait_for` returned.

### TcpRecv

Memory in words: an `ngx_buf_t` is its four fields and then its data. `recv()` writes
where the code tells it to, so received words land in `cap`, `len`, `ref` and
`data`; what they do there is followed until a pointer or a length that is not the
program's is used (`wild`).

### The queues of `basic/`

`Ringbuffer`: each side loads the other's index, works slot by slot, stores its own;
these are the steps, batches and views (`at`, `peek`) included. `producerClear` writes
the consumer's index: if it meets a consumer inside a call or with a pointer into the ring, `raced` is set and the behaviour ends, and
the properties speak of the behaviours before that. `narrow` says whether `index_t` is narrower than `int`. Where the code stores
a difference of indices in an `index_t` it is modular for all types; where `insert` and `at` compare it directly (`Difference`)
a narrow one has been promoted and is negative between the wraps of head and tail, so that a full ring is not seen and an index
past the end is accepted. That sets `misjudged` and ends the behaviour too. `ImplementsFifo` maps the ring to `BoundedFifo`
with a batch taking effect at the store of the index.

`LockFreeArray`: one step per atomic access, any number of producers and consumers. The `static_assert` of the class admits only
sizes that are *not* a power of two while `index()` masks with `N - 1`; the model keeps both, so that several indices share a slot.
What `try_pop` returns is compared with what was pushed at its index. Three things can go wrong and are recorded where they happen:
the slot was read before the store (`early`), a store has hit an element nobody had popped (`clobbered`), and two consumers
were inside `try_pop` together (`overlap`).

`StagingBuffer`: `allocate` as the loop it is, with the cached bound. A record that is
released when `consumer_pos_` has not been rolled over to its start sets `adrift`
and ends the behaviour; `RecordsApart` says that until then nothing overlaps. So the release that follows a wrap
directly, without an `allocate` in between, is recognised and not followed further.

### Processes

`EventThread`: owner and thread share `_loop` without a lock. `run` and the destructor are called at any time, also
on a running object, which terminates the program. `found` says that a stop has met the loop of the last run; a `stop`
before the thread has stored `_loop` returns without a join and does not count.

`ClientCore`: user thread and loop threads over the fields of `ngx_core_t`.
`spinKept` is the compiler's choice: the loop of line 240 reads a variable no one
in that thread changes, so an optimising build (the `-O3` of the build files) may drop it. Every call through `core->loop`
is two steps, the read of the pointer and the use of the loop (`callee`), for the thread may withdraw and destroy its loop in between. A call
through a null `core->loop` or of a destroyed loop and an overrun of `host_ip` or `host_mac` end the
behaviour (`crashed`).

`NgxLog`: records are numbers with a length; `LossyFifo` gives the queue. A printer holds
`_lck` while it writes; the check of the file's size is outside. What stdio has
buffered reaches the file at `fclose`.

`SocketFd`: one descriptor table, in which a closed number is the next to be given out.
Every system call can fail. `HeldIsOwn` holds until a receiver is closed twice (`foreign`).

`FixedShm`: objects are made, opened, mapped, moved, closed and destroyed by two
objects over one file, each with a size of its own; the process may crash at any step and start again on the file it left.
`open` does not look at what `lseek` and `write` return, so the file may stay empty or get one byte only (`OpenFill`); `first` is the
size of the object that made the file, and `cut` says that it was left unextended.

### Containers

Each has the operations of its header as actions and, where it helps, a history
variable with what a caller would expect (`unread`, `live`, `gap`). In `Bheap` a turn of
a sifting loop is a step, with the recursion of `sift_down` as a stack of loops (`frames`): after a swap
the code both calls itself for the child and goes on with the child. `ConfigText` looks
at every value up to a length over the characters that matter to the parser (quote,
backslash, newline, blank, comment, plain); `ConfigTree` at sections, keys and kinds of nodes. A call of the API is made on the node
a path leads to: the root, a section, or a key's own node. `SaveLoadKeeps` says of each type of value whether it comes back: an `int8_t` and a
`nullptr` are written as nothing, a `uint8_t` is written but `get` has no conversion for it, a `float` or `double` keeps six digits; all
others come back. `Fstring` takes bytes with terminators among them; an append of such bytes leaves
some behind the terminator, as memcpy does (`raw`). `RepeatFilter` takes thresholds of 0 and then divides by zero (`trapped`).

## Runs

| run | shows | bounds |
|---|---|---|
| `queues` | ring queue: cursors in range, `LossyFifo` implemented; SPSC ring: never overfull, pointers and answers stay good, `BoundedFifo` implemented; lock-free array: what `try_pop` returns, and when it may be wrong, `push` returns; staging buffer: records apart, a blocking `allocate` returns | 3 slots and 2 elements; 2 slots and an index of 4 values, wide and narrow, so that it wraps; 6 slots (the smallest the class admits that holds an element), 2 producers, 2 consumers, indices up to 7, one past the first that overwrites an element; 7 bytes, records of 1 to 7 |
| `loop_server` | the demo: no undefined behaviour, callback once, `stop` ends the loop unless `accept()` blocks for good | 1 acceptor, 2 accepted connections |
| `loop_tasks` | no lost wakeup, tasks in order, every task runs | 2 users, 2 tasks each, 1 connection |
| `loop_client` | counts, memory safety of the loop thread, what a reconnect does to both, the ways `stop` can fail | 2 users racing on 1 connection (one is enough: the hazards are between threads on the same one) |
| `tcp_send` | order and completeness of the byte stream; two ways accepted data stays unsent | 4 messages of up to 3 bytes, queue of 2, 3 EAGAINs: `_snd_len` reaches 0 and wraps |
| `timers` | a scan that meets a timer never ends | 2 timers, counts -1, 0, 2, 4 ticks |
| `timer_unlimited` | *violated*: a timer with count -1 is called | 1 timer |
| `pool` | pieces disjoint, counts exact, given-up blocks idle | 4 blocks, 5 pieces, a failure limit of 0 instead of 4 so that blocks are given up soon |
| `tcp_recv` | *violated*: the callback gets what the peer sent | 2 messages |
| `answers` | an answer that comes after a timeout is there for the next wait, the waiter's reference stays good, an answered entry is erased; in `BatchSynchronizer` a waiter waits on the object in the map unless both sides found the id absent | 3 notifiers and 3 waits: an answer, a duplicate and one after the entry was erased; 2 ids |
| `process` | the program is not terminated once a stop has found the loop; at most one loop thread at work, and none when the client is gone; log file in order, buffers freed once; descriptors and mappings have one owner; the ways to a mapping that cannot be used | 2 objects or threads of each kind, queue of 3 with 6 records (overflows), 3 descriptors, sizes of 0 and 2 pages |
| `values` | heap positions, contexts and maximum; bit scans against their definition; terminators and comparison; unread bytes; ownership and growth; longest silence of the filter; which configuration values survive; what a call on a node takes away | 6 contexts, 9 bits in bytes of 3, strings of 3, buffers of 3 bytes, parameters from 0 up to 5, texts up to 4 characters, trees of 2 sections and 1 key with a value of each kind and arrays of 1 |

Most properties are conjunctions of parts named in the component's module; the parts
are what the text below speaks of, and each has a mutation of the code that breaks it.

| property | parts |
|---|---|
| `RingSafe`, `ArraySafe` | `NeverOverfull`, `ViewStable`, `RoomHolds`, `OnlyNarrowMisjudges`; `TakenStored`, `TakenOnce`, `ReadNotPastWrite` |
| `ServerSafe` | `NoUndefined`, `ClosedExactlyOnce` |
| `SendSafe` | `TypeOK`, `StreamPrefix`, `StreamNoGap`, `NeverDrained` |
| `PoolSafe` | `TypeOK`, `PiecesDisjoint`, `RefCountsPieces` |
| `AnswersSafe` | `TypeOK`, `NoUndefined`, `WaiterRefLive`, `LateAnswerKept`; `WaitsOnCurrent` |
| `ThreadsSafe`, `LoopThreadsStop` | `TerminateOnlyUnstopped`, `CoreOutlivesThread`, `OneLoopThread`; `StopEnds`, `StopReturnsOrInLoop` |
| `LogSafe`, `OwnersSafe` | `FileInOrder`, `WaitingLive`; `HeldIsOwn`, `ReleasedOnce`, `MappingOwned` |
| `HeapSafe`, `ScansFind` | `IdxTracksPosition`, `ContextsKept`, `TopUntilErase`; `FirstSetFound`, `LastSetFound` |
| `BuffersSafe` | `Terminated`, `ComparesTexts`; `HoldsUnread`; `OwnedOnce`, `FitsBlock`, `LeakOnlyByAssign` |
| `ReadsBack` | `IniRoundTrip`, `ConfSurvivors`; `SaveLoadKeeps` |

Deadlock is not checked where the system may stop: a loop that was stopped, a
connection that is broken, a scan that is stuck, a waiter that has its answer.

Fairness: the loop thread and a user inside a call are scheduled (weak fairness
of their steps, the one into undefined behaviour included); `select()` ends by its timeout, or by the eventfd once it is
set. Nothing obliges users to call, peers to connect or to send, or signals to arrive: a blocked `accept()` may never return. In
`TcpSend` a socket that is watched for writing becomes writable, i.e. the peer reads.
`LoopTimer` assumes that time passes. In `AsyncResult`, `BatchSync` and `LockFreeArray` threads inside a call are
scheduled; an answer need not come, a push need not be made. In `StagingBuffer` the consumer goes on
releasing: a blocking `allocate` spins for exactly that. In `EventThread` and `ClientCore` a started
thread runs and a call goes on; what the owner calls, and when, is open, and the resolver may fail for ever.

### What the models show of the code

Two runs expect a violation, because a text of the repository promises what the code does not do:

- `core/eventloop.h:15` documents a timer's count as "-1: unlimit"; the scan in `process_timer`
  (`eventloop.cpp:164`) never advances its iterator, so no timer is ever called and `_lck_timer` stays locked.
- `core/net_io.h:31` calls the callback "message arrive"; `tcp_conn.cpp:41` receives into the header of
  the buffer, and what is handed over was never received.

The others are in the models as the code has them, and the properties of the passing runs say
what still holds:

| where | what the code does | what holds |
|---|---|---|
| `eventloop.cpp:102` | takes the connection's mutex inside the loop's spinlock; `send_msg` takes them the other way round | `StopExitsOrStuck`: a loop that does not stop is in that embrace |
| `tcp_conn.cpp:93` | `OnSend` leaves when something is queued, so a queued message is never sent | `WedgedForever`, `NeverDrained`; what was sent is a prefix |
| `ngx_queue.cpp:31` | a push that makes the cursors meet forgets the backlog | `RefinesLossyFifo` (`Forget`) |
| `Impl.cpp:57`, `eventloop.cpp:139` | a connection that is used again is added without a reference; the loop's `release` deletes it | `RefExact`, `DeletedUnlinked`, `LoopNeverUsesFreed`, each with that exception |
| `ngx_acceptor.cpp:26` | `accept()` on a blocking socket after an EINTR of `select()`: a SIGTERM stops the loop and sends it there | `StopExits`, if `accept()` does not block for good |
| `ringbuffer.hpp:62` | `producerClear` stores the consumer's index, which a consumer inside a call stores again, and gives away slots it has a pointer to | all ring properties until then |
| `ringbuffer.hpp:106`, `248` | with an 8 or 16 bit `index_t` the difference is an `int` and is compared with a `size_t`: between the wraps a full ring is overrun, and `at` accepts any index | `OnlyNarrowMisjudges`; all ring properties until then |
| `lock_free_array.h:122` | `try_pop` looks at `write_index` and can take a slot that was claimed and not stored; nobody reads `max_num_read_index` | `TakenStored`, with that exception (`early`) |
| `lock_free_array.h:43` | sizes that are not a power of two are masked: a push can overwrite an element that was not popped | `TakenStored`, with that exception (`clobbered`) |
| `lock_free_array.h:108` | `try_pop` tests for emptiness before it loads the index: two consumers can take `read_index` past `write_index` | `ReadNotPastWrite` unless they overlapped, `TakenOnce` always |
| `staging_buffer.h:88` | `deallocate` does not roll `consumer_pos_` over; it relies on an `allocate` in between | `RecordsApart` until then |
| `bheap.h:55` | `erase` compares with the element it replaces and not with the parent, so order can be lost | `TopUntilErase`, positions and contexts always |
| `fixed_bit_set.h:63` | `find_first_set` can return a bit before the offset | `FirstSetFound`: it is right where the byte of the offset has no bit before the offset |
| `fixed_shm.h:74` | a file that exists is never extended, and errors of `lseek` and `write` are ignored | `MapUsable`: a file is too short only for an object larger than its maker, or after a crash or an error inside `open` |
| `config_parser.cpp:229` | a section line stores a string node; `dump` of such a document throws | `SaveLoadKeeps` for what dump returns |
| `config_parser.cpp:128`, `.h:282` | `int8_t` and `nullptr` are written as nothing, `uint8_t` is not read, `double` is written with six digits | `SaveLoadKeeps`: all other values come back |
| `config_parser.h:207`, `235`, `368`, `378` | `operator[]`, `set` and `append` replace a node of another kind, also the root and a key's own node | `KeysKept`: nothing beside the node called on, or the one named, changes |
| `config_parser.h:506` | the text of a file is a function-local static, shared by all `ConfigFile`s | not modelled |
| `config_parser.h:285` | `get` with a default converts the empty string of a missing key and throws | not a property |
| `config_parser.h:113` | `empty` does not say what its name says for a node with a value | not modelled: it changes nothing |
| `ngx_core.cpp:101`, `103` | an unresolved name is tried for ever; a resolved one overruns `host_ip` | the behaviour ends there: no start succeeds |
| `ngx_core.cpp:175` | MAC addresses are stored without a bound | the behaviour ends there |
| `ngx_core.cpp:239`, `240` | `uninit` calls through `core->loop`, which the thread may have withdrawn by then with the loop destroyed, and waits for a loop that nobody stops | `StopReturnsOrInLoop`, `CoreOutlivesThread`, `OneLoopThread` |
| `ngx_log.cpp:86`, `16` | an overflow after the first print is not reported; the file's size is read as 0, so it is not renamed | `WaitingLive`, `FileInOrder` |
| `fstring.h:113`, `213` | comparison looks behind the terminator, where an append of bytes with a terminator among them leaves some | `ComparesTexts` for other strings |
| `repeat_filter_limit.h:33`, `36` | a threshold of 0 divides by zero | `GapBounded` for the others |
| `fstring.h:236` | the bound of `substr` is off by one | not modelled: `substr` changes nothing |
| `fbuffer.h:72` | `shrink_to_fit` moves the array onto itself | `HoldsUnread` for a buffer that was not shrunk after a skip |
| `rx_bsd_mcbc.cpp:78`, `37` | `close` keeps `fd_` and the destructor closes again; non-blocking is tested the wrong way round | `HeldIsOwn` until then |
| `net_io.cpp:183` | closes only a descriptor below 0: none is ever closed | the table fills up; `create` then fails |

## Proofs

`NgxQueueProofs`, from `nalloc > 0` and `NULL \notin Elem`:
`IndexCorrect` (`IndexInv` is inductive as it stands) and `QueueRefines`, whose
steps show that a push or a get on the ring is `Accept`, `Refuse`, `Forget`,
`GetFirst` or `GetNothing` of `LossyFifo` under `q <- Backlog`.

`EventLoopProofs`, for any sets of users, acceptors and connections, from the
assumptions that these are distinct. `RefExact` is not inductive. The invariant
`RefInv` adds which program points belong to which thread (`PcInv`), that the
connection the loop works on is in its snapshot (`CurInv`), that while the
snapshot is taken nobody else changes `_conns` and each connection is in exactly
one of `todo` and `snap` (`SnapInv`), that what the loop holds is alive unless it was reconnected and
`_loop` is set only for members of `_conns` that are alive (`HeldInv`), and that `add_net` works on
a connection that was made (`AddInv`). From it follow
`TypeCorrect`, `RefCorrect`, `DeletedCorrect` and, since everything the loop
thread dereferences is in `conns \cup snap`, `LoopMemorySafe`. `WakeupCorrect` needs
`WakeInv`: from the moment the task list is swapped out, a task in it comes with a
set eventfd or a thread about to set it.

`ClosedCorrect` needs to know how far the loop has come with `terminate` on an accepted
connection (`Closing`). `CloseInv` says of each one that while it is in `_conns` its `_loop` is set, that the count of
callbacks is 1 exactly when it was dropped from `_conns` and `terminate` is not between `remove_net` and
`OnClose`, and that `_disconn_cb` is set until then. It holds whatever users do, since they have no pointer to what an
acceptor made. `NoUndefined` does not, so `ServerCorrect` has the hypothesis
`Ops \subseteq {"stop"}`: what the demo does from outside the loop (its signal handler). Under it `ServerInv`
keeps users out of every call and `_loop` set when `terminate` reads it the second time; what is
left, the loop's own accesses, is `LoopMemorySafe`. `TasksCorrect` is about `Submitted`, the tasks done, taken and
waiting in one sequence: `SubmittedStep` shows that only `add_task` changes it, by appending, because the list is
swapped out only when nothing of the last one is left (`BatchInv`).
All these invariants hold in TLC's runs too.

`QueuesProofs`, for every size, number of values and number of steps:

- `RingCorrect` and `RingRefines`, from the assumption that the number of slots divides
  the range of `index_t` and is at most half of it, as the powers of two of the code do, for an `index_t` as wide as `int` and for a narrower one. `RingSafe` is not inductive.
  `RingInv` adds that what each side has in hand fits: a producer inside a call writes only
  slots that are free for as long as it does (`ProducerFits`), a consumer reads only slots that
  were published (`ConsumerFinds`), a view lies inside what is stored (`ViewInside`). All of it is said
  with distances modulo the range, and the lemmas `IndexMinus` to `SlotFrom` say what those are when the index wraps.
  The refinement goes step by step: slots are stutters, the stores of the index are `Put` and `Take`.
- `ArrayCorrect`, from the size the `static_assert` admits, for any number of producers and consumers.
  `ArrayInv` adds that, until a store hits an element nobody popped, every index between the two counters is in its slot or
  about to be stored (`StoredOrStoring`), what a consumer that may still win its CAS has read (`TakenInv`), and that a consumer
  alone inside `try_pop` has found something (`AloneInv`).
- `RecordsCorrect`. `StagingInv` says that the records form a chain without a gap: one that
  reaches from `consumer_pos_` to `producer_pos_` (`Linear`), or one that reaches from `consumer_pos_` to
  `end_of_record_` and a second one from 0 to `producer_pos_` (`Wrapped`), and that the cached bound
  `min_free_space_` never promises more than there is.

`TcpSendProofs`, for any length of queue, size of messages and range of `_snd_len`. `SendInv` adds
to `SendSafe` that what is queued is in the order of acceptance and younger than what was sent, that the wire
holds started messages only, and where it ends when a message is half sent. From it, `SendCorrect`, and the
action properties `WedgedCorrect` and `TailCorrect`.

`NgxPoolProofs`, for any block size, alignment and number of blocks. `PoolSafe` is inductive with the finiteness of
`pieces`: a new piece starts at the aligned cursor, past every live piece of its block
(`AlignUp`), and a count is a cardinality that grows and shrinks by one.
`PassedBlocksCorrect` takes only the types from it.

`AnswersProofs`, for any finite set of notifiers and any number of waits. `SyncerInv` says which of the
objects that were created is the one in the map (`MapInv`), who stored into each (`CellInv`), and what waiter and notifiers
refer to (`WaiterInv`, `NotifierInv`); `BatchInv` that what a waiter or a notifier holds is in the map
unless both found the id absent.

`ProcessProofs`, for any numbers of threads, printers, records, objects and descriptors. `ThreadsInv`: an owner whose stop has found
the loop has no thread left once it has joined. `ClientInv`: in a build that keeps the waiting loop at most one thread is at work,
the one whose loop is published. `LogInv`: records in the file are before those a printer
has taken, those before the ones that wait. `FdInv`: without a foreign close a number belongs to the
object that has it. `ShmInv`: handles are owned once, and a file is as large as its maker asked for unless `open` was cut short or is still under way.

`ValuesProofs`, for every size and number of objects. `FilterInv` (`GapCorrect`): calls held back in a row are at most the
remainder since the current threshold last let one through, which also survives the change at `bar2_`. `BitsInv` (`ScansCorrect`) says only that bits lie inside
the set; the work is in the searches, where `LeastExists` and `GreatestExists` (from the well-foundedness of the naturals) give
`Min` and `Max` their meaning. `StringInv`, `FixedInv` and `DynamicInv` (`BuffersCorrect`): strings end in their last
byte and, unless a memcpy filled them or an append had a terminator among its bytes, have zeros behind the first one; the bytes between head and tail are the unread ones; ownership
and size of blocks are inductive with the types once `reserve` is known to grow far enough (`GrownFits`). `KeysCorrect` holds of every tree:
`CallNode` says what a call makes of the node it is made on, and the three lengths of a path are its cases.
`HeapInv` (`HeapCorrect`): a swap exchanges contexts and leaves every place with its own idx (`SwapKeeps`), so ids stay different and positions
exact through sifting and erasing. The order of the heap does not hold while `sift_up` runs: `Ordered` leaves out the place being sifted and adds that its children
are not above its parent, which is what the next swap needs (`SiftUpOrders`). That an ordered heap has its maximum on top (`OrderedTop`) is
shown with the least place that would be larger.

Only model-checked:

- liveness (`StopExits`, `StopExitsOrStuck`, `TaskRuns`, `PartCompletes`, `LockStuck`, `AnswerArrives`, `BatchAnswerArrives`,
  `PushReturns`, `AllocateReturns`, `StopEnds`, `StopReturnsOrInLoop`), which this prover does not reach;
- `ReadsBack`: the scanning of the texts is recursive, and `SaveLoadKeeps` needs an induction over the lines of a file.

## Plan

1. (done) queue, loop, send path, timers, pool, asynchronous results; the loop's and the queue's proofs.
2. (done) start and stop of loop threads, client core, log; receive path; batch synchronizer; ring, lock-free array,
   staging buffer; descriptors, shared memory; containers and configuration.
3. (done) the safety invariants of the send path, pool, queues, answers, process and containers for every size.
4. (done) the loop's callbacks and tasks for every size, the demo's discipline stated as a hypothesis on what users do; the heap.

## Not modelled

- `Executor`: built nowhere, and does not compile (`task_id_` is not declared). `eventloop_busy.cpp`: built nowhere.
- `memory_pool.h`, `config_parser.hpp`, `fixed_buffer.h`'s `shrink`, `rtx_bsd_tcp.cpp`: do not compile. `ConfigValidator` has no body.
- `scope.h`, `ngx_list`: used nowhere. `buffer.h`: its capacity stays 0, so every operation fails. `cycle_memory_block` never sets its pointers.
- `logging.h`, `flogging.h`, `log_def.h`: macros that format and print; no state that a property could relate.
- `raii.h`, `rdtsc.h`, `date_time.h`, socket options, address formatting and the other small helpers: one
  system call or one instruction each.
- `logon` and the business messages of the example: they only fill in structures.
- `ConfigFile`: reads and writes a file as a whole; that its text is a static of the first call is noted above. `stop` and `start` of a
  client with a connection of the loop before: see EventLoop.
- `readfrom` and `writeto` of `fixed_shm.h`: copies whose bounds test (line 145) is always true.
- `third_party/`: not this repository's code.
