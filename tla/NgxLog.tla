------------------------------- MODULE NgxLog -------------------------------
(***************************************************************************)
(* core/ngx_log.cpp and ngx_buf.cpp with write_log_timer of ngx_core.cpp:  *)
(* any thread writes records into a queue of buffers from the log's own    *)
(* pool; the loop's timer and ngx_core_uninit move them to the file.  The  *)
(* log's functions run under _lck, the timer's look at the file does not.  *)
(* The queue is LossyFifo, which NgxQueue implements.                      *)
(***************************************************************************)
EXTENDS Naturals, Sequences, SequencesExt

CONSTANTS
    nalloc,         \* the capacity of _wait_logs (4096)
    Lens,           \* the lengths of the texts written
    log_max_size,   \* the size at which the file is to be renamed
    MaxRecords      \* bound: records written

Printers == {"timer", "uninit"}     \* the loop's thread and the user's
Free == "free"
NULL == 0
Ids == 1 .. MaxRecords

VARIABLES
    q, drained, result, \* _wait_logs, with the numbers of the records
    len,        \* buf->len of the records so far
    live,       \* the records whose buffer is allocated
    told,       \* records whose loss was printed to the terminal
    _lck,       \* the printer that holds _lck
    at,         \* what a printer does next
    out,        \* what a printer has written and fclose has not flushed
    file,       \* the records in the file
    old         \* how many files were renamed

queue == <<q, drained, result>>
vars == <<queue, len, live, told, _lck, at, out, file, old>>
Queue == INSTANCE LossyFifo WITH Elem <- Ids

Init ==
    /\ Queue!Init
    /\ len = <<>> /\ live = {} /\ told = {}
    /\ _lck = Free
    /\ at = [p \in Printers |-> IF p = "timer" THEN "look" ELSE "print"]
    /\ out = [p \in Printers |-> <<>>]
    /\ file = <<>> /\ old = 0

\* vsnprintf is given n bytes for n characters and puts a 0 in place of the
\* last; the newline follows at n.
TextLen(n) == n + 1

ngx_create_buf(n) ==
    /\ Len(len) < MaxRecords
    /\ len' = Append(len, n)

\* A queue that is full is reported, and the buffer kept.
PushFrees(r) ==
    /\ \/ (Queue!Accept(r) \/ Queue!Forget(r)) /\ UNCHANGED told
       \/ Queue!Refuse(r) /\ told' = told \cup {r}
    /\ UNCHANGED live
Push(r) ==
    /\ \/ (Queue!Accept(r) \/ Queue!Forget(r)) /\ UNCHANGED told
       \/ Queue!Refuse(r) /\ told' = told \cup {r}
    /\ live' = live \cup {r}

\* A record below the log's level returns before all this.
write_level_log == \E n \in Lens :
    /\ _lck = Free
    /\ ngx_create_buf(TextLen(n))
    /\ Push(Len(len) + 1)
    /\ UNCHANGED <<_lck, at, out, file, old>>

\* buf->len stays 0; a buffer that is refused is given back.
write_data ==
    /\ _lck = Free
    /\ ngx_create_buf(0)
    /\ LET r == Len(len) + 1 IN
       \/ (Queue!Accept(r) \/ Queue!Forget(r)) /\ live' = live \cup {r}
       \/ Queue!Refuse(r) /\ UNCHANGED live
    /\ UNCHANGED <<told, _lck, at, out, file, old>>

\* ftell on a file that has just been opened: the position, not the size.
ngx_file_size == 0

write_log_timer ==
    /\ at["timer"] = "look"
    /\ at' = [at EXCEPT !["timer"] = "print"]
    /\ IF ngx_file_size >= log_max_size
       THEN file' = <<>> /\ old' = old + 1          \* ngx_file_rename
       ELSE UNCHANGED <<file, old>>
    /\ UNCHANGED <<queue, len, live, told, _lck, out>>

\* print_log_file; the timer looks again ten seconds later.
Return(p) == at' = [at EXCEPT ![p] = IF p = "timer" THEN "look" ELSE "print"]

OpenNoLock(p) ==
    /\ at[p] = "print"
    /\ \/ at' = [at EXCEPT ![p] = "write"] /\ _lck' = p
       \/ Return(p) /\ UNCHANGED _lck
    /\ UNCHANGED <<queue, len, live, told, out, file, old>>
Open(p) ==
    /\ at[p] = "print" /\ _lck = Free
    /\ \/ at' = [at EXCEPT ![p] = "write"] /\ _lck' = p
       \/ Return(p) /\ UNCHANGED _lck               \* fopen fails
    /\ UNCHANGED <<queue, len, live, told, out, file, old>>

\* fwrite of a record of length 0 writes nothing.
Write(p) ==
    /\ at[p] = "write"
    /\ Queue!GetFirst
    /\ out' = IF len[Head(q)] = 0 THEN out ELSE [out EXCEPT ![p] = Append(@, Head(q))]
    /\ live' = live \ {Head(q)}
    /\ UNCHANGED <<len, told, _lck, at, file, old>>

\* fclose flushes what stdio holds.
Close(p) ==
    /\ at[p] = "write" /\ q = <<>>
    /\ file' = file \o out[p]
    /\ out' = [out EXCEPT ![p] = <<>>]
    /\ _lck' = Free /\ Return(p)
    /\ UNCHANGED <<queue, len, live, told, old>>

Next == write_level_log \/ write_data \/ write_log_timer
    \/ \E p \in Printers : Open(p) \/ Write(p) \/ Close(p)

Spec == Init /\ [][Next]_vars

\* The file has the records in the order they were written, each once, though
\* two threads print (ngx_core.cpp 67 and 241).
FileInOrder == \A i, j \in 1 .. Len(file) : i < j => file[i] < file[j]

\* What is waiting is allocated, and what has been printed is not: the loss of
\* a record leaks its buffer but frees no other (lines 86 to 102 and 120).
WaitingLive ==
    /\ ToSet(q) \subseteq live
    /\ live \cap ToSet(file) = {}
=============================================================================
