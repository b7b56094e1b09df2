------------------------------- MODULE Process -------------------------------
(***************************************************************************)
(* What a process starts, holds and must give back, one resource at a      *)
(* time: unit says which one a behaviour is about.                         *)
(*                                                                         *)
(*   thread  core/eventthread.cpp, by EventThread                          *)
(*   client  core/ngx_core.cpp under the example, by ClientCore            *)
(*   log     core/ngx_log.cpp, by NgxLog                                   *)
(*   fd      descriptors, by SocketFd                                      *)
(*   shm     basic/fixed_shm.h, by FixedShm                                *)
(***************************************************************************)
EXTENDS Integers, Sequences

CONSTANTS
    Threads,                                \* of EventThread and ClientCore
    URLs, Known, Interfaces, NoLoop,        \* of ClientCore
    nalloc, Lens, log_max_size, MaxRecords, \* of NgxLog
    Rx, Tx, Io, Other, Nobody, TableSize,   \* of SocketFd
    ShmObjects, ShmSizes, MaxHandles        \* of FixedShm

ASSUME LoopAssumption == NoLoop \notin Threads
ASSUME LogAssumption == nalloc \in Nat /\ MaxRecords \in Nat /\ Lens \subseteq Nat
ASSUME TableAssumption == TableSize \in Nat \ {0} /\ Nobody \notin Rx \cup Tx \cup Io \cup Other
ASSUME ShmAssumption == ShmSizes \subseteq Nat /\ MaxHandles \in Nat

VARIABLES
    unit,
    owner, thr, _loop, _running, found,
    user, ret, callee, url, ip_cnt, log, started, loop, cthr, spinKept,
    q, drained, result, len, live, told, _lck, at, out, lfile, old,
    table, fd_, foreign,
    file, first, obj, fds, maps, made, shut, twice, faults, cut

threadVars == <<owner, thr, _loop, _running, found>>
clientVars == <<user, ret, callee, url, ip_cnt, log, started, loop, cthr, spinKept>>
logVars == <<q, drained, result, len, live, told, _lck, at, out, lfile, old>>
fdVars == <<table, fd_, foreign>>
shmVars == <<file, first, obj, fds, maps, made, shut, twice, faults, cut>>

Thread == INSTANCE EventThread
Client == INSTANCE ClientCore WITH thr <- cthr
Log == INSTANCE NgxLog WITH file <- lfile
Fd == INSTANCE SocketFd WITH MaxFd <- TableSize
Shm == INSTANCE FixedShm WITH Objects <- ShmObjects, Sizes <- ShmSizes, MaxFd <- MaxHandles

Init ==
    /\ unit \in {"thread", "client", "log", "fd", "shm"}
    /\ Thread!Init /\ Client!Init /\ Log!Init /\ Fd!Init /\ Shm!Init
    /\ unit = "client" \/ spinKept

Next ==
    /\ UNCHANGED unit
    /\ \/ /\ unit = "thread" /\ Thread!Next
          /\ UNCHANGED <<clientVars, logVars, fdVars, shmVars>>
       \/ /\ unit = "client" /\ Client!Next
          /\ UNCHANGED <<threadVars, logVars, fdVars, shmVars>>
       \/ /\ unit = "log" /\ Log!Next
          /\ UNCHANGED <<threadVars, clientVars, fdVars, shmVars>>
       \/ /\ unit = "fd" /\ Fd!Next
          /\ UNCHANGED <<threadVars, clientVars, logVars, shmVars>>
       \/ /\ unit = "shm" /\ Shm!Next
          /\ UNCHANGED <<threadVars, clientVars, logVars, fdVars>>

Spec ==
    /\ Init
    /\ [][Next]_<<unit, threadVars, clientVars, logVars, fdVars, shmVars>>
    /\ Thread!Fairness /\ Client!Fairness

-----------------------------------------------------------------------------
(* The properties of the parts, under names of this module. *)

\* eventthread.cpp: the program is not terminated once a stop has found the
\* loop.  ngx_core.cpp, in a build that keeps the loop of line 240: at most one
\* loop thread is at work, and a client that is gone leaves none.
ThreadsSafe ==
    Thread!TerminateOnlyUnstopped /\ Client!CoreOutlivesThread /\ Client!OneLoopThread
\* eventthread.cpp: a stop that found the loop ends the thread and returns.
\* ngx_core.cpp: a stop returns unless the thread is inside loop() or has
\* withdrawn its loop under the call of wakeup.
LoopThreadsStop == Thread!StopEnds /\ Client!StopReturnsOrInLoop
\* ngx_log.cpp: the file has the records in the order they were written; what
\* is waiting is allocated, what is printed is not.
LogSafe == Log!FileInOrder /\ Log!WaitingLive
\* Descriptors of rx_bsd_mcbc.cpp, tx_bsd_mcbc.cpp and net_io.cpp, and the
\* descriptors and mappings of fixed_shm.h, have one owner and are released
\* once, until a user closes an object whose destructor closes again.
OwnersSafe == Fd!HeldIsOwn /\ Shm!ReleasedOnce /\ Shm!MappingOwned
\* fixed_shm.h: a mapping that is no larger than the object that made the file
\* can be used, unless the file was left unextended.
MapUsable == Shm!MapUsable
=============================================================================
