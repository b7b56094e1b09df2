---------------------------- MODULE ProcessProofs ----------------------------
(***************************************************************************)
(* For every number of threads, records, descriptors, objects and          *)
(* addresses: what a process starts, holds and must give back is safe, as  *)
(* ThreadsSafe, LogSafe, OwnersSafe and MapUsable of Process say.          *)
(***************************************************************************)
EXTENDS Process, TLAPS, WellFoundedInduction

-----------------------------------------------------------------------------
(* Invariants *)

\* EventThread: a thread that nobody will join was not found by a stop.
ThreadInv(t) ==
    /\ _loop[t] <=> thr[t] \in {"ready", "loop"}
    /\ owner[t] = "new" => thr[t] = "none"
    /\ owner[t] = "running" => thr[t] \in {"begin", "ready", "loop"}
    /\ owner[t] = "stopped" => thr[t] \in {"none", "joined"} \/ ~found[t]
    /\ owner[t] = "join" => thr[t] \in {"ready", "loop", "ended"}
    /\ owner[t] \in {"running", "terminated"} => ~found[t]
    /\ owner[t] # "join" => thr[t] # "ended"
    /\ owner[t] # "join" /\ thr[t] \in {"ready", "loop"} => _running[t]

ThreadTypes ==
    /\ owner \in [Threads -> {"new", "running", "join", "stopped", "gone", "terminated"}]
    /\ thr \in [Threads -> {"none", "begin", "ready", "loop", "ended", "joined"}]
    /\ _loop \in [Threads -> BOOLEAN] /\ _running \in [Threads -> BOOLEAN]
    /\ found \in [Threads -> BOOLEAN]

ThreadsInv == ThreadTypes /\ \A t \in Threads : ThreadInv(t)

\* ClientCore: in a build that keeps the loop that waits, at most one thread
\* is at work, and it is the one whose loop is published.
Idle(th, S) == \A t \in S : th[t] \in {"none", "ended"}

CThreads == {"none", "begin", "begun", "test", "enter", "loop", "ended"}
InLoop == {"test", "enter", "loop"}

ClientInv ==
    /\ started \in BOOLEAN /\ ip_cnt = 0
    /\ cthr \in [Threads -> CThreads]
    /\ Client!OneLoopThread
    /\ spinKept =>
        /\ user \in {"idle", "parse", "spawn", "gone"} =>
               Idle(cthr, Threads) /\ loop = NoLoop /\ ~started
        /\ user = "timer" => \E t \in Threads :
               /\ Idle(cthr, Threads \ {t})
               /\ \/ cthr[t] = "begin" /\ loop = NoLoop
                  \/ cthr[t] = "begun" /\ loop = NoLoop /\ started
                  \/ cthr[t] \in InLoop /\ loop = t /\ started
        /\ user \in {"adding", "check"} => \E t \in Threads :
               Idle(cthr, Threads \ {t}) /\ cthr[t] \in InLoop /\ loop = t /\ started
        /\ user \in {"wake", "waking", "spin"} =>
               /\ ~started /\ ret = "idle"
               /\ \/ Idle(cthr, Threads) /\ loop = NoLoop
                  \/ \E t \in Threads :
                         Idle(cthr, Threads \ {t}) /\ cthr[t] \in InLoop /\ loop = t

\* NgxLog: the file, what a printer holds and the queue are, one after the
\* other, the records in the order they were written.
Rising(s) == \A i, j \in 1 .. Len(s) : i < j => s[i] < s[j]
Before(s, r) == \A i \in 1 .. Len(s) : s[i] < r
AllBefore(s, u) == \A i \in 1 .. Len(u) : Before(s, u[i])
Printers == {"timer", "uninit"}

LogTypes ==
    /\ q \in Seq(Nat) /\ lfile \in Seq(Nat) /\ out \in [Printers -> Seq(Nat)]
    /\ len \in Seq(Nat) /\ live \subseteq Nat
    /\ at \in [Printers -> {"look", "print", "write"}]

LogInv ==
    /\ LogTypes
    /\ Rising(lfile) /\ Rising(q)
    /\ Before(q, Len(len) + 1) /\ Before(lfile, Len(len) + 1)
    /\ AllBefore(lfile, q)
    /\ \A p \in Printers :
        /\ Rising(out[p]) /\ Before(out[p], Len(len) + 1)
        /\ AllBefore(lfile, out[p]) /\ AllBefore(out[p], q)
        /\ at[p] = "write" <=> _lck = p
        /\ at[p] # "write" => out[p] = <<>>
        /\ \A i \in 1 .. Len(out[p]) : out[p][i] \notin live
    /\ \A i \in 1 .. Len(q) : q[i] \in live
    /\ \A i \in 1 .. Len(lfile) : lfile[i] \notin live
    /\ \A r \in live : r <= Len(len)

\* SocketFd: the table and the members agree.
FdObjects == Rx \cup Tx \cup Io \cup Other
FdNumbers == 0 .. TableSize - 1

FdInv ==
    /\ table \in [FdNumbers -> FdObjects \cup {Nobody}]
    /\ fd_ \in [FdObjects -> FdNumbers \cup {-1}]
    /\ foreign \subseteq Rx
    /\ foreign = {} => \A x \in FdObjects \ Rx : fd_[x] # -1 => table[fd_[x]] = x

\* FixedShm: an object has its handles alone, and what it has is open, or was
\* closed by a user.
ShmRecord == [alive : BOOLEAN, size : Nat, fd : Int, data : Int, opening : BOOLEAN]

ShmTypes ==
    /\ made \in Nat /\ file \in Nat \cup {-1} /\ first \in Nat /\ faults \subseteq Nat /\ cut \in BOOLEAN
    /\ obj \in [ShmObjects -> ShmRecord]
    /\ fds \subseteq 1 .. made /\ maps \subseteq 1 .. made /\ shut \subseteq 1 .. made

HandlesOwned ==
    /\ \A o \in ShmObjects : obj[o].data \in maps \cup {0, -1}
    /\ \A o \in ShmObjects : obj[o].fd \in fds \cup shut \cup {-1}
    /\ \A o, x \in ShmObjects : o # x =>
        /\ obj[o].data = obj[x].data => obj[o].data \in {0, -1}
        /\ obj[o].fd = obj[x].fd => obj[o].fd = -1

FileExtended ==
    /\ fds # {} => file # -1
    /\ \/ cut \/ file = -1 \/ file >= first
       \/ \E o \in ShmObjects : obj[o].opening
    /\ \A o \in ShmObjects : obj[o].opening => obj[o].size = first

ShmInv == ShmTypes /\ HandlesOwned /\ FileExtended /\ twice \subseteq shut /\ Shm!MapUsable
-----------------------------------------------------------------------------
(* EventThread *)

\* A step of one object leaves the others alone.
LEMMA ThreadsKeep ==
    ASSUME ThreadsInv, [Thread!Next]_Thread!vars
    PROVE  ThreadsInv'
  <1>1. CASE UNCHANGED Thread!vars
    BY <1>1 DEF Thread!vars, ThreadsInv, ThreadTypes, ThreadInv
  <1>2. ASSUME NEW t \in Threads,
               \/ Thread!run(t) \/ Thread!Publish(t) \/ Thread!Enter(t) \/ Thread!Leave(t)
               \/ Thread!stop(t) \/ Thread!Join(t) \/ Thread!Destroy(t)
        PROVE  ThreadsInv'
    <2> USE DEF ThreadTypes
    <2>1. ThreadTypes /\ \A s \in Threads : ThreadInv(s)
      BY DEF ThreadsInv
    <2>2. CASE Thread!run(t)
      <3>1. ThreadTypes'
        BY <2>1, <2>2 DEF Thread!run, Thread!Joinable
      <3>2. ASSUME NEW s \in Threads PROVE ThreadInv(s)'
        BY <2>1, <2>2 DEF Thread!run, Thread!Joinable, ThreadInv
      <3>3. QED
        BY <3>1, <3>2 DEF ThreadsInv
    <2>3. CASE Thread!Publish(t)
      <3>1. ThreadTypes'
        BY <2>1, <2>3 DEF Thread!Publish
      <3>2. ASSUME NEW s \in Threads PROVE ThreadInv(s)'
        BY <2>1, <2>3 DEF Thread!Publish, ThreadInv
      <3>3. QED
        BY <3>1, <3>2 DEF ThreadsInv
    <2>4. CASE Thread!Enter(t)
      <3>1. ThreadTypes'
        BY <2>1, <2>4 DEF Thread!Enter
      <3>2. ASSUME NEW s \in Threads PROVE ThreadInv(s)'
        BY <2>1, <2>4 DEF Thread!Enter, ThreadInv
      <3>3. QED
        BY <3>1, <3>2 DEF ThreadsInv
    <2>5. CASE Thread!Leave(t)
      <3>1. ThreadTypes'
        BY <2>1, <2>5 DEF Thread!Leave
      <3>2. ASSUME NEW s \in Threads PROVE ThreadInv(s)'
        BY <2>1, <2>5 DEF Thread!Leave, ThreadInv
      <3>3. QED
        BY <3>1, <3>2 DEF ThreadsInv
    <2>6. CASE Thread!stop(t)
      <3>1. ThreadTypes'
        BY <2>1, <2>6 DEF Thread!stop
      <3>2. ASSUME NEW s \in Threads PROVE ThreadInv(s)'
        <4>1. CASE _loop[t]
          BY <2>1, <2>6, <4>1 DEF Thread!stop, ThreadInv
        <4>2. CASE ~_loop[t]
          <5>1. CASE s # t
            BY <2>1, <2>6, <4>2, <5>1 DEF Thread!stop, ThreadInv
          <5>2. CASE s = t
            BY <2>1, <2>6, <4>2, <5>2 DEF Thread!stop, ThreadInv
          <5>3. QED
            BY <5>1, <5>2
        <4>3. QED
          BY <4>1, <4>2
      <3>3. QED
        BY <3>1, <3>2 DEF ThreadsInv
    <2>7. CASE Thread!Join(t)
      <3>1. ThreadTypes'
        BY <2>1, <2>7 DEF Thread!Join
      <3>2. ASSUME NEW s \in Threads PROVE ThreadInv(s)'
        BY <2>1, <2>7 DEF Thread!Join, ThreadInv
      <3>3. QED
        BY <3>1, <3>2 DEF ThreadsInv
    <2>8. CASE Thread!Destroy(t)
      <3>1. ThreadTypes'
        BY <2>1, <2>8 DEF Thread!Destroy, Thread!Joinable
      <3>2. ASSUME NEW s \in Threads PROVE ThreadInv(s)'
        BY <2>1, <2>8 DEF Thread!Destroy, Thread!Joinable, ThreadInv
      <3>3. QED
        BY <3>1, <3>2 DEF ThreadsInv
    <2>9. QED
      BY <1>2, <2>2, <2>3, <2>4, <2>5, <2>6, <2>7, <2>8
  <1>3. QED
    BY <1>1, <1>2 DEF Thread!Next
-----------------------------------------------------------------------------
(* FixedShm *)

\* An object that is not alive has no handles.
LEMMA GoneType == Shm!Gone \in ShmRecord
  <1>1. Shm!Fresh(0) \in ShmRecord
    BY DEF Shm!Fresh, Shm!Null, ShmRecord
  <1>2. QED
    BY <1>1 DEF Shm!Gone, ShmRecord

\* The steps that hand out or release handles.
LEMMA ShmKeeps ==
    ASSUME ShmInv, [Shm!Next]_Shm!vars
    PROVE  ShmInv'
  <1> USE ShmAssumption
  <1>1. CASE UNCHANGED Shm!vars
    BY <1>1 DEF Shm!vars, ShmInv, ShmTypes, ShmRecord, HandlesOwned, FileExtended, Shm!MapUsable
  <1>2. /\ ShmTypes /\ HandlesOwned /\ FileExtended /\ twice \subseteq shut /\ Shm!MapUsable
    BY DEF ShmInv
  <1>3. CASE Shm!Crash
    <2>1. ShmTypes'
      <3>1. cut' \in BOOLEAN
        BY <1>3 DEF Shm!Crash
      <3>2. obj' \in [ShmObjects -> ShmRecord]
        BY <1>3, GoneType DEF Shm!Crash
      <3>3. QED
        BY <1>2, <1>3, <3>1, <3>2 DEF Shm!Crash, ShmTypes, ShmRecord
    <2>2. HandlesOwned'
      BY <1>2, <1>3 DEF Shm!Crash, Shm!Gone, Shm!Fresh, Shm!Null, ShmTypes, ShmRecord, HandlesOwned
    <2>3. FileExtended' /\ Shm!MapUsable' /\ (twice \subseteq shut)'
      BY <1>2, <1>3 DEF Shm!Crash, Shm!Gone, Shm!Fresh, ShmTypes, ShmRecord, FileExtended, Shm!MapUsable
    <2>4. QED
      BY <2>1, <2>2, <2>3 DEF ShmInv
  <1>4. ASSUME NEW o \in ShmObjects, Shm!Construct(o)
        PROVE  ShmInv'
    <2>1. ShmTypes'
      BY <1>2, <1>4 DEF Shm!Construct, Shm!Fresh, Shm!Null, ShmTypes, ShmRecord
    <2>2. HandlesOwned'
      BY <1>2, <1>4 DEF Shm!Construct, Shm!Fresh, Shm!Null, ShmTypes, ShmRecord, HandlesOwned
    <2>3. FileExtended' /\ Shm!MapUsable' /\ (twice \subseteq shut)'
      BY <1>2, <1>4 DEF Shm!Construct, Shm!Gone, Shm!Fresh, ShmTypes, ShmRecord, FileExtended, Shm!MapUsable
    <2>4. QED
      BY <2>1, <2>2, <2>3 DEF ShmInv
  <1>5. ASSUME NEW o \in ShmObjects, Shm!open(o)
        PROVE  ShmInv'
    <2>1. ShmTypes'
      BY <1>2, <1>5 DEF Shm!open, Shm!NoFile, ShmTypes, ShmRecord
    <2>2. HandlesOwned'
      BY <1>2, <1>5 DEF Shm!open, ShmTypes, ShmRecord, HandlesOwned
    <2>3. FileExtended' /\ Shm!MapUsable' /\ (twice \subseteq shut)'
      BY <1>2, <1>5 DEF Shm!open, Shm!Usable, Shm!NoFile, ShmTypes, ShmRecord, FileExtended, Shm!MapUsable
    <2>4. QED
      BY <2>1, <2>2, <2>3 DEF ShmInv
  <1>6. ASSUME NEW o \in ShmObjects, Shm!OpenFill(o)
        PROVE  ShmInv'
    <2>1. ShmTypes'
      <3>1. obj[o] \in ShmRecord /\ obj[o].size \in Nat
        BY <1>2, <1>6 DEF ShmTypes, ShmRecord
      <3>2. file' \in Nat
        BY <1>6, <3>1 DEF Shm!OpenFill
      <3>3. cut' \in BOOLEAN
        BY <1>6 DEF Shm!OpenFill
      <3>4. QED
        BY <1>2, <1>6, <3>1, <3>2, <3>3 DEF Shm!OpenFill, ShmTypes, ShmRecord
    <2>2. HandlesOwned'
      BY <1>2, <1>6 DEF Shm!OpenFill, ShmTypes, ShmRecord, HandlesOwned
    <2>3. FileExtended' /\ Shm!MapUsable' /\ (twice \subseteq shut)'
      BY <1>2, <1>6 DEF Shm!OpenFill, ShmTypes, ShmRecord, FileExtended, Shm!MapUsable
    <2>4. QED
      BY <2>1, <2>2, <2>3 DEF ShmInv
  <1>7. ASSUME NEW o \in ShmObjects, Shm!map(o)
        PROVE  ShmInv'
    <2>1. ShmTypes'
      <3>1. obj[o] \in ShmRecord /\ obj[o].size \in Nat
        BY <1>2, <1>7 DEF ShmTypes, ShmRecord
      <3>2. faults' \subseteq Nat
        BY <1>2, <1>7, <3>1 DEF Shm!map, ShmTypes, ShmRecord
      <3>3. QED
        BY <1>2, <1>7, <3>1, <3>2 DEF Shm!map, Shm!MapFailed, ShmTypes, ShmRecord
    <2>2. HandlesOwned'
      BY <1>2, <1>7 DEF Shm!map, Shm!MapFailed, ShmTypes, ShmRecord, HandlesOwned
    <2>3. FileExtended' /\ Shm!MapUsable' /\ (twice \subseteq shut)'
      BY <1>2, <1>7 DEF Shm!map, Shm!Usable, ShmTypes, ShmRecord, FileExtended, Shm!MapUsable
    <2>4. QED
      BY <2>1, <2>2, <2>3 DEF ShmInv
  <1>8. ASSUME NEW o \in ShmObjects, Shm!unmap(o)
        PROVE  ShmInv'
    <2>1. ShmTypes'
      BY <1>2, <1>8 DEF Shm!unmap, Shm!Unmapped, Shm!MapFailed, Shm!Null, ShmTypes, ShmRecord
    <2>2. HandlesOwned'
      BY <1>2, <1>8 DEF Shm!unmap, Shm!Unmapped, Shm!MapFailed, Shm!Null, ShmTypes, ShmRecord, HandlesOwned
    <2>3. FileExtended' /\ Shm!MapUsable' /\ (twice \subseteq shut)'
      BY <1>2, <1>8 DEF Shm!unmap, ShmTypes, ShmRecord, FileExtended, Shm!MapUsable
    <2>4. QED
      BY <2>1, <2>2, <2>3 DEF ShmInv
  <1>9. ASSUME NEW o \in ShmObjects
        PROVE  Shm!Released(o) \subseteq shut /\ ({obj[o].fd} \ {-1}) \subseteq 1 .. made
    BY <1>2 DEF Shm!Released, Shm!MapFailed, Shm!Null, ShmTypes, ShmRecord, HandlesOwned
  <1>10. ASSUME NEW o \in ShmObjects, Shm!close(o)
         PROVE  ShmInv'
    <2>1. ShmTypes'
      BY <1>2, <1>9, <1>10 DEF Shm!close, Shm!Unmapped, Shm!MapFailed, Shm!Null, ShmTypes, ShmRecord
    <2>2. HandlesOwned'
      BY <1>2, <1>10 DEF Shm!close, Shm!Unmapped, Shm!MapFailed, Shm!Null, ShmTypes, ShmRecord, HandlesOwned
    <2>3. FileExtended' /\ Shm!MapUsable' /\ (twice \subseteq shut)'
      BY <1>2, <1>9, <1>10 DEF Shm!close, ShmTypes, ShmRecord, FileExtended, Shm!MapUsable
    <2>4. QED
      BY <2>1, <2>2, <2>3 DEF ShmInv
  <1>11. ASSUME NEW o \in ShmObjects, Shm!Destroy(o)
         PROVE  ShmInv'
    <2>1. ShmTypes'
      BY <1>2, <1>11, GoneType DEF Shm!Destroy, ShmTypes, ShmRecord
    <2>2. HandlesOwned'
      BY <1>2, <1>11 DEF Shm!Destroy, Shm!Gone, Shm!Fresh, Shm!Null, ShmTypes, ShmRecord, HandlesOwned
    <2>3. FileExtended' /\ Shm!MapUsable' /\ (twice \subseteq shut)'
      BY <1>2, <1>9, <1>11 DEF Shm!Destroy, Shm!Usable, Shm!Gone, Shm!Fresh, ShmTypes, ShmRecord, FileExtended, Shm!MapUsable
    <2>4. QED
      BY <2>1, <2>2, <2>3 DEF ShmInv
  <1>12. ASSUME NEW o \in ShmObjects, NEW rhs \in ShmObjects, Shm!Move(o, rhs)
         PROVE  ShmInv'
    <2>1. ShmTypes'
      BY <1>2, <1>12 DEF Shm!Move, Shm!Fresh, Shm!Null, ShmTypes, ShmRecord
    <2>2. HandlesOwned'
      BY <1>2, <1>12 DEF Shm!Move, Shm!Fresh, Shm!Null, ShmTypes, ShmRecord, HandlesOwned
    <2>3. FileExtended' /\ Shm!MapUsable' /\ (twice \subseteq shut)'
      BY <1>2, <1>12 DEF Shm!Move, Shm!Usable, Shm!Gone, Shm!Fresh, ShmTypes, ShmRecord, FileExtended, Shm!MapUsable
    <2>4. QED
      BY <2>1, <2>2, <2>3 DEF ShmInv
  <1>13. QED
    BY <1>1, <1>3, <1>4, <1>5, <1>6, <1>7, <1>8, <1>10, <1>11, <1>12 DEF Shm!Next
-----------------------------------------------------------------------------
(* SocketFd *)

\* The lowest free number exists when there is a free one.
LEMMA LeastFree ==
    ASSUME NEW S \in SUBSET Nat, S # {}
    PROVE  Fd!Min(S) \in S
  <1> DEFINE R == OpToRel(<, Nat)
  <1>1. IsWellFoundedOn(R, Nat)
    BY NatLessThanWellFounded
  <1>2. \A x, y \in Nat : y < x => <<y, x>> \in R
    BY DEF OpToRel
  <1> HIDE DEF R
  <1>3. PICK x \in S : \A y \in S : ~(<<y, x>> \in R)
    BY <1>1, WFMin
  <1>4. ASSUME NEW y \in S PROVE x =< y
    <2>1. ~(y < x)
      BY <1>2, <1>3
    <2>2. QED
      BY <2>1
  <1>5. \E z \in S : \A y \in S : z =< y
    BY <1>4
  <1>6. QED
    BY <1>5 DEF Fd!Min

\* ::socket gives a number that nobody had.
LEMMA SocketKeeps ==
    ASSUME FdInv, NEW x \in FdObjects, Fd!Socket(x), UNCHANGED foreign
    PROVE  FdInv'
  <1>1. FdObjects = Fd!Objects /\ FdNumbers = Fd!Fds /\ FdNumbers \subseteq Nat /\ Fd!NoFd = -1
    BY TableAssumption DEF FdObjects, FdNumbers, Fd!Objects, Fd!Fds, Fd!NoFd
  <1>2. /\ table \in [FdNumbers -> FdObjects \cup {Nobody}]
        /\ fd_ \in [FdObjects -> FdNumbers \cup {-1}]
        /\ foreign \subseteq Rx
        /\ foreign = {} => \A y \in FdObjects \ Rx : fd_[y] # -1 => table[fd_[y]] = y
        /\ Nobody \notin FdObjects /\ -1 \notin FdNumbers
    BY <1>1, TableAssumption DEF FdInv, FdObjects
  <1>3. CASE Fd!Free = {}
    <2>1. fd_' = [fd_ EXCEPT ![x] = -1] /\ table' = table
      BY <1>1, <1>3 DEF Fd!Socket
    <2>2. QED
      BY <1>2, <2>1 DEF FdInv
  <1>4. CASE Fd!Free # {}
    <2>1. PICK m : m = Fd!Min(Fd!Free)
      OBVIOUS
    <2>2. m \in FdNumbers /\ table[m] = Nobody
      <3>1. Fd!Free \subseteq FdNumbers /\ \A y \in Fd!Free : table[y] = Nobody
        BY <1>1 DEF Fd!Free
      <3>2. m \in Fd!Free
        BY <1>1, <1>4, <2>1, <3>1, LeastFree
      <3>3. QED
        BY <3>1, <3>2
    <2>3. fd_' = [fd_ EXCEPT ![x] = m] /\ table' = [table EXCEPT ![m] = x]
      BY <1>4, <2>1 DEF Fd!Socket
    <2>4. /\ table' \in [FdNumbers -> FdObjects \cup {Nobody}]
          /\ fd_' \in [FdObjects -> FdNumbers \cup {-1}]
      BY <1>2, <2>2, <2>3
    <2>5. ASSUME foreign = {}, NEW y \in FdObjects \ Rx, fd_'[y] # -1 PROVE table'[fd_'[y]] = y
      <3>1. CASE y = x
        BY <1>2, <2>2, <2>3, <3>1
      <3>2. CASE y # x
        <4>1. fd_'[y] = fd_[y] /\ fd_[y] \in FdNumbers /\ table[fd_[y]] = y
          BY <1>2, <2>3, <2>5, <3>2
        <4>2. fd_[y] # m
          BY <1>2, <2>2, <4>1
        <4>3. QED
          BY <1>2, <2>3, <4>1, <4>2
      <3>3. QED
        BY <3>1, <3>2
    <2>6. QED
      BY <1>2, <2>4, <2>5 DEF FdInv
  <1>5. QED
    BY <1>3, <1>4

\* ::close frees a number.  An object that is no receiver closes its own.
LEMMA CloseKeeps ==
    ASSUME FdInv, NEW x \in FdObjects, fd_[x] # -1, Fd!Close(x),
           fd_' = [fd_ EXCEPT ![x] = -1] \/ (x \in Rx /\ fd_' = fd_)
    PROVE  FdInv'
  <1>1. /\ table' = [table EXCEPT ![fd_[x]] = Nobody]
        /\ foreign' = IF foreign = {} /\ table[fd_[x]] \notin {x, Nobody} THEN {x} ELSE foreign
    BY DEF Fd!Close
  <1>2. /\ table \in [FdNumbers -> FdObjects \cup {Nobody}]
        /\ fd_ \in [FdObjects -> FdNumbers \cup {-1}]
        /\ foreign \subseteq Rx
        /\ foreign = {} => \A y \in FdObjects \ Rx : fd_[y] # -1 => table[fd_[y]] = y
        /\ Nobody \notin FdObjects /\ fd_[x] \in FdNumbers
    BY TableAssumption DEF FdInv, FdObjects
  <1>3. /\ table' \in [FdNumbers -> FdObjects \cup {Nobody}]
        /\ fd_' \in [FdObjects -> FdNumbers \cup {-1}]
    BY <1>1, <1>2
  <1>4. foreign' \subseteq Rx
    BY <1>1, <1>2
  <1>5. ASSUME foreign' = {}, NEW y \in FdObjects \ Rx, fd_'[y] # -1 PROVE table'[fd_'[y]] = y
    <2>1. y # x /\ fd_'[y] = fd_[y]
      BY <1>2, <1>5
    <2>2. foreign = {} /\ table[fd_[x]] \in {x, Nobody}
      BY <1>1, <1>5
    <2>3. table[fd_[y]] = y /\ fd_[y] \in FdNumbers
      BY <1>2, <1>5, <2>1, <2>2
    <2>4. fd_[y] # fd_[x]
      BY <1>2, <2>1, <2>2, <2>3
    <2>5. QED
      BY <1>1, <1>2, <2>1, <2>3, <2>4
  <1>6. QED
    BY <1>3, <1>4, <1>5 DEF FdInv

\* An object forgets its number, or never had one.
LEMMA ForgetKeeps ==
    ASSUME FdInv, NEW x \in FdObjects, fd_' = [fd_ EXCEPT ![x] = -1], UNCHANGED <<table, foreign>>
    PROVE  FdInv'
  BY DEF FdInv

\* Every step of every class.
LEMMA FdKeeps ==
    ASSUME FdInv, [Fd!Next]_Fd!vars
    PROVE  FdInv'
  <1>1. CASE UNCHANGED Fd!vars
    BY <1>1 DEF Fd!vars, FdInv
  <1>2. Fd!NoFd = -1
    BY DEF Fd!NoFd
  <1>3. ASSUME NEW x \in Rx, Fd!RxOpen(x) \/ Fd!RxClose(x) \/ Fd!RxDestroy(x)
        PROVE  FdInv'
    <2>1. x \in FdObjects
      BY DEF FdObjects
    <2>2. CASE Fd!RxOpen(x)
      BY <2>1, <2>2, SocketKeeps DEF Fd!RxOpen
    <2>3. CASE Fd!RxClose(x)
      BY <1>2, <2>1, <2>3, CloseKeeps DEF Fd!RxClose
    <2>4. CASE Fd!RxDestroy(x)
      <3>1. CASE fd_[x] = -1
        BY <1>2, <2>1, <2>4, <3>1, ForgetKeeps DEF Fd!RxDestroy
      <3>2. CASE fd_[x] # -1
        BY <1>2, <2>1, <2>4, <3>2, CloseKeeps DEF Fd!RxDestroy
      <3>3. QED
        BY <3>1, <3>2
    <2>5. QED
      BY <1>3, <2>2, <2>3, <2>4
  <1>4. ASSUME NEW x \in Tx, Fd!TxOpen(x) \/ Fd!TxClose(x) \/ Fd!TxDestroy(x)
        PROVE  FdInv'
    <2>1. x \in FdObjects
      BY DEF FdObjects
    <2>2. CASE Fd!TxOpen(x)
      BY <2>1, <2>2, SocketKeeps DEF Fd!TxOpen
    <2>3. CASE Fd!TxClose(x)
      BY <1>2, <2>1, <2>3, CloseKeeps DEF Fd!TxClose
    <2>4. CASE Fd!TxDestroy(x)
      BY <1>2, <2>1, <2>4, ForgetKeeps DEF Fd!TxDestroy
    <2>5. QED
      BY <1>4, <2>2, <2>3, <2>4
  <1>5. ASSUME NEW x \in Io, Fd!create(x) \/ Fd!OnRead(x) \/ Fd!IoDestroy(x)
        PROVE  FdInv'
    <2>1. x \in FdObjects
      BY DEF FdObjects
    <2>2. CASE Fd!create(x) \/ Fd!OnRead(x)
      BY <2>1, <2>2, SocketKeeps DEF Fd!create, Fd!OnRead
    <2>3. CASE Fd!IoDestroy(x)
      BY <1>2, <2>1, <2>3, ForgetKeeps DEF Fd!IoDestroy, Fd!IoCloseBelow
    <2>4. QED
      BY <1>5, <2>2, <2>3
  <1>6. ASSUME NEW x \in Other, Fd!OtherOpen(x) \/ Fd!OtherClose(x)
        PROVE  FdInv'
    <2>1. x \in FdObjects
      BY DEF FdObjects
    <2>2. CASE Fd!OtherOpen(x)
      BY <2>1, <2>2, SocketKeeps DEF Fd!OtherOpen
    <2>3. CASE Fd!OtherClose(x)
      BY <1>2, <2>1, <2>3, CloseKeeps DEF Fd!OtherClose
    <2>4. QED
      BY <1>6, <2>2, <2>3
  <1>7. QED
    BY <1>1, <1>3, <1>4, <1>5, <1>6 DEF Fd!Next
-----------------------------------------------------------------------------
(* ClientCore *)

\* One loop thread is at work as long as none is added.
LEMMA OneLoopFrame ==
    ASSUME Client!OneLoopThread, UNCHANGED <<cthr, spinKept>>
    PROVE  Client!OneLoopThread'
  BY DEF Client!OneLoopThread

\* The steps of the user's thread.
LEMMA UserKeeps ==
    ASSUME ClientInv, Client!User
    PROVE  ClientInv'
  <1> USE LoopAssumption
  <1>0. Client!OneLoopThread
    BY DEF ClientInv
  <1>1. CASE Client!start
    <2>1. Client!OneLoopThread'
      BY <1>0, <1>1, OneLoopFrame DEF Client!start
    <2>2. QED
      BY <1>1, <2>1 DEF Client!start, ClientInv, Idle
  <1>2. CASE Client!Unresolved
    <2>1. Client!OneLoopThread'
      BY <1>0, <1>2, OneLoopFrame DEF Client!Unresolved, Client!vars
    <2>2. QED
      BY <1>2, <2>1 DEF Client!Unresolved, Client!vars, ClientInv, Idle
  <1>3. CASE Client!Resolved
    <2>1. Client!OneLoopThread'
      BY <1>0, <1>3, OneLoopFrame DEF Client!Resolved, Client!core
    <2>2. QED
      BY <1>3, <2>1 DEF Client!Resolved, Client!core, ClientInv, Idle
  <1>4. CASE Client!get_mac
    <2>1. Client!OneLoopThread'
      BY <1>0, <1>4, OneLoopFrame DEF Client!get_mac, Client!core
    <2>2. QED
      BY <1>4, <2>1 DEF Client!get_mac, Client!core, ClientInv, Idle
  <1>5. CASE Client!Spawn
    <2>1. user = "spawn" /\ UNCHANGED <<ret, callee, url, ip_cnt, log, started, loop, spinKept>>
      BY <1>5 DEF Client!Spawn, Client!core
    <2>2. CASE started
      <3>1. user' = "check" /\ cthr' = cthr
        BY <1>5, <2>2 DEF Client!Spawn
      <3>2. Client!OneLoopThread'
        BY <1>0, <2>1, <3>1, OneLoopFrame
      <3>3. QED
        BY <2>1, <2>2, <3>1, <3>2 DEF ClientInv
    <2>3. CASE ~started
      <3>1. PICK t \in Threads : cthr[t] = "none" /\ cthr' = [cthr EXCEPT ![t] = "begin"] /\ user' = "timer"
        BY <1>5, <2>3 DEF Client!Spawn
      <3>2. cthr' \in [Threads -> CThreads]
        BY <3>1 DEF ClientInv, CThreads
      <3>3. spinKept => Idle(cthr', Threads \ {t}) /\ cthr'[t] = "begin" /\ loop' = NoLoop
        BY <2>1, <3>1 DEF ClientInv, Idle
      <3>4. Client!OneLoopThread'
        BY <2>1, <3>3 DEF Client!OneLoopThread, Idle
      <3>5. QED
        BY <2>1, <3>1, <3>2, <3>3, <3>4 DEF ClientInv
    <2>4. QED
      BY <2>2, <2>3
  <1>6. CASE Client!ReadLoop
    <2>1. /\ user \in {"timer", "wake"} /\ UNCHANGED <<ret, url, ip_cnt, log, started, loop, cthr, spinKept>>
          /\ user' = IF loop = NoLoop THEN "crashed" ELSE IF user = "timer" THEN "adding" ELSE "waking"
      BY <1>6 DEF Client!ReadLoop, Client!core
    <2>2. Client!OneLoopThread'
      BY <1>0, <2>1, OneLoopFrame
    <2>3. CASE loop = NoLoop
      BY <2>1, <2>2, <2>3 DEF ClientInv
    <2>4. CASE loop # NoLoop /\ user = "timer"
      <3>1. user' = "adding"
        BY <2>1, <2>4
      <3>2. spinKept => \E t \in Threads :
                Idle(cthr, Threads \ {t}) /\ cthr[t] \in InLoop /\ loop = t /\ started
        BY <2>4 DEF ClientInv
      <3>3. QED
        BY <2>1, <2>2, <3>1, <3>2 DEF ClientInv
    <2>5. CASE loop # NoLoop /\ user = "wake"
      <3>1. user' = "waking"
        BY <2>1, <2>5
      <3>2. QED
        BY <2>1, <2>2, <2>5, <3>1 DEF ClientInv
    <2>6. QED
      BY <2>1, <2>3, <2>4, <2>5
  <1>7. CASE Client!CallLoop
    <2>1. /\ user \in {"adding", "waking"} /\ UNCHANGED <<ret, ip_cnt, started, loop, cthr, spinKept>>
          /\ user' \in {IF user = "adding" THEN "check" ELSE "spin", "crashed"}
      BY <1>7 DEF Client!CallLoop, Client!core
    <2>2. Client!OneLoopThread'
      BY <1>0, <2>1, OneLoopFrame
    <2>3. QED
      BY <2>1, <2>2 DEF ClientInv
  <1>8. CASE Client!CheckServer
    <2>1. user = "check" /\ ip_cnt = 0 /\ Client!ngx_core_uninit("idle")
      BY <1>8 DEF Client!CheckServer, ClientInv
    <2>2. /\ started' = FALSE /\ ret' = "idle" /\ user' = "wake"
          /\ UNCHANGED <<ip_cnt, loop, cthr, spinKept>>
      BY <2>1 DEF Client!ngx_core_uninit
    <2>3. Client!OneLoopThread'
      BY <1>0, <2>2, OneLoopFrame
    <2>4. QED
      BY <2>1, <2>2, <2>3 DEF ClientInv
  <1>9. CASE Client!Spin
    <2>1. /\ user = "spin" /\ (spinKept => loop = NoLoop) /\ user' = ret
          /\ UNCHANGED <<ret, url, ip_cnt, log, started, loop, cthr, spinKept>>
      BY <1>9 DEF Client!Spin, Client!core
    <2>2. spinKept => user' = "idle" /\ Idle(cthr, Threads) /\ loop = NoLoop /\ ~started
      BY <2>1 DEF ClientInv
    <2>3. Client!OneLoopThread'
      BY <1>0, <2>1, OneLoopFrame
    <2>4. QED
      BY <2>1, <2>2, <2>3 DEF ClientInv
  <1>10. CASE Client!stop \/ Client!Destroy
    <2>1. PICK to \in {"idle", "crashed", "gone"} : user = "idle" /\ Client!Uninit(to)
      BY <1>10 DEF Client!stop, Client!Destroy
    <2>2. CASE loop = NoLoop
      <3>1. user' = to /\ UNCHANGED <<ret, url, ip_cnt, log, started, loop, cthr, spinKept>>
        BY <2>1, <2>2 DEF Client!Uninit, Client!core
      <3>2. Client!OneLoopThread'
        BY <1>0, <3>1, OneLoopFrame
      <3>3. QED
        BY <2>1, <3>1, <3>2 DEF ClientInv
    <2>3. CASE loop # NoLoop
      <3>1. /\ user' = "wake" /\ started' = FALSE /\ ret' = to
            /\ UNCHANGED <<ip_cnt, loop, cthr, spinKept>>
        BY <2>1, <2>3 DEF Client!Uninit, Client!ngx_core_uninit
      <3>2. ~spinKept
        BY <2>1, <2>3 DEF ClientInv
      <3>3. Client!OneLoopThread'
        BY <1>0, <3>1, OneLoopFrame
      <3>4. QED
        BY <3>1, <3>2, <3>3 DEF ClientInv
    <2>4. QED
      BY <2>2, <2>3
  <1>11. QED
    BY <1>1, <1>2, <1>3, <1>4, <1>5, <1>6, <1>7, <1>8, <1>9, <1>10 DEF Client!User

\* The steps of a detached thread.
LEMMA DetachedKeeps ==
    ASSUME ClientInv, NEW t \in Threads, Client!Thread(t)
    PROVE  ClientInv'
  <1> USE LoopAssumption
  <1>1. cthr \in [Threads -> CThreads] /\ Client!OneLoopThread
    BY DEF ClientInv
  <1>2. ASSUME NEW x \in Threads, Idle(cthr, Threads \ {x}), cthr[t] \notin {"none", "ended"} PROVE x = t
    BY <1>2 DEF Idle
  <1>3. cthr[t] \notin {"none", "ended"} => ~Idle(cthr, Threads)
    BY DEF Idle
  <1>4. ASSUME Idle(cthr, Threads \ {t}), \A x \in Threads \ {t} : cthr'[x] = cthr[x]
        PROVE  Idle(cthr', Threads \ {t})
    BY <1>4 DEF Idle
  <1>5. ASSUME cthr[t] \notin {"none", "ended"}, spinKept' = spinKept,
               \A x \in Threads \ {t} : cthr'[x] = cthr[x]
        PROVE  Client!OneLoopThread'
    BY <1>1, <1>5 DEF Client!OneLoopThread
  <1>6. CASE Client!Begin(t)
    <2>1. /\ cthr[t] = "begin" /\ cthr' = [cthr EXCEPT ![t] = "begun"] /\ started' = TRUE
          /\ UNCHANGED <<user, ret, ip_cnt, loop, spinKept>>
      BY <1>6 DEF Client!Begin
    <2>2. /\ cthr' \in [Threads -> CThreads]
          /\ cthr'[t] = "begun" /\ \A x \in Threads \ {t} : cthr'[x] = cthr[x]
      BY <1>1, <2>1 DEF CThreads
    <2>3. Client!OneLoopThread'
      BY <1>5, <2>1, <2>2
    <2>4. spinKept => user \notin {"idle", "parse", "spawn", "gone", "adding", "check", "wake", "waking", "spin"}
      BY <1>2, <1>3, <2>1 DEF ClientInv, InLoop
    <2>5. spinKept /\ user = "timer" => Idle(cthr', Threads \ {t}) /\ loop = NoLoop
      BY <1>2, <1>4, <2>1, <2>2 DEF ClientInv, InLoop
    <2>6. QED
      BY <2>1, <2>2, <2>3, <2>4, <2>5 DEF ClientInv
  <1>7. CASE Client!Publish(t)
    <2>1. /\ cthr[t] = "begun" /\ cthr' = [cthr EXCEPT ![t] = "test"] /\ loop' = t
          /\ UNCHANGED <<user, ret, ip_cnt, started, spinKept>>
      BY <1>7 DEF Client!Publish
    <2>2. /\ cthr' \in [Threads -> CThreads]
          /\ cthr'[t] = "test" /\ \A x \in Threads \ {t} : cthr'[x] = cthr[x]
      BY <1>1, <2>1 DEF CThreads
    <2>3. Client!OneLoopThread'
      BY <1>5, <2>1, <2>2
    <2>4. spinKept => user \notin {"idle", "parse", "spawn", "gone", "adding", "check", "wake", "waking", "spin"}
      BY <1>2, <1>3, <2>1 DEF ClientInv, InLoop
    <2>5. spinKept /\ user = "timer" => Idle(cthr', Threads \ {t}) /\ started
      BY <1>2, <1>4, <2>1, <2>2 DEF ClientInv, InLoop
    <2>6. QED
      BY <2>1, <2>2, <2>3, <2>4, <2>5 DEF ClientInv, InLoop
  <1>8. CASE Client!Test(t)
    <2>1. /\ cthr[t] = "test" /\ UNCHANGED <<user, ret, ip_cnt, started, spinKept>>
          /\ IF started THEN cthr' = [cthr EXCEPT ![t] = "enter"] /\ loop' = loop
                        ELSE cthr' = [cthr EXCEPT ![t] = "ended"] /\ loop' = NoLoop
      BY <1>8 DEF Client!Test
    <2>2. /\ cthr' \in [Threads -> CThreads]
          /\ cthr'[t] = (IF started THEN "enter" ELSE "ended") /\ \A x \in Threads \ {t} : cthr'[x] = cthr[x]
      BY <1>1, <2>1 DEF CThreads
    <2>3. Client!OneLoopThread'
      BY <1>5, <2>1, <2>2
    <2>4. spinKept => user \notin {"idle", "parse", "spawn", "gone"}
      BY <1>3, <2>1 DEF ClientInv
    <2>5. spinKept /\ user \in {"timer", "adding", "check", "wake", "waking", "spin"} =>
              Idle(cthr', Threads \ {t}) /\ loop = t
      BY <1>2, <1>3, <1>4, <2>1, <2>2 DEF ClientInv
    <2>6. CASE started
      BY <2>1, <2>2, <2>3, <2>4, <2>5, <2>6 DEF ClientInv, InLoop
    <2>7. CASE ~started
      <3>1. spinKept => user \notin {"timer", "adding", "check"}
        BY <1>2, <2>1, <2>7 DEF ClientInv
      <3>2. spinKept /\ user \in {"wake", "waking", "spin"} => Idle(cthr', Threads)
        BY <2>2, <2>5, <2>7 DEF Idle
      <3>3. QED
        BY <2>1, <2>2, <2>3, <2>4, <2>7, <3>1, <3>2 DEF ClientInv
    <2>8. QED
      BY <2>6, <2>7
  <1>9. CASE Client!Enter(t)
    <2>1. /\ cthr[t] = "enter" /\ UNCHANGED <<ret, ip_cnt, started, loop, spinKept>>
          /\ IF loop = NoLoop THEN user' = "crashed" /\ cthr' = cthr
                              ELSE cthr' = [cthr EXCEPT ![t] = "loop"] /\ user' = user
      BY <1>9 DEF Client!Enter, Client!core
    <2>2. CASE loop = NoLoop
      <3>1. Client!OneLoopThread'
        BY <1>1, <2>1, <2>2, OneLoopFrame
      <3>2. QED
        BY <2>1, <2>2, <3>1 DEF ClientInv
    <2>3. CASE loop # NoLoop
      <3>1. /\ cthr' \in [Threads -> CThreads] /\ user' = user
            /\ cthr'[t] = "loop" /\ \A x \in Threads \ {t} : cthr'[x] = cthr[x]
        BY <1>1, <2>1, <2>3 DEF CThreads
      <3>2. Client!OneLoopThread'
        BY <1>5, <2>1, <3>1
      <3>3. spinKept => user \notin {"idle", "parse", "spawn", "gone"}
        BY <1>3, <2>1 DEF ClientInv
      <3>4. spinKept /\ user \in {"timer", "adding", "check", "wake", "waking", "spin"} =>
                Idle(cthr', Threads \ {t}) /\ loop = t
        BY <1>2, <1>3, <1>4, <2>1, <3>1 DEF ClientInv
      <3>5. QED
        BY <2>1, <3>1, <3>2, <3>3, <3>4 DEF ClientInv, InLoop
    <2>4. QED
      BY <2>2, <2>3
  <1>10. QED
    BY <1>6, <1>7, <1>8, <1>9 DEF Client!Thread

\* Every step of the client.
LEMMA ClientKeeps ==
    ASSUME ClientInv, [Client!Next]_Client!vars
    PROVE  ClientInv'
  <1>1. CASE UNCHANGED Client!vars
    <2>1. Client!OneLoopThread'
      BY <1>1, OneLoopFrame DEF Client!vars, ClientInv
    <2>2. QED
      BY <1>1, <2>1 DEF Client!vars, ClientInv, Idle
  <1>2. QED
    BY <1>1, UserKeeps, DetachedKeeps DEF Client!Next
-----------------------------------------------------------------------------
(* NgxLog *)

\* What a record at the end does to the order.
LEMMA AppendRises ==
    ASSUME NEW s \in Seq(Nat), Rising(s), NEW r \in Nat, Before(s, r)
    PROVE  /\ Append(s, r) \in Seq(Nat) /\ Len(Append(s, r)) = Len(s) + 1 /\ Rising(Append(s, r))
           /\ \A i \in 1 .. Len(s) : Append(s, r)[i] = s[i]
           /\ Append(s, r)[Len(s) + 1] = r
           /\ \A i \in 1 .. Len(s) + 1 : i = Len(s) + 1 \/ i \in 1 .. Len(s)
           /\ Before(Append(s, r), r + 1)
  <1>1. /\ Append(s, r) \in Seq(Nat) /\ Len(Append(s, r)) = Len(s) + 1
        /\ \A i \in 1 .. Len(s) : Append(s, r)[i] = s[i]
        /\ Append(s, r)[Len(s) + 1] = r
        /\ Len(s) \in Nat
        /\ \A i \in 1 .. Len(s) : s[i] \in Nat
    OBVIOUS
  <1>2. \A i \in 1 .. Len(s) + 1 : i = Len(s) + 1 \/ i \in 1 .. Len(s)
    BY <1>1
  <1>3. Rising(Append(s, r))
    <2> SUFFICES ASSUME NEW i \in 1 .. Len(s) + 1, NEW j \in 1 .. Len(s) + 1, i < j
                 PROVE  Append(s, r)[i] < Append(s, r)[j]
      BY <1>1 DEF Rising
    <2>1. i \in 1 .. Len(s)
      BY <1>1
    <2>2. QED
      BY <1>1, <1>2, <2>1 DEF Rising, Before
  <1>4. Before(Append(s, r), r + 1)
    <2> SUFFICES ASSUME NEW i \in 1 .. Len(s) + 1 PROVE Append(s, r)[i] < r + 1
      BY <1>1 DEF Before
    <2>1. QED
      BY <1>1, <1>2 DEF Before
  <1>5. QED
    BY <1>1, <1>2, <1>3, <1>4

\* What comes before a number comes before the next one.
LEMMA BeforeNext ==
    ASSUME NEW s \in Seq(Nat), NEW r \in Nat, Before(s, r)
    PROVE  Before(s, r + 1)
  <1>1. \A i \in 1 .. Len(s) : s[i] \in Nat /\ s[i] < r
    BY DEF Before
  <1>2. QED
    BY <1>1 DEF Before

\* A record is written: it is numbered after all others, and is put into the
\* queue, or makes the queue forget, or is refused.
LEMMA RecordKeeps ==
    ASSUME LogInv, NEW n \in Nat, len' = Append(len, n), NEW r, r = Len(len) + 1,
           q' \in {Append(q, r), <<>>, q}, live' \in {live, live \cup {r}},
           q' = Append(q, r) => live' = live \cup {r},
           UNCHANGED <<_lck, at, out, lfile, old>>
    PROVE  LogInv'
  <1>1. LogTypes
    BY DEF LogInv
  <1>2. /\ q \in Seq(Nat) /\ lfile \in Seq(Nat) /\ out \in [Printers -> Seq(Nat)]
        /\ len \in Seq(Nat) /\ live \subseteq Nat
    BY <1>1 DEF LogTypes
  <1>3. r \in Nat /\ Len(len) \in Nat /\ Len(len') + 1 = r + 1 /\ Len(len') = r /\ len' \in Seq(Nat)
    BY <1>2
  <1>4. Before(q, r) /\ Before(lfile, r) /\ \A p \in Printers : Before(out[p], r)
    BY DEF LogInv
  <1>5. /\ Append(q, r) \in Seq(Nat) /\ Len(Append(q, r)) = Len(q) + 1 /\ Rising(Append(q, r))
        /\ \A i \in 1 .. Len(q) : Append(q, r)[i] = q[i]
        /\ Append(q, r)[Len(q) + 1] = r
        /\ \A i \in 1 .. Len(q) + 1 : i = Len(q) + 1 \/ i \in 1 .. Len(q)
        /\ Before(Append(q, r), r + 1)
    <2>1. Rising(q)
      BY DEF LogInv
    <2>2. QED
      BY <1>2, <1>3, <1>4, <2>1, AppendRises
  <1>6. /\ q' \in Seq(Nat) /\ Rising(q') /\ Before(q', r + 1)
    <2>1. CASE q' = Append(q, r)
      BY <1>5, <2>1
    <2>2. CASE q' = <<>>
      BY <2>2 DEF Rising, Before
    <2>3. CASE q' = q
      <3>1. Rising(q)
        BY DEF LogInv
      <3>2. QED
        BY <1>2, <1>3, <1>4, <2>3, <3>1, BeforeNext
    <2>4. QED
      BY <2>1, <2>2, <2>3
  <1>7. ASSUME NEW i \in 1 .. Len(q')
        PROVE  (q'[i] = r /\ q' = Append(q, r)) \/ \E j \in 1 .. Len(q) : q'[i] = q[j]
    <2>1. CASE q' = Append(q, r)
      <3>1. i \in 1 .. Len(q) + 1
        BY <1>5, <2>1
      <3>2. QED
        BY <1>5, <2>1, <3>1
    <2>2. CASE q' = <<>>
      BY <2>2
    <2>3. CASE q' = q
      BY <2>3
    <2>4. QED
      BY <2>1, <2>2, <2>3
  <1>8. \A i \in 1 .. Len(q') : q'[i] \in live'
    BY <1>7 DEF LogInv
  <1>9. ASSUME NEW s \in Seq(Nat), Before(s, r), AllBefore(s, q) PROVE AllBefore(s, q')
    BY <1>7, <1>9 DEF AllBefore
  <1>10. \A p \in Printers : AllBefore(out[p], q') /\ Before(out[p], r + 1)
    BY <1>2, <1>3, <1>4, <1>9, BeforeNext DEF LogInv
  <1>11. AllBefore(lfile, q') /\ Before(lfile, r + 1)
    BY <1>2, <1>3, <1>4, <1>9, BeforeNext DEF LogInv
  <1>12. ASSUME NEW s \in Seq(Nat), Before(s, r), \A i \in 1 .. Len(s) : s[i] \notin live
         PROVE  \A i \in 1 .. Len(s) : s[i] \notin live'
    <2>1. \A i \in 1 .. Len(s) : s[i] # r
      BY <1>3, <1>12 DEF Before
    <2>2. QED
      BY <1>12, <2>1
  <1>13. \A i \in 1 .. Len(lfile) : lfile[i] \notin live'
    BY <1>2, <1>4, <1>12 DEF LogInv
  <1>14. ASSUME NEW p \in Printers
         PROVE  \A i \in 1 .. Len(out[p]) : out[p][i] \notin live'
    BY <1>2, <1>4, <1>12 DEF LogInv
  <1>15. live' \subseteq Nat /\ \A x \in live' : x <= Len(len')
    <2>1. \A x \in live : x \in Nat /\ x <= Len(len)
      BY <1>2 DEF LogInv
    <2>2. \A x \in live : x <= r
      BY <1>3, <2>1
    <2>3. QED
      BY <1>3, <2>1, <2>2
  <1>16. LogTypes'
    BY <1>1, <1>2, <1>3, <1>6, <1>15 DEF LogTypes
  <1>17. \A p \in Printers :
            /\ Rising(out'[p]) /\ Before(out'[p], Len(len') + 1)
            /\ AllBefore(lfile', out'[p]) /\ AllBefore(out'[p], q')
            /\ at'[p] = "write" <=> _lck' = p
            /\ at'[p] # "write" => out'[p] = <<>>
            /\ \A i \in 1 .. Len(out'[p]) : out'[p][i] \notin live'
    BY <1>3, <1>10, <1>14 DEF LogInv
  <1>18. Rising(lfile') /\ Before(q', Len(len') + 1) /\ Before(lfile', Len(len') + 1)
    BY <1>3, <1>6, <1>11 DEF LogInv
  <1>19. QED
    BY <1>6, <1>8, <1>11, <1>13, <1>15, <1>16, <1>17, <1>18 DEF LogInv

\* The first record of the queue comes before the rest of it.
LEMMA TailRises ==
    ASSUME NEW s \in Seq(Nat), Rising(s), s # <<>>
    PROVE  /\ Head(s) \in Nat /\ Tail(s) \in Seq(Nat) /\ Rising(Tail(s)) /\ Head(s) = s[1] /\ 1 \in 1 .. Len(s)
           /\ \A i \in 1 .. Len(Tail(s)) :
                Head(s) < Tail(s)[i] /\ \E j \in 1 .. Len(s) : Tail(s)[i] = s[j]
  <1>1. /\ Len(s) \in Nat /\ Len(s) > 0 /\ Tail(s) \in Seq(Nat) /\ Len(Tail(s)) = Len(s) - 1
        /\ Head(s) = s[1] /\ \A i \in 1 .. Len(Tail(s)) : Tail(s)[i] = s[i + 1]
        /\ \A i \in 1 .. Len(s) : s[i] \in Nat
    OBVIOUS
  <1>2. 1 \in 1 .. Len(s) /\ \A i \in 1 .. Len(Tail(s)) : i + 1 \in 1 .. Len(s) /\ 1 < i + 1
    BY <1>1
  <1>3. \A i \in 1 .. Len(Tail(s)) : Head(s) < Tail(s)[i] /\ \E j \in 1 .. Len(s) : Tail(s)[i] = s[j]
    BY <1>1, <1>2 DEF Rising
  <1>4. ASSUME NEW i \in 1 .. Len(Tail(s)), NEW j \in 1 .. Len(Tail(s)), i < j
        PROVE  Tail(s)[i] < Tail(s)[j]
    <2>1. i + 1 < j + 1
      BY <1>1, <1>4
    <2>2. QED
      BY <1>1, <1>2, <2>1 DEF Rising
  <1>5. QED
    BY <1>1, <1>2, <1>3, <1>4 DEF Rising

\* fclose puts one run of records behind another.
LEMMA ConcatRises ==
    ASSUME NEW s \in Seq(Nat), NEW u \in Seq(Nat), Rising(s), Rising(u), AllBefore(s, u)
    PROVE  /\ s \o u \in Seq(Nat) /\ Rising(s \o u)
           /\ \A i \in 1 .. Len(s \o u) :
                \/ \E j \in 1 .. Len(s) : (s \o u)[i] = s[j]
                \/ \E j \in 1 .. Len(u) : (s \o u)[i] = u[j]
  <1>1. /\ s \o u \in Seq(Nat) /\ Len(s \o u) = Len(s) + Len(u) /\ Len(s) \in Nat /\ Len(u) \in Nat
        /\ \A i \in 1 .. Len(s \o u) : (s \o u)[i] = IF i <= Len(s) THEN s[i] ELSE u[i - Len(s)]
    OBVIOUS
  <1>2. \A i \in 1 .. Len(s \o u) : IF i <= Len(s) THEN i \in 1 .. Len(s) ELSE i - Len(s) \in 1 .. Len(u)
    BY <1>1
  <1>3. ASSUME NEW i \in 1 .. Len(s \o u), NEW j \in 1 .. Len(s \o u), i < j
        PROVE  (s \o u)[i] < (s \o u)[j]
    <2>1. CASE j <= Len(s)
      <3>1. i <= Len(s)
        BY <1>1, <1>3, <2>1
      <3>2. QED
        BY <1>1, <1>2, <1>3, <2>1, <3>1 DEF Rising
    <2>2. CASE i <= Len(s) /\ ~(j <= Len(s))
      BY <1>1, <1>2, <2>2 DEF AllBefore, Before
    <2>3. CASE ~(i <= Len(s)) /\ ~(j <= Len(s))
      <3>1. i - Len(s) < j - Len(s)
        BY <1>1, <1>3
      <3>2. QED
        BY <1>1, <1>2, <2>3, <3>1 DEF Rising
    <2>4. QED
      BY <1>1, <1>3, <2>1, <2>2, <2>3
  <1>4. QED
    BY <1>1, <1>2, <1>3 DEF Rising

\* A printer takes the first record and gives its buffer back.
LEMMA WriteKeeps ==
    ASSUME LogInv, NEW p \in Printers, Log!Write(p)
    PROVE  LogInv'
  <1>1. /\ LogTypes /\ Rising(q) /\ Rising(lfile) /\ AllBefore(lfile, q)
        /\ Before(q, Len(len) + 1) /\ Before(lfile, Len(len) + 1)
    BY DEF LogInv
  <1>2. /\ q \in Seq(Nat) /\ lfile \in Seq(Nat) /\ out \in [Printers -> Seq(Nat)]
        /\ len \in Seq(Nat) /\ live \subseteq Nat
        /\ at \in [Printers -> {"look", "print", "write"}]
    BY <1>1 DEF LogTypes
  <1>3. /\ at[p] = "write" /\ q # <<>> /\ q' = Tail(q) /\ live' = live \ {Head(q)}
        /\ out' \in {out, [out EXCEPT ![p] = Append(@, Head(q))]}
        /\ UNCHANGED <<len, told, _lck, at, lfile, old>>
    BY DEF Log!Write, Log!Queue!GetFirst
  <1> DEFINE h == Head(q)
  <1>4. /\ h \in Nat /\ Tail(q) \in Seq(Nat) /\ Rising(Tail(q)) /\ h = q[1] /\ 1 \in 1 .. Len(q)
        /\ \A i \in 1 .. Len(Tail(q)) : h < Tail(q)[i] /\ \E j \in 1 .. Len(q) : Tail(q)[i] = q[j]
    BY <1>1, <1>2, <1>3, TailRises
  <1> HIDE DEF h
  <1>5. live' = live \ {h} /\ out' \in {out, [out EXCEPT ![p] = Append(@, h)]}
    BY <1>3 DEF h
  <1>6. /\ Rising(out[p]) /\ Before(out[p], Len(len) + 1) /\ AllBefore(lfile, out[p]) /\ AllBefore(out[p], q)
        /\ out[p] \in Seq(Nat) /\ \A i \in 1 .. Len(out[p]) : out[p][i] \notin live
    BY <1>2 DEF LogInv
  <1>7. Before(out[p], h) /\ Before(lfile, h) /\ h < Len(len) + 1
    BY <1>1, <1>4, <1>6 DEF AllBefore, Before
  <1>8. /\ q' \in Seq(Nat) /\ Rising(q') /\ Before(q', Len(len') + 1) /\ AllBefore(lfile', q')
        /\ \A i \in 1 .. Len(q') : q'[i] \in live'
    <2>1. Before(q', Len(len') + 1)
      BY <1>1, <1>3, <1>4 DEF Before
    <2>2. AllBefore(lfile', q')
      BY <1>1, <1>3, <1>4 DEF AllBefore
    <2>3. ASSUME NEW i \in 1 .. Len(q') PROVE q'[i] \in live'
      <3>1. q'[i] # h /\ q'[i] \in Nat
        BY <1>3, <1>4
      <3>2. q'[i] \in live
        BY <1>3, <1>4 DEF LogInv
      <3>3. QED
        BY <1>5, <3>1, <3>2
    <2>4. QED
      BY <1>3, <1>4, <2>1, <2>2, <2>3
  <1>9. \A i \in 1 .. Len(lfile') : lfile'[i] \notin live'
    BY <1>3 DEF LogInv
  <1>10. live' \subseteq Nat /\ \A r \in live' : r <= Len(len')
    BY <1>2, <1>3 DEF LogInv
  <1>11. ASSUME NEW x \in Printers
         PROVE  /\ out'[x] \in Seq(Nat) /\ Rising(out'[x]) /\ Before(out'[x], Len(len') + 1)
                /\ AllBefore(lfile', out'[x]) /\ AllBefore(out'[x], q')
                /\ at'[x] = "write" <=> _lck' = x
                /\ at'[x] # "write" => out'[x] = <<>>
                /\ \A i \in 1 .. Len(out'[x]) : out'[x][i] \notin live'
    <2>1. at'[x] = "write" <=> _lck' = x
      BY <1>3 DEF LogInv
    <2>2. CASE out'[x] = out[x]
      <3>1. /\ Rising(out[x]) /\ Before(out[x], Len(len) + 1) /\ AllBefore(lfile, out[x]) /\ AllBefore(out[x], q)
            /\ out[x] \in Seq(Nat) /\ \A i \in 1 .. Len(out[x]) : out[x][i] \notin live
            /\ at[x] # "write" => out[x] = <<>>
        BY <1>2 DEF LogInv
      <3>2. AllBefore(out[x], q')
        BY <1>3, <1>4, <3>1 DEF AllBefore
      <3>3. QED
        BY <1>3, <2>1, <2>2, <3>1, <3>2
    <2>3. CASE x = p /\ out'[x] = Append(out[p], h)
      <3>1. /\ Append(out[p], h) \in Seq(Nat) /\ Len(Append(out[p], h)) = Len(out[p]) + 1 /\ Rising(Append(out[p], h))
            /\ \A i \in 1 .. Len(out[p]) : Append(out[p], h)[i] = out[p][i]
            /\ Append(out[p], h)[Len(out[p]) + 1] = h
            /\ \A i \in 1 .. Len(out[p]) + 1 : i = Len(out[p]) + 1 \/ i \in 1 .. Len(out[p])
        BY <1>4, <1>6, <1>7, AppendRises
      <3>2. ASSUME NEW i \in 1 .. Len(out'[x])
            PROVE  out'[x][i] = h \/ \E j \in 1 .. Len(out[p]) : out'[x][i] = out[p][j]
        <4>1. i \in 1 .. Len(out[p]) + 1
          BY <2>3, <3>1
        <4>2. QED
          BY <2>3, <3>1, <4>1
      <3>3. AllBefore(lfile', out'[x])
        BY <1>3, <1>6, <1>7, <3>2 DEF AllBefore
      <3>4. \A i \in 1 .. Len(out'[x]) : out'[x][i] \notin live'
        BY <1>5, <1>6, <3>2
      <3>5. Before(out'[x], Len(len') + 1)
        BY <1>3, <1>6, <1>7, <3>2 DEF Before
      <3>6. AllBefore(out'[x], q')
        <4>1. ASSUME NEW i \in 1 .. Len(q'), NEW k \in 1 .. Len(out'[x])
              PROVE  out'[x][k] < q'[i]
          <5>1. h < q'[i] /\ \E j \in 1 .. Len(q) : q'[i] = q[j]
            BY <1>3, <1>4
          <5>2. QED
            BY <1>6, <3>2, <5>1 DEF AllBefore, Before
        <4>2. QED
          BY <4>1 DEF AllBefore, Before
      <3>7. QED
        BY <1>3, <2>1, <2>3, <3>1, <3>3, <3>4, <3>5, <3>6
    <2>4. QED
      BY <1>2, <1>5, <2>2, <2>3
  <1>12. LogTypes'
    <2>1. out' \in [Printers -> Seq(Nat)]
      <3>1. out' = [x \in Printers |-> out'[x]]
        BY <1>2, <1>5
      <3>2. QED
        BY <1>11, <3>1
    <2>2. QED
      BY <1>2, <1>3, <1>8, <1>10, <2>1 DEF LogTypes
  <1>13. Rising(lfile') /\ Before(lfile', Len(len') + 1)
    BY <1>1, <1>3
  <1>14. QED
    BY <1>8, <1>9, <1>10, <1>11, <1>12, <1>13 DEF LogInv

\* fclose, and the printer that ends.
LEMMA CloseLogKeeps ==
    ASSUME LogInv, NEW p \in Printers, Log!Close(p)
    PROVE  LogInv'
  <1>1. /\ LogTypes /\ Rising(q) /\ Rising(lfile) /\ Before(lfile, Len(len) + 1)
    BY DEF LogInv
  <1>2. /\ q \in Seq(Nat) /\ lfile \in Seq(Nat) /\ out \in [Printers -> Seq(Nat)]
        /\ len \in Seq(Nat) /\ live \subseteq Nat
        /\ at \in [Printers -> {"look", "print", "write"}]
    BY <1>1 DEF LogTypes
  <1>3. /\ at[p] = "write" /\ q = <<>> /\ lfile' = lfile \o out[p]
        /\ out' = [out EXCEPT ![p] = <<>>] /\ _lck' = "free"
        /\ at' = [at EXCEPT ![p] = IF p = "timer" THEN "look" ELSE "print"]
        /\ UNCHANGED <<q, len, live>>
    BY DEF Log!Close, Log!Return, Log!Free, Log!queue
  <1>4. /\ Rising(out[p]) /\ Before(out[p], Len(len) + 1) /\ AllBefore(lfile, out[p])
        /\ out[p] \in Seq(Nat) /\ \A i \in 1 .. Len(out[p]) : out[p][i] \notin live
        /\ \A i \in 1 .. Len(lfile) : lfile[i] \notin live
    BY <1>2 DEF LogInv
  <1>5. ASSUME NEW x \in Printers
        PROVE  out'[x] = <<>> /\ at'[x] # "write" /\ "free" # x
    <2>1. x = p \/ at[x] # "write"
      BY <1>3 DEF LogInv
    <2>2. at[x] # "write" => out[x] = <<>>
      BY DEF LogInv
    <2>3. QED
      BY <1>2, <1>3, <2>1, <2>2 DEF Printers
  <1>6. /\ lfile' \in Seq(Nat) /\ Rising(lfile')
        /\ \A i \in 1 .. Len(lfile') : \/ \E j \in 1 .. Len(lfile) : lfile'[i] = lfile[j]
                                       \/ \E j \in 1 .. Len(out[p]) : lfile'[i] = out[p][j]
    <2> DEFINE s == lfile
               u == out[p]
    <2>1. s \in Seq(Nat) /\ u \in Seq(Nat) /\ Rising(s) /\ Rising(u) /\ AllBefore(s, u) /\ lfile' = s \o u
      BY <1>1, <1>2, <1>3, <1>4
    <2> HIDE DEF s, u
    <2>2. /\ s \o u \in Seq(Nat) /\ Rising(s \o u)
          /\ \A i \in 1 .. Len(s \o u) :
                \/ \E j \in 1 .. Len(s) : (s \o u)[i] = s[j]
                \/ \E j \in 1 .. Len(u) : (s \o u)[i] = u[j]
      BY <2>1, ConcatRises
    <2>3. QED
      BY <2>1, <2>2 DEF s, u
  <1>7. Before(lfile', Len(len') + 1) /\ \A i \in 1 .. Len(lfile') : lfile'[i] \notin live'
    BY <1>1, <1>3, <1>4, <1>6 DEF Before
  <1>8. LogTypes'
    <2>1. at' \in [Printers -> {"look", "print", "write"}] /\ out' \in [Printers -> Seq(Nat)]
      BY <1>2, <1>3
    <2>2. QED
      BY <1>2, <1>3, <1>6, <2>1 DEF LogTypes
  <1>9. Rising(<<>>) /\ (\A r : Before(<<>>, r)) /\ (\A s : AllBefore(s, <<>>)) /\ (\A i \in 1 .. Len(<<>>) : FALSE)
    BY DEF Rising, Before, AllBefore
  <1>10. \A r \in live' : r <= Len(len')
    BY <1>3 DEF LogInv
  <1>11. \A x \in Printers :
            /\ Rising(out'[x]) /\ Before(out'[x], Len(len') + 1)
            /\ AllBefore(lfile', out'[x]) /\ AllBefore(out'[x], q')
            /\ at'[x] = "write" <=> _lck' = x
            /\ at'[x] # "write" => out'[x] = <<>>
            /\ \A i \in 1 .. Len(out'[x]) : out'[x][i] \notin live'
    BY <1>3, <1>5, <1>9
  <1>12. Rising(q') /\ Before(q', Len(len') + 1) /\ AllBefore(lfile', q') /\ \A i \in 1 .. Len(q') : q'[i] \in live'
    BY <1>3, <1>9
  <1>13. QED
    BY <1>6, <1>7, <1>8, <1>10, <1>11, <1>12 DEF LogInv

\* fopen, with or without success, and the timer's look at the file.
LEMMA OpenKeeps ==
    ASSUME LogInv, Log!write_log_timer \/ \E p \in Printers : Log!Open(p)
    PROVE  LogInv'
  <1>1. LogTypes
    BY DEF LogInv
  <1>2. /\ q \in Seq(Nat) /\ lfile \in Seq(Nat) /\ out \in [Printers -> Seq(Nat)]
        /\ len \in Seq(Nat) /\ live \subseteq Nat
        /\ at \in [Printers -> {"look", "print", "write"}]
    BY <1>1 DEF LogTypes
  <1>3. Rising(<<>>) /\ (\A r : Before(<<>>, r)) /\ (\A s : AllBefore(<<>>, s)) /\ (\A i \in 1 .. Len(<<>>) : FALSE)
    BY DEF Rising, Before, AllBefore
  <1>4. UNCHANGED <<q, len, live, out>> /\ lfile' \in {lfile, <<>>}
    BY DEF Log!write_log_timer, Log!Open, Log!queue
  <1>5. /\ at' \in [Printers -> {"look", "print", "write"}]
        /\ \A x \in Printers : (at'[x] = "write" <=> _lck' = x) /\ (at[x] = "write" => at'[x] = "write")
    <2>1. \A x \in Printers : at[x] = "write" <=> _lck = x
      BY DEF LogInv
    <2>2. CASE Log!write_log_timer
      BY <1>2, <2>1, <2>2 DEF Log!write_log_timer, Printers
    <2>3. ASSUME NEW p \in Printers, Log!Open(p)
          PROVE  /\ at' \in [Printers -> {"look", "print", "write"}]
                 /\ \A x \in Printers : (at'[x] = "write" <=> _lck' = x) /\ (at[x] = "write" => at'[x] = "write")
      <3>1. at[p] = "print" /\ _lck = "free"
        BY <2>3 DEF Log!Open, Log!Free
      <3>2. CASE at' = [at EXCEPT ![p] = "write"] /\ _lck' = p
        BY <1>2, <2>1, <3>1, <3>2 DEF Printers
      <3>3. CASE Log!Return(p) /\ UNCHANGED _lck
        BY <1>2, <2>1, <3>1, <3>3 DEF Printers, Log!Return
      <3>4. QED
        BY <2>3, <3>2, <3>3 DEF Log!Open
    <2>4. QED
      BY <2>2, <2>3
  <1>6. LogTypes'
    <2>1. <<>> \in Seq(Nat)
      OBVIOUS
    <2>2. lfile' \in Seq(Nat)
      BY <1>2, <1>4, <2>1
    <2>3. QED
      BY <1>2, <1>4, <1>5, <2>2 DEF LogTypes
  <1>7. /\ Rising(lfile') /\ Before(lfile', Len(len') + 1) /\ AllBefore(lfile', q')
        /\ \A i \in 1 .. Len(lfile') : lfile'[i] \notin live'
        /\ \A p \in Printers : AllBefore(lfile', out'[p])
    BY <1>3, <1>4 DEF LogInv
  <1>8. \A x \in Printers :
            /\ Rising(out'[x]) /\ Before(out'[x], Len(len') + 1)
            /\ AllBefore(lfile', out'[x]) /\ AllBefore(out'[x], q')
            /\ at'[x] = "write" <=> _lck' = x
            /\ at'[x] # "write" => out'[x] = <<>>
            /\ \A i \in 1 .. Len(out'[x]) : out'[x][i] \notin live'
    BY <1>4, <1>5, <1>7 DEF LogInv
  <1>9. /\ Rising(q') /\ Before(q', Len(len') + 1) /\ \A i \in 1 .. Len(q') : q'[i] \in live'
        /\ \A r \in live' : r <= Len(len')
    BY <1>4 DEF LogInv
  <1>10. QED
    BY <1>6, <1>7, <1>8, <1>9 DEF LogInv

\* Every step of the log.
LEMMA LogKeeps ==
    ASSUME LogInv, [Log!Next]_Log!vars
    PROVE  LogInv'
  <1> USE LogAssumption
  <1>1. CASE UNCHANGED Log!vars
    BY <1>1 DEF Log!vars, Log!queue, LogInv, LogTypes
  <1>2. Printers = Log!Printers
    BY DEF Printers, Log!Printers
  <1>3. CASE Log!write_level_log
    <2>1. PICK n \in Lens : /\ Log!ngx_create_buf(Log!TextLen(n)) /\ Log!Push(Len(len) + 1)
                            /\ UNCHANGED <<_lck, at, out, lfile, old>>
      BY <1>3 DEF Log!write_level_log
    <2>2. n + 1 \in Nat /\ len' = Append(len, n + 1)
      BY <2>1 DEF Log!ngx_create_buf, Log!TextLen
    <2>3. /\ q' \in {Append(q, Len(len) + 1), <<>>, q} /\ live' = live \cup {Len(len) + 1}
      BY <2>1 DEF Log!Push, Log!Queue!Accept, Log!Queue!Forget, Log!Queue!Refuse
    <2>4. QED
      BY <2>1, <2>2, <2>3, RecordKeeps
  <1>4. CASE Log!write_data
    <2> DEFINE r == Len(len) + 1
    <2>1. /\ len' = Append(len, 0) /\ UNCHANGED <<_lck, at, out, lfile, old>>
          /\ \/ (Log!Queue!Accept(r) \/ Log!Queue!Forget(r)) /\ live' = live \cup {r}
             \/ Log!Queue!Refuse(r) /\ UNCHANGED live
      BY <1>4 DEF Log!write_data, Log!ngx_create_buf
    <2>2. /\ q' \in {Append(q, r), <<>>, q} /\ live' \in {live, live \cup {r}}
          /\ live' = live \cup {r} \/ q' = q
      BY <2>1 DEF Log!Queue!Accept, Log!Queue!Forget, Log!Queue!Refuse
    <2>3. q # Append(q, r)
      BY DEF LogInv, LogTypes
    <2>4. q' = Append(q, r) => live' = live \cup {r}
      BY <2>2, <2>3
    <2> HIDE DEF r
    <2>5. QED
      BY <2>1, <2>2, <2>4, RecordKeeps DEF r
  <1>5. QED
    BY <1>1, <1>2, <1>3, <1>4, OpenKeeps, WriteKeeps, CloseLogKeeps DEF Log!Next
-----------------------------------------------------------------------------
(* The process *)

ProcessInv == ThreadsInv /\ ClientInv /\ LogInv /\ FdInv /\ ShmInv

\* A process starts with nothing at work and nothing held.
LEMMA ProcessStarts == Init => ProcessInv
  <1> SUFFICES ASSUME Init PROVE ProcessInv
    OBVIOUS
  <1> USE LoopAssumption, LogAssumption, TableAssumption, ShmAssumption
  <1>1. ThreadsInv
    BY DEF Init, Thread!Init, ThreadsInv, ThreadTypes, ThreadInv
  <1>2. ClientInv
    BY DEF Init, Client!Init, ClientInv, Idle, CThreads, Client!OneLoopThread
  <1>3. LogInv
    <2>1. /\ q = <<>> /\ len = <<>> /\ live = {} /\ lfile = <<>> /\ _lck = "free"
          /\ out = [p \in Printers |-> <<>>]
          /\ at = [p \in Printers |-> IF p = "timer" THEN "look" ELSE "print"]
      BY DEF Init, Log!Init, Log!Queue!Init, Log!Free, Log!Printers, Printers
    <2>2. Rising(<<>>) /\ (\A r : Before(<<>>, r)) /\ (\A s : AllBefore(s, <<>>)) /\ (\A i \in 1 .. Len(<<>>) : FALSE)
      BY DEF Rising, Before, AllBefore
    <2>3. \A p \in Printers : out[p] = <<>> /\ at[p] # "write" /\ _lck # p
      BY <2>1 DEF Printers
    <2>4. LogTypes
      <3>1. <<>> \in Seq(Nat)
        OBVIOUS
      <3>2. QED
        BY <2>1, <3>1 DEF LogTypes
    <2>5. QED
      BY <2>1, <2>2, <2>3, <2>4 DEF LogInv
  <1>4. FdInv
    BY DEF Init, Fd!Init, Fd!Fds, Fd!Objects, Fd!NoFd, FdInv, FdNumbers, FdObjects
  <1>5. ShmInv
    <2>1. /\ file = -1 /\ obj = [o \in ShmObjects |-> Shm!Gone] /\ fds = {} /\ maps = {} /\ made = 0
          /\ shut = {} /\ twice = {} /\ first = 0 /\ faults = {} /\ cut = FALSE
      BY DEF Init, Shm!Init, Shm!NoFile
    <2>2. ShmTypes
      BY <2>1, GoneType DEF ShmTypes
    <2>3. HandlesOwned
      BY <2>1 DEF HandlesOwned, Shm!Gone, Shm!Fresh, Shm!Null
    <2>4. QED
      BY <2>1, <2>2, <2>3, GoneType DEF ShmInv, FileExtended, Shm!MapUsable, Shm!Gone, Shm!Fresh
  <1>6. QED
    BY <1>1, <1>2, <1>3, <1>4, <1>5 DEF ProcessInv

\* A step of one part leaves the others alone.
LEMMA ProcessKeeps ==
    ASSUME ProcessInv, [Next]_<<unit, threadVars, clientVars, logVars, fdVars, shmVars>>
    PROVE  ProcessInv'
  <1>1. /\ [Thread!Next]_Thread!vars /\ [Client!Next]_Client!vars /\ [Log!Next]_Log!vars
        /\ [Fd!Next]_Fd!vars /\ [Shm!Next]_Shm!vars
    BY DEF Next, threadVars, clientVars, logVars, fdVars, shmVars,
           Thread!vars, Client!vars, Log!vars, Log!queue, Fd!vars, Shm!vars
  <1>2. QED
    BY <1>1, ThreadsKeep, ClientKeeps, LogKeeps, FdKeeps, ShmKeeps DEF ProcessInv

\* What each part keeps to holds in every state of the process.
LEMMA ProcessInvariant == Spec => []ProcessInv
  <1>1. QED
    BY ProcessStarts, ProcessKeeps, PTL DEF Spec

\* For every number of event threads and every configuration of the client:
\* the program is not terminated once a stop has found the loop of the last run
\* (eventthread.cpp); in a build that keeps the loop that waits, at most one loop
\* thread is at work and a client that is gone leaves none (ngx_core.cpp).
THEOREM ThreadsCorrect == Spec => []ThreadsSafe
  <1>1. ASSUME ProcessInv PROVE ThreadsSafe
    <2>1. Thread!TerminateOnlyUnstopped
      BY <1>1 DEF ProcessInv, ThreadsInv, ThreadInv, Thread!TerminateOnlyUnstopped
    <2>2. Client!CoreOutlivesThread /\ Client!OneLoopThread
      BY <1>1 DEF ProcessInv, ClientInv, Idle, Client!CoreOutlivesThread
    <2>3. QED
      BY <2>1, <2>2 DEF ThreadsSafe
  <1>2. QED
    BY <1>1, ProcessInvariant, PTL

\* For every capacity of the queue and every number of records: the file has
\* them in the order they were written, what waits is allocated and what was
\* printed is not, though two threads print (ngx_log.cpp, ngx_core.cpp).
THEOREM LogCorrect == Spec => []LogSafe
  <1>1. ASSUME ProcessInv PROVE LogSafe
    <2>1. LogInv /\ LogTypes
      BY <1>1 DEF ProcessInv, LogInv
    <2>2. Log!FileInOrder
      BY <2>1 DEF LogInv, Rising, Log!FileInOrder
    <2>3. q \in Seq(Nat) /\ lfile \in Seq(Nat)
      BY <2>1 DEF LogTypes
    <2>4. Log!ToSet(q) \subseteq live
      BY <2>1, <2>3 DEF LogInv, Log!ToSet
    <2>5. live \cap Log!ToSet(lfile) = {}
      BY <2>1, <2>3 DEF LogInv, Log!ToSet
    <2>6. QED
      BY <2>2, <2>4, <2>5 DEF LogSafe, Log!WaitingLive
  <1>2. QED
    BY <1>1, ProcessInvariant, PTL

\* For every number of objects and every size of the table: the first to close
\* a descriptor of another is a receiver of rx_bsd_mcbc, and until then nobody
\* else holds a number that is not its own; a handle of fixed_shm.h is released
\* once, and a mapping has one owner, unless a user called close().
THEOREM OwnersCorrect == Spec => []OwnersSafe
  <1>1. ASSUME ProcessInv PROVE OwnersSafe
    <2>1. Fd!HeldIsOwn
      BY <1>1 DEF ProcessInv, FdInv, FdObjects, Fd!HeldIsOwn, Fd!Objects, Fd!NoFd
    <2>2. Shm!ReleasedOnce
      BY <1>1 DEF ProcessInv, ShmInv, Shm!ReleasedOnce
    <2>3. Shm!MappingOwned
      <3>1. ShmTypes /\ HandlesOwned
        BY <1>1 DEF ProcessInv, ShmInv
      <3>2. QED
        BY <3>1 DEF ShmTypes, HandlesOwned, Shm!MappingOwned, Shm!Null
    <2>4. QED
      BY <2>1, <2>2, <2>3 DEF OwnersSafe
  <1>2. QED
    BY <1>1, ProcessInvariant, PTL

\* For all sizes of the objects and every history of crashes and of errors in
\* open: a mapping that cannot be used is larger than the object that made the
\* file, or the file was left unextended (open and map of fixed_shm.h).
THEOREM MapCorrect == Spec => []MapUsable
  <1>1. ProcessInv => MapUsable
    BY DEF ProcessInv, ShmInv, MapUsable
  <1>2. QED
    BY <1>1, ProcessInvariant, PTL
=============================================================================
