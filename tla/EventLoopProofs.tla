--------------------------- MODULE EventLoopProofs ---------------------------
(***************************************************************************)
(* For any number of users, acceptors, connections and tasks: reference    *)
(* counts are exact, and the loop thread uses no deleted connection, but   *)
(* for those that reconnect put back into the loop; no wakeup is lost,     *)
(* tasks keep their order, and an accepted connection is reported closed   *)
(* once.  Nothing undefined happens if users only stop.                    *)
(***************************************************************************)
EXTENDS EventLoop, SequenceTheorems, TLAPS

USE ThreadAssumption, ConnAssumption, BoundAssumption

\* Which program points belong to which thread.
PcInv ==
    /\ pc[Loop] \notin UserPc
    /\ \A u \in User : pc[u] \notin LoopPc \cup ServePc

\* cur is the connection a thread works on; the loop works on connections of
\* its snapshot, a user on a connection a user made.
CurInv ==
    /\ pc[Loop] \in ServePc \cup TermPc => cur[Loop] \in snap
    /\ \A u \in User : pc[u] \in TermPc \cup {"addnet", "lockm"} => cur[u] \in UserConn

\* The references the loop holds: while it walks _conns, and until it has
\* served the snapshot.
SnapInv ==
    /\ pc[Loop] = "walk" => todo \subseteq conns /\ todo \cap snap = {} /\ conns \subseteq snap \cup todo
    /\ pc[Loop] # "walk" => todo = {}
    /\ pc[Loop] \in LoopPc \ {"walk", "select", "serve"} => snap = {}

\* Connections held by the loop are alive, but for those that reconnect put
\* back; only users' connections are, and _loop is set only in _conns.
HeldInv ==
    /\ \A c \in conns \cup snap : mem[c] = "live" \/ (mem[c] = "freed" /\ c \in reused)
    /\ \A c \in Conn : linked[c] => c \in conns /\ mem[c] = "live"
    /\ \A c \in reused : c \in UserConn /\ mem[c] \in {"live", "freed"}

\* A user inside add_net brings a connection that was made.
AddInv == \A u \in User : pc[u] = "addnet" => mem[cur[u]] # "none"

RefInv == TypeOK /\ PcInv /\ CurInv /\ SnapInv /\ HeldInv /\ AddInv /\ RefExact

\* NoLostWakeup from the moment process_task has taken the list.
WakeInv ==
    running =>
        /\ pc[Loop] \in {"run", "snap", "walk", "select"} /\ tasks # <<>>
               => wake \/ \E u \in User : pc[u] = "wakeup"
        /\ pc[Loop] = "select" /\ conns \ snap # {}
               => wake \/ \E u \in User : pc[u] = "wakeup"

\* How far the loop has come with terminate on a connection.
Closing(c) ==
    IF cur[Loop] = c /\ pc[Loop] \in {"remove", "rwake", "unlink", "onclose", "clearcb"}
    THEN pc[Loop] ELSE "no"

\* The loop had the connection and dropped it.
Dropped(c) == mem[c] \in {"live", "freed"} /\ c \notin conns

\* What _disconn_cb and the count of its calls are while the loop, which alone
\* knows accepted connections, terminates one.
CloseAt(c) ==
    /\ c \in conns => linked[c]
    /\ Closing(c) = "remove" => c \in conns
    /\ Closing(c) \in {"rwake", "unlink", "onclose", "clearcb"} => Dropped(c)
    /\ closed[c] = IF Dropped(c) /\ Closing(c) \notin {"rwake", "unlink", "onclose"} THEN 1 ELSE 0
    /\ cb[c] <=> mem[c] # "none" /\ (closed[c] = 0 \/ Closing(c) = "clearcb")

CloseInv == \A c \in AccConn : CloseAt(c)

\* When the users do nothing but stop: terminate, which only the loop calls,
\* still finds _loop set when it reads it the second time.
ServerInv ==
    /\ ub = {}
    /\ reused = {}
    /\ \A u \in User : pc[u] = "idle"
    /\ pc[Loop] = "remove" => linked[cur[Loop]]

\* process_task finds no task left of the list it took before.
BatchInv == batch # <<>> => pc[Loop] = "run"
-----------------------------------------------------------------------------
(* Types *)

\* The connection a thread works on is one.
LEMMA CurConn ==
    ASSUME TypeOK, CurInv, NEW t \in Thread,
           pc[t] \in ServePc \cup TermPc \cup {"addnet", "lockm"}, PcInv
    PROVE  cur[t] \in Conn
  BY DEF TypeOK, LoopTypeOK, CurInv, PcInv, Thread, Conn, UserPc, ServePc, TermPc

\* Program points and current connections.
LEMMA ThreadTypeStep ==
    ASSUME TypeOK, [Next]_vars
    PROVE  ThreadTypeOK'
  <1>1. ASSUME LoopCheck \/ process_task \/ RunTask \/ RunDone \/ SnapLock \/
               SnapUnlock \/ SelectTimeout \/ SelectReady
        PROVE  ThreadTypeOK'
    BY <1>1 DEF LoopCheck, process_task, RunTask, RunDone, SnapLock, SnapUnlock,
       SelectTimeout, SelectReady, TypeOK, ThreadTypeOK, LoopTypeOK, Goto, Thread,
       Conn, LoopPc, ServePc, TermPc, UserPc
  <1>2. ASSUME SelectError \/ OnSendNothing \/ OnSendSome \/ OnSendBroken \/
               LoopRelease \/ ServeDone \/ remove_all \/ UNCHANGED vars
        PROVE  ThreadTypeOK'
    BY <1>2 DEF SelectError, OnSendNothing, OnSendSome, OnSendBroken, LoopRelease, ReleaseReused,
       release, ServeDone, remove_all, vars, TypeOK, ThreadTypeOK, LoopTypeOK,
       Goto, Thread, Conn, LoopPc, ServePc, TermPc, UserPc
  <1>3. ASSUME NEW c \in Acceptor, NEW n \in AccConn, OnAccept(c, n) PROVE ThreadTypeOK'
    BY <1>3 DEF OnAccept, AtAccept, Made, TypeOK, ThreadTypeOK, LoopTypeOK, Goto, Thread,
       Conn, LoopPc, ServePc, TermPc, UserPc
  <1>4. ASSUME NEW u \in User, add_net(u) \/ wakeup(u) \/ StartAddTask(u) \/
               add_task(u) \/ stop(u) \/ send_msg(u) \/ SendBroken(u) \/
               UseDeadLoop(u)
        PROVE  ThreadTypeOK'
    BY <1>4 DEF add_net, wakeup, Return, StartAddTask, add_task, stop, send_msg,
       SendBroken, UseDeadLoop, Fault, TypeOK, ThreadTypeOK, LoopTypeOK, Goto,
       Thread, Conn, LoopPc, ServePc, TermPc, UserPc
  <1>5. ASSUME NEW t \in Thread, UseAfterFree(t) \/ NullLoop(t) PROVE ThreadTypeOK'
    BY <1>5 DEF UseAfterFree, Fault, NullLoop, TypeOK, ThreadTypeOK, LoopTypeOK,
       Goto, Thread, Conn, LoopPc, ServePc, TermPc, UserPc
  <1>6. ASSUME NEW u \in User, NEW c \in UserConn, UseStale(u, c) PROVE ThreadTypeOK'
    BY <1>6 DEF UseStale, Fault, TypeOK, ThreadTypeOK, LoopTypeOK, Goto, Thread,
       Conn, LoopPc, ServePc, TermPc, UserPc
  <1>7. ASSUME NEW t \in Thread, TermEnter(t) PROVE ThreadTypeOK'
    BY <1>7 DEF TermEnter, TypeOK, ThreadTypeOK, LoopTypeOK, Goto, Thread, Conn,
       LoopPc, ServePc, TermPc, UserPc
  <1>8. ASSUME NEW t \in Thread, remove_net(t) PROVE ThreadTypeOK'
    BY <1>8 DEF remove_net, release, TypeOK, ThreadTypeOK, LoopTypeOK, Goto, Thread,
       Conn, LoopPc, ServePc, TermPc, UserPc
  <1>9. ASSUME NEW t \in Thread, RemoveWakeup(t) PROVE ThreadTypeOK'
    BY <1>9 DEF RemoveWakeup, TypeOK, ThreadTypeOK, LoopTypeOK, Goto, Thread, Conn,
       LoopPc, ServePc, TermPc, UserPc
  <1>10. ASSUME NEW t \in Thread, TermUnlink(t) PROVE ThreadTypeOK'
    BY <1>10 DEF TermUnlink, TypeOK, ThreadTypeOK, LoopTypeOK, Goto, Thread, Conn,
       LoopPc, ServePc, TermPc, UserPc
  <1>11. ASSUME NEW t \in Thread, OnClose(t) PROVE ThreadTypeOK'
    BY <1>11 DEF OnClose, TypeOK, ThreadTypeOK, LoopTypeOK, Goto, Thread, Conn,
       LoopPc, ServePc, TermPc, UserPc
  <1>12. ASSUME NEW t \in Thread, OnCloseClear(t) PROVE ThreadTypeOK'
    BY <1>12 DEF OnCloseClear, TypeOK, ThreadTypeOK, LoopTypeOK, Goto, Thread, Conn,
       LoopPc, ServePc, TermPc, UserPc
  <1>13. ASSUME NEW t \in Thread, TermReturn(t) PROVE ThreadTypeOK'
    BY <1>13 DEF TermReturn, Return, TypeOK, ThreadTypeOK, LoopTypeOK, Goto, Thread,
       Conn, LoopPc, ServePc, TermPc, UserPc
  <1>14. ASSUME NEW t \in Thread, Unlock(t) PROVE ThreadTypeOK'
    BY <1>14 DEF Unlock, Return, TypeOK, ThreadTypeOK, LoopTypeOK, Goto, Thread,
       Conn, LoopPc, ServePc, TermPc, UserPc
  <1>15. ASSUME NEW c \in Conn, SnapWalk(c) PROVE ThreadTypeOK'
    BY <1>15 DEF SnapWalk, TypeOK, ThreadTypeOK, LoopTypeOK, Goto, Thread, Conn,
       LoopPc, ServePc, TermPc, UserPc
  <1>16. ASSUME NEW c \in Conn, ServeSkip(c) PROVE ThreadTypeOK'
    BY <1>16 DEF ServeSkip, TypeOK, ThreadTypeOK, LoopTypeOK, Goto, Thread, Conn,
       LoopPc, ServePc, TermPc, UserPc
  <1>17. ASSUME NEW c \in Conn, OnReadKeep(c) PROVE ThreadTypeOK'
    BY <1>17 DEF OnReadKeep, TypeOK, ThreadTypeOK, LoopTypeOK, Goto, Thread, Conn,
       LoopPc, ServePc, TermPc, UserPc
  <1>18. ASSUME NEW c \in Conn, OnReadBroken(c) PROVE ThreadTypeOK'
    BY <1>18 DEF OnReadBroken, AcceptBlocks, AcceptFails, AtAccept, TypeOK, ThreadTypeOK, LoopTypeOK, Goto, Thread, Conn,
       LoopPc, ServePc, TermPc, UserPc
  <1>19. ASSUME NEW u \in User, NEW c \in UserConn, StartAddNet(u, c) PROVE ThreadTypeOK'
    <2>1. c \in Conn /\ u \in Thread
      BY DEF Conn, Thread
    <2>2. \/ UNCHANGED <<pc, cur>>
          \/ /\ pc' = [pc EXCEPT ![u] = "addnet"]
             /\ cur' = [cur EXCEPT ![u] = c]
      BY <1>19 DEF StartAddNet, reconnect, Goto
    <2>3. QED
      BY <2>1, <2>2 DEF TypeOK, ThreadTypeOK, UserPc
  <1>20. ASSUME NEW u \in User, NEW c \in UserConn, StartTerminate(u, c) PROVE ThreadTypeOK'
    BY <1>20 DEF StartTerminate, TypeOK, ThreadTypeOK, LoopTypeOK, Goto, Thread,
       Conn, LoopPc, ServePc, TermPc, UserPc
  <1>21. ASSUME NEW u \in User, NEW c \in UserConn, StartSend(u, c) PROVE ThreadTypeOK'
    BY <1>21 DEF StartSend, TypeOK, ThreadTypeOK, LoopTypeOK, Goto, Thread, Conn,
       LoopPc, ServePc, TermPc, UserPc
  <1>22. ASSUME NEW u \in User, NEW c \in UserConn, reconnect(u, c) PROVE ThreadTypeOK'
    <2>1. c \in Conn /\ u \in Thread
      BY DEF Conn, Thread
    <2>2. \/ UNCHANGED <<pc, cur>>
          \/ /\ pc' = [pc EXCEPT ![u] = "addnet"]
             /\ cur' = [cur EXCEPT ![u] = c]
      BY <1>22 DEF reconnect, Goto
    <2>3. QED
      BY <2>1, <2>2 DEF TypeOK, ThreadTypeOK, UserPc
  <1>23. ASSUME NEW c \in Acceptor, AcceptBlocks(c) \/ AcceptFails(c) PROVE ThreadTypeOK'
    BY <1>23 DEF AcceptBlocks, AcceptFails, AtAccept, TypeOK, ThreadTypeOK, Goto, Thread, Conn,
       ServePc
  <1>24. QED
    BY <1>1, <1>2, <1>3, <1>4, <1>5, <1>6, <1>7, <1>8, <1>9, <1>10, <1>11, <1>12,
       <1>13, <1>14, <1>15, <1>16, <1>17, <1>18, <1>19, <1>20, <1>21, <1>22, <1>23 DEF Next,
       LoopStep, LoopWork, LoopWait, terminate, UserStep, UserCall, Undefined, Thread, Conn

\* A step into undefined behaviour changes only ub.
LEMMA FaultType ==
    ASSUME LoopTypeOK, NEW t \in Thread, NEW how \in {"freed conn", "dead loop", "null loop"},
           Fault(t, how)
    PROVE  LoopTypeOK'
  <1>1. ub' = {<<t, how>>} /\ UNCHANGED <<running, wake, conns, reused, pollVars>>
    BY DEF Fault
  <1>2. <<t, how>> \in Thread \X {"freed conn", "dead loop", "null loop"}
    BY Zenon
  <1>3. ub' \subseteq Thread \X {"freed conn", "dead loop", "null loop"}
    BY <1>1, <1>2, Zenon
  <1>4. QED
    BY <1>1, <1>3 DEF LoopTypeOK, pollVars

\* The flags and the sets of the loop.
LEMMA LoopTypeStep ==
    ASSUME TypeOK, PcInv, CurInv, [Next]_vars
    PROVE  LoopTypeOK'
  <1>1. ASSUME NEW t \in Thread, TermEnter(t) \/ remove_net(t) \/ RemoveWakeup(t)
               \/ TermUnlink(t) \/ OnClose(t) \/ OnCloseClear(t) \/ TermReturn(t)
               \/ Unlock(t)
        PROVE  LoopTypeOK'
    BY <1>1 DEF TermEnter, remove_net, release, RemoveWakeup, TermUnlink, OnClose,
       OnCloseClear, TermReturn, Return, Unlock, TypeOK, LoopTypeOK, pollVars,
       Conn, Thread
  <1>2. ASSUME LoopCheck \/ process_task \/ RunTask \/ RunDone \/ SnapLock \/
               SnapUnlock \/ SelectTimeout \/ SelectReady
        PROVE  LoopTypeOK'
    BY <1>2 DEF LoopCheck, process_task, RunTask, RunDone, SnapLock, SnapUnlock,
       SelectTimeout, SelectReady, TypeOK, LoopTypeOK, pollVars, Conn, Thread
  <1>3. ASSUME SelectError \/ OnSendNothing \/ OnSendSome \/ OnSendBroken \/
               LoopRelease \/ ServeDone \/ remove_all \/ UNCHANGED vars
        PROVE  LoopTypeOK'
    BY <1>3 DEF SelectError, OnSendNothing, OnSendSome, OnSendBroken, LoopRelease, ReleaseReused,
       release, ServeDone, remove_all, vars, TypeOK, LoopTypeOK, pollVars, Conn,
       Thread
  <1>4. ASSUME NEW c \in Conn, SnapWalk(c) \/ ServeSkip(c) \/ OnReadKeep(c) \/ OnReadBroken(c)
               \/ AcceptBlocks(c) \/ AcceptFails(c)
        PROVE  LoopTypeOK'
    BY <1>4 DEF SnapWalk, ServeSkip, OnReadKeep, OnReadBroken, AcceptBlocks, AcceptFails, AtAccept, TypeOK, LoopTypeOK,
       pollVars, Conn, Thread
  <1>5. ASSUME NEW c \in Acceptor, NEW n \in AccConn, OnAccept(c, n) PROVE LoopTypeOK'
    BY <1>5 DEF OnAccept, AtAccept, Made, TypeOK, LoopTypeOK, pollVars, Conn, Thread
  <1>6. ASSUME NEW u \in User, NEW c \in UserConn, StartAddNet(u, c) \/ reconnect(u, c) \/
               StartTerminate(u, c) \/ StartSend(u, c)
        PROVE  LoopTypeOK'
    BY <1>6 DEF StartAddNet, reconnect, Made, StartTerminate, StartSend, TypeOK, LoopTypeOK,
       pollVars, Conn, Thread
  <1>7. ASSUME NEW u \in User, add_net(u) PROVE LoopTypeOK'
    <2>1. cur[u] \in Conn
      BY <1>7, CurConn DEF add_net, Thread
    <2>2. QED
      BY <1>7, <2>1 DEF add_net, TypeOK, LoopTypeOK, pollVars
  <1>8. ASSUME NEW u \in User, wakeup(u) PROVE LoopTypeOK'
    BY <1>8 DEF wakeup, Return, TypeOK, LoopTypeOK, pollVars, Conn, Thread
  <1>9. ASSUME NEW u \in User, StartAddTask(u) PROVE LoopTypeOK'
    BY <1>9 DEF StartAddTask, TypeOK, LoopTypeOK, pollVars, Conn, Thread
  <1>10. ASSUME NEW u \in User, add_task(u) PROVE LoopTypeOK'
    BY <1>10 DEF add_task, TypeOK, LoopTypeOK, pollVars, Conn, Thread
  <1>11. ASSUME NEW u \in User, stop(u) PROVE LoopTypeOK'
    BY <1>11 DEF stop, TypeOK, LoopTypeOK, pollVars, Conn, Thread
  <1>12. ASSUME NEW u \in User, send_msg(u) PROVE LoopTypeOK'
    BY <1>12 DEF send_msg, Return, TypeOK, LoopTypeOK, pollVars, Conn, Thread
  <1>13. ASSUME NEW u \in User, SendBroken(u) PROVE LoopTypeOK'
    BY <1>13 DEF SendBroken, TypeOK, LoopTypeOK, pollVars, Conn, Thread
  <1>14. ASSUME NEW t \in Thread, UseAfterFree(t) PROVE LoopTypeOK'
    BY <1>14, FaultType DEF UseAfterFree, TypeOK, Thread
  <1>15. ASSUME NEW t \in Thread, NullLoop(t) PROVE LoopTypeOK'
    BY <1>15, FaultType DEF NullLoop, TypeOK, Thread
  <1>16. ASSUME NEW u \in User, UseDeadLoop(u) PROVE LoopTypeOK'
    BY <1>16, FaultType DEF UseDeadLoop, TypeOK, Thread
  <1>17. ASSUME NEW u \in User, NEW c \in UserConn, UseStale(u, c) PROVE LoopTypeOK'
    BY <1>17, FaultType DEF UseStale, TypeOK, Thread
  <1>18. QED
    BY <1>1, <1>2, <1>3, <1>4, <1>5, <1>6, <1>7, <1>8, <1>9, <1>10, <1>11, <1>12,
       <1>13, <1>14, <1>15, <1>16, <1>17 DEF Next, LoopStep, LoopWork, LoopWait, terminate,
       UserStep, UserCall, Undefined, Thread, Conn

\* The task lists.
LEMMA TaskTypeStep ==
    ASSUME TypeOK, [Next]_vars
    PROVE  TaskTypeOK'
  <1>1. ASSUME NEW t \in Thread, TermEnter(t) \/ remove_net(t) \/ RemoveWakeup(t)
               \/ TermUnlink(t) \/ OnClose(t) \/ OnCloseClear(t) \/ TermReturn(t)
               \/ Unlock(t)
        PROVE  TaskTypeOK'
    BY <1>1 DEF TermEnter, remove_net, release, RemoveWakeup, TermUnlink, OnClose,
       OnCloseClear, TermReturn, Return, Unlock, TypeOK, TaskTypeOK, taskVars
  <1>2. ASSUME NEW t \in Thread, UseAfterFree(t) \/ NullLoop(t) PROVE TaskTypeOK'
    BY <1>2 DEF UseAfterFree, Fault, NullLoop, TypeOK, TaskTypeOK, taskVars
  <1>3. ASSUME LoopCheck \/ RunDone \/ SnapLock \/ SnapUnlock \/ SelectTimeout \/
               SelectReady \/ SelectError \/ OnSendNothing
        PROVE  TaskTypeOK'
    BY <1>3 DEF LoopCheck, RunDone, SnapLock, SnapUnlock, SelectTimeout,
       SelectReady, SelectError, OnSendNothing, TypeOK, TaskTypeOK, taskVars
  <1>4. ASSUME OnSendSome \/ OnSendBroken \/ LoopRelease \/ ServeDone \/
               remove_all \/ UNCHANGED vars
        PROVE  TaskTypeOK'
    BY <1>4 DEF OnSendSome, OnSendBroken, LoopRelease, ReleaseReused, release, ServeDone,
       remove_all, vars, TypeOK, TaskTypeOK, taskVars
  <1>5. ASSUME NEW c \in Conn, SnapWalk(c) \/ ServeSkip(c) \/ OnReadKeep(c) \/ OnReadBroken(c)
               \/ AcceptBlocks(c) \/ AcceptFails(c)
        PROVE  TaskTypeOK'
    BY <1>5 DEF SnapWalk, ServeSkip, OnReadKeep, OnReadBroken, AcceptBlocks, AcceptFails, AtAccept, TypeOK, TaskTypeOK,
       taskVars
  <1>6. ASSUME NEW c \in Acceptor, NEW n \in AccConn, OnAccept(c, n) PROVE TaskTypeOK'
    BY <1>6 DEF OnAccept, AtAccept, Made, TypeOK, TaskTypeOK, taskVars
  <1>7. ASSUME NEW u \in User, add_net(u) \/ wakeup(u) \/ StartAddTask(u) \/
               stop(u) \/ send_msg(u) \/ SendBroken(u) \/ UseDeadLoop(u)
        PROVE  TaskTypeOK'
    BY <1>7 DEF add_net, wakeup, Return, StartAddTask, stop, send_msg, SendBroken,
       UseDeadLoop, Fault, TypeOK, TaskTypeOK, taskVars
  <1>8. ASSUME NEW u \in User, NEW c \in UserConn, StartAddNet(u, c) \/ reconnect(u, c) \/
               StartTerminate(u, c) \/ StartSend(u, c) \/ UseStale(u, c)
        PROVE  TaskTypeOK'
    BY <1>8 DEF StartAddNet, reconnect, Made, StartTerminate, StartSend, UseStale, Fault,
       TypeOK, TaskTypeOK, taskVars
  <1>9. ASSUME process_task PROVE TaskTypeOK'
    BY <1>9 DEF process_task, TypeOK, TaskTypeOK, taskVars
  <1>10. ASSUME RunTask PROVE TaskTypeOK'
    BY <1>10 DEF RunTask, TypeOK, TaskTypeOK, taskVars
  <1>11. ASSUME NEW u \in User, add_task(u) PROVE TaskTypeOK'
    BY <1>11 DEF add_task, TypeOK, TaskTypeOK, taskVars
  <1>12. QED
    BY <1>1, <1>2, <1>3, <1>4, <1>5, <1>6, <1>7, <1>8, <1>9, <1>10, <1>11 DEF
       Next, LoopStep, LoopWork, LoopWait, terminate, UserStep, UserCall, Undefined, Thread, Conn

\* The connections.
LEMMA ConnTypeStep ==
    ASSUME TypeOK, PcInv, CurInv, [Next]_vars
    PROVE  ConnTypeOK'
  <1>1. ASSUME NEW t \in Thread, TermEnter(t) \/ RemoveWakeup(t) \/ TermUnlink(t)
               \/ OnCloseClear(t) \/ TermReturn(t) \/ Unlock(t) \/ UseAfterFree(t)
               \/ NullLoop(t)
        PROVE  ConnTypeOK'
    BY <1>1 DEF TermEnter, RemoveWakeup, TermUnlink, OnCloseClear, TermReturn,
       Return, Unlock, UseAfterFree, Fault, NullLoop, TypeOK, ConnTypeOK,
       connVars, Thread
  <1>2. ASSUME LoopCheck \/ process_task \/ RunTask \/ RunDone \/ SnapLock \/
               SnapUnlock \/ SelectTimeout \/ SelectReady
        PROVE  ConnTypeOK'
    BY <1>2 DEF LoopCheck, process_task, RunTask, RunDone, SnapLock, SnapUnlock,
       SelectTimeout, SelectReady, TypeOK, ConnTypeOK, connVars, Thread
  <1>3. ASSUME SelectError \/ OnSendNothing \/ OnSendBroken \/ ServeDone \/
               UNCHANGED vars
        PROVE  ConnTypeOK'
    BY <1>3 DEF SelectError, OnSendNothing, OnSendBroken, ServeDone, vars, TypeOK,
       ConnTypeOK, connVars, Thread
  <1>4. ASSUME NEW c \in Conn, ServeSkip(c) \/ OnReadKeep(c) \/ OnReadBroken(c)
               \/ AcceptBlocks(c) \/ AcceptFails(c)
        PROVE  ConnTypeOK'
    BY <1>4 DEF ServeSkip, OnReadKeep, OnReadBroken, AcceptBlocks, AcceptFails, AtAccept, TypeOK, ConnTypeOK, connVars,
       Thread
  <1>5. ASSUME NEW u \in User, wakeup(u) \/ StartAddTask(u) \/ add_task(u) \/
               stop(u) \/ UseDeadLoop(u)
        PROVE  ConnTypeOK'
    BY <1>5 DEF wakeup, Return, StartAddTask, add_task, stop, UseDeadLoop, Fault,
       TypeOK, ConnTypeOK, connVars, Thread
  <1>6. ASSUME NEW u \in User, NEW c \in UserConn, StartTerminate(u, c) \/
               StartSend(u, c) \/ UseStale(u, c) \/ reconnect(u, c)
        PROVE  ConnTypeOK'
    BY <1>6 DEF reconnect, StartTerminate, StartSend, UseStale, Fault, TypeOK, ConnTypeOK,
       connVars, Thread
  <1>7. ASSUME NEW t \in Thread, remove_net(t) PROVE ConnTypeOK'
    <2>1. cur[t] \in Conn
      BY <1>7, CurConn DEF remove_net, Thread, TermPc, ServePc
    <2>2. /\ ref' \in [Conn -> Int]
          /\ mem' \in [Conn -> {"none", "new", "live", "freed"}]
      BY <1>7, <2>1 DEF remove_net, release, TypeOK, ConnTypeOK
    <2>3. QED
      BY <1>7, <2>2 DEF remove_net, TypeOK, ConnTypeOK
  <1>8. ASSUME NEW t \in Thread, OnClose(t) PROVE ConnTypeOK'
    <2>1. cur[t] \in Conn
      BY <1>8, CurConn DEF OnClose, Thread, TermPc, ServePc
    <2>2. closed' \in [Conn -> Nat]
      BY <1>8, <2>1 DEF OnClose, TypeOK, ConnTypeOK
    <2>3. QED
      BY <1>8, <2>2 DEF OnClose, TypeOK, ConnTypeOK
  <1>9. ASSUME OnSendSome PROVE ConnTypeOK'
    <2>1. PICK left \in BOOLEAN : sbuf' = [sbuf EXCEPT ![cur[Loop]] = left]
      BY <1>9 DEF OnSendSome
    <2>2. sbuf' \in [Conn -> BOOLEAN]
      BY <2>1 DEF TypeOK, ConnTypeOK
    <2>3. QED
      BY <1>9, <2>2 DEF OnSendSome, TypeOK, ConnTypeOK
  <1>10. ASSUME LoopRelease PROVE ConnTypeOK'
    <2>1. cur[Loop] \in Conn
      BY <1>10, CurConn DEF LoopRelease, Thread, TermPc, ServePc
    <2>2. /\ ref' \in [Conn -> Int]
          /\ mem' \in [Conn -> {"none", "new", "live", "freed"}]
      BY <1>10, <2>1 DEF LoopRelease, ReleaseReused, release, TypeOK, ConnTypeOK
    <2>3. closed' \in [Conn -> Nat]
      BY <1>10, <2>1 DEF LoopRelease, ReleaseReused, TypeOK, ConnTypeOK
    <2>4. linked' \in [Conn -> BOOLEAN] /\ cb' \in [Conn -> BOOLEAN]
      BY <1>10 DEF LoopRelease, ReleaseReused, TypeOK, ConnTypeOK
    <2>5. QED
      BY <1>10, <2>2, <2>3, <2>4 DEF LoopRelease, TypeOK, ConnTypeOK
  <1>11. ASSUME remove_all PROVE ConnTypeOK'
    <2>1. /\ linked' \in [Conn -> BOOLEAN] /\ cb' \in [Conn -> BOOLEAN]
      BY <1>11, Zenon DEF remove_all, TypeOK, ConnTypeOK
    <2>2. closed' \in [Conn -> Nat] /\ ref' \in [Conn -> Int]
      BY <1>11 DEF remove_all, TypeOK, ConnTypeOK
    <2>3. mem' \in [Conn -> {"none", "new", "live", "freed"}]
      BY <1>11 DEF remove_all, TypeOK, ConnTypeOK
    <2>4. QED
      BY <1>11, <2>1, <2>2, <2>3 DEF remove_all, TypeOK, ConnTypeOK
  <1>12. ASSUME NEW c \in Conn, SnapWalk(c) PROVE ConnTypeOK'
    <2>1. ref' \in [Conn -> Int]
      BY <1>12 DEF SnapWalk, TypeOK, ConnTypeOK
    <2>2. QED
      BY <1>12, <2>1 DEF SnapWalk, TypeOK, ConnTypeOK
  <1>13. ASSUME NEW c \in Acceptor, NEW n \in AccConn, OnAccept(c, n) PROVE ConnTypeOK'
    <2>1. ref' \in [Conn -> Int]
      <3>1. ref' = [ref EXCEPT ![n] = 1]
        BY <1>13 DEF OnAccept, AtAccept, Made
      <3>2. ref \in [Conn -> Int]
        BY DEF TypeOK, ConnTypeOK
      <3>3. 1 \in Int
        OBVIOUS
      <3>4. QED
        BY <3>1, <3>2, <3>3, Zenon
    <2>4. cb' \in [Conn -> BOOLEAN] /\ linked' \in [Conn -> BOOLEAN]
      BY <1>13 DEF OnAccept, AtAccept, Made, TypeOK, ConnTypeOK
    <2>2. mem' \in [Conn -> {"none", "new", "live", "freed"}]
      BY <1>13 DEF OnAccept, AtAccept, TypeOK, ConnTypeOK
    <2>3. QED
      BY <1>13, <2>1, <2>2, <2>4 DEF OnAccept, AtAccept, TypeOK, ConnTypeOK
  <1>14. ASSUME NEW u \in User, add_net(u) PROVE ConnTypeOK'
    BY <1>14 DEF add_net, TypeOK, ConnTypeOK, connVars, Thread
  <1>15. ASSUME NEW u \in User, send_msg(u) PROVE ConnTypeOK'
    BY <1>15 DEF send_msg, Return, TypeOK, ConnTypeOK, connVars, Thread
  <1>16. ASSUME NEW u \in User, SendBroken(u) PROVE ConnTypeOK'
    BY <1>16 DEF SendBroken, TypeOK, ConnTypeOK, connVars, Thread
  <1>17. ASSUME NEW u \in User, NEW c \in UserConn, StartAddNet(u, c) PROVE ConnTypeOK'
    <2>1. ref' \in [Conn -> Int]
      <3>1. ref' = [ref EXCEPT ![c] = 1]
        BY <1>17 DEF StartAddNet, reconnect, Made
      <3>2. ref \in [Conn -> Int]
        BY DEF TypeOK, ConnTypeOK
      <3>3. 1 \in Int
        OBVIOUS
      <3>4. QED
        BY <3>1, <3>2, <3>3, Zenon
    <2>4. cb' \in [Conn -> BOOLEAN]
      BY <1>17 DEF StartAddNet, reconnect, Made, TypeOK, ConnTypeOK
    <2>2. mem' \in [Conn -> {"none", "new", "live", "freed"}]
      BY <1>17 DEF StartAddNet, reconnect, TypeOK, ConnTypeOK
    <2>3. QED
      BY <1>17, <2>1, <2>2, <2>4 DEF StartAddNet, reconnect, TypeOK, ConnTypeOK
  <1>18. QED
    BY <1>1, <1>2, <1>3, <1>4, <1>5, <1>6, <1>7, <1>8, <1>9, <1>10, <1>11, <1>12,
       <1>13, <1>14, <1>15, <1>16, <1>17 DEF Next, LoopStep, LoopWork, LoopWait, terminate,
       UserStep, UserCall, Undefined, Thread, Conn
-----------------------------------------------------------------------------
(* Control *)

\* Threads stay at their own program points.
LEMMA PcStep ==
    ASSUME TypeOK, PcInv, [Next]_vars
    PROVE  PcInv'
  <1>1. ASSUME NEW t \in Thread, TermEnter(t) \/ remove_net(t) \/ RemoveWakeup(t)
               \/ TermUnlink(t) \/ OnClose(t) \/ OnCloseClear(t) \/ TermReturn(t)
               \/ Unlock(t)
        PROVE  PcInv'
    BY <1>1 DEF TermEnter, remove_net, release, RemoveWakeup, TermUnlink, OnClose,
       OnCloseClear, TermReturn, Return, Unlock, TypeOK, ThreadTypeOK, PcInv,
       Goto, Thread, LoopPc, ServePc, TermPc, UserPc
  <1>2. ASSUME NEW t \in Thread, UseAfterFree(t) \/ NullLoop(t) PROVE PcInv'
    BY <1>2 DEF UseAfterFree, Fault, NullLoop, TypeOK, ThreadTypeOK, PcInv, Goto,
       Thread, LoopPc, ServePc, TermPc, UserPc
  <1>3. ASSUME LoopCheck \/ process_task \/ RunTask \/ RunDone \/ SnapLock \/
               SnapUnlock \/ SelectTimeout \/ SelectReady
        PROVE  PcInv'
    BY <1>3 DEF LoopCheck, process_task, RunTask, RunDone, SnapLock, SnapUnlock,
       SelectTimeout, SelectReady, TypeOK, ThreadTypeOK, PcInv, Goto, Thread,
       LoopPc, ServePc, TermPc, UserPc
  <1>4. ASSUME SelectError \/ OnSendNothing \/ OnSendSome \/ OnSendBroken \/
               LoopRelease \/ ServeDone \/ remove_all \/ UNCHANGED vars
        PROVE  PcInv'
    BY <1>4 DEF SelectError, OnSendNothing, OnSendSome, OnSendBroken, LoopRelease, ReleaseReused,
       release, ServeDone, remove_all, vars, TypeOK, ThreadTypeOK, PcInv, Goto,
       Thread, LoopPc, ServePc, TermPc, UserPc
  <1>5. ASSUME NEW c \in Conn, SnapWalk(c) \/ ServeSkip(c) \/ OnReadKeep(c) \/ OnReadBroken(c)
               \/ AcceptBlocks(c) \/ AcceptFails(c)
        PROVE  PcInv'
    BY <1>5 DEF SnapWalk, ServeSkip, OnReadKeep, OnReadBroken, AcceptBlocks, AcceptFails, AtAccept, TypeOK, ThreadTypeOK,
       PcInv, Goto, Thread, LoopPc, ServePc, TermPc, UserPc
  <1>6. ASSUME NEW c \in Acceptor, NEW n \in AccConn, OnAccept(c, n) PROVE PcInv'
    BY <1>6 DEF OnAccept, AtAccept, Made, TypeOK, ThreadTypeOK, PcInv, Goto, Thread, LoopPc,
       ServePc, TermPc, UserPc
  <1>7. ASSUME NEW u \in User, add_net(u) \/ wakeup(u) \/ StartAddTask(u) \/
               add_task(u) \/ stop(u) \/ send_msg(u) \/ SendBroken(u) \/
               UseDeadLoop(u)
        PROVE  PcInv'
    BY <1>7, ZenonT(40) DEF add_net, wakeup, Return, StartAddTask, add_task, stop, send_msg,
       SendBroken, UseDeadLoop, Fault, TypeOK, ThreadTypeOK, PcInv, Goto, Thread,
       LoopPc, ServePc, TermPc, UserPc
  <1>8. ASSUME NEW u \in User, NEW c \in UserConn, StartAddNet(u, c) \/ reconnect(u, c) \/
               StartTerminate(u, c) \/ StartSend(u, c) \/ UseStale(u, c)
        PROVE  PcInv'
    BY <1>8, ZenonT(40) DEF StartAddNet, reconnect, Made, StartTerminate, StartSend, UseStale, Fault,
       TypeOK, ThreadTypeOK, PcInv, Goto, Thread, LoopPc, ServePc, TermPc, UserPc
  <1>9. QED
    BY <1>1, <1>2, <1>3, <1>4, <1>5, <1>6, <1>7, <1>8 DEF Next, LoopStep,
       LoopWork, LoopWait, terminate, UserStep, UserCall, Undefined, Thread, Conn

\* The connection a thread works on stays valid while it works on it.
LEMMA CurStep ==
    ASSUME TypeOK, PcInv, CurInv, [Next]_vars
    PROVE  CurInv'
  <1>1. ASSUME NEW t \in Thread, TermEnter(t) \/ remove_net(t) \/ RemoveWakeup(t)
               \/ TermUnlink(t) \/ OnClose(t) \/ OnCloseClear(t) \/ TermReturn(t)
               \/ Unlock(t)
        PROVE  CurInv'
    BY <1>1 DEF TermEnter, remove_net, release, RemoveWakeup, TermUnlink, OnClose,
       OnCloseClear, TermReturn, Return, Unlock, TypeOK, ThreadTypeOK, PcInv,
       CurInv, Goto, Thread, pollVars, LoopPc, ServePc, TermPc, UserPc
  <1>2. ASSUME NEW t \in Thread, UseAfterFree(t) \/ NullLoop(t) PROVE CurInv'
    BY <1>2 DEF UseAfterFree, Fault, NullLoop, TypeOK, ThreadTypeOK, PcInv, CurInv,
       Goto, Thread, pollVars, LoopPc, ServePc, TermPc, UserPc
  <1>3. ASSUME LoopCheck \/ process_task \/ RunTask \/ RunDone \/ SnapLock \/
               SnapUnlock \/ SelectTimeout \/ SelectReady
        PROVE  CurInv'
    BY <1>3 DEF LoopCheck, process_task, RunTask, RunDone, SnapLock, SnapUnlock,
       SelectTimeout, SelectReady, TypeOK, ThreadTypeOK, PcInv, CurInv, Goto,
       Thread, pollVars, LoopPc, ServePc, TermPc, UserPc
  <1>4. ASSUME SelectError \/ OnSendNothing \/ OnSendSome \/ OnSendBroken \/
               LoopRelease \/ ServeDone \/ remove_all \/ UNCHANGED vars
        PROVE  CurInv'
    BY <1>4 DEF SelectError, OnSendNothing, OnSendSome, OnSendBroken, LoopRelease, ReleaseReused,
       release, ServeDone, remove_all, vars, TypeOK, ThreadTypeOK, PcInv, CurInv,
       Goto, Thread, pollVars, LoopPc, ServePc, TermPc, UserPc
  <1>5. ASSUME NEW c \in Conn, SnapWalk(c) \/ ServeSkip(c) \/ OnReadKeep(c) \/ OnReadBroken(c)
               \/ AcceptBlocks(c) \/ AcceptFails(c)
        PROVE  CurInv'
    BY <1>5 DEF SnapWalk, ServeSkip, OnReadKeep, OnReadBroken, AcceptBlocks, AcceptFails, AtAccept, TypeOK, ThreadTypeOK,
       PcInv, CurInv, Goto, Thread, pollVars, LoopPc, ServePc, TermPc, UserPc
  <1>6. ASSUME NEW c \in Acceptor, NEW n \in AccConn, OnAccept(c, n) PROVE CurInv'
    BY <1>6 DEF OnAccept, AtAccept, Made, TypeOK, ThreadTypeOK, PcInv, CurInv, Goto, Thread,
       pollVars, LoopPc, ServePc, TermPc, UserPc
  <1>7. ASSUME NEW u \in User, add_net(u) \/ wakeup(u) \/ StartAddTask(u) \/
               add_task(u) \/ stop(u) \/ send_msg(u) \/ SendBroken(u) \/
               UseDeadLoop(u)
        PROVE  CurInv'
    BY <1>7, ZenonT(40) DEF add_net, wakeup, Return, StartAddTask, add_task, stop, send_msg,
       SendBroken, UseDeadLoop, Fault, TypeOK, ThreadTypeOK, PcInv, CurInv, Goto,
       Thread, pollVars, LoopPc, ServePc, TermPc, UserPc
  <1>8. ASSUME NEW u \in User, NEW c \in UserConn, StartAddNet(u, c) \/ reconnect(u, c) \/
               StartTerminate(u, c) \/ StartSend(u, c) \/ UseStale(u, c)
        PROVE  CurInv'
    BY <1>8, ZenonT(40) DEF StartAddNet, reconnect, Made, StartTerminate, StartSend, UseStale, Fault,
       TypeOK, ThreadTypeOK, PcInv, CurInv, Goto, Thread, pollVars, LoopPc,
       ServePc, TermPc, UserPc
  <1>9. QED
    BY <1>1, <1>2, <1>3, <1>4, <1>5, <1>6, <1>7, <1>8 DEF Next, LoopStep,
       LoopWork, LoopWait, terminate, UserStep, UserCall, Undefined, Thread, Conn

\* The walk under _lck sees every connection once; nobody else changes _conns.
LEMMA SnapStep ==
    ASSUME TypeOK, PcInv, CurInv, SnapInv, [Next]_vars
    PROVE  SnapInv'
  <1>1. ASSUME LoopCheck \/ process_task \/ RunTask \/ RunDone \/ SnapLock \/
               SnapUnlock \/ SelectTimeout \/ SelectReady
        PROVE  SnapInv'
    BY <1>1 DEF LoopCheck, process_task, RunTask, RunDone, SnapLock, SnapUnlock,
       SelectTimeout, SelectReady, TypeOK, ThreadTypeOK, LoopTypeOK, PcInv,
       SnapInv, Goto, Thread, pollVars, LckFree, LoopPc, ServePc, TermPc, UserPc
  <1>2. ASSUME SelectError \/ OnSendNothing \/ OnSendSome \/ OnSendBroken \/
               LoopRelease \/ ServeDone \/ remove_all \/ UNCHANGED vars
        PROVE  SnapInv'
    BY <1>2 DEF SelectError, OnSendNothing, OnSendSome, OnSendBroken, LoopRelease, ReleaseReused,
       release, ServeDone, remove_all, vars, TypeOK, ThreadTypeOK, LoopTypeOK,
       PcInv, SnapInv, Goto, Thread, pollVars, LckFree, LoopPc, ServePc, TermPc,
       UserPc
  <1>3. ASSUME NEW c \in Conn, SnapWalk(c) \/ ServeSkip(c) \/ OnReadKeep(c) \/ OnReadBroken(c)
               \/ AcceptBlocks(c) \/ AcceptFails(c)
        PROVE  SnapInv'
    BY <1>3 DEF SnapWalk, ServeSkip, OnReadKeep, OnReadBroken, AcceptBlocks, AcceptFails, AtAccept, TypeOK, ThreadTypeOK,
       LoopTypeOK, PcInv, SnapInv, Goto, Thread, pollVars, LckFree, LoopPc,
       ServePc, TermPc, UserPc
  <1>4. ASSUME NEW c \in Acceptor, NEW n \in AccConn, OnAccept(c, n) PROVE SnapInv'
    BY <1>4 DEF OnAccept, AtAccept, Made, TypeOK, ThreadTypeOK, LoopTypeOK, PcInv, SnapInv,
       Goto, Thread, pollVars, LckFree, LoopPc, ServePc, TermPc, UserPc
  <1>5. ASSUME NEW u \in User, add_net(u) \/ wakeup(u) \/ StartAddTask(u) \/
               add_task(u) \/ stop(u) \/ send_msg(u) \/ SendBroken(u) \/
               UseDeadLoop(u)
        PROVE  SnapInv'
    BY <1>5 DEF add_net, wakeup, Return, StartAddTask, add_task, stop, send_msg,
       SendBroken, UseDeadLoop, Fault, TypeOK, ThreadTypeOK, LoopTypeOK, PcInv,
       SnapInv, Goto, Thread, pollVars, LckFree, LoopPc, ServePc, TermPc, UserPc
  <1>6. ASSUME NEW u \in User, NEW c \in UserConn, StartAddNet(u, c) \/ reconnect(u, c) \/
               StartTerminate(u, c) \/ StartSend(u, c) \/ UseStale(u, c)
        PROVE  SnapInv'
    BY <1>6 DEF StartAddNet, reconnect, Made, StartTerminate, StartSend, UseStale, Fault,
       TypeOK, ThreadTypeOK, LoopTypeOK, PcInv, SnapInv, Goto, Thread, pollVars,
       LckFree, LoopPc, ServePc, TermPc, UserPc
  <1>7. ASSUME NEW t \in Thread, UseAfterFree(t) \/ NullLoop(t) PROVE SnapInv'
    BY <1>7 DEF UseAfterFree, Fault, NullLoop, TypeOK, ThreadTypeOK, LoopTypeOK,
       PcInv, SnapInv, Goto, Thread, pollVars, LckFree, LoopPc, ServePc, TermPc,
       UserPc
  <1>8. ASSUME NEW t \in Thread, TermEnter(t) PROVE SnapInv'
    BY <1>8 DEF TermEnter, TypeOK, ThreadTypeOK, LoopTypeOK, PcInv, SnapInv, Goto,
       Thread, pollVars, LckFree, LoopPc, ServePc, TermPc, UserPc
  <1>9. ASSUME NEW t \in Thread, remove_net(t) PROVE SnapInv'
    BY <1>9 DEF remove_net, release, TypeOK, ThreadTypeOK, LoopTypeOK, PcInv,
       SnapInv, Goto, Thread, pollVars, LckFree, LoopPc, ServePc, TermPc, UserPc
  <1>10. ASSUME NEW t \in Thread, RemoveWakeup(t) PROVE SnapInv'
    BY <1>10 DEF RemoveWakeup, TypeOK, ThreadTypeOK, LoopTypeOK, PcInv, SnapInv,
       Goto, Thread, pollVars, LckFree, LoopPc, ServePc, TermPc, UserPc
  <1>11. ASSUME NEW t \in Thread, TermUnlink(t) PROVE SnapInv'
    BY <1>11 DEF TermUnlink, TypeOK, ThreadTypeOK, LoopTypeOK, PcInv, SnapInv, Goto,
       Thread, pollVars, LckFree, LoopPc, ServePc, TermPc, UserPc
  <1>12. ASSUME NEW t \in Thread, OnClose(t) PROVE SnapInv'
    BY <1>12 DEF OnClose, TypeOK, ThreadTypeOK, LoopTypeOK, PcInv, SnapInv, Goto,
       Thread, pollVars, LckFree, LoopPc, ServePc, TermPc, UserPc
  <1>13. ASSUME NEW t \in Thread, OnCloseClear(t) PROVE SnapInv'
    BY <1>13 DEF OnCloseClear, TypeOK, ThreadTypeOK, LoopTypeOK, PcInv, SnapInv,
       Goto, Thread, pollVars, LckFree, LoopPc, ServePc, TermPc, UserPc
  <1>14. ASSUME NEW t \in Thread, TermReturn(t) PROVE SnapInv'
    <2>1. CASE t = Loop
      BY <1>14, <2>1 DEF TermReturn, Return, Goto, TypeOK, ThreadTypeOK, SnapInv, Thread,
         pollVars, LoopPc, TermPc, ServePc
    <2>2. CASE t # Loop
      <3>1. pc'[Loop] = pc[Loop] /\ UNCHANGED <<conns, todo, snap>>
        BY <1>14, <2>2 DEF TermReturn, Return, Goto, TypeOK, ThreadTypeOK, Thread, pollVars
      <3>2. QED
        BY <3>1 DEF SnapInv
    <2>3. QED
      BY <2>1, <2>2
  <1>15. ASSUME NEW t \in Thread, Unlock(t) PROVE SnapInv'
    <2>1. CASE t = Loop
      BY <1>15, <2>1 DEF Unlock, Return, Goto, TypeOK, ThreadTypeOK, SnapInv, Thread,
         pollVars, LoopPc, TermPc, ServePc
    <2>2. CASE t # Loop
      <3>1. pc'[Loop] = pc[Loop] /\ UNCHANGED <<conns, todo, snap>>
        BY <1>15, <2>2 DEF Unlock, Return, Goto, TypeOK, ThreadTypeOK, Thread, pollVars
      <3>2. QED
        BY <3>1 DEF SnapInv
    <2>3. QED
      BY <2>1, <2>2
  <1>16. QED
    BY <1>1, <1>2, <1>3, <1>4, <1>5, <1>6, <1>7, <1>8, <1>9, <1>10, <1>11, <1>12,
       <1>13, <1>14, <1>15 DEF Next, LoopStep, LoopWork, LoopWait, terminate, UserStep,
       UserCall, Undefined, Thread, Conn
-----------------------------------------------------------------------------
(* Reference counts *)

\* add_net works on a connection that was made.
LEMMA AddStep ==
    ASSUME RefInv, [Next]_vars
    PROVE  AddInv'
  <1>1. ASSUME NEW t \in Thread, TermEnter(t) \/ remove_net(t) \/ RemoveWakeup(t)
               \/ TermUnlink(t) \/ OnClose(t) \/ OnCloseClear(t) \/ TermReturn(t)
               \/ Unlock(t)
        PROVE  AddInv'
    BY <1>1 DEF TermEnter, remove_net, release, RemoveWakeup, TermUnlink, OnClose,
       OnCloseClear, TermReturn, Return, Unlock, RefInv, TypeOK, ThreadTypeOK,
       ConnTypeOK, PcInv, CurInv, HeldInv, AddInv, Goto, Thread, connVars, Conn,
       LoopPc, ServePc, TermPc, UserPc
  <1>2. ASSUME NEW t \in Thread, UseAfterFree(t) \/ NullLoop(t) PROVE AddInv'
    BY <1>2, ZenonT(40) DEF UseAfterFree, Fault, NullLoop, RefInv, TypeOK, ThreadTypeOK,
       ConnTypeOK, PcInv, CurInv, HeldInv, AddInv, Goto, Thread, connVars, Conn,
       LoopPc, ServePc, TermPc, UserPc
  <1>3. ASSUME LoopCheck \/ process_task \/ RunTask \/ RunDone \/ SnapLock \/
               SnapUnlock \/ SelectTimeout \/ SelectReady
        PROVE  AddInv'
    BY <1>3 DEF LoopCheck, process_task, RunTask, RunDone, SnapLock, SnapUnlock,
       SelectTimeout, SelectReady, RefInv, TypeOK, ThreadTypeOK, ConnTypeOK,
       PcInv, CurInv, HeldInv, AddInv, Goto, Thread, connVars, Conn, LoopPc,
       ServePc, TermPc, UserPc
  <1>4. ASSUME SelectError \/ OnSendNothing \/ OnSendSome \/ OnSendBroken \/
               LoopRelease \/ ServeDone \/ remove_all \/ UNCHANGED vars
        PROVE  AddInv'
    BY <1>4 DEF SelectError, OnSendNothing, OnSendSome, OnSendBroken, LoopRelease, ReleaseReused,
       release, ServeDone, remove_all, vars, RefInv, TypeOK, ThreadTypeOK,
       ConnTypeOK, PcInv, CurInv, HeldInv, AddInv, Goto, Thread, connVars, Conn,
       LoopPc, ServePc, TermPc, UserPc
  <1>5. ASSUME NEW c \in Conn, SnapWalk(c) \/ ServeSkip(c) \/ OnReadKeep(c) \/ OnReadBroken(c)
               \/ AcceptBlocks(c) \/ AcceptFails(c)
        PROVE  AddInv'
    BY <1>5 DEF SnapWalk, ServeSkip, OnReadKeep, OnReadBroken, AcceptBlocks, AcceptFails, AtAccept, RefInv, TypeOK,
       ThreadTypeOK, ConnTypeOK, PcInv, CurInv, HeldInv, AddInv, Goto, Thread,
       connVars, Conn, LoopPc, ServePc, TermPc, UserPc
  <1>6. ASSUME NEW c \in Acceptor, NEW n \in AccConn, OnAccept(c, n) PROVE AddInv'
    BY <1>6 DEF OnAccept, AtAccept, Made, RefInv, TypeOK, ThreadTypeOK, ConnTypeOK, PcInv,
       CurInv, HeldInv, AddInv, Goto, Thread, connVars, Conn, LoopPc, ServePc,
       TermPc, UserPc
  <1>7. ASSUME NEW u \in User, stop(u) PROVE AddInv'
    BY <1>7 DEF stop, RefInv, TypeOK, ThreadTypeOK, ConnTypeOK, PcInv, CurInv,
       HeldInv, AddInv, Goto, Thread, connVars, Conn, LoopPc, ServePc, TermPc,
       UserPc
  <1>8. ASSUME NEW u \in User, NEW c \in UserConn, UseStale(u, c) PROVE AddInv'
    BY <1>8 DEF UseStale, Fault, RefInv, TypeOK, ThreadTypeOK, ConnTypeOK, PcInv,
       CurInv, HeldInv, AddInv, Goto, Thread, connVars, Conn, LoopPc, ServePc,
       TermPc, UserPc
  <1>9. ASSUME NEW u \in User, add_net(u) PROVE AddInv'
    BY <1>9 DEF add_net, RefInv, TypeOK, ThreadTypeOK, ConnTypeOK, PcInv, CurInv,
       HeldInv, AddInv, Goto, Thread, connVars, Conn, LoopPc, ServePc, TermPc,
       UserPc
  <1>10. ASSUME NEW u \in User, wakeup(u) PROVE AddInv'
    BY <1>10 DEF wakeup, Return, RefInv, TypeOK, ThreadTypeOK, ConnTypeOK, PcInv,
       CurInv, HeldInv, AddInv, Goto, Thread, connVars, Conn, LoopPc, ServePc,
       TermPc, UserPc
  <1>11. ASSUME NEW u \in User, StartAddTask(u) PROVE AddInv'
    BY <1>11 DEF StartAddTask, RefInv, TypeOK, ThreadTypeOK, ConnTypeOK, PcInv,
       CurInv, HeldInv, AddInv, Goto, Thread, connVars, Conn, LoopPc, ServePc,
       TermPc, UserPc
  <1>12. ASSUME NEW u \in User, add_task(u) PROVE AddInv'
    BY <1>12 DEF add_task, RefInv, TypeOK, ThreadTypeOK, ConnTypeOK, PcInv, CurInv,
       HeldInv, AddInv, Goto, Thread, connVars, Conn, LoopPc, ServePc, TermPc,
       UserPc
  <1>13. ASSUME NEW u \in User, send_msg(u) PROVE AddInv'
    BY <1>13 DEF send_msg, Return, RefInv, TypeOK, ThreadTypeOK, ConnTypeOK, PcInv,
       CurInv, HeldInv, AddInv, Goto, Thread, connVars, Conn, LoopPc, ServePc,
       TermPc, UserPc
  <1>14. ASSUME NEW u \in User, SendBroken(u) PROVE AddInv'
    BY <1>14 DEF SendBroken, RefInv, TypeOK, ThreadTypeOK, ConnTypeOK, PcInv, CurInv,
       HeldInv, AddInv, Goto, Thread, connVars, Conn, LoopPc, ServePc, TermPc,
       UserPc
  <1>15. ASSUME NEW u \in User, NEW c \in UserConn, StartAddNet(u, c) PROVE AddInv'
    BY <1>15 DEF StartAddNet, reconnect, Made, RefInv, TypeOK, ThreadTypeOK, ConnTypeOK, PcInv,
       CurInv, HeldInv, AddInv, Goto, Thread, connVars, Conn, LoopPc, ServePc,
       TermPc, UserPc
  <1>16. ASSUME NEW u \in User, NEW c \in UserConn, StartTerminate(u, c) PROVE AddInv'
    BY <1>16 DEF StartTerminate, RefInv, TypeOK, ThreadTypeOK, ConnTypeOK, PcInv,
       CurInv, HeldInv, AddInv, Goto, Thread, connVars, Conn, LoopPc, ServePc,
       TermPc, UserPc
  <1>17. ASSUME NEW u \in User, NEW c \in UserConn, StartSend(u, c) PROVE AddInv'
    BY <1>17 DEF StartSend, RefInv, TypeOK, ThreadTypeOK, ConnTypeOK, PcInv, CurInv,
       HeldInv, AddInv, Goto, Thread, connVars, Conn, LoopPc, ServePc, TermPc,
       UserPc
  <1>19. ASSUME NEW u \in User, NEW c \in UserConn, reconnect(u, c) PROVE AddInv'
    BY <1>19 DEF reconnect, RefInv, TypeOK, ThreadTypeOK, ConnTypeOK, PcInv, CurInv,
       AddInv, Goto, Thread, Conn, LoopPc, ServePc, TermPc, UserPc
  <1>18. ASSUME NEW u \in User, UseDeadLoop(u) PROVE AddInv'
    BY <1>18 DEF UseDeadLoop, Fault, RefInv, TypeOK, ThreadTypeOK, ConnTypeOK, PcInv,
       CurInv, HeldInv, AddInv, Goto, Thread, connVars, Conn, LoopPc, ServePc,
       TermPc, UserPc
  <1>20. QED
    BY <1>1, <1>2, <1>3, <1>4, <1>5, <1>6, <1>7, <1>8, <1>9, <1>10, <1>11, <1>12,
       <1>13, <1>14, <1>15, <1>16, <1>17, <1>18, <1>19 DEF Next, LoopStep, LoopWork, LoopWait,
       terminate, UserStep, UserCall, Undefined, Thread, Conn

\* Steps that leave the holders of the connections alone.
LEMMA HeldFrame ==
    ASSUME HeldInv, UNCHANGED <<mem, linked, conns, snap, reused>>
    PROVE  HeldInv'
  BY DEF HeldInv

\* The references of a connection that is alive and was brought to the loop.
LEMMA LiveRef ==
    ASSUME RefInv, NEW c \in Conn, mem[c] = "live"
    PROVE  /\ ref[c] \in Int /\ ref[c] > 0
           /\ ref[c] = (IF c \in conns THEN 1 ELSE 0) + (IF c \in snap THEN 1 ELSE 0)
                        - (IF c \in reused THEN 1 ELSE 0)
  <1>1. ref[c] \in Int /\ RefExactAt(c)
    BY DEF RefInv, TypeOK, ConnTypeOK, RefExact
  <1>2. QED
    BY <1>1 DEF RefExactAt, Count

\* What the loop holds is alive.
LEMMA HeldStep ==
    ASSUME RefInv, [Next]_vars
    PROVE  HeldInv'
  <1>1. ASSUME NEW t \in Thread, remove_net(t) PROVE HeldInv'
    <2> DEFINE c == cur[t]
    <2>1. c \in Conn
      BY <1>1, CurConn DEF remove_net, RefInv, TermPc
    <2>2. CASE c \notin conns
      BY <1>1, <2>2, HeldFrame DEF remove_net, pollVars, RefInv
    <2>3. CASE c \in conns
      <3>1. /\ mem' = [mem EXCEPT ![c] = IF ref[c] = 1 THEN "freed" ELSE @]
            /\ linked' = [linked EXCEPT ![c] = FALSE]
            /\ conns' = conns \ {c}
            /\ UNCHANGED <<snap, reused>>
        BY <1>1, <2>3 DEF remove_net, release, pollVars
      <3>2. mem[c] = "live" /\ (c \in snap \ reused => ref[c] = 2)
        <4>1. mem[c] = "live"
          BY <1>1, <2>3 DEF remove_net, Alive, RefInv, HeldInv
        <4>2. QED
          BY <2>1, <2>3, <4>1, LiveRef
      <3>3. \A d \in Conn : mem'[d] = IF d = c /\ ref[c] = 1 THEN "freed" ELSE mem[d]
        BY <2>1, <3>1 DEF RefInv, TypeOK, ConnTypeOK
      <3>4. \A d \in Conn : linked'[d] = IF d = c THEN FALSE ELSE linked[d]
        BY <2>1, <3>1 DEF RefInv, TypeOK, ConnTypeOK
      <3>5. ASSUME NEW d \in conns' \cup snap'
            PROVE  mem'[d] = "live" \/ (mem'[d] = "freed" /\ d \in reused')
        <4>1. d \in conns \cup snap /\ d \in Conn /\ (d = c => c \in snap)
          BY <3>1, <3>5 DEF RefInv, TypeOK, LoopTypeOK
        <4>2. mem[d] = "live" \/ (mem[d] = "freed" /\ d \in reused)
          BY <4>1 DEF RefInv, HeldInv
        <4>3. QED
          BY <3>1, <3>2, <3>3, <4>1, <4>2
      <3>6. ASSUME NEW d \in Conn, linked'[d] PROVE d \in conns' /\ mem'[d] = "live"
        <4>1. d # c /\ linked[d]
          BY <3>4, <3>6
        <4>2. d \in conns /\ mem[d] = "live"
          BY <4>1 DEF RefInv, HeldInv
        <4>3. QED
          BY <3>1, <3>3, <4>1, <4>2
      <3>7. ASSUME NEW d \in reused' PROVE d \in UserConn /\ mem'[d] \in {"live", "freed"}
        <4>1. d \in UserConn /\ d \in Conn /\ mem[d] \in {"live", "freed"}
          BY <3>1, <3>7 DEF RefInv, HeldInv, Conn
        <4>2. QED
          BY <3>3, <4>1
      <3>8. QED
        BY <3>5, <3>6, <3>7 DEF HeldInv
    <2>4. QED
      BY <2>2, <2>3
  <1>2. ASSUME NEW t \in Thread, TermUnlink(t) PROVE HeldInv'
    <2>1. cur[t] \in Conn
      BY <1>2, CurConn DEF TermUnlink, RefInv, TermPc
    <2>2. QED
      BY <1>2, <2>1 DEF TermUnlink, RefInv, TypeOK, ConnTypeOK, HeldInv, pollVars
  <1>3. ASSUME LoopRelease PROVE HeldInv'
    <2> DEFINE c == cur[Loop]
    <2>1. c \in Conn /\ c \in snap /\ mem[c] = "live"
      BY <1>3 DEF LoopRelease, Alive, RefInv, CurInv, HeldInv, ServePc, TypeOK, LoopTypeOK
    <2>2. c \in conns \ reused => ref[c] = 2
      BY <2>1, LiveRef
    <2>3. snap' = snap \ {c} /\ UNCHANGED reused
      BY <1>3 DEF LoopRelease
    <2>4. CASE ref[c] = 1 /\ linked[c]
      <3>1. /\ conns' = conns \ {c}
            /\ mem' = [mem EXCEPT ![c] = "freed"]
            /\ linked' = [linked EXCEPT ![c] = FALSE]
        BY <1>3, <2>4 DEF LoopRelease, ReleaseReused
      <3>3. \A d \in Conn : /\ mem'[d] = IF d = c THEN "freed" ELSE mem[d]
                           /\ linked'[d] = IF d = c THEN FALSE ELSE linked[d]
        BY <2>1, <3>1 DEF RefInv, TypeOK, ConnTypeOK
      <3>4. ASSUME NEW d \in conns' \cup snap'
            PROVE  mem'[d] = "live" \/ (mem'[d] = "freed" /\ d \in reused')
        <4>1. d \in conns \cup snap /\ d \in Conn /\ d # c
          BY <2>3, <3>1, <3>4 DEF RefInv, TypeOK, LoopTypeOK
        <4>2. mem[d] = "live" \/ (mem[d] = "freed" /\ d \in reused)
          BY <4>1 DEF RefInv, HeldInv
        <4>3. QED
          BY <2>3, <3>3, <4>1, <4>2
      <3>5. ASSUME NEW d \in Conn, linked'[d] PROVE d \in conns' /\ mem'[d] = "live"
        BY <3>1, <3>3, <3>5 DEF RefInv, HeldInv
      <3>6. ASSUME NEW d \in reused' PROVE d \in UserConn /\ mem'[d] \in {"live", "freed"}
        BY <2>3, <3>3, <3>6 DEF RefInv, HeldInv, Conn
      <3>7. QED
        BY <3>4, <3>5, <3>6 DEF HeldInv
    <2>5. CASE ~(ref[c] = 1 /\ linked[c])
      <3>1. UNCHANGED <<conns, linked>>
            /\ \A d \in Conn : mem'[d] = IF d = c /\ ref[c] = 1 THEN "freed" ELSE mem[d]
        BY <1>3, <2>1, <2>5 DEF LoopRelease, release, RefInv, TypeOK, ConnTypeOK
      <3>2. ASSUME NEW d \in conns' \cup snap'
            PROVE  mem'[d] = "live" \/ (mem'[d] = "freed" /\ d \in reused')
        <4>1. d \in conns \cup snap /\ d \in Conn /\ (d = c => c \in conns)
          BY <2>3, <3>1, <3>2 DEF RefInv, TypeOK, LoopTypeOK
        <4>2. mem[d] = "live" \/ (mem[d] = "freed" /\ d \in reused)
          BY <4>1 DEF RefInv, HeldInv
        <4>3. QED
          BY <2>2, <2>3, <3>1, <4>1, <4>2
      <3>3. ASSUME NEW d \in Conn, linked'[d] PROVE d \in conns' /\ mem'[d] = "live"
        BY <2>5, <3>1, <3>3 DEF RefInv, HeldInv
      <3>4. ASSUME NEW d \in reused' PROVE d \in UserConn /\ mem'[d] \in {"live", "freed"}
        BY <2>3, <3>1, <3>4 DEF RefInv, HeldInv, Conn
      <3>5. QED
        BY <3>2, <3>3, <3>4 DEF HeldInv
    <2>6. QED
      BY <2>4, <2>5
  <1>4. ASSUME ServeDone PROVE HeldInv'
    BY <1>4, HeldFrame DEF ServeDone, connVars, RefInv
  <1>5. ASSUME remove_all PROVE HeldInv'
    <2>1. snap = {} /\ conns' = {} /\ snap' = {} /\ reused' = reused
      BY <1>5 DEF remove_all, RefInv, SnapInv, LoopPc, pollVars
    <2>2. \A c \in Conn : linked'[c] => linked[c] /\ c \notin conns
      BY <1>5, Zenon DEF remove_all
    <2>3. \A c \in Conn : mem'[c] = IF c \in conns /\ ref[c] = 1 THEN "freed" ELSE mem[c]
      BY <1>5 DEF remove_all
    <2>4. QED
      BY <2>1, <2>2, <2>3 DEF RefInv, TypeOK, LoopTypeOK, HeldInv
  <1>6. ASSUME NEW c \in Conn, SnapWalk(c) PROVE HeldInv'
    <2>1. c \in conns
      BY <1>6 DEF SnapWalk, RefInv, SnapInv
    <2>2. QED
      BY <1>6, <2>1 DEF SnapWalk, RefInv, HeldInv
  <1>7. ASSUME NEW c \in Acceptor, NEW n \in AccConn, OnAccept(c, n) PROVE HeldInv'
    <2>1. n \in Conn /\ n \notin conns \cup snap \cup reused /\ ~linked[n]
      BY <1>7 DEF OnAccept, AtAccept, RefInv, HeldInv, Conn
    <2>2. snap' = snap /\ reused' = reused /\ \A d \in Conn \ {n} : mem'[d] = mem[d] /\ linked'[d] = linked[d]
      BY <1>7 DEF OnAccept, AtAccept, RefInv, TypeOK, ConnTypeOK, pollVars
    <2>3. CASE running
      <3>1. conns' = conns \cup {n} /\ mem'[n] = "live"
        BY <1>7, <2>1, <2>3 DEF OnAccept, AtAccept, RefInv, TypeOK, ConnTypeOK
      <3>2. QED
        BY <2>1, <2>2, <3>1 DEF RefInv, TypeOK, LoopTypeOK, HeldInv
    <2>4. CASE ~running
      <3>1. conns' = conns /\ linked' = linked
        BY <1>7, <2>4 DEF OnAccept, AtAccept
      <3>2. QED
        BY <2>1, <2>2, <3>1 DEF RefInv, TypeOK, LoopTypeOK, HeldInv
    <2>5. QED
      BY <2>3, <2>4
  <1>8. ASSUME NEW u \in User, add_net(u) PROVE HeldInv'
    <2> DEFINE c == cur[u]
    <2>1. c \in Conn /\ c \in UserConn
      BY <1>8, CurConn DEF add_net, Thread, RefInv, CurInv
    <2>2. /\ \A d \in Conn : mem'[d] = IF d = c THEN "live" ELSE mem[d]
          /\ \A d \in Conn : linked'[d] = IF d = c THEN TRUE ELSE linked[d]
          /\ conns' = conns \cup {c}
          /\ snap' = snap
          /\ reused' = reused \/ reused' = reused \cup {c}
      BY <1>8, <2>1 DEF add_net, pollVars, RefInv, TypeOK, ConnTypeOK
    <2>3. ASSUME NEW d \in conns' \cup snap'
          PROVE  mem'[d] = "live" \/ (mem'[d] = "freed" /\ d \in reused')
      <3>1. d = c \/ (d \in conns \cup snap /\ d \in Conn)
        BY <2>2, <2>3 DEF RefInv, TypeOK, LoopTypeOK
      <3>2. d # c => mem[d] = "live" \/ (mem[d] = "freed" /\ d \in reused)
        BY <3>1 DEF RefInv, HeldInv
      <3>3. QED
        BY <2>1, <2>2, <3>1, <3>2
    <2>4. ASSUME NEW d \in Conn, linked'[d] PROVE d \in conns' /\ mem'[d] = "live"
      BY <2>2, <2>4 DEF RefInv, HeldInv
    <2>5. ASSUME NEW d \in reused' PROVE d \in UserConn /\ mem'[d] \in {"live", "freed"}
      BY <2>1, <2>2, <2>5 DEF RefInv, HeldInv, Conn
    <2>6. QED
      BY <2>3, <2>4, <2>5 DEF HeldInv
  <1>9. ASSUME NEW u \in User, NEW c \in UserConn, StartAddNet(u, c) PROVE HeldInv'
    <2>1. c \in Conn
      BY DEF Conn
    <2>2. QED
      BY <1>9, <2>1 DEF StartAddNet, reconnect, RefInv, TypeOK, LoopTypeOK, ConnTypeOK, HeldInv, pollVars
  <1>10. CASE UNCHANGED <<mem, linked, conns, snap, reused>>
    BY <1>10, HeldFrame DEF RefInv
  <1>11. QED
    BY <1>1, <1>2, <1>3, <1>4, <1>5, <1>6, <1>7, <1>8, <1>9, <1>10, ZenonT(40) DEF Next,
       LoopStep, LoopWork, LoopWait, terminate, UserStep, UserCall, Undefined, Thread,
       TermEnter, RemoveWakeup, OnClose, OnCloseClear, TermReturn, Unlock,
       LoopCheck, process_task, RunTask, RunDone, SnapLock, SnapUnlock,
       SelectTimeout, SelectReady, SelectError, OnSendNothing, OnSendSome,
       OnSendBroken, ServeSkip, OnReadKeep, OnReadBroken, AcceptBlocks, AcceptFails, AtAccept, wakeup, StartAddTask,
       add_task, stop, send_msg, SendBroken, StartTerminate, StartSend, reconnect,
       UseAfterFree, NullLoop, UseDeadLoop, UseStale, vars, connVars, pollVars,
       Fault

\* Steps that leave the references alone.
LEMMA RefFrame ==
    ASSUME RefExact, UNCHANGED <<mem, ref, conns, snap, reused>>
    PROVE  RefExact'
  BY DEF RefExact, RefExactAt

\* The reference count follows the holders.
LEMMA RefStep ==
    ASSUME RefInv, [Next]_vars
    PROVE  RefExact'
  <1>1. ASSUME NEW t \in Thread, remove_net(t) PROVE RefExact'
    <2> DEFINE c == cur[t]
    <2>1. c \in Conn
      BY <1>1, CurConn DEF remove_net, RefInv, TermPc
    <2>2. CASE c \notin conns
      BY <1>1, <2>2, RefFrame DEF remove_net, pollVars, RefInv
    <2>3. CASE c \in conns
      <3>1. /\ mem' = [mem EXCEPT ![c] = IF ref[c] = 1 THEN "freed" ELSE @]
            /\ ref' = [ref EXCEPT ![c] = @ - 1]
            /\ conns' = conns \ {c}
            /\ UNCHANGED <<snap, reused>>
        BY <1>1, <2>3 DEF remove_net, release, pollVars
      <3>2. ASSUME NEW d \in Conn PROVE RefExactAt(d)'
        <4>1. CASE d = c
          <5>1. ref'[c] = ref[c] - 1 /\ mem'[c] = IF ref[c] = 1 THEN "freed" ELSE mem[c]
            BY <2>1, <3>1 DEF RefInv, TypeOK, ConnTypeOK
          <5>2. mem[c] = "live"
            BY <1>1, <2>3 DEF remove_net, Alive, RefInv, HeldInv
          <5>3. c \notin conns' /\ (c \in snap' <=> c \in snap)
            BY <3>1
          <5>4. /\ ref[c] \in Int /\ ref[c] > 0
                /\ ref[c] = 1 + (IF c \in snap THEN 1 ELSE 0) - (IF c \in reused THEN 1 ELSE 0)
            BY <2>1, <2>3, <5>2, LiveRef
          <5>5. /\ ref'[d] = ref[c] - 1
                /\ mem'[d] = IF ref[c] = 1 THEN "freed" ELSE "live"
                /\ d \notin conns' /\ (d \in snap' <=> c \in snap) /\ (d \in reused' <=> c \in reused)
            BY <3>1, <4>1, <5>1, <5>2, <5>3
          <5>6. QED
            BY <5>4, <5>5 DEF RefExactAt, Count
        <4>2. CASE d # c
          BY <4>2, <2>1, <3>1 DEF RefInv, TypeOK, LoopTypeOK, ConnTypeOK, RefExact, RefExactAt, Count
        <4>3. QED
          BY <4>1, <4>2
      <3>3. QED
        BY <3>2 DEF RefExact
    <2>4. QED
      BY <2>2, <2>3
  <1>2. ASSUME LoopRelease PROVE RefExact'
    <2> DEFINE c == cur[Loop]
    <2>1. c \in Conn /\ c \in snap /\ mem[c] = "live"
      BY <1>2 DEF LoopRelease, Alive, RefInv, CurInv, HeldInv, ServePc, TypeOK, LoopTypeOK
    <2>3. snap' = snap \ {c} /\ UNCHANGED reused
      BY <1>2 DEF LoopRelease
    <2>4. \A d \in Conn \ {c} : ref'[d] = ref[d] /\ mem'[d] = mem[d] /\ (d \in conns' <=> d \in conns)
      BY <1>2 DEF LoopRelease, ReleaseReused, release, RefInv, TypeOK, ConnTypeOK
    <2>5. ASSUME NEW d \in Conn, d = c PROVE RefExactAt(d)'
      <3>1. CASE ref[c] = 1 /\ linked[c]
        <4>1. ref'[c] = -1 /\ mem'[c] = "freed" /\ c \notin conns'
          BY <1>2, <2>1, <3>1 DEF LoopRelease, ReleaseReused, RefInv, TypeOK, ConnTypeOK
        <4>2. c \in conns
          BY <2>1, <3>1 DEF RefInv, HeldInv
        <4>3. c \in reused
          BY <2>1, <3>1, <4>2, LiveRef
        <4>4. QED
          BY <2>3, <2>5, <4>1, <4>3 DEF RefExactAt, Count
      <3>2. CASE ~(ref[c] = 1 /\ linked[c])
        <4>1. ref'[c] = ref[c] - 1 /\ mem'[c] = (IF ref[c] = 1 THEN "freed" ELSE "live") /\ conns' = conns
          BY <1>2, <2>1, <3>2 DEF LoopRelease, release, RefInv, TypeOK, ConnTypeOK
        <4>2. QED
          BY <2>1, <2>3, <2>5, <4>1, LiveRef DEF RefExactAt, Count
      <3>3. QED
        BY <3>1, <3>2
    <2>6. ASSUME NEW d \in Conn, d # c PROVE RefExactAt(d)'
      BY <2>3, <2>4, <2>6 DEF RefInv, RefExact, RefExactAt, Count
    <2>9. QED
      BY <2>5, <2>6 DEF RefExact
  <1>3. ASSUME ServeDone PROVE RefExact'
    BY <1>3, RefFrame DEF ServeDone, connVars, RefInv
  <1>4. ASSUME remove_all PROVE RefExact'
    <2>1. snap = {} /\ conns' = {} /\ snap' = {} /\ reused' = reused
          /\ \A c \in conns : mem[c] = "live"
      BY <1>4 DEF remove_all, RefInv, SnapInv, HeldInv, LoopPc, pollVars
    <2>2. ASSUME NEW d \in Conn PROVE RefExactAt(d)'
      <3>1. /\ ref'[d] = IF d \in conns THEN ref[d] - 1 ELSE ref[d]
            /\ mem'[d] = IF d \in conns /\ ref[d] = 1 THEN "freed" ELSE mem[d]
        BY <1>4 DEF remove_all
      <3>2. QED
        BY <2>1, <3>1 DEF RefInv, TypeOK, ConnTypeOK, RefExact, RefExactAt, Count, HeldInv
    <2>3. QED
      BY <2>2 DEF RefExact
  <1>5. ASSUME NEW c \in Conn, SnapWalk(c) PROVE RefExact'
    <2>1. c \in conns /\ c \notin snap /\ mem[c] = "live"
      BY <1>5 DEF SnapWalk, RefInv, SnapInv, HeldInv
    <2>2. /\ ref' = [ref EXCEPT ![c] = @ + 1]
          /\ snap' = snap \cup {c}
          /\ UNCHANGED <<mem, conns, reused>>
      BY <1>5 DEF SnapWalk
    <2>8. ASSUME NEW d \in Conn PROVE RefExactAt(d)'
      <3>1. CASE d = c
        <4>1. ref'[c] = ref[c] + 1
          BY <2>1, <2>2 DEF RefInv, TypeOK, ConnTypeOK
        <4>2. mem[c] = "live" /\ ref[c] = 1 /\ c \notin reused
          BY <2>1 DEF RefInv, RefExact, RefExactAt, Count, TypeOK, ConnTypeOK
        <4>3. QED
          BY <3>1, <4>1, <4>2, <2>1, <2>2 DEF RefExactAt, Count
      <3>2. CASE d # c
        BY <3>2, <2>1, <2>2 DEF RefInv, TypeOK, LoopTypeOK, ConnTypeOK, RefExact, RefExactAt, Count
      <3>3. QED
        BY <3>1, <3>2
    <2>9. QED
      BY <2>8 DEF RefExact
  <1>6. ASSUME NEW c \in Acceptor, NEW n \in AccConn, OnAccept(c, n) PROVE RefExact'
    <2>1. n \in Conn /\ mem[n] = "none" /\ n \notin conns \cup snap \cup reused
      BY <1>6 DEF OnAccept, AtAccept, RefInv, HeldInv, Conn
    <2>2. /\ ref' = [ref EXCEPT ![n] = 1]
          /\ \/ conns' = conns \cup {n} /\ mem' = [mem EXCEPT ![n] = "live"]
             \/ conns' = conns /\ mem' = [mem EXCEPT ![n] = "new"]
          /\ UNCHANGED <<snap, reused>>
      BY <1>6 DEF OnAccept, AtAccept, Made, pollVars
    <2>8. ASSUME NEW d \in Conn PROVE RefExactAt(d)'
      <3>1. CASE d = n
        <4>1. ref'[n] = 1 /\ mem'[n] = IF n \in conns' THEN "live" ELSE "new"
          BY <2>1, <2>2 DEF RefInv, TypeOK, ConnTypeOK
        <4>2. QED
          BY <3>1, <4>1, <2>1, <2>2 DEF RefExactAt, Count
      <3>2. CASE d # n
        <4>1. mem'[d] = mem[d] /\ ref'[d] = ref[d]
          BY <2>2, <2>8, <3>2 DEF RefInv, TypeOK, ConnTypeOK
        <4>2. (d \in conns' <=> d \in conns) /\ snap' = snap /\ reused' = reused
          BY <2>2, <3>2
        <4>3. RefExactAt(d)
          BY <2>8 DEF RefInv, RefExact
        <4>4. QED
          BY <4>1, <4>2, <4>3 DEF RefExactAt, Count
      <3>3. QED
        BY <3>1, <3>2
    <2>9. QED
      BY <2>8 DEF RefExact
  <1>7. ASSUME NEW u \in User, add_net(u) PROVE RefExact'
    <2> DEFINE c == cur[u]
    <2>1. c \in Conn /\ mem[c] \in {"new", "live"}
      BY <1>7, CurConn DEF add_net, Alive, Thread, RefInv, AddInv, TypeOK, ConnTypeOK
    <2>2. /\ conns' = conns \cup {c}
          /\ reused' = IF mem[c] = "live" /\ c \notin conns THEN reused \cup {c} ELSE reused
          /\ UNCHANGED <<ref, snap>>
      BY <1>7 DEF add_net, pollVars
    <2>3. \A d \in Conn : mem'[d] = IF d = c THEN "live" ELSE mem[d]
      BY <1>7, <2>1 DEF add_net, RefInv, TypeOK, ConnTypeOK
    <2>4. ref[c] \in Int /\ RefExactAt(c)
      BY <2>1 DEF RefInv, RefExact, TypeOK, ConnTypeOK
    <2>5. mem[c] = "new" => c \notin conns \cup snap \cup reused
      BY DEF RefInv, HeldInv
    <2>6. ASSUME NEW d \in Conn, d = c PROVE RefExactAt(d)'
      <3>1. CASE mem[c] = "new"
        BY <2>1, <2>2, <2>3, <2>4, <2>5, <2>6, <3>1 DEF RefExactAt, Count
      <3>2. CASE mem[c] = "live" /\ c \in conns
        BY <2>1, <2>2, <2>3, <2>4, <2>6, <3>2 DEF RefExactAt, Count
      <3>3. CASE mem[c] = "live" /\ c \notin conns
        <4>1. c \in snap /\ ref[c] = 1 /\ c \notin reused
          BY <2>1, <3>3, LiveRef
        <4>2. QED
          BY <2>1, <2>2, <2>3, <2>6, <3>3, <4>1 DEF RefExactAt, Count
      <3>4. QED
        BY <2>1, <3>1, <3>2, <3>3
    <2>7. ASSUME NEW d \in Conn, d # c PROVE RefExactAt(d)'
      BY <2>2, <2>3, <2>7 DEF RefInv, RefExact, RefExactAt, Count
    <2>9. QED
      BY <2>6, <2>7 DEF RefExact
  <1>8. ASSUME NEW u \in User, NEW c \in UserConn, StartAddNet(u, c) PROVE RefExact'
    <2>1. c \in Conn /\ mem[c] = "none"
      BY <1>8 DEF StartAddNet, reconnect, Conn
    <2>2. /\ ref' = [ref EXCEPT ![c] = 1]
          /\ mem' = [mem EXCEPT ![c] = "new"]
          /\ UNCHANGED <<conns, snap, reused>>
      BY <1>8 DEF StartAddNet, reconnect, Made, pollVars
    <2>8. ASSUME NEW d \in Conn PROVE RefExactAt(d)'
      <3>1. CASE d = c
        <4>1. ref'[c] = 1 /\ mem'[c] = "new"
          BY <2>1, <2>2 DEF RefInv, TypeOK, ConnTypeOK
        <4>2. c \notin conns \cup snap \cup reused
          BY <2>1, <2>2 DEF RefInv, RefExact, RefExactAt, Count, HeldInv
        <4>3. QED
          BY <3>1, <4>1, <4>2, <2>1, <2>2 DEF RefExactAt, Count
      <3>2. CASE d # c
        BY <3>2, <2>1, <2>2 DEF RefInv, TypeOK, LoopTypeOK, ConnTypeOK, RefExact, RefExactAt, Count
      <3>3. QED
        BY <3>1, <3>2
    <2>9. QED
      BY <2>8 DEF RefExact
  <1>9. CASE UNCHANGED <<mem, ref, conns, snap, reused>>
    BY <1>9, RefFrame DEF RefInv
  <1>10. QED
    BY <1>1, <1>2, <1>3, <1>4, <1>5, <1>6, <1>7, <1>8, <1>9, ZenonT(40) DEF Next, LoopStep,
       LoopWork, LoopWait, terminate, UserStep, UserCall, Undefined, Thread, TermEnter,
       RemoveWakeup, TermUnlink, OnClose, OnCloseClear, TermReturn, Unlock,
       LoopCheck, process_task, RunTask, RunDone, SnapLock, SnapUnlock,
       SelectTimeout, SelectReady, SelectError, OnSendNothing, OnSendSome,
       OnSendBroken, ServeSkip, OnReadKeep, OnReadBroken, AcceptBlocks, AcceptFails, AtAccept, wakeup, StartAddTask,
       add_task, stop, send_msg, SendBroken, StartTerminate, StartSend, reconnect,
       UseAfterFree, NullLoop, UseDeadLoop, UseStale, vars, connVars, pollVars,
       Fault
-----------------------------------------------------------------------------
(* The theorems about memory *)

\* The invariant holds when the loop starts.
LEMMA InitInv ==
    ASSUME Init
    PROVE  RefInv
  <1>1. ThreadTypeOK /\ PcInv /\ CurInv /\ AddInv
    BY DEF Init, ThreadTypeOK, PcInv, CurInv, AddInv, Thread, LoopPc, ServePc, TermPc, UserPc
  <1>2. LoopTypeOK /\ SnapInv
    BY DEF Init, LoopTypeOK, SnapInv, Conn, Thread, LoopPc
  <1>3. TaskTypeOK
    BY DEF Init, TaskTypeOK
  <1>4. ConnTypeOK
    BY DEF Init, ConnTypeOK
  <1>5. HeldInv
    BY DEF Init, HeldInv, Conn
  <1>6. RefExact
    BY DEF Init, RefExact, RefExactAt, Count, Conn
  <1>7. QED
    BY <1>1, <1>2, <1>3, <1>4, <1>5, <1>6 DEF RefInv, TypeOK

\* Every step keeps the invariant.
LEMMA RefInvStep ==
    ASSUME RefInv, [Next]_vars
    PROVE  RefInv'
  <1>1. TypeOK /\ PcInv /\ CurInv /\ SnapInv
    BY DEF RefInv
  <1>2. TypeOK'
    BY <1>1, ThreadTypeStep, LoopTypeStep, TaskTypeStep, ConnTypeStep DEF TypeOK
  <1>3. PcInv' /\ CurInv' /\ SnapInv'
    BY <1>1, PcStep, CurStep, SnapStep
  <1>4. QED
    BY <1>2, <1>3, AddStep, HeldStep, RefStep DEF RefInv

\* The inductive invariant behind the theorems about memory.
LEMMA RefInvCorrect == Spec => []RefInv
  BY InitInv, RefInvStep, PTL DEF Spec

\* Every variable of the loop, its connections and its threads keeps its
\* type, for any number of threads and connections.
THEOREM TypeCorrect == Spec => []TypeOK
  <1>1. RefInv => TypeOK
    BY DEF RefInv
  <1>2. QED
    BY <1>1, RefInvCorrect, PTL

\* net_io::_ref counts exactly the holders of a connection, less one for a
\* connection that reconnect put back while the snapshot held it, and the
\* connection is deleted exactly when that count reaches 0.
THEOREM RefCorrect == Spec => []RefExact
  <1>1. RefInv => RefExact
    BY DEF RefInv
  <1>2. QED
    BY <1>1, RefInvCorrect, PTL

\* The _loop of a deleted net_io is NULL, and only one that reconnect put back
\* can still be in _conns.
THEOREM DeletedCorrect == Spec => []DeletedUnlinked
  <1>1. RefInv => DeletedUnlinked
    BY DEF RefInv, TypeOK, LoopTypeOK, HeldInv, DeletedUnlinked
  <1>2. QED
    BY <1>1, RefInvCorrect, PTL

\* Whatever the users do, a deleted connection that eventloop::loop, or a
\* handler it calls, is about to dereference is one that reconnect put back.
THEOREM LoopMemorySafe == Spec => []LoopNeverUsesFreed
  <1>1. ASSUME RefInv PROVE LoopNeverUsesFreed
    <2>1. Touched(Loop) \subseteq conns \cup snap
      BY <1>1 DEF RefInv, PcInv, CurInv, SnapInv, Touched, DerefPc, ServePc, TermPc, UserPc
    <2>2. QED
      BY <1>1, <2>1 DEF RefInv, HeldInv, LoopNeverUsesFreed
  <1>2. QED
    BY <1>1, RefInvCorrect, PTL
-----------------------------------------------------------------------------
(* The wakeup *)

\* Whoever brings a task or a connection sets the eventfd afterwards, and only
\* select(), after which the loop looks at both again, resets it.
LEMMA WakeStep ==
    ASSUME RefInv, WakeInv, [Next]_vars
    PROVE  WakeInv'
  <1>1. ASSUME LoopCheck \/ process_task \/ RunTask \/ RunDone \/ SnapLock \/
               SnapUnlock \/ SelectTimeout \/ SelectReady
        PROVE  WakeInv'
    BY <1>1 DEF LoopCheck, process_task, RunTask, RunDone, SnapLock, SnapUnlock,
       SelectTimeout, SelectReady, RefInv, TypeOK, ThreadTypeOK, TaskTypeOK,
       LoopTypeOK, PcInv, SnapInv, WakeInv, Goto, Thread, taskVars, pollVars,
       LckFree, LoopPc, ServePc, TermPc, UserPc
  <1>2. ASSUME SelectError \/ OnSendNothing \/ OnSendSome \/ OnSendBroken \/
               LoopRelease \/ ServeDone \/ remove_all \/ UNCHANGED vars
        PROVE  WakeInv'
    BY <1>2, ZenonT(40) DEF SelectError, OnSendNothing, OnSendSome, OnSendBroken, LoopRelease, ReleaseReused,
       release, ServeDone, remove_all, vars, RefInv, TypeOK, ThreadTypeOK,
       TaskTypeOK, LoopTypeOK, PcInv, SnapInv, WakeInv, Goto, Thread, taskVars,
       pollVars, LckFree, LoopPc, ServePc, TermPc, UserPc
  <1>3. ASSUME NEW c \in Conn, SnapWalk(c) \/ ServeSkip(c) \/ OnReadKeep(c) \/ OnReadBroken(c)
               \/ AcceptBlocks(c) \/ AcceptFails(c)
        PROVE  WakeInv'
    BY <1>3 DEF SnapWalk, ServeSkip, OnReadKeep, OnReadBroken, AcceptBlocks, AcceptFails, AtAccept, RefInv, TypeOK,
       ThreadTypeOK, TaskTypeOK, LoopTypeOK, PcInv, SnapInv, WakeInv, Goto,
       Thread, taskVars, pollVars, LckFree, LoopPc, ServePc, TermPc, UserPc
  <1>4. ASSUME NEW c \in Acceptor, NEW n \in AccConn, OnAccept(c, n) PROVE WakeInv'
    BY <1>4 DEF OnAccept, AtAccept, Made, RefInv, TypeOK, ThreadTypeOK, TaskTypeOK,
       LoopTypeOK, PcInv, SnapInv, WakeInv, Goto, Thread, taskVars, pollVars,
       LckFree, LoopPc, ServePc, TermPc, UserPc
  <1>5. ASSUME NEW u \in User, add_net(u) \/ wakeup(u) \/ StartAddTask(u) \/
               add_task(u) \/ stop(u) \/ send_msg(u) \/ SendBroken(u) \/
               UseDeadLoop(u)
        PROVE  WakeInv'
    BY <1>5 DEF add_net, wakeup, Return, StartAddTask, add_task, stop, send_msg,
       SendBroken, UseDeadLoop, Fault, RefInv, TypeOK, ThreadTypeOK, TaskTypeOK,
       LoopTypeOK, PcInv, SnapInv, WakeInv, Goto, Thread, taskVars, pollVars,
       LckFree, LoopPc, ServePc, TermPc, UserPc
  <1>6. ASSUME NEW t \in Thread, UseAfterFree(t) \/ NullLoop(t) PROVE WakeInv'
    BY <1>6 DEF UseAfterFree, Fault, NullLoop, RefInv, TypeOK, ThreadTypeOK,
       TaskTypeOK, LoopTypeOK, PcInv, SnapInv, WakeInv, Goto, Thread, taskVars,
       pollVars, LckFree, LoopPc, ServePc, TermPc, UserPc
  <1>7. ASSUME NEW t \in Thread, TermEnter(t) PROVE WakeInv'
    BY <1>7 DEF TermEnter, RefInv, TypeOK, ThreadTypeOK, TaskTypeOK, LoopTypeOK,
       PcInv, SnapInv, WakeInv, Goto, Thread, taskVars, pollVars, LckFree, LoopPc,
       ServePc, TermPc, UserPc
  <1>8. ASSUME NEW t \in Thread, remove_net(t) PROVE WakeInv'
    BY <1>8 DEF remove_net, release, RefInv, TypeOK, ThreadTypeOK, TaskTypeOK,
       LoopTypeOK, PcInv, SnapInv, WakeInv, Goto, Thread, taskVars, pollVars,
       LckFree, LoopPc, ServePc, TermPc, UserPc
  <1>9. ASSUME NEW t \in Thread, RemoveWakeup(t) PROVE WakeInv'
    BY <1>9 DEF RemoveWakeup, RefInv, TypeOK, ThreadTypeOK, TaskTypeOK, LoopTypeOK,
       PcInv, SnapInv, WakeInv, Goto, Thread, taskVars, pollVars, LckFree, LoopPc,
       ServePc, TermPc, UserPc
  <1>10. ASSUME NEW t \in Thread, TermUnlink(t) PROVE WakeInv'
    BY <1>10 DEF TermUnlink, RefInv, TypeOK, ThreadTypeOK, TaskTypeOK, LoopTypeOK,
       PcInv, SnapInv, WakeInv, Goto, Thread, taskVars, pollVars, LckFree, LoopPc,
       ServePc, TermPc, UserPc
  <1>11. ASSUME NEW t \in Thread, OnClose(t) PROVE WakeInv'
    BY <1>11 DEF OnClose, RefInv, TypeOK, ThreadTypeOK, TaskTypeOK, LoopTypeOK,
       PcInv, SnapInv, WakeInv, Goto, Thread, taskVars, pollVars, LckFree, LoopPc,
       ServePc, TermPc, UserPc
  <1>12. ASSUME NEW t \in Thread, OnCloseClear(t) PROVE WakeInv'
    BY <1>12 DEF OnCloseClear, RefInv, TypeOK, ThreadTypeOK, TaskTypeOK, LoopTypeOK,
       PcInv, SnapInv, WakeInv, Goto, Thread, taskVars, pollVars, LckFree, LoopPc,
       ServePc, TermPc, UserPc
  <1>13. ASSUME NEW t \in Thread, TermReturn(t) PROVE WakeInv'
    BY <1>13, ZenonT(40) DEF TermReturn, Return, RefInv, TypeOK, ThreadTypeOK, TaskTypeOK,
       LoopTypeOK, PcInv, SnapInv, WakeInv, Goto, Thread, taskVars, pollVars,
       LckFree, LoopPc, ServePc, TermPc, UserPc
  <1>14. ASSUME NEW t \in Thread, Unlock(t) PROVE WakeInv'
    BY <1>14 DEF Unlock, Return, RefInv, TypeOK, ThreadTypeOK, TaskTypeOK,
       LoopTypeOK, PcInv, SnapInv, WakeInv, Goto, Thread, taskVars, pollVars,
       LckFree, LoopPc, ServePc, TermPc, UserPc
  <1>15. ASSUME NEW u \in User, NEW c \in UserConn, StartAddNet(u, c) PROVE WakeInv'
    BY <1>15 DEF StartAddNet, Made, RefInv, TypeOK, ThreadTypeOK, TaskTypeOK,
       LoopTypeOK, PcInv, SnapInv, WakeInv, Goto, Thread, taskVars, pollVars,
       LckFree, LoopPc, ServePc, TermPc, UserPc
  <1>16. ASSUME NEW u \in User, NEW c \in UserConn, StartTerminate(u, c) PROVE WakeInv'
    BY <1>16 DEF StartTerminate, RefInv, TypeOK, ThreadTypeOK, TaskTypeOK,
       LoopTypeOK, PcInv, SnapInv, WakeInv, Goto, Thread, taskVars, pollVars,
       LckFree, LoopPc, ServePc, TermPc, UserPc
  <1>17. ASSUME NEW u \in User, NEW c \in UserConn, StartSend(u, c) PROVE WakeInv'
    BY <1>17 DEF StartSend, RefInv, TypeOK, ThreadTypeOK, TaskTypeOK, LoopTypeOK,
       PcInv, SnapInv, WakeInv, Goto, Thread, taskVars, pollVars, LckFree, LoopPc,
       ServePc, TermPc, UserPc
  <1>18. ASSUME NEW u \in User, NEW c \in UserConn, UseStale(u, c) PROVE WakeInv'
    BY <1>18 DEF UseStale, Fault, RefInv, TypeOK, ThreadTypeOK, TaskTypeOK,
       LoopTypeOK, PcInv, SnapInv, WakeInv, Goto, Thread, taskVars, pollVars,
       LckFree, LoopPc, ServePc, TermPc, UserPc
  <1>19. ASSUME NEW u \in User, NEW c \in UserConn, reconnect(u, c) PROVE WakeInv'
    BY <1>19 DEF reconnect, RefInv, TypeOK, ThreadTypeOK, TaskTypeOK,
       LoopTypeOK, PcInv, SnapInv, WakeInv, Goto, Thread, taskVars, pollVars,
       LckFree, LoopPc, ServePc, TermPc, UserPc
  <1>20. QED
    BY <1>1, <1>2, <1>3, <1>4, <1>5, <1>6, <1>7, <1>8, <1>9, <1>10, <1>11, <1>12,
       <1>13, <1>14, <1>15, <1>16, <1>17, <1>18, <1>19 DEF Next, LoopStep, LoopWork, LoopWait,
       terminate, UserStep, UserCall, Undefined, Thread, Conn

\* A loop that is not stopped does not block in select() on a task or a
\* connection it has not seen without a wakeup pending or about to come.
THEOREM WakeupCorrect == Spec => []NoLostWakeup
  <1>1. Init => WakeInv
    BY DEF Init, WakeInv
  <1>2. WakeInv => NoLostWakeup
    BY DEF WakeInv, NoLostWakeup
  <1>3. QED
    BY <1>1, <1>2, WakeStep, RefInvCorrect, PTL DEF Spec
-----------------------------------------------------------------------------
(* The disconnect callback *)

\* Steps that do not concern a connection.
LEMMA CloseFrame ==
    ASSUME NEW c \in AccConn, CloseAt(c), Closing(c)' = Closing(c),
           mem'[c] = mem[c], linked'[c] = linked[c], cb'[c] = cb[c], closed'[c] = closed[c],
           c \in conns' <=> c \in conns
    PROVE  CloseAt(c)'
  <1>1. Dropped(c)' <=> Dropped(c)
    BY DEF Dropped
  <1>2. QED
    BY <1>1 DEF CloseAt

\* The users never work on an accepted connection.
LEMMA UserCloses ==
    ASSUME RefInv, NEW c \in AccConn, CloseAt(c), NEW u \in User, UserStep(u) \/ UserCall(u)
    PROVE  CloseAt(c)'
  <1>1. c \in Conn /\ c \notin UserConn /\ u \in Thread /\ Loop \in Thread /\ u # Loop
    BY DEF Conn, Thread
  <1>2. pc'[Loop] = pc[Loop] /\ cur'[Loop] = cur[Loop]
    <2>1. CASE terminate(u)
      BY <2>1, <1>1 DEF terminate, TermEnter, remove_net, RemoveWakeup, TermUnlink, OnClose,
         OnCloseClear, TermReturn, Unlock, Return, Goto, RefInv, TypeOK, ThreadTypeOK
    <2>2. CASE add_net(u) \/ wakeup(u) \/ add_task(u) \/ send_msg(u) \/ SendBroken(u)
      BY <2>2, <1>1 DEF add_net, wakeup, add_task, send_msg, SendBroken, Return, Goto, RefInv,
         TypeOK, ThreadTypeOK
    <2>3. CASE UserCall(u)
      BY <2>3, <1>1 DEF UserCall, StartAddNet, reconnect, StartTerminate, StartSend, StartAddTask, stop,
         Goto, RefInv, TypeOK, ThreadTypeOK
    <2>4. QED
      BY <2>1, <2>2, <2>3 DEF UserStep
  <1>3. /\ mem'[c] = mem[c] /\ linked'[c] = linked[c] /\ cb'[c] = cb[c] /\ closed'[c] = closed[c]
        /\ c \in conns' <=> c \in conns
    <2>1. pc[u] \in TermPc \cup {"addnet", "lockm"} => cur[u] # c
      BY <1>1 DEF RefInv, CurInv
    <2>2. CASE remove_net(u)
      BY <2>1, <2>2, <1>1 DEF remove_net, release, TermPc, RefInv, TypeOK, ConnTypeOK
    <2>3. CASE TermUnlink(u) \/ OnClose(u) \/ OnCloseClear(u)
      BY <2>1, <2>3, <1>1 DEF TermUnlink, OnClose, OnCloseClear, TermPc, RefInv, TypeOK, ConnTypeOK
    <2>4. CASE add_net(u)
      BY <2>1, <2>4, <1>1 DEF add_net, RefInv, TypeOK, ConnTypeOK
    <2>5. ASSUME NEW d \in UserConn, StartAddNet(u, d)
          PROVE  /\ mem'[c] = mem[c] /\ linked'[c] = linked[c] /\ cb'[c] = cb[c] /\ closed'[c] = closed[c]
                 /\ c \in conns' <=> c \in conns
      BY <2>5, <1>1 DEF StartAddNet, reconnect, Made, RefInv, TypeOK, ConnTypeOK
    <2>6. CASE UNCHANGED <<mem, linked, cb, closed, conns>>
      BY <2>6
    <2>7. QED
      BY <2>2, <2>3, <2>4, <2>5, <2>6 DEF UserStep, UserCall, terminate, TermEnter, RemoveWakeup,
         TermReturn, Unlock, wakeup, add_task, send_msg, SendBroken, StartTerminate, StartSend,
         reconnect, StartAddTask, stop, connVars
  <1>4. Closing(c)' = Closing(c)
    BY <1>2 DEF Closing
  <1>5. QED
    BY <1>3, <1>4, CloseFrame

\* terminate, step by step, when the loop calls it.
LEMMA TerminateCloses ==
    ASSUME RefInv, NEW c \in AccConn, CloseAt(c), terminate(Loop)
    PROVE  CloseAt(c)'
  <1>1. c \in Conn /\ Loop \in Thread
    BY DEF Conn, Thread
  <1>2. pc[Loop] \in TermPc => cur[Loop] \in snap /\ cur[Loop] \in Conn
                              /\ (cur[Loop] = c => mem[c] = "live" /\ c \notin reused)
    <2>1. pc[Loop] \in TermPc => cur[Loop] \in snap
      BY DEF RefInv, CurInv
    <2>2. snap \subseteq Conn
      BY Zenon DEF RefInv, TypeOK, LoopTypeOK
    <2>3. c \notin reused /\ (c \in snap => mem[c] = "live")
      BY DEF RefInv, HeldInv
    <2>4. QED
      BY <2>1, <2>2, <2>3
  <1> USE DEF TermPc
  <1>3. CASE TermEnter(Loop)
    <2>1. linked[c] => c \in conns
      BY <1>1 DEF RefInv, HeldInv
    <2>2. Closing(c) = "no" /\ Closing(c)' \in {"no", "remove"} /\ (Closing(c)' = "remove" => linked[c])
      BY <1>3, <1>1 DEF TermEnter, Closing, Goto, RefInv, TypeOK, ThreadTypeOK, ConnTypeOK
    <2>3. UNCHANGED <<mem, linked, cb, closed, conns>>
      BY <1>3 DEF TermEnter, connVars
    <2>4. QED
      BY <2>1, <2>2, <2>3 DEF CloseAt, Dropped
  <1>4. CASE remove_net(Loop)
    <2>1. cur[Loop] \in Conn /\ cur[Loop] \in snap
          /\ (cur[Loop] = c => mem[c] = "live" /\ c \notin reused)
      BY <1>2, <1>4 DEF remove_net
    <2>2. pc[Loop] = "remove" /\ pc'[Loop] = "rwake" /\ cur' = cur
      BY <1>4, <1>1 DEF remove_net, Goto, RefInv, TypeOK, ThreadTypeOK
    <2>3. CASE cur[Loop] = c
      <3>1. c \in conns /\ Closing(c)' = "rwake"
        BY <2>2, <2>3 DEF CloseAt, Closing
      <3>2. ref[c] = 2
        BY <1>1, <2>1, <2>3, <3>1, LiveRef
      <3>3. /\ mem'[c] = "live" /\ ~linked'[c] /\ conns' = conns \ {c} /\ cb' = cb /\ closed' = closed
        BY <1>4, <1>1, <2>1, <2>3, <3>1, <3>2 DEF remove_net, release, RefInv, TypeOK, ConnTypeOK
      <3>4. Dropped(c)' /\ ~Dropped(c)
        BY <3>1, <3>3 DEF Dropped
      <3>5. QED
        BY <3>1, <3>3, <3>4, <2>1, <2>3 DEF CloseAt
    <2>4. CASE cur[Loop] # c
      <3>1. Closing(c)' = Closing(c)
        BY <2>2, <2>4 DEF Closing
      <3>2. /\ mem'[c] = mem[c] /\ linked'[c] = linked[c] /\ cb'[c] = cb[c] /\ closed'[c] = closed[c]
            /\ c \in conns' <=> c \in conns
        BY <1>4, <1>1, <2>1, <2>4 DEF remove_net, release, RefInv, TypeOK, ConnTypeOK
      <3>3. QED
        BY <3>1, <3>2, CloseFrame
    <2>5. QED
      BY <2>3, <2>4
  <1>5. CASE RemoveWakeup(Loop)
    <2>1. UNCHANGED <<mem, linked, cb, closed, conns>> /\ Closing(c) \in {"no", "rwake"}
          /\ Closing(c)' = IF Closing(c) = "no" THEN "no" ELSE "unlink"
      BY <1>5, <1>1 DEF RemoveWakeup, connVars, Closing, Goto, RefInv, TypeOK, ThreadTypeOK
    <2>2. Dropped(c)' <=> Dropped(c)
      BY <2>1 DEF Dropped
    <2>3. QED
      BY <2>1, <2>2 DEF CloseAt
  <1>6. CASE TermUnlink(Loop)
    <2>1. UNCHANGED <<mem, cb, closed, conns>> /\ Closing(c) \in {"no", "unlink"}
          /\ Closing(c)' = IF Closing(c) = "no" THEN "no" ELSE "onclose"
      BY <1>6, <1>1 DEF TermUnlink, Closing, Goto, RefInv, TypeOK, ThreadTypeOK
    <2>2. Closing(c) = "no" => linked'[c] = linked[c]
      BY <1>6, <1>1, <1>2 DEF TermUnlink, Closing, RefInv, TypeOK, ConnTypeOK
    <2>3. Dropped(c)' <=> Dropped(c)
      BY <2>1 DEF Dropped
    <2>4. Closing(c) = "unlink" => c \notin conns
      BY DEF CloseAt, Dropped
    <2>5. QED
      BY <2>1, <2>2, <2>3, <2>4 DEF CloseAt
  <1>7. CASE OnClose(Loop)
    <2>1. UNCHANGED <<mem, cb, linked, conns>> /\ cur[Loop] \in Conn /\ cur' = cur
          /\ pc[Loop] = "onclose" /\ pc'[Loop] = IF cb[cur[Loop]] THEN "clearcb" ELSE "brk"
      BY <1>7, <1>1, <1>2 DEF OnClose, Goto, RefInv, TypeOK, ThreadTypeOK
    <2>2. Dropped(c)' <=> Dropped(c)
      BY <2>1 DEF Dropped
    <2>3. CASE cur[Loop] = c
      <3>1. Closing(c) = "onclose"
        BY <2>1, <2>3 DEF Closing
      <3>2. Dropped(c) /\ closed[c] = 0 /\ cb[c]
        BY <3>1, <1>2, <2>1, <2>3 DEF CloseAt
      <3>3. closed'[c] = 1
        BY <1>7, <1>1, <3>2, <2>3 DEF OnClose, RefInv, TypeOK, ConnTypeOK
      <3>4. Closing(c)' = "clearcb"
        BY <2>1, <2>3, <3>2 DEF Closing
      <3>5. QED
        BY <2>1, <2>2, <3>1, <3>2, <3>3, <3>4 DEF CloseAt
    <2>4. CASE cur[Loop] # c
      <3>1. Closing(c)' = Closing(c) /\ closed'[c] = closed[c]
        BY <1>7, <1>1, <2>1, <2>4 DEF OnClose, Closing, RefInv, TypeOK, ConnTypeOK
      <3>2. QED
        BY <2>1, <3>1, CloseFrame
    <2>5. QED
      BY <2>3, <2>4
  <1>8. CASE OnCloseClear(Loop)
    <2>1. UNCHANGED <<mem, closed, linked, conns>> /\ cur[Loop] \in Conn /\ cur' = cur
          /\ pc[Loop] = "clearcb" /\ pc'[Loop] = "brk"
      BY <1>8, <1>1, <1>2 DEF OnCloseClear, Goto, RefInv, TypeOK, ThreadTypeOK
    <2>2. Dropped(c)' <=> Dropped(c)
      BY <2>1 DEF Dropped
    <2>3. CASE cur[Loop] = c
      <3>1. Closing(c) = "clearcb" /\ Closing(c)' = "no"
        BY <2>1, <2>3 DEF Closing
      <3>2. Dropped(c) /\ closed[c] = 1
        BY <3>1 DEF CloseAt
      <3>3. ~cb'[c]
        BY <1>8, <1>1, <2>3 DEF OnCloseClear, RefInv, TypeOK, ConnTypeOK
      <3>4. QED
        BY <2>1, <2>2, <3>1, <3>2, <3>3 DEF CloseAt
    <2>4. CASE cur[Loop] # c
      <3>1. Closing(c)' = Closing(c) /\ cb'[c] = cb[c]
        BY <1>8, <1>1, <2>1, <2>4 DEF OnCloseClear, Closing, RefInv, TypeOK, ConnTypeOK
      <3>2. QED
        BY <2>1, <3>1, CloseFrame
    <2>5. QED
      BY <2>3, <2>4
  <1>9. CASE TermReturn(Loop)
    <2>1. pc[Loop] = "brk" /\ pc'[Loop] \in {"unlock", "onsend"}
      BY <1>9, <1>1 DEF TermReturn, Goto, RefInv, TypeOK, ThreadTypeOK
    <2>2. Closing(c)' = Closing(c)
      BY <2>1 DEF Closing
    <2>3. QED
      BY <1>9, <2>2, CloseFrame DEF TermReturn
  <1>10. CASE Unlock(Loop)
    <2>1. pc[Loop] = "unlock" /\ pc'[Loop] = "release"
      BY <1>10, <1>1 DEF Unlock, Goto, RefInv, TypeOK, ThreadTypeOK
    <2>2. Closing(c)' = Closing(c)
      BY <2>1 DEF Closing
    <2>3. QED
      BY <1>10, <2>2, CloseFrame DEF Unlock
  <1>11. QED
    BY <1>3, <1>4, <1>5, <1>6, <1>7, <1>8, <1>9, <1>10 DEF terminate

\* The other steps of the loop.
LEMMA LoopCloses ==
    ASSUME RefInv, NEW c \in AccConn, CloseAt(c), LoopStep
    PROVE  CloseAt(c)'
  <1>1. c \in Conn /\ c \notin Acceptor /\ Loop \in Thread
    BY DEF Conn, Thread
  <1>2. ASSUME \/ LoopCheck \/ process_task \/ RunTask \/ RunDone \/ SnapLock \/ SnapUnlock
               \/ SelectTimeout \/ SelectReady \/ SelectError \/ ServeDone
               \/ OnSendNothing \/ OnSendSome \/ OnSendBroken
               \/ \E d \in Conn : SnapWalk(d) \/ ServeSkip(d) \/ OnReadKeep(d) \/ OnReadBroken(d)
               \/ \E d \in Acceptor : AcceptBlocks(d) \/ AcceptFails(d)
        PROVE  CloseAt(c)'
    <2>1. UNCHANGED <<mem, linked, cb, closed, conns>>
      BY <1>2 DEF LoopCheck, process_task, RunTask, RunDone, SnapLock, SnapUnlock, SelectTimeout,
         SelectReady, SelectError, ServeDone, OnSendNothing, OnSendSome, OnSendBroken, SnapWalk,
         ServeSkip, OnReadKeep, OnReadBroken, AcceptBlocks, AcceptFails, AtAccept, connVars
    <2>2. /\ pc[Loop] \notin {"remove", "rwake", "unlink", "onclose", "clearcb"}
          /\ pc'[Loop] \notin {"remove", "rwake", "unlink", "onclose", "clearcb"}
      BY <1>2, <1>1 DEF LoopCheck, process_task, RunTask, RunDone, SnapLock, SnapUnlock, SelectTimeout,
         SelectReady, SelectError, ServeDone, OnSendNothing, OnSendSome, OnSendBroken, SnapWalk,
         ServeSkip, OnReadKeep, OnReadBroken, AcceptBlocks, AcceptFails, AtAccept, Goto, RefInv, TypeOK, ThreadTypeOK
    <2>3. Closing(c) = "no" /\ Closing(c)' = "no"
      BY <2>2 DEF Closing
    <2>4. QED
      BY <2>1, <2>3, CloseFrame
  <1>3. ASSUME NEW a \in Acceptor, NEW n \in AccConn, OnAccept(a, n) PROVE CloseAt(c)'
    <2>1. n \in Conn /\ mem[n] = "none" /\ n \notin conns
      BY <1>3 DEF OnAccept, AtAccept, RefInv, HeldInv, Conn
    <2>2. pc[Loop] \in {"serve", "accept"} /\ pc'[Loop] = "onsend"
      BY <1>3, <1>1 DEF OnAccept, AtAccept, Goto, RefInv, TypeOK, ThreadTypeOK
    <2>3. Closing(c) = "no" /\ Closing(c)' = "no"
      BY <2>2 DEF Closing
    <2>4. CASE c = n
      <3>1. closed'[c] = 0 /\ cb'[c]
        BY <1>3, <1>1, <2>1, <2>4 DEF OnAccept, AtAccept, Made, CloseAt, Dropped, RefInv, TypeOK, ConnTypeOK
      <3>2. \/ mem'[c] = "live" /\ linked'[c] /\ c \in conns'
            \/ mem'[c] = "new" /\ c \notin conns'
        BY <1>3, <1>1, <2>1, <2>4 DEF OnAccept, AtAccept, RefInv, TypeOK, ConnTypeOK
      <3>3. ~Dropped(c)'
        BY <3>2 DEF Dropped
      <3>4. QED
        BY <2>3, <3>1, <3>2, <3>3 DEF CloseAt
    <2>5. CASE c # n
      <3>1. /\ mem'[c] = mem[c] /\ linked'[c] = linked[c] /\ cb'[c] = cb[c] /\ closed'[c] = closed[c]
            /\ c \in conns' <=> c \in conns
        BY <1>3, <1>1, <2>1, <2>5 DEF OnAccept, AtAccept, Made, RefInv, TypeOK, ConnTypeOK
      <3>2. QED
        BY <2>3, <3>1, CloseFrame
    <2>6. QED
      BY <2>4, <2>5
  <1>4. CASE LoopRelease
    <2>1. pc[Loop] = "release" /\ pc'[Loop] = "serve" /\ cur[Loop] \in Conn
      <3>1. pc[Loop] = "release" /\ pc'[Loop] = "serve"
        BY <1>4, <1>1 DEF LoopRelease, ReleaseReused, Goto, RefInv, TypeOK, ThreadTypeOK
      <3>2. cur[Loop] \in snap
        BY <3>1 DEF RefInv, CurInv, ServePc
      <3>3. snap \subseteq Conn
        BY Zenon DEF RefInv, TypeOK, LoopTypeOK
      <3>4. QED
        BY <3>1, <3>2, <3>3
    <2>2. Closing(c) = "no" /\ Closing(c)' = "no"
      BY <2>1 DEF Closing
    <2>4. cur[Loop] = c => mem[c] = "live" /\ c \in snap /\ c \notin reused
      BY <2>1 DEF RefInv, CurInv, HeldInv, ServePc
    <2>7. cur[Loop] = c => ~(ref[c] = 1 /\ linked[c])
      <3>1. linked[c] => c \in conns
        BY <1>1 DEF RefInv, HeldInv
      <3>2. QED
        BY <1>1, <2>4, <3>1, LiveRef
    <2>3. /\ linked'[c] = linked[c] /\ cb'[c] = cb[c] /\ closed'[c] = closed[c]
          /\ c \in conns' <=> c \in conns
          /\ mem'[c] = mem[c] \/ mem'[c] = "freed"
          /\ mem'[c] # mem[c] => cur[Loop] = c
      <3>1. CASE cur[Loop] = c
        BY <1>4, <1>1, <2>7, <3>1 DEF LoopRelease, release, RefInv, TypeOK, ConnTypeOK
      <3>2. CASE cur[Loop] # c
        BY <1>4, <1>1, <2>1, <3>2 DEF LoopRelease, ReleaseReused, release, RefInv, TypeOK, ConnTypeOK
      <3>3. QED
        BY <3>1, <3>2
    <2>5. Dropped(c)' <=> Dropped(c)
      BY <2>3, <2>4 DEF Dropped
    <2>6. QED
      BY <2>2, <2>3, <2>4, <2>5 DEF CloseAt
  <1>5. CASE remove_all
    <2>1. pc[Loop] = "dtor" /\ pc'[Loop] = "dead" /\ conns' = {}
      BY <1>5, <1>1 DEF remove_all, Goto, RefInv, TypeOK, ThreadTypeOK
    <2>2. Closing(c) = "no" /\ Closing(c)' = "no"
      BY <2>1 DEF Closing
    <2>3. CASE c \in conns
      <3>1. mem[c] = "live" /\ ~Dropped(c)
        BY <2>3 DEF RefInv, HeldInv, Dropped
      <3>2. closed[c] = 0 /\ cb[c]
        BY <2>2, <3>1 DEF CloseAt
      <3>3. closed'[c] = 1 /\ ~cb'[c] /\ mem'[c] \in {"live", "freed"}
        <4>1. /\ closed'[c] = IF c \in conns /\ cb[c] THEN closed[c] + 1 ELSE closed[c]
              /\ mem'[c] = IF c \in conns /\ ref[c] = 1 THEN "freed" ELSE mem[c]
          BY <1>5, <1>1 DEF remove_all
        <4>2. ~cb'[c]
          BY <1>5, <1>1, <2>3, Zenon DEF remove_all
        <4>3. QED
          BY <2>3, <3>1, <3>2, <4>1, <4>2
      <3>4. Dropped(c)'
        BY <2>1, <3>3 DEF Dropped
      <3>5. QED
        BY <2>1, <2>2, <3>3, <3>4 DEF CloseAt
    <2>4. CASE c \notin conns
      <3>1. mem'[c] = mem[c] /\ closed'[c] = closed[c] /\ (cb'[c] <=> cb[c]) /\ (linked'[c] <=> linked[c])
        BY <1>5, <1>1, <2>4 DEF remove_all, RefInv, TypeOK, ConnTypeOK
      <3>2. Dropped(c)' <=> Dropped(c)
        BY <2>1, <2>4, <3>1 DEF Dropped
      <3>3. QED
        BY <2>1, <2>2, <2>4, <3>1, <3>2 DEF CloseAt
    <2>5. QED
      BY <2>3, <2>4
  <1>6. QED
    <2>1. CASE LoopWork
      BY <1>2, <1>3, <1>4, <1>5, <2>1, TerminateCloses, SMTT(30) DEF LoopWork
    <2>2. CASE LoopWait
      BY <1>2, <1>3, <2>2, SMTT(30) DEF LoopWait
    <2>3. QED
      BY <1>2, <2>1, <2>2 DEF LoopStep

\* The callback of a connection that an acceptor made runs exactly once before
\* the connection is deleted and only after the loop dropped it, whatever other
\* threads do with their own connections.
THEOREM ClosedCorrect == Spec => []ClosedExactlyOnce
  <1>1. Init => CloseInv
    <2> SUFFICES ASSUME Init, NEW c \in AccConn PROVE CloseAt(c)
      BY DEF CloseInv
    <2>1. c \in Conn /\ c \notin Acceptor
      BY DEF Conn
    <2>2. mem[c] = "none" /\ ~cb[c] /\ closed[c] = 0 /\ c \notin conns /\ cur[Loop] = None /\ c # None
      BY <2>1 DEF Init, Thread
    <2>3. Closing(c) = "no" /\ ~Dropped(c)
      BY <2>2 DEF Closing, Dropped
    <2>4. QED
      BY <2>2, <2>3 DEF CloseAt
  <1>2. ASSUME RefInv, CloseInv, [Next]_vars PROVE CloseInv'
    <2> SUFFICES ASSUME NEW c \in AccConn PROVE CloseAt(c)'
      BY DEF CloseInv
    <2>1. CloseAt(c)
      BY <1>2 DEF CloseInv
    <2>2. CASE UNCHANGED <<mem, linked, cb, closed, conns, pc, cur>>
      BY <2>1, <2>2, CloseFrame DEF Closing
    <2>3. QED
      <3>1. CASE Undefined \/ UNCHANGED vars
        BY <2>2, <3>1, Zenon DEF Undefined, UseAfterFree, NullLoop, UseDeadLoop, UseStale, Fault,
           vars, connVars
      <3>2. QED
        BY <1>2, <2>1, <3>1, UserCloses, LoopCloses, Zenon DEF Next
  <1>3. RefInv /\ CloseInv => ClosedExactlyOnce
    <2> SUFFICES ASSUME RefInv, CloseInv, NEW c \in AccConn
                 PROVE  /\ closed[c] <= 1
                        /\ mem[c] = "freed" => closed[c] = 1
                        /\ closed[c] = 1 => c \notin conns
      BY DEF ClosedExactlyOnce
    <2>1. CloseAt(c) /\ c \in Conn
      BY DEF CloseInv, Conn
    <2>2. Closing(c) # "no" => mem[c] = "live"
      BY DEF Closing, RefInv, CurInv, HeldInv, TermPc
    <2>3. mem[c] = "freed" => Dropped(c)
      BY <2>1 DEF RefInv, HeldInv, Dropped
    <2>4. QED
      BY <2>1, <2>2, <2>3 DEF CloseAt, Dropped
  <1>4. QED
    BY <1>1, <1>2, <1>3, RefInvCorrect, PTL DEF Spec
-----------------------------------------------------------------------------
(* The demo server *)

\* Without users that call anything but stop, no step is undefined.
LEMMA ServerStep ==
    ASSUME Ops \subseteq {"stop"}, RefInv, ServerInv, [Next]_vars
    PROVE  ServerInv'
  <1>1. Loop \in Thread /\ \A u \in User : u \in Thread /\ u # Loop
    BY DEF Thread
  <1>2. ASSUME NEW u \in User, UserStep(u) PROVE FALSE
    <2>1. pc[u] = "idle"
      BY DEF ServerInv
    <2>2. QED
      BY <1>2, <2>1, Zenon DEF UserStep, add_net, wakeup, add_task, send_msg, SendBroken, terminate, TermEnter,
         remove_net, RemoveWakeup, TermUnlink, OnClose, OnCloseClear, TermReturn, Unlock
  <1>3. ASSUME NEW u \in User, UserCall(u) PROVE ServerInv'
    <2>1. stop(u)
      BY <1>3 DEF UserCall, StartAddNet, reconnect, StartTerminate, StartSend, StartAddTask
    <2>2. UNCHANGED <<pc, cur, linked, ub, reused>>
      BY <2>1 DEF stop, connVars
    <2>3. QED
      BY <2>2 DEF ServerInv
  <1>4. ~Undefined
    <2>1. ASSUME NEW t \in Thread, UseAfterFree(t) \/ NullLoop(t) PROVE FALSE
      <3>1. CASE t \in User
        <4>1. pc[t] = "idle"
          BY <3>1 DEF ServerInv
        <4>2. QED
          BY <2>1, <4>1 DEF UseAfterFree, NullLoop, Touched, DerefPc, ServePc, TermPc
      <3>2. CASE t = Loop
        <4>1. Touched(Loop) \subseteq conns \cup snap
          BY DEF RefInv, PcInv, CurInv, SnapInv, Touched, DerefPc, ServePc, TermPc, UserPc
        <4>2. ~UseAfterFree(Loop)
          BY <4>1 DEF UseAfterFree, RefInv, HeldInv, ServerInv
        <4>3. QED
          BY <2>1, <3>2, <4>2 DEF NullLoop, ServerInv
      <3>3. QED
        BY <3>1, <3>2 DEF Thread
    <2>2. ASSUME NEW u \in User, UseDeadLoop(u) PROVE FALSE
      BY <2>2 DEF UseDeadLoop, LoopUsePc, ServerInv
    <2>3. ASSUME NEW u \in User, NEW c \in UserConn, UseStale(u, c) PROVE FALSE
      BY <2>3 DEF UseStale
    <2>4. QED
      BY <2>1, <2>2, <2>3 DEF Undefined
  <1>5. ASSUME LoopStep PROVE ServerInv'
    <2>1. ub' = ub /\ reused' = reused /\ \A u \in User : pc'[u] = pc[u]
      <3>1. ub' = ub /\ reused' = reused
        BY <1>5 DEF LoopStep, LoopWork, LoopWait, terminate, TermEnter, remove_net,
         RemoveWakeup, TermUnlink, OnClose, OnCloseClear, TermReturn, Unlock,
         LoopCheck, process_task, RunTask, RunDone, SnapLock, SnapUnlock,
         SelectTimeout, SelectReady, SelectError, OnSendNothing, OnSendSome,
         OnSendBroken, LoopRelease, ReleaseReused, ServeDone, remove_all, SnapWalk, ServeSkip,
         OnReadKeep, OnReadBroken, AcceptBlocks, AcceptFails, OnAccept, AtAccept
      <3>2. \E label : pc' = [pc EXCEPT ![Loop] = label]
        <4>1. CASE RunTask \/ \E c \in Conn : SnapWalk(c)
          BY <4>1 DEF RunTask, SnapWalk, RefInv, TypeOK, ThreadTypeOK
        <4>2. CASE terminate(Loop)
          BY <4>2 DEF terminate, TermEnter, remove_net, RemoveWakeup, TermUnlink, OnClose,
             OnCloseClear, TermReturn, Unlock, Goto
        <4>3. QED
          BY <1>5, <4>1, <4>2 DEF LoopStep, LoopWork, LoopWait, LoopCheck, process_task, RunDone, SnapLock,
             SnapUnlock, SelectTimeout, SelectReady, SelectError, OnSendNothing, OnSendSome,
             OnSendBroken, LoopRelease, ReleaseReused, ServeDone, remove_all, ServeSkip, OnReadKeep,
             OnReadBroken, AcceptBlocks, AcceptFails, OnAccept, AtAccept, Goto
      <3>3. QED
        BY <1>1, <3>1, <3>2 DEF RefInv, TypeOK, ThreadTypeOK
    <2>2. ASSUME pc'[Loop] = "remove" PROVE linked'[cur'[Loop]]
      <3>1. TermEnter(Loop)
        BY <1>5, <1>1, <2>2 DEF LoopStep, LoopWork, LoopWait, terminate, remove_net,
         RemoveWakeup, TermUnlink, OnClose, OnCloseClear, TermReturn, Unlock,
         LoopCheck, process_task, RunTask, RunDone, SnapLock, SnapUnlock,
         SelectTimeout, SelectReady, SelectError, OnSendNothing, OnSendSome,
         OnSendBroken, LoopRelease, ReleaseReused, ServeDone, remove_all, SnapWalk, ServeSkip,
         OnReadKeep, OnReadBroken, AcceptBlocks, AcceptFails, OnAccept, AtAccept, Goto, RefInv, TypeOK, ThreadTypeOK
      <3>2. QED
        BY <1>1, <2>2, <3>1 DEF TermEnter, Goto, connVars, RefInv, TypeOK, ThreadTypeOK
    <2>3. QED
      BY <2>1, <2>2 DEF ServerInv
  <1>6. CASE UNCHANGED vars
    BY <1>6 DEF vars, connVars, ServerInv
  <1>7. QED
    BY <1>2, <1>3, <1>4, <1>5, <1>6 DEF Next

\* demo/main.cpp: as long as the other threads only call stop, the loop with
\* its acceptors and connections does nothing undefined, and every connection
\* it accepted is reported closed exactly once before it is deleted.
THEOREM ServerCorrect ==
    ASSUME Ops \subseteq {"stop"}
    PROVE  Spec => []ServerSafe
  <1>1. Init => ServerInv
    BY DEF Init, ServerInv, Thread
  <1>2. ServerInv => NoUndefined
    BY DEF ServerInv, NoUndefined
  <1>3. RefInv /\ ServerInv /\ [Next]_vars => ServerInv'
    BY ServerStep
  <1>4. Spec => []NoUndefined
    BY <1>1, <1>2, <1>3, RefInvCorrect, PTL DEF Spec
  <1>5. NoUndefined /\ ClosedExactlyOnce => ServerSafe
    BY DEF ServerSafe
  <1>6. QED
    BY <1>4, <1>5, ClosedCorrect, PTL
-----------------------------------------------------------------------------
(* The tasks *)

\* Taking the list and running a task of it leave the sequence of all tasks as it
\* is; add_task lengthens it.
LEMMA SubmittedStep ==
    ASSUME TypeOK, PcInv, BatchInv, [Next]_vars
    PROVE  /\ BatchInv'
           /\ \/ UNCHANGED <<Submitted, ntask>>
              \/ \E u \in User : /\ ntask' = [ntask EXCEPT ![u] = @ + 1]
                                /\ Submitted' = Append(Submitted, <<u, ntask[u] + 1>>)
  <1> DEFINE T == User \X Nat
  <1>1. done \in Seq(T) /\ batch \in Seq(T) /\ tasks \in Seq(T) /\ ntask \in [User -> Nat]
    BY DEF TypeOK, TaskTypeOK
  <1>2. Loop \in Thread /\ \A u \in User : u \in Thread /\ u # Loop
    BY DEF Thread
  <1> HIDE DEF T
  <1>3. CASE process_task
    <2>1. batch = <<>> /\ batch' = tasks /\ tasks' = <<>> /\ UNCHANGED <<done, ntask>> /\ pc'[Loop] = "run"
      BY <1>3, <1>2 DEF process_task, BatchInv, Goto, TypeOK, ThreadTypeOK
    <2>2. done \o batch = done /\ done' \o batch' \in Seq(T)
      BY <1>1, <2>1, ConcatEmptySeq, ConcatProperties
    <2>3. (done' \o batch') \o tasks' = done' \o batch'
      BY <2>1, <2>2, ConcatEmptySeq
    <2>4. QED
      BY <2>1, <2>2, <2>3 DEF Submitted, BatchInv
  <1>4. CASE RunTask
    <2>1. batch # <<>> /\ pc'[Loop] = "run" /\ UNCHANGED <<tasks, ntask>>
          /\ done' = Append(done, Head(batch)) /\ batch' = Tail(batch)
      BY <1>4 DEF RunTask
    <2>2. Append(done, Head(batch)) \o Tail(batch) = done \o batch
      <3>1. Head(batch) \in T /\ Tail(batch) \in Seq(T) /\ Len(Tail(batch)) = Len(batch) - 1 /\ Len(batch) \in Nat
            /\ Head(batch) = batch[1] /\ Len(done) \in Nat /\ Len(batch) # 0
        BY <1>1, <2>1, HeadTailProperties, EmptySeq, LenProperties
      <3>2. /\ Append(done, Head(batch)) \in Seq(T) /\ Len(Append(done, Head(batch))) = Len(done) + 1
            /\ \A i \in 1 .. Len(done) : Append(done, Head(batch))[i] = done[i]
            /\ Append(done, Head(batch))[Len(done) + 1] = batch[1]
        BY <1>1, <3>1, AppendProperties
      <3>3. \A i \in 1 .. Len(batch) - 1 : Tail(batch)[i] = batch[i + 1]
        BY <1>1, <2>1, <3>1, HeadTailProperties
      <3> DEFINE l == Append(done, Head(batch)) \o Tail(batch)
                 r == done \o batch
      <3>4. /\ l \in Seq(T) /\ Len(l) = Len(done) + Len(batch)
            /\ \A i \in 1 .. Len(done) + Len(batch) :
                  l[i] = IF i <= Len(done) + 1 THEN Append(done, Head(batch))[i]
                         ELSE Tail(batch)[i - (Len(done) + 1)]
        BY <3>1, <3>2, ConcatProperties
      <3>5. /\ r \in Seq(T) /\ Len(r) = Len(done) + Len(batch)
            /\ \A i \in 1 .. Len(done) + Len(batch) :
                  r[i] = IF i <= Len(done) THEN done[i] ELSE batch[i - Len(done)]
        BY <1>1, ConcatProperties
      <3> HIDE DEF l, r
      <3>6. ASSUME NEW i \in 1 .. Len(done) + Len(batch) PROVE l[i] = r[i]
        <4>1. CASE i <= Len(done)
          BY <4>1, <3>1, <3>2, <3>4, <3>5
        <4>2. CASE i = Len(done) + 1
          BY <4>2, <3>1, <3>2, <3>4, <3>5
        <4>3. CASE i > Len(done) + 1
          <5>1. i - (Len(done) + 1) \in 1 .. Len(batch) - 1
            BY <4>3, <3>1
          <5>2. Tail(batch)[i - (Len(done) + 1)] = batch[i - (Len(done) + 1) + 1]
            BY <5>1, <3>3
          <5>3. i - (Len(done) + 1) + 1 = i - Len(done)
            BY <3>1
          <5>4. QED
            BY <4>3, <5>2, <5>3, <3>1, <3>4, <3>5
        <4>4. QED
          BY <4>1, <4>2, <4>3, <3>1
      <3>7. l = r
        BY <3>4, <3>5, <3>6, SeqEqual
      <3>8. QED
        BY <3>7 DEF l, r
    <2>3. QED
      BY <2>1, <2>2 DEF Submitted, BatchInv
  <1>5. ASSUME NEW u \in User, add_task(u)
        PROVE  /\ BatchInv'
               /\ ntask' = [ntask EXCEPT ![u] = @ + 1]
               /\ Submitted' = Append(Submitted, <<u, ntask[u] + 1>>)
    <2> DEFINE k == <<u, ntask[u] + 1>>
    <2>1. /\ ntask' = [ntask EXCEPT ![u] = @ + 1] /\ tasks' = Append(tasks, k)
          /\ UNCHANGED <<batch, done>> /\ pc'[Loop] = pc[Loop]
      BY <1>5, <1>2 DEF add_task, Goto, TypeOK, ThreadTypeOK
    <2>2. k \in T
      BY <1>1 DEF T
    <2> HIDE DEF k
    <2>3. done \o batch \in Seq(T)
      BY <1>1, ConcatProperties
    <2>4. (done \o batch) \o Append(tasks, k) = Append((done \o batch) \o tasks, k)
      BY <1>1, <2>2, <2>3, AppendIsConcat, ConcatAssociative, ConcatProperties, SMTT(30)
    <2>5. QED
      BY <2>1, <2>4 DEF Submitted, BatchInv, k
  <1>6. CASE /\ UNCHANGED <<done, batch, tasks, ntask>>
             /\ pc'[Loop] = pc[Loop] \/ pc[Loop] # "run" \/ batch = <<>>
    BY <1>6 DEF Submitted, BatchInv
  <1>7. CASE LoopStep
    <2>1. CASE RunDone
      BY <2>1, <1>6 DEF RunDone, taskVars
    <2>2. CASE terminate(Loop)
      BY <2>2, <1>6 DEF terminate, TermEnter, remove_net,
         RemoveWakeup, TermUnlink, OnClose, OnCloseClear, TermReturn, Unlock, taskVars
    <2>3. QED
      BY <1>7, <2>1, <2>2, <1>3, <1>4, <1>6 DEF LoopStep, LoopWork, LoopWait, LoopCheck, SnapLock, SnapUnlock,
         SelectTimeout, SelectReady, SelectError, OnSendNothing, OnSendSome,
         OnSendBroken, LoopRelease, ReleaseReused, ServeDone, remove_all, SnapWalk, ServeSkip,
         OnReadKeep, OnReadBroken, AcceptBlocks, AcceptFails, OnAccept, AtAccept, taskVars
  <1>8. ASSUME NEW u \in User, UserStep(u) \/ UserCall(u), ~add_task(u)
        PROVE  BatchInv' /\ UNCHANGED <<Submitted, ntask>>
    <2>1. UNCHANGED <<done, batch, tasks, ntask>>
      BY <1>8 DEF UserStep, UserCall, terminate, TermEnter, remove_net, RemoveWakeup, TermUnlink,
         OnClose, OnCloseClear, TermReturn, Unlock, add_net, wakeup, send_msg, SendBroken,
         StartAddNet, reconnect, StartTerminate, StartSend, StartAddTask, stop, taskVars
    <2>2. pc'[Loop] = pc[Loop]
      <3>1. \E label : pc' = [pc EXCEPT ![u] = label] \/ pc' = pc
        BY <1>8 DEF UserStep, UserCall, terminate, TermEnter, remove_net, RemoveWakeup, TermUnlink,
           OnClose, OnCloseClear, TermReturn, Unlock, add_net, wakeup, send_msg, SendBroken,
           StartAddNet, reconnect, StartTerminate, StartSend, StartAddTask, stop, Goto, Return
      <3>2. QED
        BY <3>1, <1>2 DEF TypeOK, ThreadTypeOK
    <2>3. QED
      BY <2>1, <2>2 DEF Submitted, BatchInv
  <1>9. CASE Undefined \/ UNCHANGED vars
    BY <1>9, <1>6 DEF Undefined, UseAfterFree, NullLoop, UseDeadLoop, UseStale, Fault, vars, taskVars
  <1>10. QED
    BY <1>5, <1>7, <1>8, <1>9 DEF Next

\* No task is lost, run twice or overtaken by a later one of the same user, from
\* add_task over the swap of the list to its run, for any number of users and tasks.
THEOREM TasksCorrect == Spec => []TasksInOrder
  <1>1. Init => BatchInv /\ TasksInOrder
    <2> SUFFICES ASSUME Init PROVE BatchInv /\ TasksInOrder
      OBVIOUS
    <2>1. Submitted = <<>> /\ DOMAIN Submitted = {}
      BY DEF Init, Submitted
    <2>2. QED
      BY <2>1 DEF Init, BatchInv, TasksInOrder
  <1>2. ASSUME TypeOK, PcInv, BatchInv, TasksInOrder, [Next]_vars PROVE BatchInv' /\ TasksInOrder'
    <2>1. BatchInv'
      BY <1>2, SubmittedStep
    <2>2. CASE UNCHANGED <<Submitted, ntask>>
      BY <1>2, <2>1, <2>2 DEF TasksInOrder
    <2>3. ASSUME NEW u \in User, ntask' = [ntask EXCEPT ![u] = @ + 1],
                 Submitted' = Append(Submitted, <<u, ntask[u] + 1>>)
          PROVE  TasksInOrder'
      <3> DEFINE q == Submitted
                 n == Len(q)
                 k == <<u, ntask[u] + 1>>
      <3>1. q \in Seq(User \X Nat) /\ ntask \in [User -> Nat]
        <4>1. done \in Seq(User \X Nat) /\ batch \in Seq(User \X Nat) /\ tasks \in Seq(User \X Nat)
              /\ ntask \in [User -> Nat]
          BY <1>2 DEF TypeOK, TaskTypeOK
        <4>2. QED
          BY <4>1, ConcatProperties DEF Submitted
      <3>2. k \in User \X Nat /\ k[1] = u /\ k[2] = ntask[u] + 1 /\ ntask[u] \in Nat
        BY <3>1
      <3>3. /\ n \in Nat /\ DOMAIN q = 1 .. n /\ DOMAIN Submitted' = 1 .. n + 1
            /\ \A i \in 1 .. n : Submitted'[i] = q[i] /\ q[i] \in User \X Nat
            /\ Submitted'[n + 1] = k
        <4>1. n \in Nat /\ DOMAIN q = 1 .. n /\ \A i \in 1 .. n : q[i] \in User \X Nat
          BY <3>1, LenProperties, ElementOfSeq
        <4>2. /\ Append(q, k) \in Seq(User \X Nat) /\ Len(Append(q, k)) = n + 1
              /\ \A i \in 1 .. n : Append(q, k)[i] = q[i]
              /\ Append(q, k)[n + 1] = k
          BY <3>1, <3>2, AppendProperties
        <4>3. DOMAIN Append(q, k) = 1 .. n + 1
          BY <4>2, LenProperties
        <4>4. QED
          BY <4>1, <4>2, <4>3, <2>3
      <3> DEFINE Q == Submitted'
      <3>4. /\ \A v \in User : \A m \in 1 .. ntask[v] : \E i \in 1 .. n : q[i] = <<v, m>>
            /\ \A i \in 1 .. n : q[i][2] \in 1 .. ntask[q[i][1]]
            /\ \A i, j \in 1 .. n : i < j /\ q[i][1] = q[j][1] => q[i][2] < q[j][2]
        BY <1>2, <3>3, Zenon DEF TasksInOrder
      <3> HIDE DEF q, n, k, Q
      <3>5. ASSUME NEW v \in User, NEW m \in 1 .. ntask'[v] PROVE \E i \in 1 .. n + 1 : Q[i] = <<v, m>>
        <4>1. CASE v = u /\ m = ntask[u] + 1
          <5>1. Q[n + 1] = <<v, m>>
            BY <4>1, <3>3 DEF k, Q
          <5>2. QED
            BY <5>1, <3>3
        <4>2. CASE ~(v = u /\ m = ntask[u] + 1)
          <5>1. m \in 1 .. ntask[v]
            BY <4>2, <2>3, <3>1, <3>2
          <5>2. PICK i \in 1 .. n : q[i] = <<v, m>>
            BY <5>1, <3>4
          <5>3. QED
            BY <5>2, <3>3 DEF Q
        <4>3. QED
          BY <4>1, <4>2
      <3>6. ASSUME NEW i \in 1 .. n PROVE Q[i][2] \in 1 .. ntask[Q[i][1]] /\ Q[i][1] \in User /\ Q[i] = q[i]
        BY <3>3, <3>4 DEF Q
      <3>7. ASSUME NEW i \in 1 .. n + 1 PROVE Q[i][2] \in 1 .. ntask'[Q[i][1]]
        <4>1. CASE i = n + 1
          BY <4>1, <2>3, <3>1, <3>2, <3>3 DEF Q
        <4>2. CASE i \in 1 .. n
          <5>1. Q[i][2] \in 1 .. ntask[Q[i][1]] /\ Q[i][1] \in User
            BY <4>2, <3>6
          <5>2. ntask[Q[i][1]] \in Nat /\ ntask'[Q[i][1]] \in Nat /\ ntask[Q[i][1]] <= ntask'[Q[i][1]]
            BY <5>1, <2>3, <3>1
          <5>3. QED
            BY <5>1, <5>2
        <4>3. QED
          BY <4>1, <4>2, <3>3
      <3>8. ASSUME NEW i \in 1 .. n + 1, NEW j \in 1 .. n + 1, i < j, Q[i][1] = Q[j][1] PROVE Q[i][2] < Q[j][2]
        <4>1. i \in 1 .. n
          BY <3>8, <3>3
        <4>2. CASE j = n + 1
          <5>1. Q[j][1] = u /\ Q[j][2] = ntask[u] + 1
            BY <4>2, <3>2, <3>3 DEF Q
          <5>2. Q[i][2] \in 1 .. ntask[u]
            BY <4>1, <5>1, <3>6, <3>8
          <5>3. QED
            BY <5>1, <5>2, <3>2
        <4>3. CASE j \in 1 .. n
          BY <4>1, <4>3, <3>4, <3>6, <3>8
        <4>4. QED
          BY <4>2, <4>3, <3>3
      <3>9. DOMAIN Q = 1 .. n + 1
        BY <3>3 DEF Q
      <3>10. QED
        BY <3>5, <3>7, <3>8, <3>9, Zenon DEF TasksInOrder, Q
    <2>4. QED
      BY <1>2, <2>1, <2>2, <2>3, SubmittedStep
  <1>3. RefInv => TypeOK /\ PcInv
    BY DEF RefInv
  <1>4. QED
    BY <1>1, <1>2, <1>3, RefInvCorrect, PTL DEF Spec
=============================================================================
