------------------------------ MODULE EventLoop ------------------------------
(***************************************************************************)
(* core/eventloop.cpp with the part of core/net_io.cpp, core/tcp_conn.cpp  *)
(* and core/ngx_acceptor.cpp that shares state with it: the set of         *)
(* connections and their reference counts, the task list, the wakeup       *)
(* eventfd, the stop flag, and the two kinds of lock (_lck of the loop and *)
(* _lck of a tcp_conn).                                                    *)
(*                                                                         *)
(* One thread, Loop, runs eventloop::loop; the threads of User call the    *)
(* public operations: add_net on a connection they made, reconnect,        *)
(* send_msg and terminate on a connection they hold a bare pointer to,     *)
(* add_task, stop.                                                         *)
(* A thread's step is the code between two points where another thread can *)
(* see a difference.  The loop's _timers is empty here (see LoopTimer).    *)
(*                                                                         *)
(* The first use of freed memory, of a destroyed loop or of a null _loop   *)
(* is recorded in ub, with the thread that did it, and ends the behaviour: *)
(* the code gives no meaning to what follows.                              *)
(***************************************************************************)
EXTENDS Integers, Sequences, FiniteSets

CONSTANTS
    Loop,       \* the thread that runs eventloop::loop
    User,       \* the other threads
    Acceptor,   \* listening sockets, in the loop from the start
    AccConn,    \* connections an acceptor can make
    UserConn,   \* connections the users can make
    MaxTask,    \* bound: how many tasks a user submits
    Ops,        \* the operations the users call
    SendFails,  \* can send() report a broken connection?
    None        \* no thread, no connection

Thread == User \cup {Loop}
Conn == Acceptor \cup AccConn \cup UserConn

ASSUME ThreadAssumption == Loop \notin User /\ None \notin Thread
ASSUME ConnAssumption ==
    /\ None \notin Conn
    /\ Acceptor \cap AccConn = {}
    /\ UserConn \cap (Acceptor \cup AccConn) = {}
ASSUME OpsAssumption ==
    Ops \subseteq {"add_net", "reconnect", "send_msg", "terminate", "add_task", "stop"}
ASSUME BoundAssumption == MaxTask \in Nat /\ SendFails \in BOOLEAN

VARIABLES
    running,    \* eventloop::_running
    conns,      \* eventloop::_conns
    tasks,      \* eventloop::_tasks, a task being <<user, n>>
    wake,       \* is the counter of _wake_fd above 0?
    mem,        \* "none": not made; "new": made, not in the loop yet; "live"; "freed"
    ref,        \* net_io::_ref
    linked,     \* net_io::_loop # NULL
    brk,        \* net_io::_brk_tm # 0
    cb,         \* net_io::_disconn_cb # NULL
    closed,     \* how often _disconn_cb was called
    mtx,        \* the owner of tcp_conn::_lck
    sbuf, wq,   \* tcp_conn::_snd_buf # NULL, _wait_snds not empty
    pc, cur,    \* where a thread is, and the connection it works on
    batch,      \* tsks of process_task
    todo,       \* _conns the snapshot has still to visit
    snap,       \* conns of loop(): one reference held on each
    rd, wt,     \* rd_fds, wt_fds
    done,       \* the tasks run so far
    ntask,      \* how many tasks each user submitted
    reused,     \* history: connections add_net took a second time, with no reference for it
    ub          \* the undefined behaviour met: which thread, and how

connVars == <<mem, ref, linked, brk, cb, closed, mtx, sbuf, wq>>
taskVars == <<tasks, batch, done, ntask>>
pollVars == <<todo, snap, rd, wt>>
vars == <<running, conns, wake, connVars, taskVars, pollVars, pc, cur, ub, reused>>

\* _lck of the loop is held over several steps only by the snapshot.
LckFree == pc[Loop] # "walk"

LoopPc == {"check", "task", "run", "snap", "walk", "select", "serve", "dtor", "dead"}
ServePc == {"accept", "onsend", "release"}
TermPc == {"term", "remove", "rwake", "unlink", "onclose", "clearcb", "brk", "unlock"}
UserPc == {"idle", "addnet", "wakeup", "push", "lockm"}

\* The program points whose next step dereferences cur[t].
DerefPc == ServePc \cup (TermPc \ {"rwake"}) \cup {"addnet", "lockm"}

\* The connections the next step of t can dereference.
Touched(t) ==
    CASE pc[t] = "walk"  -> todo
      [] pc[t] = "serve" -> snap
      [] pc[t] = "dtor"  -> conns
      [] pc[t] \in DerefPc -> {cur[t]}
      [] OTHER -> {}

\* The program points whose next step dereferences the eventloop.
LoopUsePc == {"addnet", "wakeup", "push", "remove", "rwake"}

Alive(t) == mem[cur[t]] # "freed"
LoopAlive == pc[Loop] # "dead"

Goto(t, label) == pc' = [pc EXCEPT ![t] = label]

\* The call of a user returns.
Return(u) ==
    /\ pc' = [pc EXCEPT ![u] = "idle"]
    /\ cur' = [cur EXCEPT ![u] = None]

Init ==
    /\ running = TRUE
    /\ conns = Acceptor
    /\ tasks = <<>>
    /\ wake = (Acceptor # {})
    /\ mem = [c \in Conn |-> IF c \in Acceptor THEN "live" ELSE "none"]
    /\ ref = [c \in Conn |-> IF c \in Acceptor THEN 1 ELSE 0]
    /\ linked = [c \in Conn |-> c \in Acceptor]
    /\ brk = [c \in Conn |-> FALSE]
    /\ cb = [c \in Conn |-> FALSE]
    /\ closed = [c \in Conn |-> 0]
    /\ mtx = [c \in Conn |-> None]
    /\ sbuf = [c \in Conn |-> FALSE]
    /\ wq = [c \in Conn |-> FALSE]
    /\ pc = [t \in Thread |-> IF t = Loop THEN "check" ELSE "idle"]
    /\ cur = [t \in Thread |-> None]
    /\ batch = <<>>
    /\ todo = {} /\ snap = {} /\ rd = {} /\ wt = {}
    /\ done = <<>>
    /\ ntask = [u \in User |-> 0]
    /\ ub = {}
    /\ reused = {}
-----------------------------------------------------------------------------
(* net_io *)

\* release(): delete this when the count reaches 0.  ~net_io calls terminate,
\* which with _loop = NULL only sets _brk_tm (else see ReleaseReused).
release(c) ==
    /\ ref' = [ref EXCEPT ![c] = @ - 1]
    /\ mem' = [mem EXCEPT ![c] = IF ref[c] = 1 THEN "freed" ELSE @]

\* new tcp_conn
Made(c) ==
    /\ ref' = [ref EXCEPT ![c] = 1]
    /\ cb' = [cb EXCEPT ![c] = TRUE]

\* terminate(): is the connection in a loop?
TermEnter(t) ==
    /\ pc[t] = "term"
    /\ Alive(t)
    /\ Goto(t, IF linked[cur[t]] THEN "remove" ELSE "brk")
    /\ UNCHANGED <<running, conns, wake, connVars, taskVars, pollVars, cur, ub, reused>>

\* Mutant of remove_net: the connection is released with _loop still set.
RemoveNetKeepsLoop(t) ==
    LET c == cur[t] IN
    /\ pc[t] = "remove"
    /\ LckFree
    /\ LoopAlive
    /\ IF c \in conns
       THEN Alive(t) /\ release(c) /\ conns' = conns \ {c}
       ELSE UNCHANGED <<ref, mem, conns>>
    /\ Goto(t, "rwake")
    /\ UNCHANGED <<running, wake, linked, brk, cb, closed, mtx, sbuf, wq, taskVars, pollVars, cur, ub, reused>>

\* eventloop::remove_net, its critical section.
remove_net(t) ==
    LET c == cur[t] IN
    /\ pc[t] = "remove"
    /\ LckFree
    /\ LoopAlive
    /\ IF c \in conns
       THEN /\ Alive(t)
            /\ linked' = [linked EXCEPT ![c] = FALSE]
            /\ release(c)
            /\ conns' = conns \ {c}
       ELSE UNCHANGED <<linked, ref, mem, conns>>
    /\ Goto(t, "rwake")
    /\ UNCHANGED <<running, wake, brk, cb, closed, mtx, sbuf, wq, taskVars, pollVars, cur, ub, reused>>

\* eventloop::wakeup as the end of remove_net.
RemoveWakeup(t) ==
    /\ pc[t] = "rwake"
    /\ LoopAlive
    /\ wake' = (wake \/ running)
    /\ Goto(t, "unlink")
    /\ UNCHANGED <<running, conns, connVars, taskVars, pollVars, cur, ub, reused>>

\* Mutant of TermUnlink: terminate without its call of OnClose.
TermUnlinkQuiet(t) ==
    /\ pc[t] = "unlink"
    /\ Alive(t)
    /\ linked' = [linked EXCEPT ![cur[t]] = FALSE]
    /\ Goto(t, "brk")
    /\ UNCHANGED <<running, conns, wake, mem, ref, brk, cb, closed, mtx, sbuf, wq,
                   taskVars, pollVars, cur, ub, reused>>

\* _loop = NULL
TermUnlink(t) ==
    /\ pc[t] = "unlink"
    /\ Alive(t)
    /\ linked' = [linked EXCEPT ![cur[t]] = FALSE]
    /\ Goto(t, "onclose")
    /\ UNCHANGED <<running, conns, wake, mem, ref, brk, cb, closed, mtx, sbuf, wq,
                   taskVars, pollVars, cur, ub, reused>>

\* OnClose(): test _disconn_cb and call it ...
OnClose(t) ==
    LET c == cur[t] IN
    /\ pc[t] = "onclose"
    /\ Alive(t)
    /\ closed' = [closed EXCEPT ![c] = IF cb[c] THEN @ + 1 ELSE @]
    /\ Goto(t, IF cb[c] THEN "clearcb" ELSE "brk")
    /\ UNCHANGED <<running, conns, wake, mem, ref, linked, brk, cb, mtx, sbuf, wq,
                   taskVars, pollVars, cur, ub, reused>>

\* ... and clear it.
OnCloseClear(t) ==
    /\ pc[t] = "clearcb"
    /\ Alive(t)
    /\ cb' = [cb EXCEPT ![cur[t]] = FALSE]
    /\ Goto(t, "brk")
    /\ UNCHANGED <<running, conns, wake, mem, ref, linked, brk, closed, mtx, sbuf, wq,
                   taskVars, pollVars, cur, ub, reused>>

\* _brk_tm = time(NULL), and back to the caller: send_msg and OnSend call
\* terminate with _lck of the connection held, OnRead and the users without.
TermReturn(t) ==
    LET c == cur[t] IN
    /\ pc[t] = "brk"
    /\ Alive(t)
    /\ brk' = [brk EXCEPT ![c] = TRUE]
    /\ IF mtx[c] = t THEN Goto(t, "unlock") /\ UNCHANGED cur
       ELSE IF t = Loop THEN Goto(t, "onsend") /\ UNCHANGED cur
       ELSE Return(t)
    /\ UNCHANGED <<running, conns, wake, mem, ref, linked, cb, closed, mtx, sbuf, wq,
                   taskVars, pollVars, ub, reused>>

\* The unique_lock of send_msg or OnSend goes out of scope.
Unlock(t) ==
    /\ pc[t] = "unlock"
    /\ Alive(t)
    /\ mtx' = [mtx EXCEPT ![cur[t]] = None]
    /\ IF t = Loop THEN Goto(t, "release") /\ UNCHANGED cur ELSE Return(t)
    /\ UNCHANGED <<running, conns, wake, mem, ref, linked, brk, cb, closed, sbuf, wq,
                   taskVars, pollVars, ub, reused>>

terminate(t) ==
    \/ TermEnter(t) \/ remove_net(t) \/ RemoveWakeup(t) \/ TermUnlink(t)
    \/ OnClose(t) \/ OnCloseClear(t) \/ TermReturn(t) \/ Unlock(t)
-----------------------------------------------------------------------------
(* The loop thread *)

\* while (_running)
LoopCheck ==
    /\ pc[Loop] = "check"
    /\ Goto(Loop, IF running THEN "task" ELSE "dtor")
    /\ UNCHANGED <<running, conns, wake, connVars, taskVars, pollVars, cur, ub, reused>>

\* Mutant of process_task: the list is copied, not swapped out.
ProcessTaskCopy ==
    /\ pc[Loop] = "task"
    /\ batch' = tasks
    /\ Goto(Loop, "run")
    /\ UNCHANGED <<running, conns, wake, connVars, tasks, done, ntask, pollVars, cur, ub, reused>>

\* process_task: swap the list out under _lck_task ...
process_task ==
    /\ pc[Loop] = "task"
    /\ batch' = tasks
    /\ tasks' = <<>>
    /\ Goto(Loop, "run")
    /\ UNCHANGED <<running, conns, wake, connVars, done, ntask, pollVars, cur, ub, reused>>

\* Mutant of RunTask: only the first task of the list is run.
RunFirstTask ==
    /\ pc[Loop] = "run"
    /\ batch # <<>>
    /\ done' = Append(done, Head(batch))
    /\ batch' = <<>>
    /\ UNCHANGED <<running, conns, wake, connVars, tasks, ntask, pollVars, pc, cur, ub, reused>>

\* ... and run it.
RunTask ==
    /\ pc[Loop] = "run"
    /\ batch # <<>>
    /\ done' = Append(done, Head(batch))
    /\ batch' = Tail(batch)
    /\ UNCHANGED <<running, conns, wake, connVars, tasks, ntask, pollVars, pc, cur, ub, reused>>

RunDone ==
    /\ pc[Loop] = "run"
    /\ batch = <<>>
    /\ Goto(Loop, "snap")
    /\ UNCHANGED <<running, conns, wake, connVars, taskVars, pollVars, cur, ub, reused>>

\* Take _lck for the snapshot.
SnapLock ==
    /\ pc[Loop] = "snap"
    /\ todo' = conns
    /\ Goto(Loop, "walk")
    /\ UNCHANGED <<running, conns, wake, connVars, taskVars, snap, rd, wt, cur, ub, reused>>

\* Mutant of SnapWalk: the snapshot keeps bare pointers.
SnapWalkNoRef(c) ==
    /\ pc[Loop] = "walk"
    /\ c \in todo
    /\ mem[c] # "freed"
    /\ mtx[c] = None
    /\ snap' = snap \cup {c}
    /\ todo' = todo \ {c}
    /\ wt' = IF wq[c] THEN wt \cup {c} ELSE wt
    /\ UNCHANGED <<running, conns, wake, connVars, taskVars, rd, pc, cur, ub, reused>>

\* One connection of the snapshot: add_ref, and wait_sndmsg_size, which
\* locks the connection.
SnapWalk(c) ==
    /\ pc[Loop] = "walk"
    /\ c \in todo
    /\ mem[c] # "freed"
    /\ mtx[c] = None
    /\ ref' = [ref EXCEPT ![c] = @ + 1]
    /\ snap' = snap \cup {c}
    /\ todo' = todo \ {c}
    /\ wt' = IF wq[c] THEN wt \cup {c} ELSE wt
    /\ UNCHANGED <<running, conns, wake, mem, linked, brk, cb, closed, mtx, sbuf, wq,
                   taskVars, rd, pc, cur, ub, reused>>

SnapUnlock ==
    /\ pc[Loop] = "walk"
    /\ todo = {}
    /\ Goto(Loop, "select")
    /\ UNCHANGED <<running, conns, wake, connVars, taskVars, pollVars, cur, ub, reused>>

\* Mutant of SelectTimeout: select() called without a timeval.
SelectNoTimeout == FALSE

\* select() returns 0: the timeout passed with nothing ready.
SelectTimeout ==
    /\ pc[Loop] = "select"
    /\ ~wake
    /\ rd' = {}
    /\ wt' = {}
    /\ Goto(Loop, "serve")
    /\ UNCHANGED <<running, conns, wake, connVars, taskVars, todo, snap, cur, ub, reused>>

\* select() returns > 0; handle_read resets the eventfd.
SelectReady ==
    /\ pc[Loop] = "select"
    /\ rd' \in SUBSET snap
    /\ wt' \in SUBSET wt
    /\ wake \/ rd' # {} \/ wt' # {}
    /\ wake' = FALSE
    /\ Goto(Loop, "serve")
    /\ UNCHANGED <<running, conns, connVars, taskVars, todo, snap, cur, ub, reused>>

\* select() returns -1 (a signal): the sets keep what was put into them, so
\* every connection looks ready, and handle_read is not called.
SelectError ==
    /\ pc[Loop] = "select"
    /\ rd' = snap
    /\ Goto(Loop, "serve")
    /\ UNCHANGED <<running, conns, wake, connVars, taskVars, todo, snap, wt, cur, ub, reused>>

\* The next connection of the snapshot is not readable.
ServeSkip(c) ==
    /\ pc[Loop] = "serve"
    /\ c \in snap \ rd
    /\ mem[c] # "freed"
    /\ cur' = [cur EXCEPT ![Loop] = c]
    /\ Goto(Loop, "onsend")
    /\ UNCHANGED <<running, conns, wake, connVars, taskVars, pollVars, ub, reused>>

\* OnRead of a tcp_conn that got data, with or without a whole message.
OnReadKeep(c) ==
    /\ pc[Loop] = "serve"
    /\ c \in (snap \cap rd) \ Acceptor
    /\ mem[c] # "freed"
    /\ cur' = [cur EXCEPT ![Loop] = c]
    /\ Goto(Loop, "onsend")
    /\ UNCHANGED <<running, conns, wake, connVars, taskVars, pollVars, ub, reused>>

\* OnRead of a tcp_conn whose peer closed or whose recv() failed: terminate.
OnReadBroken(c) ==
    /\ pc[Loop] = "serve"
    /\ c \in (snap \cap rd) \ Acceptor
    /\ mem[c] # "freed"
    /\ cur' = [cur EXCEPT ![Loop] = c]
    /\ Goto(Loop, "term")
    /\ UNCHANGED <<running, conns, wake, connVars, taskVars, pollVars, ub, reused>>

\* OnRead of an acceptor is at the call of accept(), or blocked in it.
AtAccept(c) ==
    /\ \/ pc[Loop] = "serve" /\ c \in snap \cap rd \cap Acceptor
       \/ pc[Loop] = "accept" /\ cur[Loop] = c
    /\ mem[c] # "freed"

\* accept() finds no client: the listening socket was never made
\* non-blocking, so the loop waits in it.  Always so when the acceptor is in
\* rd_fds only because select() failed, and when the client has gone again.
AcceptBlocks(c) ==
    /\ pc[Loop] = "serve"
    /\ AtAccept(c)
    /\ cur' = [cur EXCEPT ![Loop] = c]
    /\ Goto(Loop, "accept")
    /\ UNCHANGED <<running, conns, wake, connVars, taskVars, pollVars, ub, reused>>

\* accept() returns -1, at once or after it was blocked.
AcceptFails(c) ==
    /\ AtAccept(c)
    /\ cur' = [cur EXCEPT ![Loop] = c]
    /\ Goto(Loop, "onsend")
    /\ UNCHANGED <<running, conns, wake, connVars, taskVars, pollVars, ub, reused>>

\* accept() returns a client: make the connection n, add_net(n).  A loop
\* that was stopped does not take it, and nothing else keeps n.
OnAccept(c, n) ==
    /\ AtAccept(c)
    /\ mem[n] = "none"
    /\ Made(n)
    /\ IF running
       THEN /\ conns' = conns \cup {n}
            /\ linked' = [linked EXCEPT ![n] = TRUE]
            /\ mem' = [mem EXCEPT ![n] = "live"]
            /\ wake' = TRUE
       ELSE /\ mem' = [mem EXCEPT ![n] = "new"]
            /\ UNCHANGED <<conns, linked, wake>>
    /\ cur' = [cur EXCEPT ![Loop] = c]
    /\ Goto(Loop, "onsend")
    /\ UNCHANGED <<running, brk, closed, mtx, sbuf, wq, taskVars, pollVars, ub, reused>>

\* Not writable, or an OnSend that sends nothing: with _snd_buf NULL it
\* returns whether or not the queue holds messages.
OnSendNothing ==
    LET c == cur[Loop] IN
    /\ pc[Loop] = "onsend"
    /\ Alive(Loop)
    /\ c \in wt => (mtx[c] = None /\ ~sbuf[c])
    /\ Goto(Loop, "release")
    /\ UNCHANGED <<running, conns, wake, connVars, taskVars, pollVars, cur, ub, reused>>

\* OnSend with a partly sent buffer: all, some or none (EAGAIN) of it goes.
OnSendSome ==
    LET c == cur[Loop] IN
    /\ pc[Loop] = "onsend"
    /\ Alive(Loop)
    /\ c \in wt /\ mtx[c] = None /\ sbuf[c]
    /\ \E left \in BOOLEAN : sbuf' = [sbuf EXCEPT ![c] = left]
    /\ Goto(Loop, "release")
    /\ UNCHANGED <<running, conns, wake, mem, ref, linked, brk, cb, closed, mtx, wq,
                   taskVars, pollVars, cur, ub, reused>>

\* OnSend on a broken connection: terminate with _lck held.
OnSendBroken ==
    LET c == cur[Loop] IN
    /\ SendFails
    /\ pc[Loop] = "onsend"
    /\ Alive(Loop)
    /\ c \in wt /\ mtx[c] = None /\ sbuf[c]
    /\ mtx' = [mtx EXCEPT ![c] = Loop]
    /\ Goto(Loop, "term")
    /\ UNCHANGED <<running, conns, wake, mem, ref, linked, brk, cb, closed, sbuf, wq,
                   taskVars, pollVars, cur, ub, reused>>

\* The last reference of a connection that has a _loop again goes: ~net_io
\* calls terminate, and remove_net in it releases once more.
ReleaseReused(c) ==
    /\ ref' = [ref EXCEPT ![c] = @ - 2]
    /\ mem' = [mem EXCEPT ![c] = "freed"]
    /\ conns' = conns \ {c}
    /\ linked' = [linked EXCEPT ![c] = FALSE]
    /\ wake' = (wake \/ running)
    /\ closed' = [closed EXCEPT ![c] = IF cb[c] THEN @ + 1 ELSE @]
    /\ cb' = [cb EXCEPT ![c] = FALSE]

\* pConn->release() at the end of the connection's turn.
LoopRelease ==
    LET c == cur[Loop] IN
    /\ pc[Loop] = "release"
    /\ Alive(Loop)
    /\ IF ref[c] = 1 /\ linked[c]
       THEN ReleaseReused(c)
       ELSE release(c) /\ UNCHANGED <<conns, linked, wake, closed, cb>>
    /\ snap' = snap \ {c}
    /\ cur' = [cur EXCEPT ![Loop] = None]
    /\ Goto(Loop, "serve")
    /\ UNCHANGED <<running, brk, mtx, sbuf, wq, taskVars, todo, rd, wt, ub, reused>>

\* conns.clear(), back to the top of the loop; the FD_ZEROs of the next pass
\* are done here, for nothing reads the two sets in between.
ServeDone ==
    /\ pc[Loop] = "serve"
    /\ snap = {}
    /\ rd' = {} /\ wt' = {}
    /\ Goto(Loop, "check")
    /\ UNCHANGED <<running, conns, wake, connVars, taskVars, todo, snap, cur, ub, reused>>

\* ~eventloop, after loop() returned: remove_all closes and releases every
\* connection that is left.
remove_all ==
    /\ pc[Loop] = "dtor"
    /\ \A c \in conns : mem[c] # "freed"
    /\ linked' = [c \in Conn |-> linked[c] /\ c \notin conns]
    /\ closed' = [c \in Conn |-> IF c \in conns /\ cb[c] THEN closed[c] + 1 ELSE closed[c]]
    /\ cb' = [c \in Conn |-> cb[c] /\ c \notin conns]
    /\ ref' = [c \in Conn |-> IF c \in conns THEN ref[c] - 1 ELSE ref[c]]
    /\ mem' = [c \in Conn |-> IF c \in conns /\ ref[c] = 1 THEN "freed" ELSE mem[c]]
    /\ conns' = {}
    /\ Goto(Loop, "dead")
    /\ UNCHANGED <<running, wake, brk, mtx, sbuf, wq, taskVars, pollVars, cur, ub, reused>>

LoopWork ==
    \/ LoopCheck \/ process_task \/ RunTask \/ RunDone
    \/ SnapLock \/ (\E c \in Conn : SnapWalk(c)) \/ SnapUnlock
    \/ \E c \in Conn : ServeSkip(c) \/ OnReadKeep(c) \/ OnReadBroken(c)
    \/ \E c \in Acceptor : AcceptBlocks(c) \/ (pc[Loop] = "serve" /\ AcceptFails(c))
    \/ OnSendNothing \/ OnSendSome \/ OnSendBroken
    \/ LoopRelease \/ ServeDone \/ remove_all
    \/ terminate(Loop)

\* Steps that only the outside world brings about: a client that connects, a
\* signal, readiness.
LoopWait ==
    \/ SelectReady \/ SelectError
    \/ \E c \in Acceptor : AcceptFails(c) \/ \E n \in AccConn : OnAccept(c, n)

LoopStep == LoopWork \/ SelectTimeout \/ LoopWait
-----------------------------------------------------------------------------
(* The users *)

\* Make a connection, connect, and enter add_net, which looks at _running.
StartAddNet(u, c) ==
    /\ "add_net" \in Ops
    /\ pc[u] = "idle"
    /\ LoopAlive
    /\ mem[c] = "none"
    /\ Made(c)
    /\ mem' = [mem EXCEPT ![c] = "new"]
    /\ IF running
       THEN Goto(u, "addnet") /\ cur' = [cur EXCEPT ![u] = c]
       ELSE UNCHANGED <<pc, cur>>
    /\ UNCHANGED <<running, conns, wake, linked, brk, closed, mtx, sbuf, wq,
                   taskVars, pollVars, ub, reused>>

\* CBizUser::reconnect of a broken connection, when connect() succeeds: the
\* object is used again as it is, _disconn_cb included, and _brk_tm is 0.
reconnect(u, c) ==
    /\ "reconnect" \in Ops
    /\ pc[u] = "idle"
    /\ LoopAlive
    /\ mem[c] \in {"new", "live"}
    /\ brk[c]
    /\ brk' = [brk EXCEPT ![c] = FALSE]
    /\ IF running
       THEN Goto(u, "addnet") /\ cur' = [cur EXCEPT ![u] = c]
       ELSE UNCHANGED <<pc, cur>>
    /\ UNCHANGED <<running, conns, wake, mem, ref, linked, cb, closed, mtx, sbuf, wq,
                   taskVars, pollVars, ub, reused>>

\* add_net under _lck: the set takes over the reference of the creator.  It
\* takes none of its own, so a connection that had been in the set and was
\* taken out of it is now in it without a reference.
add_net(u) ==
    LET c == cur[u] IN
    /\ pc[u] = "addnet"
    /\ LckFree
    /\ LoopAlive
    /\ Alive(u)
    /\ linked' = [linked EXCEPT ![c] = TRUE]
    /\ conns' = conns \cup {c}
    /\ mem' = [mem EXCEPT ![c] = "live"]
    /\ reused' = IF mem[c] = "live" /\ c \notin conns THEN reused \cup {c} ELSE reused
    /\ Goto(u, "wakeup")
    /\ UNCHANGED <<running, wake, ref, brk, cb, closed, mtx, sbuf, wq,
                   taskVars, pollVars, cur, ub>>

\* wakeup at the end of add_net and of add_task.
wakeup(u) ==
    /\ pc[u] = "wakeup"
    /\ LoopAlive
    /\ wake' = (wake \/ running)
    /\ Return(u)
    /\ UNCHANGED <<running, conns, connVars, taskVars, pollVars, ub, reused>>

\* add_task: dropped when the loop is stopped ...
StartAddTask(u) ==
    /\ "add_task" \in Ops
    /\ pc[u] = "idle"
    /\ LoopAlive
    /\ running
    /\ ntask[u] < MaxTask
    /\ Goto(u, "push")
    /\ UNCHANGED <<running, conns, wake, connVars, taskVars, pollVars, cur, ub, reused>>

\* Mutant of add_task: no wakeup.
AddTaskSilent(u) ==
    /\ pc[u] = "push"
    /\ LoopAlive
    /\ ntask' = [ntask EXCEPT ![u] = @ + 1]
    /\ tasks' = Append(tasks, <<u, ntask[u] + 1>>)
    /\ Return(u)
    /\ UNCHANGED <<running, conns, wake, connVars, batch, done, pollVars, ub, reused>>

\* ... else appended under _lck_task.
add_task(u) ==
    /\ pc[u] = "push"
    /\ LoopAlive
    /\ ntask' = [ntask EXCEPT ![u] = @ + 1]
    /\ tasks' = Append(tasks, <<u, ntask[u] + 1>>)
    /\ Goto(u, "wakeup")
    /\ UNCHANGED <<running, conns, wake, connVars, batch, done, pollVars, cur, ub, reused>>

\* stop: _running is false before wakeup tests it, so nothing is written.
stop(u) ==
    /\ "stop" \in Ops
    /\ pc[u] = "idle"
    /\ LoopAlive
    /\ running' = FALSE
    /\ wake' = (wake \/ running')
    /\ UNCHANGED <<conns, connVars, taskVars, pollVars, pc, cur, ub, reused>>

\* Impl::uninit: terminate a connection that is not broken yet.
StartTerminate(u, c) ==
    /\ "terminate" \in Ops
    /\ pc[u] = "idle"
    /\ mem[c] \in {"new", "live"}
    /\ ~brk[c]
    /\ cur' = [cur EXCEPT ![u] = c]
    /\ Goto(u, "term")
    /\ UNCHANGED <<running, conns, wake, connVars, taskVars, pollVars, ub, reused>>

\* send_msg returns at once on a broken connection.
StartSend(u, c) ==
    /\ "send_msg" \in Ops
    /\ pc[u] = "idle"
    /\ mem[c] \in {"new", "live"}
    /\ ~brk[c]
    /\ cur' = [cur EXCEPT ![u] = c]
    /\ Goto(u, "lockm")
    /\ UNCHANGED <<running, conns, wake, connVars, taskVars, pollVars, ub, reused>>

\* send_msg under _lck of the connection: behind other data the message is
\* queued (or refused); else it is sent, kept in part, or queued on EAGAIN.
send_msg(u) ==
    LET c == cur[u] IN
    /\ pc[u] = "lockm"
    /\ Alive(u)
    /\ mtx[c] = None
    /\ \/ UNCHANGED <<sbuf, wq>>
       \/ wq' = [wq EXCEPT ![c] = TRUE] /\ UNCHANGED sbuf
       \/ ~sbuf[c] /\ ~wq[c] /\ sbuf' = [sbuf EXCEPT ![c] = TRUE] /\ UNCHANGED wq
    /\ Return(u)
    /\ UNCHANGED <<running, conns, wake, mem, ref, linked, brk, cb, closed, mtx,
                   taskVars, pollVars, ub, reused>>

\* send_msg on a broken connection: terminate with _lck held.
SendBroken(u) ==
    LET c == cur[u] IN
    /\ SendFails
    /\ pc[u] = "lockm"
    /\ Alive(u)
    /\ mtx[c] = None
    /\ ~sbuf[c] /\ ~wq[c]
    /\ mtx' = [mtx EXCEPT ![c] = u]
    /\ Goto(u, "term")
    /\ UNCHANGED <<running, conns, wake, mem, ref, linked, brk, cb, closed, sbuf, wq,
                   taskVars, pollVars, cur, ub, reused>>

\* A user has called: these steps follow of themselves.
UserStep(u) == add_net(u) \/ wakeup(u) \/ add_task(u) \/ send_msg(u) \/ SendBroken(u) \/ terminate(u)

UserCall(u) ==
    \/ \E c \in UserConn :
          StartAddNet(u, c) \/ reconnect(u, c) \/ StartTerminate(u, c) \/ StartSend(u, c)
    \/ StartAddTask(u)
    \/ stop(u)
-----------------------------------------------------------------------------
(* Undefined behaviour *)

Fault(t, how) ==
    /\ ub' = {<<t, how>>}
    /\ UNCHANGED <<running, conns, wake, connVars, taskVars, pollVars, pc, cur, reused>>

\* A connection or an eventloop is used after it was deleted.
UseAfterFree(t) ==
    /\ \E c \in Touched(t) : mem[c] = "freed"
    /\ Fault(t, "freed conn")

UseDeadLoop(u) ==
    /\ pc[u] \in LoopUsePc
    /\ ~LoopAlive
    /\ Fault(u, "dead loop")

\* A user asks a connection that is gone whether it is broken.
UseStale(u, c) ==
    /\ Ops \cap {"reconnect", "send_msg", "terminate"} # {}
    /\ pc[u] = "idle"
    /\ mem[c] = "freed"
    /\ Fault(u, "freed conn")

\* terminate reads _loop a second time for the call; another thread that
\* terminates the same connection may have cleared it in between.
NullLoop(t) ==
    /\ pc[t] = "remove"
    /\ ~linked[cur[t]]
    /\ Fault(t, "null loop")

Undefined ==
    \/ \E t \in Thread : UseAfterFree(t) \/ NullLoop(t)
    \/ \E u \in User : UseDeadLoop(u) \/ \E c \in UserConn : UseStale(u, c)
-----------------------------------------------------------------------------
Next ==
    /\ ub = {}
    /\ \/ LoopStep
       \/ \E u \in User : UserStep(u) \/ UserCall(u)
       \/ Undefined

\* Threads are scheduled: the loop (into undefined behaviour, if that is what
\* comes next) and a user inside a call keep going, and
\* select() ends by its timeout or by the eventfd.  Nothing obliges a user to
\* call, a peer to connect or to send, or a signal to arrive: accept() may
\* stay blocked.
Fairness ==
    /\ WF_vars(ub = {} /\ (LoopWork \/ SelectTimeout \/ UseAfterFree(Loop)))
    /\ WF_vars(ub = {} /\ wake /\ SelectReady)
    /\ \A u \in User : WF_vars(ub = {} /\ UserStep(u))

Spec == Init /\ [][Next]_vars
FairSpec == Spec /\ Fairness
-----------------------------------------------------------------------------
ConnTypeOK ==
    /\ mem \in [Conn -> {"none", "new", "live", "freed"}]
    /\ ref \in [Conn -> Int] /\ closed \in [Conn -> Nat]
    /\ linked \in [Conn -> BOOLEAN] /\ brk \in [Conn -> BOOLEAN] /\ cb \in [Conn -> BOOLEAN]
    /\ sbuf \in [Conn -> BOOLEAN] /\ wq \in [Conn -> BOOLEAN]
    /\ mtx \in [Conn -> Thread \cup {None}]

TaskTypeOK ==
    /\ tasks \in Seq(User \X Nat) /\ batch \in Seq(User \X Nat) /\ done \in Seq(User \X Nat)
    /\ ntask \in [User -> Nat]

LoopTypeOK ==
    /\ running \in BOOLEAN /\ wake \in BOOLEAN
    /\ conns \subseteq Conn /\ todo \subseteq Conn /\ snap \subseteq Conn
    /\ rd \subseteq Conn /\ wt \subseteq Conn /\ reused \subseteq Conn
    /\ ub \subseteq Thread \X {"freed conn", "dead loop", "null loop"}

ThreadTypeOK ==
    /\ pc \in [Thread -> LoopPc \cup ServePc \cup TermPc \cup UserPc]
    /\ cur \in [Thread -> Conn \cup {None}]

TypeOK == ConnTypeOK /\ TaskTypeOK /\ LoopTypeOK /\ ThreadTypeOK

Count(P) == IF P THEN 1 ELSE 0

RefExactAt(c) ==
    /\ ref[c] + Count(c \in reused)
         = Count(mem[c] = "new") + Count(c \in conns) + Count(c \in snap)
    /\ ref[c] <= 0 <=> mem[c] \in {"none", "freed"}

\* The reference count of a connection is exactly the number of its holders
\* (the creator before add_net, _conns after it, the snapshot of loop()), less
\* one once reconnect has put it back into _conns while the snapshot held it;
\* and it is deleted when, and only when, the count reaches 0, however add_net,
\* remove_net, reconnect, the snapshot and release interleave.
RefExact == \A c \in Conn : RefExactAt(c)

\* The loop is about to dereference a deleted connection (in the snapshot, in
\* OnRead, OnSend or terminate, in release) only if reconnect had put that
\* connection back into _conns; users who only add, send and terminate, at
\* whatever time, cannot bring it about.
LoopNeverUsesFreed ==
    \A c \in Touched(Loop) : mem[c] = "freed" => c \in reused

\* The _loop of a deleted connection is NULL, so that ~net_io does not enter
\* remove_net under the spinlock that remove_net already holds; and it is in
\* no _conns, unless reconnect had put it back and a terminate that was still
\* under way cleared its _loop behind that.
DeletedUnlinked ==
    \A c \in Conn : mem[c] = "freed" => ~linked[c] /\ (c \in conns => c \in reused)

\* Without other threads (demo/main.cpp) nothing undefined happens.
NoUndefined == ub = {}

\* The disconnect callback of an accepted connection runs exactly once before
\* the connection is deleted, and not before the loop has dropped it.
ClosedExactlyOnce ==
    \A c \in AccConn :
        /\ closed[c] <= 1
        /\ mem[c] = "freed" => closed[c] = 1
        /\ closed[c] = 1 => c \notin conns

\* What the demo's server, in which the loop's thread does everything but stop,
\* can rely on.
ServerSafe == NoUndefined /\ ClosedExactlyOnce

\* A loop blocked in select() is woken for a task or a connection that it has
\* not seen: the eventfd is set, or the thread that brought it is about to
\* set it.
NoLostWakeup ==
    (pc[Loop] = "select" /\ running /\ (tasks # <<>> \/ conns \ snap # {}))
        => wake \/ \E u \in User : pc[u] = "wakeup"

\* The tasks that were run, are about to run, and are in the list.
Submitted == done \o batch \o tasks

\* Every submitted task is in exactly one of these places, nothing else is, and
\* the tasks of one user stay in the order add_task took them.
TasksInOrder ==
    /\ \A u \in User : \A n \in 1 .. ntask[u] : \E i \in DOMAIN Submitted : Submitted[i] = <<u, n>>
    /\ \A i \in DOMAIN Submitted : Submitted[i][2] \in 1 .. ntask[Submitted[i][1]]
    /\ \A i, j \in DOMAIN Submitted :
          i < j /\ Submitted[i][1] = Submitted[j][1] => Submitted[i][2] < Submitted[j][2]

\* loop(): the snapshot waits, with _lck held, for _lck of a connection whose
\* owner waits for _lck of the loop.
LockCycle ==
    \E u \in User, c \in todo :
        pc[Loop] = "walk" /\ mtx[c] = u /\ cur[u] = c /\ pc[u] = "remove"

\* stop ends the loop and its connections are all released, without any
\* wakeup (stop never writes the eventfd): select() times out.  It does so if
\* accept() never blocks for good: a loop that a signal sent into accept()
\* with no client waiting stays there, stopped or not.
StopExits ==
    []<>(pc[Loop] # "accept")
        => (~running ~> (pc[Loop] = "dead" /\ \A c \in Conn : mem[c] # "live"))

\* With other threads there are two ways stop can fail to end the loop: the
\* lock cycle of send_msg and the snapshot, and undefined behaviour.
StopExitsOrStuck == ~running ~> (pc[Loop] = "dead" \/ LockCycle \/ ub # {})

\* A task that add_task took while the loop runs is run, unless the loop is
\* stopped first, gets stuck in the lock cycle, or something is undefined.
TaskRuns ==
    \A k \in User \X (1 .. MaxTask) :
        (\E i \in DOMAIN tasks : tasks[i] = k)
            ~> \/ \E i \in DOMAIN done : done[i] = k
               \/ ~running \/ LockCycle \/ ub # {}
=============================================================================
