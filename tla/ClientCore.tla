----------------------------- MODULE ClientCore -----------------------------
(***************************************************************************)
(* core/ngx_core.cpp under example/BizUser.cpp and Impl.cpp: one user      *)
(* constructs, starts, stops and destroys a client; each start that comes  *)
(* so far detaches a thread that runs an eventloop on its stack and        *)
(* publishes it in core->loop.  User and threads share the fields of       *)
(* ngx_core_t without a lock.                                              *)
(***************************************************************************)
EXTENDS Naturals, Sequences

CONSTANTS
    Threads,        \* the loop threads that may be started
    URLs,           \* the configured addresses, as sequences of host names
    Known,          \* the names that the resolver knows
    Interfaces,     \* how many interfaces get_mac may find
    NoLoop

HOST_MAC_MAX == 5

VARIABLES
    user,       \* where the user's thread is
    ret,        \* where ngx_core_uninit returns to
    callee,     \* the loop that the user has read from core->loop to call it
    url,        \* the tokens parse_url has not finished
    ip_cnt,     \* what parse_url has stored
    log,        \* does core->log exist?
    started, loop, \* core->started, and whose loop core->loop points to
    thr,        \* the detached threads
    spinKept    \* the build: does it keep the loop of line 240? (-O3 does not)

core == <<ip_cnt, log, started, loop>>
vars == <<user, ret, callee, url, ip_cnt, log, started, loop, thr, spinKept>>

\* CBizUser() and Impl(): everything in core is zero.
Init ==
    /\ user = "idle" /\ ret = "idle" /\ callee = NoLoop
    /\ url = <<>>
    /\ ip_cnt = 0 /\ log = FALSE
    /\ started = FALSE /\ loop = NoLoop
    /\ thr = [t \in Threads |-> "none"]
    /\ spinKept \in BOOLEAN

\* start, Impl::init and ngx_core_init up to the call of parse_url.
start == \E u \in URLs :
    /\ user = "idle" /\ \E t \in Threads : thr[t] = "none"
    /\ user' = "parse" /\ url' = u
    /\ log' = TRUE /\ ip_cnt' = 0
    /\ UNCHANGED <<ret, callee, started, loop, thr, spinKept>>

\* One turn of parse_url's loop.  A name that is not resolved, also one that
\* fails for the moment, is tried again: `continue' does not take the next.
Unresolved ==
    /\ user = "parse" /\ url # <<>>
    /\ UNCHANGED vars

\* The addresses are stored until the pointer to them is null, which it never
\* is: host_ip, and then memory that is not the program's, is run over.
Resolved ==
    /\ user = "parse" /\ url # <<>> /\ Head(url) \in Known
    /\ user' = "crashed"
    /\ UNCHANGED <<ret, callee, url, core, thr, spinKept>>

\* One address per interface is stored without a bound, and what lies behind
\* the array is overwritten.
get_mac == \E n \in Interfaces :
    /\ user = "parse" /\ url = <<>>
    /\ user' = IF n > HOST_MAC_MAX THEN "crashed" ELSE "spawn"
    /\ UNCHANGED <<ret, callee, url, core, thr, spinKept>>

Spawn ==
    /\ user = "spawn"
    /\ IF started
       THEN user' = "check" /\ UNCHANGED thr
       ELSE \E t \in Threads :
            /\ thr[t] = "none"
            /\ thr' = [thr EXCEPT ![t] = "begin"] /\ user' = "timer"
    /\ UNCHANGED <<ret, callee, url, core, spinKept>>

\* The calls of add_timer and wakeup: core->loop is read, whether or not it is
\* set by now, and the loop it pointed to is used, whether or not it still is.
ReadLoop ==
    /\ user \in {"timer", "wake"}
    /\ IF loop = NoLoop THEN user' = "crashed"
                        ELSE user' = IF user = "timer" THEN "adding" ELSE "waking"
    /\ callee' = loop
    /\ UNCHANGED <<ret, url, core, thr, spinKept>>

CallLoop ==
    /\ user \in {"adding", "waking"}
    /\ \/ user' = IF user = "adding" THEN "check" ELSE "spin"
       \/ thr[callee] = "ended" /\ user' = "crashed"
    /\ UNCHANGED <<ret, callee, url, core, thr, spinKept>>

\* ngx_core_uninit up to the call of wakeup (line 239).
ngx_core_uninit(from) ==
    /\ started' = FALSE
    /\ ret' = from
    /\ user' = "wake"
    /\ UNCHANGED <<callee, url, ip_cnt, log, loop, thr, spinKept>>

\* What follows a successful init (the connection) is in EventLoop.
CheckServer ==
    /\ user = "check"
    /\ IF ip_cnt = 0
       THEN ngx_core_uninit("idle")
       ELSE user' = "connect" /\ UNCHANGED <<ret, callee, url, core, thr, spinKept>>

SpinNot ==
    /\ user = "spin"
    /\ user' = ret
    /\ UNCHANGED <<ret, callee, url, core, thr, spinKept>>
Spin ==
    /\ user = "spin" /\ (spinKept => loop = NoLoop)
    /\ user' = ret
    /\ UNCHANGED <<ret, callee, url, core, thr, spinKept>>

\* Impl::uninit, from stop or from the destructor.
Uninit(to) ==
    IF loop = NoLoop THEN user' = to /\ UNCHANGED <<ret, callee, url, core, thr, spinKept>>
                     ELSE ngx_core_uninit(to)

\* stop writes to the log, which exists only after a start.
stop ==
    /\ user = "idle"
    /\ IF log THEN Uninit("idle") ELSE Uninit("crashed")

Destroy ==
    /\ user = "idle"
    /\ Uninit("gone")

\* active_loop_thread.  Nobody calls eventloop::stop, so loop() never returns.
Begin(t) ==
    /\ thr[t] = "begin" /\ thr' = [thr EXCEPT ![t] = "begun"]
    /\ started' = TRUE
    /\ UNCHANGED <<user, ret, callee, url, ip_cnt, log, loop, spinKept>>

Publish(t) ==
    /\ thr[t] = "begun" /\ thr' = [thr EXCEPT ![t] = "test"]
    /\ loop' = t
    /\ UNCHANGED <<user, ret, callee, url, ip_cnt, log, started, spinKept>>

TestKeepsLoop(t) ==
    /\ thr[t] = "test"
    /\ thr' = [thr EXCEPT ![t] = IF started THEN "enter" ELSE "ended"]
    /\ UNCHANGED <<user, ret, callee, url, core, spinKept>>
Test(t) ==
    /\ thr[t] = "test"
    /\ IF started
       THEN thr' = [thr EXCEPT ![t] = "enter"] /\ UNCHANGED loop
       ELSE thr' = [thr EXCEPT ![t] = "ended"] /\ loop' = NoLoop
    /\ UNCHANGED <<user, ret, callee, url, ip_cnt, log, started, spinKept>>

\* loop() is called through core->loop too, which another thread may have set.
Enter(t) ==
    /\ thr[t] = "enter"
    /\ IF loop = NoLoop
       THEN user' = "crashed" /\ UNCHANGED thr
       ELSE thr' = [thr EXCEPT ![t] = "loop"] /\ UNCHANGED user
    /\ UNCHANGED <<ret, callee, url, core, spinKept>>

User == start \/ Unresolved \/ Resolved \/ get_mac \/ Spawn \/ ReadLoop
        \/ CallLoop \/ CheckServer \/ Spin \/ stop \/ Destroy

Thread(t) ==
    /\ user \notin {"crashed", "gone"}
    /\ Begin(t) \/ Publish(t) \/ Test(t) \/ Enter(t)

Next == User \/ \E t \in Threads : Thread(t)

\* Both threads are scheduled; what the user calls, and when, is open.
Inside ==
    Resolved \/ get_mac \/ Spawn \/ ReadLoop \/ CallLoop \/ CheckServer \/ Spin
Fairness == WF_vars(Inside) /\ \A t \in Threads : WF_vars(Thread(t))

Spec == Init /\ [][Next]_vars /\ Fairness

\* When the client is gone no thread is left that would use its core: the
\* thread is detached and the loop of line 240, in a build that keeps it, waits
\* for it.
CoreOutlivesThread ==
    spinKept /\ user = "gone" => \A t \in Threads : thr[t] \in {"none", "ended"}

\* In such a build at most one loop thread is at work, however often the client
\* is started and stopped: a start that finds core->started false (line 214) is
\* not ahead of the end of the thread before.
OneLoopThread ==
    spinKept => \A s, t \in Threads :
        thr[s] \notin {"none", "ended"} /\ thr[t] \notin {"none", "ended"} => s = t

\* stop and the uninit of a failed start (BizUser.cpp 119 and 120) return, or
\* hang because the thread has entered loop(), which nothing but
\* eventloop::stop ends, or find that it has withdrawn and destroyed its loop
\* before wakeup was done with it (line 239).
StopReturnsOrInLoop ==
    user = "wake" ~> user \in {ret, "crashed"} \/ \E t \in Threads : thr[t] = "loop"
=============================================================================
