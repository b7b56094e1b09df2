------------------------------ MODULE LoopTimer ------------------------------
(***************************************************************************)
(* The timers of core/eventloop.cpp: add_timer and remove_timer, called by *)
(* any thread, and process_timer, which the loop thread runs at the start  *)
(* of every pass.  Each runs under the spinlock _lck_timer; process_timer  *)
(* takes it for the scan and runs the callbacks after it.                  *)
(*                                                                         *)
(* _timers is a std::list.  Erasing the element at the iterator leaves the *)
(* iterator dangling, and the scan goes on from it: the model stops there  *)
(* (pc "undefined").                                                       *)
(***************************************************************************)
EXTENDS Integers, Sequences

CONSTANTS
    Tid,        \* timer ids
    Gap,        \* the gaps a timer can have
    Count,      \* the counts a timer can have; -1: unlimited
    MaxNow      \* bound: the clock

ASSUME GapAssumption == Gap \subseteq Nat \ {0}
ASSUME CountAssumption == Count \subseteq Nat \cup {-1}
ASSUME NowAssumption == MaxNow \in Nat

VARIABLES
    now,        \* detail::time::now()
    timers,     \* _timers
    lck,        \* is _lck_timer held by process_timer?
    pc,         \* where the loop thread is
    t0,         \* the local now of process_timer
    it,         \* its iterator, as an index
    due,        \* vecTmp
    ran         \* the timers whose callback was called

vars == <<now, timers, lck, pc, t0, it, due, ran>>

Init ==
    /\ now = 0 /\ timers = <<>>
    /\ lck = FALSE /\ pc = "pass"
    /\ t0 = 0 /\ it = 1 /\ due = <<>>
    /\ ran = {}

Tick ==
    /\ now < MaxNow
    /\ now' = now + 1
    /\ UNCHANGED <<timers, lck, pc, t0, it, due, ran>>

\* A timer is due before the clock stops.
add_timer(tid, count, gap) ==
    /\ ~lck
    /\ now + gap <= MaxNow
    /\ \A i \in DOMAIN timers : timers[i].tid # tid
    /\ tid \notin ran
    /\ timers' = Append(timers, [tid |-> tid, count |-> count, gap |-> gap, expire |-> now + gap])
    /\ UNCHANGED <<now, lck, pc, t0, it, due, ran>>

remove_timer(tid) ==
    /\ ~lck
    /\ timers' = SelectSeq(timers, LAMBDA t : t.tid # tid)
    /\ UNCHANGED <<now, lck, pc, t0, it, due, ran>>

\* process_timer reads the clock, once, before it takes the lock ...
ReadClock ==
    /\ pc = "pass"
    /\ t0' = now
    /\ pc' = "lock"
    /\ UNCHANGED <<now, timers, lck, it, due, ran>>

Lock ==
    /\ pc = "lock"
    /\ lck' = TRUE
    /\ it' = 1
    /\ pc' = "scan"
    /\ UNCHANGED <<now, timers, t0, due, ran>>

\* Mutant of ScanDue: the iterator is advanced.
ScanDueAdvances ==
    LET t == timers[it] IN
    /\ pc = "scan"
    /\ it <= Len(timers)
    /\ t.expire <= t0
    /\ due' = Append(due, t)
    /\ timers' = [timers EXCEPT ![it] = [@ EXCEPT !.expire = @ + t.gap]]
    /\ it' = it + 1
    /\ UNCHANGED <<now, lck, pc, t0, ran>>

\* ... and scans.  A timer that is not due is tested again and again: the
\* iterator only stands still, so there is no step for it here.
ScanDue ==
    LET t == timers[it]
        left == IF t.count > 0 THEN t.count - 1 ELSE t.count
    IN
    /\ pc = "scan"
    /\ it <= Len(timers)
    /\ t.expire <= t0
    /\ due' = Append(due, t)
    /\ IF left = 0
       THEN /\ timers' = SubSeq(timers, 1, it - 1) \o SubSeq(timers, it + 1, Len(timers))
            /\ pc' = "undefined"
       ELSE /\ timers' = [timers EXCEPT ![it] = [@ EXCEPT !.count = left, !.expire = @ + t.gap]]
            /\ pc' = "scan"
    /\ UNCHANGED <<now, lck, t0, it, ran>>

ScanEnd ==
    /\ pc = "scan"
    /\ it > Len(timers)
    /\ lck' = FALSE
    /\ pc' = "call"
    /\ UNCHANGED <<now, timers, t0, it, due, ran>>

\* timer.cb(timer.param) for what the scan found.
Call ==
    /\ pc = "call"
    /\ ran' = ran \cup {due[i].tid : i \in DOMAIN due}
    /\ due' = <<>>
    /\ pc' = "pass"
    /\ UNCHANGED <<now, timers, lck, t0, it>>

process_timer == ReadClock \/ Lock \/ ScanDue \/ ScanEnd \/ Call

Next ==
    \/ Tick
    \/ process_timer
    \/ \E tid \in Tid :
        \/ remove_timer(tid)
        \/ \E count \in Count, gap \in Gap : add_timer(tid, count, gap)

\* Time passes and the loop thread is scheduled.
Spec == Init /\ [][Next]_vars /\ WF_vars(Tick) /\ WF_vars(process_timer)
-----------------------------------------------------------------------------
\* eventloop.h says that a timer with count -1 is unlimited: its callback is
\* called when it is due, unless it is removed first.
UnlimitedRuns ==
    \A tid \in Tid :
        (\E i \in DOMAIN timers : timers[i].tid = tid /\ timers[i].count = -1)
            ~> \/ tid \in ran
               \/ \A i \in DOMAIN timers : timers[i].tid # tid

\* What the code does instead: a scan that meets a timer never ends, neither
\* for a timer that is not due (the iterator stands still), nor for one that
\* is (it is scanned again until it is not due, or erased under the iterator).
\* _lck_timer stays locked, so that add_timer and remove_timer, called by any
\* thread from then on, do not return, and no callback is ever called.
LockStuck ==
    (pc = "scan" /\ timers # <<>>)
        ~> [](lck /\ pc \in {"scan", "undefined"} /\ ran = {})
=============================================================================
