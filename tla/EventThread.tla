----------------------------- MODULE EventThread -----------------------------
(***************************************************************************)
(* core/eventthread.cpp: an owner runs an eventloop in a thread of its own *)
(* and stops it.  _loop points into the thread's stack and is null outside *)
(* its life; owner and thread share it without a lock.                     *)
(***************************************************************************)
EXTENDS Naturals

CONSTANT Threads        \* eventthread objects, each with an owner

VARIABLES
    owner,      \* what the owner does with the object
    thr,        \* the std::thread
    _loop,      \* whether _loop is set
    _running,   \* the loop's flag, TRUE from its constructor on
    found       \* has a stop found the loop of the last run?

vars == <<owner, thr, _loop, _running, found>>

Init ==
    /\ owner = [t \in Threads |-> "new"]
    /\ thr = [t \in Threads |-> "none"]
    /\ _loop = [t \in Threads |-> FALSE]
    /\ _running = [t \in Threads |-> FALSE]
    /\ found = [t \in Threads |-> FALSE]

Joinable(t) == thr[t] \notin {"none", "joined"}

\* run: a new std::thread; _thr.reset destroys the one before, which
\* terminates the program if nobody has joined it.
run(t) ==
    /\ owner[t] \in {"new", "running", "stopped"}
    /\ IF Joinable(t)
       THEN owner' = [owner EXCEPT ![t] = "terminated"] /\ UNCHANGED <<thr, found>>
       ELSE /\ owner' = [owner EXCEPT ![t] = "running"]
            /\ thr' = [thr EXCEPT ![t] = "begin"]
            /\ found' = [found EXCEPT ![t] = FALSE]
    /\ UNCHANGED <<_loop, _running>>

\* The thread: the loop is constructed, published, run and withdrawn.
Publish(t) ==
    /\ thr[t] = "begin"
    /\ _running' = [_running EXCEPT ![t] = TRUE]
    /\ _loop' = [_loop EXCEPT ![t] = TRUE]
    /\ thr' = [thr EXCEPT ![t] = "ready"]
    /\ UNCHANGED <<owner, found>>

EnterSetsRunning(t) ==
    /\ thr[t] = "ready"
    /\ _running' = [_running EXCEPT ![t] = TRUE]
    /\ thr' = [thr EXCEPT ![t] = "loop"]
    /\ UNCHANGED <<owner, _loop, found>>
Enter(t) ==
    /\ thr[t] = "ready"
    /\ thr' = [thr EXCEPT ![t] = "loop"]
    /\ UNCHANGED <<owner, _loop, _running, found>>

Leave(t) ==
    /\ thr[t] = "loop" /\ ~_running[t]
    /\ _loop' = [_loop EXCEPT ![t] = FALSE]
    /\ thr' = [thr EXCEPT ![t] = "ended"]
    /\ UNCHANGED <<owner, _running, found>>

\* stop: nothing happens if _loop is null, else the loop is stopped.
stop(t) ==
    /\ owner[t] \in {"new", "running", "stopped"}
    /\ IF _loop[t]
       THEN /\ owner' = [owner EXCEPT ![t] = "join"]
            /\ _running' = [_running EXCEPT ![t] = FALSE]
            /\ found' = [found EXCEPT ![t] = TRUE]
       ELSE /\ owner' = [owner EXCEPT ![t] = "stopped"]
            /\ UNCHANGED <<_running, found>>
    /\ UNCHANGED <<thr, _loop>>

JoinSkipped(t) ==
    /\ owner[t] = "join"
    /\ owner' = [owner EXCEPT ![t] = "stopped"]
    /\ UNCHANGED <<thr, _loop, _running, found>>
Join(t) ==
    /\ owner[t] = "join" /\ thr[t] = "ended"
    /\ owner' = [owner EXCEPT ![t] = "stopped"]
    /\ thr' = [thr EXCEPT ![t] = "joined"]
    /\ UNCHANGED <<_loop, _running, found>>

\* ~eventthread stops nothing: the unique_ptr destroys the std::thread, which
\* must not be joinable.
Destroy(t) ==
    /\ owner[t] \in {"new", "running", "stopped"}
    /\ owner' = [owner EXCEPT ![t] =
                    IF Joinable(t) THEN "terminated" ELSE "gone"]
    /\ UNCHANGED <<thr, _loop, _running, found>>

Next == \E t \in Threads :
    run(t) \/ Publish(t) \/ Enter(t) \/ Leave(t) \/ stop(t) \/ Join(t) \/ Destroy(t)

\* A started thread runs, and a join returns when it can.
Fairness ==
    \A t \in Threads : WF_vars(Publish(t) \/ Enter(t) \/ Leave(t) \/ Join(t))

Spec == Init /\ [][Next]_vars /\ Fairness

\* A stop that found the loop ends the thread and returns, also when it comes
\* between the store of _loop (line 14) and the call of loop() (line 15).
StopEnds == \A t \in Threads : owner[t] = "join" ~> owner[t] = "stopped"

\* Destroying or rerunning an object (lines 7 and 11) is safe once a stop has
\* found the loop of its last run: the program is terminated only if there was
\* no stop, or it came before the thread had stored _loop (line 21).
TerminateOnlyUnstopped == \A t \in Threads : owner[t] = "terminated" => ~found[t]
=============================================================================
