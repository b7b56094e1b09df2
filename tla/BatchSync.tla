------------------------------ MODULE BatchSync ------------------------------
(***************************************************************************)
(* threadpool/synchronizer.h: BatchSynchronizer pairs the wait of one      *)
(* thread with the notify of another, by an id, over Synchronizer (a       *)
(* promise and its future).  Nothing is locked: the look-up and the        *)
(* insertion are steps of their own.  The accesses to the map themselves   *)
(* are taken to be atomic.                                                 *)
(***************************************************************************)
EXTENDS Naturals

CONSTANTS
    Ids,        \* each has a thread that waits, again after a timeout, and
                \* one that notifies
    Syncs,      \* the Synchronizer objects an id can use
    NULL

VARIABLES
    waiter, notifier,   \* where the threads are
    sync_list_,         \* id -> the object in the map
    used,               \* id -> the objects made so far
    value,              \* the objects whose promise is set
    held,               \* the object a thread waits on
    overlap             \* did both threads find the id absent?

vars == <<waiter, notifier, sync_list_, used, value, held, overlap>>

Init ==
    /\ waiter = [i \in Ids |-> "idle"] /\ notifier = [i \in Ids |-> "idle"]
    /\ sync_list_ = [i \in Ids |-> NULL] /\ used = [i \in Ids |-> {}]
    /\ value = [i \in Ids |-> {}] /\ held = [i \in Ids |-> NULL]
    /\ overlap = [i \in Ids |-> FALSE]

\* make_shared; the object that was in the map is destroyed.
Make(i) == \E s \in Syncs \ used[i] :
    /\ sync_list_' = [sync_list_ EXCEPT ![i] = s]
    /\ used' = [used EXCEPT ![i] = @ \cup {s}]

\* wait: count, insert, and wait on what the map has.
WaitCount(i) ==
    /\ waiter[i] = "idle"
    /\ waiter' = [waiter EXCEPT ![i] = IF sync_list_[i] = NULL THEN "make" ELSE "find"]
    /\ overlap' = [overlap EXCEPT ![i] = @ \/ (sync_list_[i] = NULL /\ notifier[i] = "make")]
    /\ UNCHANGED <<notifier, sync_list_, used, value, held>>

WaitMake(i) ==
    /\ waiter[i] = "make" /\ Make(i)
    /\ waiter' = [waiter EXCEPT ![i] = "find"]
    /\ UNCHANGED <<notifier, value, held, overlap>>

WaitFind(i) ==
    /\ waiter[i] = "find"
    /\ held' = [held EXCEPT ![i] = sync_list_[i]]
    /\ waiter' = [waiter EXCEPT ![i] = "wait"]
    /\ UNCHANGED <<notifier, sync_list_, used, value, overlap>>

\* Synchronizer::wait: the future is ready, or the time is over.
WaitReady(i) ==
    /\ waiter[i] = "wait" /\ held[i] \in value[i]
    /\ waiter' = [waiter EXCEPT ![i] = "got"]
    /\ UNCHANGED <<notifier, sync_list_, used, value, held, overlap>>

WaitTimeout(i) ==
    /\ waiter[i] = "wait" /\ held[i] \notin value[i]
    /\ waiter' = [waiter EXCEPT ![i] = "idle"]
    /\ held' = [held EXCEPT ![i] = NULL]
    /\ UNCHANGED <<notifier, sync_list_, used, value, overlap>>

\* notify: the same look-up, then the promise is set.
NotifyCountNot(i) ==
    /\ notifier[i] = "idle"
    /\ notifier' = [notifier EXCEPT ![i] = "make"]
    /\ overlap' = [overlap EXCEPT ![i] = @ \/ (sync_list_[i] = NULL /\ waiter[i] = "make")]
    /\ UNCHANGED <<waiter, sync_list_, used, value, held>>
NotifyCount(i) ==
    /\ notifier[i] = "idle"
    /\ notifier' = [notifier EXCEPT ![i] = IF sync_list_[i] = NULL THEN "make" ELSE "set"]
    /\ overlap' = [overlap EXCEPT ![i] = @ \/ (sync_list_[i] = NULL /\ waiter[i] = "make")]
    /\ UNCHANGED <<waiter, sync_list_, used, value, held>>

NotifyMake(i) ==
    /\ notifier[i] = "make" /\ Make(i)
    /\ notifier' = [notifier EXCEPT ![i] = "set"]
    /\ UNCHANGED <<waiter, value, held, overlap>>

NotifySetWaiting(i) ==
    /\ notifier[i] = "set"
    /\ value' = [value EXCEPT ![i] = IF waiter[i] = "wait" THEN @ \cup {sync_list_[i]} ELSE @]
    /\ notifier' = [notifier EXCEPT ![i] = "done"]
    /\ UNCHANGED <<waiter, sync_list_, used, held, overlap>>
NotifySet(i) ==
    /\ notifier[i] = "set"
    /\ value' = [value EXCEPT ![i] = @ \cup {sync_list_[i]}]
    /\ notifier' = [notifier EXCEPT ![i] = "done"]
    /\ UNCHANGED <<waiter, sync_list_, used, held, overlap>>

Wait(i) == WaitCount(i) \/ WaitMake(i) \/ WaitFind(i) \/ WaitReady(i) \/ WaitTimeout(i)
Notify(i) == NotifyCount(i) \/ NotifyMake(i) \/ NotifySet(i)

Next == \E i \in Ids : Wait(i) \/ Notify(i)

\* Both threads run; the answer itself need not come.
Fairness ==
    \A i \in Ids : WF_vars(Wait(i)) /\ WF_vars(NotifyMake(i) \/ NotifySet(i))

Spec == Init /\ [][Next]_vars /\ Fairness

\* A thread never waits on an object that has been replaced, and so destroyed
\* under it, unless both threads had found the id absent (lines 60 and 67).
WaitsOnCurrent == \A i \in Ids :
    held[i] # NULL /\ ~overlap[i] => held[i] = sync_list_[i]

\* An answer gets to a thread that goes on waiting, whether it came before,
\* during or between the waits, with the same exception.
AnswerArrives == \A i \in Ids :
    notifier[i] = "done" ~> (waiter[i] = "got" \/ overlap[i])
=============================================================================
