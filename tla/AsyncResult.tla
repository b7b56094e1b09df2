----------------------------- MODULE AsyncResult -----------------------------
(***************************************************************************)
(* basic/async_result_syncer.h: one id of SyncPair.  A thread waits for    *)
(* the answer with wait_for, and waits again when it timed out; threads of *)
(* Notifier each notify one answer.  The map is used under lck_, but the   *)
(* SyncData that get_sync_data finds in it is used after the unlock.       *)
(*                                                                         *)
(* Objects of the map are numbered in the order they are made; entry is    *)
(* the one the map holds.  Using an erased one, or set_value on a promise  *)
(* that has its value (an exception nobody catches), is recorded in ub and *)
(* ends the behaviour.                                                     *)
(***************************************************************************)
EXTENDS Integers, FiniteSets

CONSTANTS
    Notifier,   \* the threads that notify, each once, its own name as data
    MaxTry,     \* bound: how often the waiter waits
    None        \* no data

ASSUME TryAssumption == MaxTry \in Nat \ {0}
ASSUME NotifierAssumption == IsFiniteSet(Notifier) /\ None \notin Notifier

VARIABLES
    entry,      \* the SyncData in sync_data_map_, or 0
    made,       \* how many SyncData were made
    val,        \* the shared state of each promise: data, or None
    isset,      \* is_set_
    isget,      \* is_get_; the future is invalid from then on
    npc, nref,  \* a notifier's place, and the SyncData it refers to
    wpc, wref,  \* the same of the waiter
    tries,      \* waits begun
    data, res,  \* what the last wait stored and returned
    ready,      \* was an answer there before the wait began?
    ub          \* the undefined behaviour met, or "no"

mapVars == <<entry, made>>
cellVars == <<val, isset, isget>>
notVars == <<npc, nref>>
waitVars == <<wpc, wref, tries, data, res, ready>>
vars == <<mapVars, cellVars, notVars, waitVars, ub>>

\* Every SyncData that can be made: create_sync_data is called once a wait
\* and once a notify.
Cell == 1 .. MaxTry + Cardinality(Notifier)

Init ==
    /\ entry = 0 /\ made = 0
    /\ val = [k \in Cell |-> None]
    /\ isset = [k \in Cell |-> FALSE]
    /\ isget = [k \in Cell |-> FALSE]
    /\ npc = [n \in Notifier |-> "create"]
    /\ nref = [n \in Notifier |-> 0]
    /\ wpc = "idle" /\ wref = 0 /\ tries = 0
    /\ data = None /\ res = FALSE /\ ready = FALSE
    /\ ub = "no"

\* Mutant of Create: an entry that is there is replaced.
CreateFresh == made' = made + 1 /\ entry' = made + 1

\* create_sync_data: under the lock, unless the id is in the map.
Create ==
    IF entry # 0 THEN UNCHANGED mapVars
    ELSE made' = made + 1 /\ entry' = made + 1

\* get_sync_data: operator[] makes an entry too when there is none.
Found == IF entry # 0 THEN entry ELSE made + 1

Live(k) == k = entry
-----------------------------------------------------------------------------
(* notify *)

NotifyCreate(n) ==
    /\ npc[n] = "create"
    /\ Create
    /\ npc' = [npc EXCEPT ![n] = "find"]
    /\ UNCHANGED <<cellVars, nref, waitVars, ub>>

\* Mutant of NotifyFind: a reference to an entry that is not made.
NotifyFindOnly(n) ==
    /\ npc[n] = "find"
    /\ nref' = [nref EXCEPT ![n] = Found]
    /\ npc' = [npc EXCEPT ![n] = "test"]
    /\ UNCHANGED <<mapVars, cellVars, waitVars, ub>>

NotifyFind(n) ==
    /\ npc[n] = "find"
    /\ nref' = [nref EXCEPT ![n] = Found]
    /\ entry' = Found
    /\ made' = IF entry = 0 THEN made + 1 ELSE made
    /\ npc' = [npc EXCEPT ![n] = "test"]
    /\ UNCHANGED <<cellVars, waitVars, ub>>

\* SyncData::set: is an answer wanted, and not given?
NotifyTest(n) ==
    /\ npc[n] = "test"
    /\ Live(nref[n])
    /\ npc' = [npc EXCEPT ![n] = IF isget[nref[n]] \/ isset[nref[n]] THEN "done" ELSE "set"]
    /\ UNCHANGED <<mapVars, cellVars, nref, waitVars, ub>>

\* set_value: the future is ready ...
NotifySet(n) ==
    /\ npc[n] = "set"
    /\ Live(nref[n])
    /\ val[nref[n]] = None
    /\ val' = [val EXCEPT ![nref[n]] = n]
    /\ npc' = [npc EXCEPT ![n] = "mark"]
    /\ UNCHANGED <<mapVars, isset, isget, nref, waitVars, ub>>

\* Mutant of NotifyMark: the flag is left alone.
NotifyNoMark(n) ==
    /\ npc[n] = "mark"
    /\ Live(nref[n])
    /\ npc' = [npc EXCEPT ![n] = "done"]
    /\ UNCHANGED <<mapVars, cellVars, nref, waitVars, ub>>

\* ... before is_set_ says so.
NotifyMark(n) ==
    /\ npc[n] = "mark"
    /\ Live(nref[n])
    /\ isset' = [isset EXCEPT ![nref[n]] = TRUE]
    /\ npc' = [npc EXCEPT ![n] = "done"]
    /\ UNCHANGED <<mapVars, val, isget, nref, waitVars, ub>>

notify(n) == NotifyCreate(n) \/ NotifyFind(n) \/ NotifyTest(n) \/ NotifySet(n) \/ NotifyMark(n)
-----------------------------------------------------------------------------
(* wait_for *)

WaitCreate ==
    /\ wpc = "idle"
    /\ tries < MaxTry
    /\ ~res
    /\ Create
    /\ tries' = tries + 1
    /\ ready' = (entry # 0 /\ val[entry] # None)
    /\ wpc' = "find"
    /\ UNCHANGED <<cellVars, notVars, wref, data, res, ub>>

WaitFind ==
    /\ wpc = "find"
    /\ wref' = Found
    /\ entry' = Found
    /\ made' = IF entry = 0 THEN made + 1 ELSE made
    /\ wpc' = "wait"
    /\ UNCHANGED <<cellVars, notVars, tries, data, res, ready, ub>>

\* Mutant of WaitReady: a ready future is taken for a timeout.
WaitReadyFalse ==
    /\ wpc = "wait"
    /\ Live(wref)
    /\ val[wref] # None
    /\ wpc' = "idle"
    /\ res' = FALSE
    /\ UNCHANGED <<mapVars, cellVars, notVars, wref, tries, data, ready, ub>>

\* The future is ready.
WaitReady ==
    /\ wpc = "wait"
    /\ Live(wref)
    /\ val[wref] # None
    /\ wpc' = "get"
    /\ UNCHANGED <<mapVars, cellVars, notVars, wref, tries, data, res, ready, ub>>

\* The time is up: false, and the SyncData stays in the map.
WaitTimeout ==
    /\ wpc = "wait"
    /\ Live(wref)
    /\ val[wref] = None
    /\ wpc' = "idle"
    /\ res' = FALSE
    /\ UNCHANGED <<mapVars, cellVars, notVars, wref, tries, data, ready, ub>>

\* SyncData::get
WaitGet ==
    /\ wpc = "get"
    /\ Live(wref)
    /\ data' = val[wref]
    /\ isget' = [isget EXCEPT ![wref] = TRUE]
    /\ wpc' = "remove"
    /\ UNCHANGED <<mapVars, val, isset, notVars, wref, tries, res, ready, ub>>

\* Mutant of WaitRemove: erased whether done or not.
WaitRemoveAlways ==
    /\ wpc = "remove"
    /\ entry' = 0
    /\ wpc' = "idle"
    /\ res' = TRUE
    /\ UNCHANGED <<made, cellVars, notVars, wref, tries, data, ready, ub>>

\* remove_sync_data: erased when set and got; else it stays for good.
WaitRemove ==
    /\ wpc = "remove"
    /\ entry' = IF entry # 0 /\ isset[entry] /\ isget[entry] THEN 0 ELSE entry
    /\ wpc' = "idle"
    /\ res' = TRUE
    /\ UNCHANGED <<made, cellVars, notVars, wref, tries, data, ready, ub>>

WaitStep == WaitFind \/ WaitReady \/ WaitTimeout \/ WaitGet \/ WaitRemove
-----------------------------------------------------------------------------
Fault(how) == ub' = how /\ UNCHANGED <<mapVars, cellVars, notVars, waitVars>>

\* A notifier uses a SyncData that was erased.
Dangling(n) == npc[n] \in {"test", "set", "mark"} /\ ~Live(nref[n]) /\ Fault("dangling")

\* Two notifiers found is_set_ false.
SetTwice(n) ==
    /\ npc[n] = "set" /\ Live(nref[n])
    /\ val[nref[n]] # None
    /\ Fault("set twice")

Next ==
    /\ ub = "no"
    /\ \/ WaitCreate \/ WaitStep
       \/ \E n \in Notifier : notify(n) \/ Dangling(n) \/ SetTwice(n)

\* Threads inside a call are scheduled.
Fairness ==
    /\ WF_vars(ub = "no" /\ WaitStep)
    /\ \A n \in Notifier : WF_vars(ub = "no" /\ notify(n))

Spec == Init /\ [][Next]_vars /\ Fairness
-----------------------------------------------------------------------------
TypeOK ==
    /\ made \in 0 .. Cardinality(Cell) /\ entry \in 0 .. made
    /\ val \in [Cell -> Notifier \cup {None}]
    /\ isset \in [Cell -> BOOLEAN] /\ isget \in [Cell -> BOOLEAN]
    /\ npc \in [Notifier -> {"create", "find", "test", "set", "mark", "done"}]
    /\ nref \in [Notifier -> 0 .. made]
    /\ wpc \in {"idle", "find", "wait", "get", "remove"} /\ wref \in 0 .. made
    /\ tries \in 0 .. MaxTry
    /\ data \in Notifier \cup {None} /\ res \in BOOLEAN /\ ready \in BOOLEAN
    /\ ub \in {"no", "dangling", "set twice"}

OneAnswer == Cardinality({n \in Notifier : npc[n] # "create"}) <= 1

\* As long as one answer was notified for the id, however notify races the
\* timeout of wait_for, the next wait and remove_sync_data, no erased SyncData
\* is used and set_value is called once.
NoUndefined == OneAnswer => ub = "no"

\* Whatever the notifiers do, the SyncData the waiter blocks on and reads
\* after get_sync_data has unlocked lck_ is the one in the map.
WaiterRefLive == wpc \in {"wait", "get", "remove"} => wref = entry

\* An answer that was notified before the wait began, after an earlier
\* wait_for had timed out, is not lost: that wait returns true.
LateAnswerKept == (ready /\ wpc = "idle") => res

\* When the notifier whose answer is returned has left SyncData::set,
\* wait_for leaves no SyncData of the id behind.  (While it is still between
\* set_value and is_set_, remove_sync_data leaves the entry in the map, and
\* nobody erases it later.)
ErasedWhenAnswered ==
    [][(wpc = "remove" /\ wpc' = "idle" /\ npc[val[wref]] = "done") => entry' = 0]_vars

\* A wait whose answer is given while it blocks, or before, ends with true,
\* unless a second answer for the id meets the first (SetTwice, Dangling).
AnswerArrives == (wpc = "wait" /\ val[wref] # None) ~> (res \/ ub # "no")
=============================================================================
