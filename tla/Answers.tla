------------------------------ MODULE Answers -------------------------------
(***************************************************************************)
(* The two ways in which a thread waits for the answer of another one, by  *)
(* an id.  unit says which one a behaviour is about.                       *)
(*                                                                         *)
(*   syncer  basic/async_result_syncer.h, by AsyncResult                   *)
(*   batch   threadpool/synchronizer.h, by BatchSync                       *)
(***************************************************************************)
EXTENDS AsyncResult

CONSTANTS Ids, Syncs        \* of BatchSync

ASSUME SyncsAssumption == None \notin Syncs

VARIABLES unit, waiter, notifier, sync_list_, used, value, held, overlap

batchVars == <<waiter, notifier, sync_list_, used, value, held, overlap>>

Batch == INSTANCE BatchSync WITH NULL <- None

AnswersInit == unit \in {"syncer", "batch"} /\ Init /\ Batch!Init

AnswersNext ==
    /\ UNCHANGED unit
    /\ \/ unit = "syncer" /\ Next /\ UNCHANGED batchVars
       \/ unit = "batch" /\ Batch!Next /\ UNCHANGED vars

AnswersSpec ==
    /\ AnswersInit /\ [][AnswersNext]_<<unit, vars, batchVars>>
    /\ unit = "syncer" => Fairness
    /\ unit = "batch" => Batch!Fairness

\* async_result_syncer.h: with one answer nothing undefined happens, the
\* waiter's reference is the entry in the map, and an answer that came after a
\* timeout is returned by the next wait.  synchronizer.h: a thread waits on the
\* object in the map, unless wait and notify had both found the id absent.
AnswersSafe ==
    TypeOK /\ NoUndefined /\ WaiterRefLive /\ LateAnswerKept /\ Batch!WaitsOnCurrent
\* synchronizer.h: an answer gets to a thread that goes on waiting.
BatchAnswerArrives == Batch!AnswerArrives
=============================================================================
