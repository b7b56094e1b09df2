------------------------------ MODULE LossyFifo ------------------------------
(***************************************************************************)
(* What ngx_queue promises to tcp_conn, abstracted from the ring it is     *)
(* built on: a first-in first-out queue that                               *)
(*   - refuses a push only while nothing has ever been taken out of it and *)
(*     it holds nalloc elements, and                                       *)
(*   - once something has been taken out, accepts every push, but forgets  *)
(*     its whole content at the push that would make it hold nalloc.       *)
(* The second clause is what the code does, not what a reader expects: the *)
(* push that fills the ring leaves end = head, which means "empty".        *)
(***************************************************************************)
EXTENDS Naturals, Sequences

CONSTANTS
    nalloc,     \* the capacity the queue was created with
    Elem,       \* the elements that can be queued
    NULL        \* a null pointer, as an argument or as a result

VARIABLES
    q,          \* the elements a sequence of gets would return
    drained,    \* has any get returned an element yet?
    result      \* what the last operation returned

vars == <<q, drained, result>>

Init ==
    /\ q = <<>>
    /\ drained = FALSE
    /\ result = NULL

Refuse(v) ==
    /\ v = NULL \/ (~drained /\ Len(q) = nalloc)
    /\ result' = FALSE
    /\ UNCHANGED <<q, drained>>

Accept(v) ==
    /\ v # NULL
    /\ IF drained THEN Len(q) + 1 < nalloc ELSE Len(q) < nalloc
    /\ q' = Append(q, v)
    /\ result' = TRUE
    /\ UNCHANGED drained

Forget(v) ==
    /\ v # NULL
    /\ drained
    /\ Len(q) + 1 = nalloc
    /\ q' = <<>>
    /\ result' = TRUE
    /\ UNCHANGED drained

GetNothing ==
    /\ q = <<>>
    /\ result' = NULL
    /\ UNCHANGED <<q, drained>>

GetFirst ==
    /\ q # <<>>
    /\ result' = Head(q)
    /\ q' = Tail(q)
    /\ drained' = TRUE

Next ==
    \/ \E v \in Elem \cup {NULL} : Refuse(v) \/ Accept(v) \/ Forget(v)
    \/ GetNothing
    \/ GetFirst

Spec == Init /\ [][Next]_vars
=============================================================================
