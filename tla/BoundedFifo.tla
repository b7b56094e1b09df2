----------------------------- MODULE BoundedFifo -----------------------------
(***************************************************************************)
(* What a bounded single-producer single-consumer buffer promises: batches *)
(* go in at one end, batches come out at the other end, in order, and no   *)
(* more than Capacity elements are ever inside.                            *)
(***************************************************************************)
EXTENDS Naturals, Sequences

CONSTANTS Values, Capacity

VARIABLES
    queue,      \* the elements inside, oldest first
    out         \* what the last taking operation delivered

vars == <<queue, out>>

Init == queue = <<>> /\ out = <<>>

\* The producer makes the elements of s visible, all at once.
Put ==
    \E n \in 1..(Capacity - Len(queue)) : \E s \in [1..n -> Values] :
        queue' = queue \o s /\ UNCHANGED out

\* The consumer takes n elements and either has them or has dropped them.
Take ==
    \E n \in 0..Len(queue) :
        /\ queue' = SubSeq(queue, n + 1, Len(queue))
        /\ out' \in {SubSeq(queue, 1, n), <<>>}

Next == Put \/ Take

Spec == Init /\ [][Next]_vars
=============================================================================
