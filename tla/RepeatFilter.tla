----------------------------- MODULE RepeatFilter -----------------------------
(***************************************************************************)
(* basic/repeat_filter_limit.h: which of a long series of calls are let    *)
(* through.  The parameters are any that a caller may give.                *)
(***************************************************************************)
EXTENDS Naturals

CONSTANTS
    MaxParam,       \* bound: the bars and thresholds
    MaxCalls        \* bound: the calls

BoundsAssumption == MaxParam \in Nat \ {0} /\ MaxCalls \in Nat

VARIABLES
    bar1_, bar2_, threshold1_, threshold2_, counter_,
    gap,            \* calls since one was let through
    trapped         \* has a call divided by zero?

params == <<bar1_, bar2_, threshold1_, threshold2_>>
vars == <<params, counter_, gap, trapped>>

Init ==
    /\ bar1_ \in 0 .. MaxParam /\ bar2_ \in 0 .. MaxParam
    /\ threshold1_ \in 0 .. MaxParam /\ threshold2_ \in 0 .. MaxParam
    /\ counter_ = 0 /\ gap = 0 /\ trapped = FALSE

RepeatsFromBar1(counter) ==
    \/ counter < bar1_
    \/ counter < bar2_ /\ (counter - bar1_) % threshold1_ = 0
    \/ counter >= bar2_ /\ (counter - bar1_) % threshold2_ = 0
Repeats(counter) ==
    \/ counter < bar1_
    \/ /\ counter >= bar1_ /\ counter < bar2_
       /\ (counter - bar1_) % threshold1_ = 0
    \/ /\ counter >= bar1_ /\ counter >= bar2_
       /\ (counter - bar2_) % threshold2_ = 0

\* What the call divides by, unless bar1_ is ahead.
Threshold(counter) == IF counter < bar2_ THEN threshold1_ ELSE threshold2_

repeat ==
    /\ counter_ < MaxCalls /\ ~trapped
    /\ counter_' = counter_ + 1
    /\ IF counter_ + 1 >= bar1_ /\ Threshold(counter_ + 1) = 0
       THEN trapped' = TRUE /\ UNCHANGED gap
       ELSE /\ gap' = IF Repeats(counter_ + 1) THEN 0 ELSE gap + 1
            /\ UNCHANGED trapped
    /\ UNCHANGED params

Next == repeat
Spec == Init /\ [][Next]_vars

\* The series never falls silent for longer than the threshold of where it is,
\* also across the change at bar2_ (line 32), where the second threshold starts
\* to count anew: fewer than threshold1_ calls in a row are held back before it
\* and fewer than threshold2_ after it.  A threshold of zero bounds nothing: its
\* first use divides by it (lines 33 and 36).
GapBounded == Threshold(counter_) > 0 => gap < Threshold(counter_)
=============================================================================
