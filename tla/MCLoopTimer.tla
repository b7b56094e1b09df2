----------------------------- MODULE MCLoopTimer -----------------------------
\* Timers that are due after one or two ticks, once, twice or unlimited.
EXTENDS LoopTimer
UnlimitedOnly == {-1}
AllCounts == {-1, 0, 2}
=============================================================================
