--------------------------- MODULE MCSubscribeFlow ---------------------------
EXTENDS SubscribeFlow, TLC

\* Calls and clicks are interchangeable.
Symmetry == Permutations(Requests) \cup Permutations(Clicks)
==============================================================================
