----------------------------- MODULE MCEventPipe -----------------------------
\* Instances of EventPipe for TLC: hooked threads and EventSrv threads are
\* model values and interchangeable.
EXTENDS EventPipe, TLC

Symmetry == Permutations(Clients) \cup Permutations(Servers)
=============================================================================
