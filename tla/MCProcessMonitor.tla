-------------------------- MODULE MCProcessMonitor --------------------------
\* An instance of ProcessMonitor for TLC: the program, one child it may create,
\* and one service the injector hooks.
EXTENDS ProcessMonitor, TLC

Symmetry == Permutations(Servers) \cup Permutations(Threads)

\* Both EventSrv threads are busy only before the hooked service has been touched:
\* its announcements are independent of those of the program and its child.  After
\* Stop the exploration goes on while an event is being handled, and nothing depends
\* on the injector once it has ended.
Overlap ==
  /\ (\A s \in Servers : msg[s] # None) =>
       (\A p \in HookedServices : p \notin hooked /\ proc[p] = "running")
  /\ ~listening => \E s \in Servers : msg[s] # None
  /\ \A s \in Servers : at[s] # "exited"
  /\ inj \notin {"exiting", "exited", "failed"}
=============================================================================
