---------------------------- MODULE MCFileHistory ----------------------------
(* FileHistory on an instance for TLC. *)
EXTENDS FileHistory, TLC

AtRest(t) == pos[t] \in {"free", "gone"} /\ stage[t] = "idle"

Symmetry == Permutations(Threads) \cup Permutations(Contents) \cup Permutations(Paths)

\* The behaviour after the report is not explored, nor the loop of the report once
\* every path is disturbed, when no property says anything any more.  After Stop an
\* event is handled only while the other thread has nothing under way, and none while
\* the loop waits for its tasks, which is like an event handled before.
UntilReported ==
  /\ phase # "done"
  /\ phase \in {"reading", "waiting"} => disturbed # Paths
  /\ phase # "run" => \E t \in Threads : AtRest(t)
  /\ phase = "waiting" => \A t \in Threads : AtRest(t)
=============================================================================
