----------------------------- MODULE JobContract -----------------------------
(***************************************************************************)
(* What the guest agent promises the host controller: it takes one job,    *)
(* runs it once, on the file the controller sent for it, and stops only    *)
(* when the controller has a complete report of that job.  The controller  *)
(* may receive a report more than once.                                    *)
(***************************************************************************)
EXTENDS Naturals

CONSTANTS Jobs,         \* job identifiers
          None          \* no job

VARIABLES phase,        \* seeking, working, reporting, done
          job,          \* the job taken
          received      \* received[j]: complete reports of j the controller has

vars == <<phase, job, received>>

Init == /\ phase = "seeking"
        /\ job = None
        /\ received = [j \in Jobs |-> 0]

Take(j) == /\ phase = "seeking"
           /\ phase' = "working"
           /\ job' = j
           /\ UNCHANGED received

Finish == /\ phase = "working"
          /\ phase' = "reporting"
          /\ UNCHANGED <<job, received>>

Receive == /\ phase = "reporting"
           /\ received' = [received EXCEPT ![job] = @ + 1]
           /\ UNCHANGED <<phase, job>>

Stop == /\ phase = "reporting"
        /\ received[job] > 0
        /\ phase' = "done"
        /\ UNCHANGED <<job, received>>

Next == (\E j \in Jobs : Take(j)) \/ Finish \/ Receive \/ Stop

Spec == Init /\ [][Next]_vars
=============================================================================
