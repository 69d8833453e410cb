----------------------------- MODULE ReportCycle -----------------------------
(***************************************************************************)
(* A job from the request to the report the controller has: the exchange   *)
(* with the controller together with the history of the registry, which    *)
(* the hooked threads go on changing while the report is prepared, sent,   *)
(* lost and prepared again.                                                *)
(***************************************************************************)
EXTENDS HostExchange, RegistryHistory

cycleVars == <<vars, regVars>>

CycleInit == Init /\ RegInit

\* The installer runs from the start of the job until the agent has reported and
\* shuts the machine down.
Runs == pc \notin {"idle", "asked", "fetching", "waiting", "done"}

Exchange == /\ Acquire \/ SendReport \/ SendFile \/ Done \/ Host \/ Break
            /\ UNCHANGED regVars

\* The pipe server is stopped, and the report is prepared (LogicThread.work).
FinishJob == EndJob /\ Stop

\* PrepareReport throws before the loop over the keys.
ThrowEarly == phase = "stopped" /\ PrepareThrows /\ UNCHANGED regVars

\* The loop over the keys, which ends the report or throws.
PrepareStep == pc = "preparing" /\ ReportStep /\ UNCHANGED vars

\* Mutant of PrepareEnds: the exception of the loop is swallowed.
PrepareEndsAnyway == EndKeys /\ PrepareReport

PrepareEnds == EndKeys /\ ~failed /\ PrepareReport

KeysThrow == EndKeys /\ failed /\ AttemptThrows(Text) /\ UNCHANGED faults

\* The exchange threw: everything is done again.
Repeat == ReportThrows /\ Again

Installer == /\ Runs
             /\ \E t \in Threads : ThreadOp(t) \/ Handler(t)
             /\ UNCHANGED vars

Preparing == PrepareStep \/ PrepareEnds \/ KeysThrow

CycleNext == Exchange \/ FinishJob \/ ThrowEarly \/ Preparing \/ Repeat \/ Installer

\* As in HostExchange; the loop over the keys runs.
CycleSpec == /\ CycleInit /\ [][CycleNext]_cycleVars
             /\ WF_cycleVars((Acquire /\ UNCHANGED regVars) \/ FinishJob)
             /\ WF_cycleVars(Preparing)
             /\ WF_cycleVars(((SendReport \/ SendFile \/ Done) /\ UNCHANGED regVars) \/ Repeat)
             /\ WF_cycleVars(Host /\ UNCHANGED regVars)

-----------------------------------------------------------------------------
(* Properties. *)

\* The registry is compared once the job has ended, and a report that leaves the agent
\* has come to the end of it.
CycleInv == /\ Seeking \/ pc = "working" => phase = "run"
            /\ pc = "preparing" => phase \in {"stopped", "reading"}
            /\ pc \in {"prepared", "offered", "sending", "done"} => phase = "done"

CInv == XInv /\ RInv /\ CycleInv

\* However often the loop over the keys threw and the exchange broke, when the agent
\* stops the controller has the report of the last attempt, and that report says truly
\* what became of each key nobody changed since it was begun (LogicThread.cs:890).
TrueReportReceived ==
  pc = "done" => Arrived /\ phase = "done" /\ \A k \in Followed \ late : ReportedTruly(k)

=============================================================================
