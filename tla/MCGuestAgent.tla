---------------------------- MODULE MCGuestAgent ----------------------------
\* Instances of GuestAgent for TLC: the threads of the agent and the processes
\* are model values.
EXTENDS GuestAgent, TLC

\* The safety run follows a job until it makes its report.
JobRuns == tpc[Logic] \notin {"report", "done", "crashed"}

\* Before the report no guard of the agent and no property of the safety run
\* reads the hierarchy, the information on processes or acked.
WithoutHistory == <<inj, proc, loading, hooked, sends, at, msg, svc, listening,
                    monitored, services, enlisted, firstDone, waitq, avars>>
=============================================================================
