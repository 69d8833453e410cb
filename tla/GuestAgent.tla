------------------------------ MODULE GuestAgent ------------------------------
(***************************************************************************)
(* One job of the guest agent: the LogicThread starts the injector, drives *)
(* the program's user interface until its processes are finished or the    *)
(* time is over, stops listening, kills what is left and sends the report, *)
(* while the handlers of two System.Timers run on pool threads of their    *)
(* own: TimeoutReached kills everything, the stuck-UI watcher kills        *)
(* processes with a hung window.  All of them read Pids and then act,      *)
(* outside the lock, on the list they got.  The processes and the EventSrv *)
(* threads are those of ProcessMonitor.                                    *)
(*                                                                         *)
(* One pass of the interaction loop (ranking controls, clicking) changes   *)
(* nothing modelled here and ends in any of its results.                   *)
(***************************************************************************)
EXTENDS ProcessMonitor

CONSTANTS Logic,        \* the LogicThread
          Timer,        \* the pool thread that runs TimeoutReached
          Watchers,     \* calls of _stuckUiWatcher_Elapsed, each on a pool thread
          Holders       \* processes that inherit the injector's output pipes

ASSUME AgentAssumption ==
    /\ Threads = {Logic, Timer} \cup Watchers
    /\ Logic # Timer /\ Logic \notin Watchers /\ Timer \notin Watchers
    /\ Holders \subseteq Procs

VARIABLES
    tpc,          \* tpc[t]: where thread t of the agent is
    snap,         \* snap[t]: what is left of the list t got from Pids
    listed,       \* the list the LogicThread got last
    timeout,      \* LogicThread._timeout
    result        \* proc.Result

avars == <<tpc, snap, listed, timeout, result>>
vars == <<mvars, avars>>

LogicPc == {"start", "grace", "loop", "finished?", "scan", "interact", "post", "stop",
            "killinj", "notify", "sweep?", "sweep", "report", "done", "crashed"}
HandlerPc == {"off", "armed", "list?", "kill"}

\* "Other" stands for Unknown, UI_Stuck, PartiallyFinished and UnknownError.
Result == {"Finished", "TimeOut", "Other"}

TypeOK ==
    /\ MTypeOK
    /\ tpc \in [Threads -> LogicPc \cup HandlerPc]
    /\ tpc[Logic] \in LogicPc
    /\ \A t \in Threads \ {Logic} : tpc[t] \in HandlerPc
    /\ snap \in [Threads -> SUBSET Procs]
    /\ listed \subseteq Procs
    /\ timeout \in BOOLEAN
    /\ result \in Result

\* A job has been acquired.
Init ==
    /\ MInit
    /\ tpc = [t \in Threads |-> IF t = Logic THEN "start" ELSE "off"]
    /\ snap = [t \in Threads |-> {}]
    /\ listed = {}
    /\ timeout = FALSE
    /\ result = "Other"

Goto(t, l) == tpc' = [tpc EXCEPT ![t] = l]

-----------------------------------------------------------------------------
(* Pids, for every thread.                                                 *)

Waiting(t) == \E i \in DOMAIN waitq : waitq[i] = t

\* The getter, not asleep, finds _firstDone set and returns a copy of the list.
GetPids(t, from, to) ==
    /\ tpc[t] = from
    /\ firstDone
    /\ ~Waiting(t)
    /\ Goto(t, to)
    /\ snap' = [snap EXCEPT ![t] = monitored]
    /\ listed' = IF t = Logic THEN monitored ELSE listed
    /\ UNCHANGED <<mvars, timeout, result>>

\* The getter waits until it is pulsed.
BlockInPids(t, from) ==
    /\ tpc[t] = from
    /\ ~Waiting(t)
    /\ WaitForFirst(t)
    /\ UNCHANGED avars

Skip(t, p) == snap' = [snap EXCEPT ![t] = @ \ {p}]

-----------------------------------------------------------------------------
(* The LogicThread: work and ExecuteJob.                                   *)

\* Start the timers and the injector.
StartJob ==
    /\ tpc[Logic] = "start"
    /\ StartInjector
    /\ tpc' = [t \in Threads |-> IF t = Logic THEN "grace" ELSE "armed"]
    /\ UNCHANGED <<snap, listed, timeout, result>>

\* StartProcessWithInjector throws; proc is still null in the catch of work.
StartThrows ==
    /\ tpc[Logic] = "start"
    /\ Goto(Logic, "crashed")
    /\ UNCHANGED <<mvars, snap, listed, timeout, result>>

\* WaitForExit(2000) and the exit code; "return proc" skips the rest.
Grace ==
    /\ tpc[Logic] = "grace"
    /\ IF inj = "failed"
       THEN Goto(Logic, "stop")
       ELSE Goto(Logic, "loop")
    /\ UNCHANGED <<mvars, snap, listed, timeout, result>>

\* The head of the interaction loop.
Loop ==
    /\ tpc[Logic] = "loop"
    /\ Goto(Logic, IF timeout THEN "post" ELSE "finished?")
    /\ UNCHANGED <<mvars, snap, listed, timeout, result>>

\* The event WK_MITM was signalled: the loop ends.
MitmSucceeded ==
    /\ tpc[Logic] = "loop"
    /\ Goto(Logic, "post")
    /\ UNCHANGED <<mvars, snap, listed, timeout, result>>

\* AreProcsFinished: a process that runs answers no; one that is terminating
\* may still be found running.
FindRunning(p) ==
    /\ tpc[Logic] = "scan"
    /\ p \in snap[Logic]
    /\ proc[p] # "dead"
    /\ Goto(Logic, "interact")
    /\ snap' = [snap EXCEPT ![Logic] = {}]
    /\ UNCHANGED <<mvars, listed, timeout, result>>

\* Mutant of FindExited: HasExited is not looked at.
FindAnything(p) ==
    /\ tpc[Logic] = "scan"
    /\ p \in snap[Logic]
    /\ Skip(Logic, p)
    /\ UNCHANGED <<mvars, tpc, listed, timeout, result>>

\* HasExited.
FindExited(p) ==
    /\ tpc[Logic] = "scan"
    /\ p \in snap[Logic]
    /\ proc[p] = "exiting"
    /\ Skip(Logic, p)
    /\ UNCHANGED <<mvars, tpc, listed, timeout, result>>

\* GetProcessById throws: RemovePid.
FindDead(p) ==
    /\ tpc[Logic] = "scan"
    /\ p \in snap[Logic]
    /\ proc[p] = "dead"
    /\ DropPid(p)
    /\ Skip(Logic, p)
    /\ UNCHANGED <<tpc, listed, timeout, result>>

\* Mutant of AllFinished: "return true" before the end of the list.
FirstFinished ==
    /\ tpc[Logic] = "scan"
    /\ snap[Logic] # listed
    /\ Goto(Logic, "post")
    /\ result' = "Finished"
    /\ UNCHANGED <<mvars, snap, listed, timeout>>

\* The whole list has exited: ProcessExitedException, Finished.
AllFinished ==
    /\ tpc[Logic] = "scan"
    /\ snap[Logic] = {}
    /\ Goto(Logic, "post")
    /\ result' = "Finished"
    /\ UNCHANGED <<mvars, snap, listed, timeout>>

\* The rest of the loop body: it continues, breaks because the interface is
\* stuck or something throws, or because Pids is empty and the log rate is 0.
Interact ==
    /\ tpc[Logic] = "interact"
    /\ \/ Goto(Logic, "loop")
       \/ Goto(Logic, "post")
    /\ UNCHANGED <<mvars, snap, listed, timeout, result>>

\* "if (!HasExited) Kill": Kill throws if the injector terminates in between.
KillIfRunning(next) ==
    \/ KillInjector /\ Goto(Logic, next)
    \/ ~InjectorRuns /\ Goto(Logic, next) /\ UNCHANGED mvars
    \/ InjectorExits /\ Goto(Logic, "crashed")
    \/ inj = "exiting" /\ Goto(Logic, "crashed") /\ UNCHANGED mvars

\* The end of ExecuteJob.
Post ==
    /\ tpc[Logic] = "post"
    /\ KillIfRunning("stop")
    /\ result' = IF timeout THEN "TimeOut" ELSE result
    /\ UNCHANGED <<snap, listed, timeout>>

\* Timer.Stop() does not recall a handler that is queued already.
StopAll ==
    /\ tpc[Logic] = "stop"
    /\ StopListening
    /\ \E Q \in SUBSET {t \in Threads : tpc[t] = "armed"} :
         tpc' = [t \in Threads |-> IF t = Logic THEN "killinj"
                                   ELSE IF tpc[t] = "armed" /\ t \notin Q THEN "off"
                                   ELSE tpc[t]]
    /\ UNCHANGED <<snap, listed, timeout, result>>

\* "Kill the Injector process if it's still alive", outside any try.
KillLeftInjector ==
    /\ tpc[Logic] = "killinj"
    /\ KillIfRunning("notify")
    /\ UNCHANGED <<snap, listed, timeout, result>>

Notify ==
    /\ tpc[Logic] = "notify"
    /\ NotifyInjectorExited
    /\ Goto(Logic, "sweep?")
    /\ UNCHANGED <<snap, listed, timeout, result>>

\* "Kill any other process spawned by us".
Kill(t, p) ==
    /\ p \in snap[t]
    /\ IF Alive(p) THEN KillProcess(p) ELSE UNCHANGED mvars
    /\ Skip(t, p)

Sweep(p) ==
    /\ tpc[Logic] = "sweep"
    /\ Kill(Logic, p)
    /\ UNCHANGED <<tpc, listed, timeout, result>>

\* Mutant of SweepDone: an exception of Kill ends the loop.
SweepAborted ==
    /\ tpc[Logic] = "sweep"
    /\ Goto(Logic, "report")
    /\ UNCHANGED <<mvars, snap, listed, timeout, result>>

SweepDone ==
    /\ tpc[Logic] = "sweep"
    /\ snap[Logic] = {}
    /\ Goto(Logic, "report")
    /\ UNCHANGED <<mvars, snap, listed, timeout, result>>

\* GetHierarchy asks the system for the processes it has no information on,
\* and throws if one of them is gone.
InHierarchy(p) == hier[p] # "unknown" \/ \E c \in Procs : hier[c] = p

HierarchyComplete == \A p \in Procs : InHierarchy(p) => p \in info \/ proc[p] # "dead"

\* ReadToEnd returns when no process has the other end of the pipe.
OutputClosed == inj \in {"exited", "failed"} /\ \A p \in Holders : ~Alive(p)

\* PrepareReport and ReportWork.  An attempt that throws is repeated for ever
\* and changes nothing that is modelled; the controller answers eventually.
Report ==
    /\ tpc[Logic] = "report"
    /\ OutputClosed
    /\ HierarchyComplete
    /\ Goto(Logic, "done")
    /\ UNCHANGED <<mvars, snap, listed, timeout, result>>

LogicStep ==
    \/ StartJob \/ StartThrows \/ Grace \/ Loop \/ MitmSucceeded
    \/ BlockInPids(Logic, "finished?")
    \/ GetPids(Logic, "finished?", "scan")
    \/ \E p \in Procs : FindRunning(p) \/ FindExited(p) \/ FindDead(p) \/ Sweep(p)
    \/ AllFinished \/ Interact \/ Post \/ StopAll
    \/ KillLeftInjector \/ Notify
    \/ GetPids(Logic, "sweep?", "sweep")
    \/ SweepDone \/ Report

-----------------------------------------------------------------------------
(* The handlers of the timers.                                             *)

\* The timers run for 60 seconds and 20 minutes, ExecuteJob sleeps for 12
\* seconds: when one fires, the LogicThread has called Pids.
Late == firstDone \/ Waiting(Logic) \/ tpc[Logic] \notin {"start", "grace", "loop", "finished?"}

\* TimeoutReached is called.
TimeoutFires ==
    /\ tpc[Timer] = "armed"
    /\ Late
    /\ timeout' = TRUE
    /\ Goto(Timer, "list?")
    /\ UNCHANGED <<mvars, snap, listed, result>>

\* Mutant of TimeoutKills: any process that cannot be killed is removed.
TimeoutRemoves(p) ==
    /\ tpc[Timer] = "kill"
    /\ p \in snap[Timer]
    /\ DropPid(p)
    /\ Skip(Timer, p)
    /\ UNCHANGED <<tpc, listed, timeout, result>>

\* Kill the next process; one that has exited may be removed instead
\* (InvalidOperationException).
TimeoutKills(p) ==
    /\ tpc[Timer] = "kill"
    /\ \/ Kill(Timer, p)
       \/ p \in snap[Timer] /\ proc[p] = "exiting" /\ DropPid(p) /\ Skip(Timer, p)
    /\ UNCHANGED <<tpc, listed, timeout, result>>

\* _stuckUiWatcher_Elapsed is called.
WatcherFires(w) ==
    /\ tpc[w] = "armed"
    /\ Late
    /\ Goto(w, "list?")
    /\ UNCHANGED <<mvars, snap, listed, timeout, result>>

\* The next process of the list is gone or answers, or its window is hung.
WatcherLooks(w, p) ==
    /\ tpc[w] = "kill"
    /\ \/ Kill(w, p)
       \/ p \in snap[w] /\ Skip(w, p) /\ UNCHANGED mvars
    /\ UNCHANGED <<tpc, listed, timeout, result>>

HandlerReturns(t) ==
    /\ tpc[t] = "kill"
    /\ snap[t] = {}
    /\ Goto(t, "off")
    /\ UNCHANGED <<mvars, snap, listed, timeout, result>>

HandlerStep(t) ==
    \/ BlockInPids(t, "list?")
    \/ GetPids(t, "list?", "kill")
    \/ HandlerReturns(t)

TimerStep ==
    \/ HandlerStep(Timer)
    \/ \E p \in Procs : TimeoutKills(p)

WatcherStep(w) ==
    \/ HandlerStep(w)
    \/ \E p \in Procs : WatcherLooks(w, p)

-----------------------------------------------------------------------------
\* When the agent's process is gone, only the other processes go on.
AgentUp == tpc[Logic] # "crashed"

\* An EventSrv thread that leaves its loop closes an instance it has lost
\* (EventPipe!CloseThrows): the exception ends the agent.
EventSrvThrows(s) ==
    /\ at[s] = "idle"
    /\ ~listening
    /\ Goto(Logic, "crashed")
    /\ UNCHANGED <<mvars, snap, listed, timeout, result>>

Next ==
    \/ ProcessStep /\ UNCHANGED avars
    \/ AgentUp /\ \E s \in Servers : \/ ServerStep(s) /\ UNCHANGED avars
                                   \/ EventSrvThrows(s)
    \/ LogicStep
    \/ AgentUp /\ TimeoutFires
    \/ AgentUp /\ TimerStep
    \/ AgentUp /\ \E w \in Watchers : WatcherFires(w) \/ WatcherStep(w)

Spec == Init /\ [][Next]_vars

(***************************************************************************)
(* The agent's threads are scheduled, the timers elapse if they are not    *)
(* stopped before, and what is terminated goes away.  Nothing is assumed   *)
(* of the program under test, of the injector's progress or of messages.   *)
(***************************************************************************)
Fairness ==
    /\ WF_vars(LogicStep)
    /\ WF_vars(AgentUp /\ TimeoutFires)
    /\ WF_vars(AgentUp /\ TimerStep)
    /\ \A w \in Watchers : /\ WF_vars(AgentUp /\ WatcherFires(w))
                           /\ WF_vars(AgentUp /\ WatcherStep(w))
    /\ WF_vars(InjectorExits /\ UNCHANGED avars)
    /\ \A p \in Procs : WF_vars(Reap(p) /\ UNCHANGED avars)

FairSpec == Spec /\ Fairness

-----------------------------------------------------------------------------
(* The inductive invariant behind the safety properties, in named parts.   *)

\* Every list a thread works on came from _monitoredPids.
SnapInv == listed \subseteq enlisted /\ \A t \in Threads : snap[t] \subseteq enlisted

\* Processes on a list have existed.
ExistInv == \A p \in enlisted : proc[p] # "none"

\* What AreProcsFinished or the sweep has gone through is not alive.
ScanInv ==
    tpc[Logic] \in {"scan", "sweep"} => \A p \in listed \ snap[Logic] : ~Alive(p)

\* The result is settled after the loop, and the list does not come alive.
ResultInv ==
    /\ tpc[Logic] \in {"start", "grace", "loop", "finished?", "scan", "interact"}
          => result = "Other"
    /\ result = "Finished" /\ tpc[Logic] \in {"post", "stop", "killinj", "notify", "sweep?"}
          => \A p \in listed : ~Alive(p)
    /\ tpc[Logic] \in {"report", "done"} => \A p \in listed : ~Alive(p)

AInv == TypeOK /\ SnapInv /\ ExistInv /\ ScanInv /\ ResultInv

-----------------------------------------------------------------------------
(* Properties.                                                             *)

\* The agent, with its snapshots that grow stale, does to the processes and to
\* ProgramStatus only what ProcessMonitor lets it: it kills only processes
\* that have been on the monitored list and drops only those that have exited.
MonitorSpec == MSpec

\* While the result is Finished, every process of the list it was concluded
\* from has exited, although AreProcsFinished looks at them one by one.
FinishedMeansExited ==
    /\ result = "Finished"
    /\ tpc[Logic] \in {"post", "stop", "killinj", "notify", "sweep?"}
    => \A p \in listed : ~Alive(p)

\* When the report is made, no process of the list the LogicThread last got
\* is alive, whichever of the three killing threads has been faster.
SweptAtReport ==
    tpc[Logic] \in {"report", "done"} => \A p \in listed : ~Alive(p)

\* Once a process has registered, the timeout ends the job: the LogicThread
\* leaves ExecuteJob, sweeps and comes to the report, or takes the agent down.
TimeoutEndsJob ==
    timeout /\ firstDone ~> tpc[Logic] \in {"report", "done", "crashed"}

\* A handler that has entered Pids comes back once the first process has
\* registered: when a single Pulse has woken another thread instead of it, the
\* end of the job wakes it.
HandlersReturn ==
    \A t \in Threads \ {Logic} :
        tpc[t] = "list?" /\ firstDone ~> tpc[t] = "off" \/ ~AgentUp

\* "All the processes end correctly: status will be Finished": Finished is
\* concluded only when the program has been started and no monitored process is
\* alive (LogicThread.cs:591).
FinishedIsTrue ==
    [][result # "Finished" /\ result' = "Finished" =>
         proc[Root] # "none" /\ \A p \in monitored : ~Alive(p)]_vars

\* The timeout recovers every stuck job.
TimeoutRecovers == timeout ~> tpc[Logic] \in {"report", "done", "crashed"}

\* The agent keeps trying until the report is sent.
ReportSent == tpc[Logic] = "report" ~> tpc[Logic] \in {"done", "crashed"}

\* Whatever happens in ExecuteJob, a failure is reported.
AgentSurvives == tpc[Logic] # "crashed"
===============================================================================
