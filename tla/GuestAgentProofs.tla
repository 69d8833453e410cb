--------------------------- MODULE GuestAgentProofs ---------------------------
(***************************************************************************)
(* Proofs about GuestAgent for any processes and any number of threads.    *)
(* The agent implements ProcessMonitor, so all that is proved there holds  *)
(* of it; with the invariant of ProcessMonitor, AInv is inductive.         *)
(***************************************************************************)
EXTENDS GuestAgent, ProcessMonitorProofs

-----------------------------------------------------------------------------
(* GuestAgent implements ProcessMonitor.                                   *)

\* A thread of the agent kills or drops only what it has taken from the list.
LEMMA KillStep ==
    ASSUME SnapInv, NEW t \in Threads, NEW p, Kill(t, p)
    PROVE  [MNext]_mvars
BY DEF SnapInv, Kill, MNext, AgentStep

\* The conditional Kill of the injector is a step of the agent or nothing.
LEMMA KillInjectorStep ==
    ASSUME NEW l, KillIfRunning(l)
    PROVE  [MNext]_mvars
BY DEF KillIfRunning, MNext, AgentStep, ProcessStep

\* Every step of the agent is a step of ProcessMonitor or invisible in it.
LEMMA AgentRefines == ASSUME SnapInv, [Next]_vars PROVE [MNext]_mvars
<1> USE AgentAssumption
<1>1. CASE ProcessStep /\ UNCHANGED avars
  BY <1>1 DEF MNext
<1>2. ASSUME NEW s \in Servers, ServerStep(s) PROVE [MNext]_mvars
  BY <1>2 DEF MNext
<1>3. ASSUME NEW s \in Servers, EventSrvThrows(s) PROVE [MNext]_mvars
  BY <1>3 DEF EventSrvThrows
<1>4. ASSUME NEW t \in Threads, NEW l, BlockInPids(t, l) PROVE [MNext]_mvars
  BY <1>4 DEF BlockInPids, MNext, AgentStep
<1>5. ASSUME NEW t \in Threads, NEW l, NEW k, GetPids(t, l, k) PROVE [MNext]_mvars
  BY <1>5 DEF GetPids
<1>6. CASE LogicStep
  <2>1. CASE StartJob
    BY <2>1 DEF StartJob, MNext, AgentStep
  <2>2. CASE StartThrows \/ Grace \/ Loop \/ MitmSucceeded
    BY <2>2 DEF StartThrows, Grace, Loop, MitmSucceeded
  <2>3. ASSUME NEW p \in Procs, FindRunning(p) \/ FindExited(p)
        PROVE  [MNext]_mvars
    BY <2>3 DEF FindRunning, FindExited
  <2>4. ASSUME NEW p \in Procs, FindDead(p) PROVE [MNext]_mvars
    BY <2>4 DEF FindDead, SnapInv, MNext, AgentStep
  <2>5. ASSUME NEW p \in Procs, Sweep(p) PROVE [MNext]_mvars
    BY <2>5, KillStep DEF Sweep
  <2>6. CASE AllFinished \/ Interact \/ SweepDone \/ Report
    BY <2>6 DEF AllFinished, Interact, SweepDone, Report
  <2>7. CASE Post \/ KillLeftInjector
    BY <2>7, KillInjectorStep DEF Post, KillLeftInjector
  <2>8. CASE StopAll
    BY <2>8 DEF StopAll, MNext, AgentStep
  <2>9. CASE Notify
    BY <2>9 DEF Notify, MNext, AgentStep
  <2>10. QED
    BY <1>4, <1>5, <1>6, <2>1, <2>2, <2>3, <2>4, <2>5, <2>6, <2>7, <2>8, <2>9
       DEF LogicStep
<1>7. CASE TimeoutFires
  BY <1>7 DEF TimeoutFires
<1>8. ASSUME NEW t \in Threads, HandlerStep(t) PROVE [MNext]_mvars
  BY <1>4, <1>5, <1>8 DEF HandlerStep, HandlerReturns
<1>9. CASE TimerStep
  <2>1. ASSUME NEW p \in Procs, TimeoutKills(p) PROVE [MNext]_mvars
    <3>1. CASE Kill(Timer, p)
      BY <3>1, KillStep
    <3>2. CASE p \in snap[Timer] /\ proc[p] = "exiting" /\ DropPid(p)
      BY <3>2 DEF SnapInv, MNext, AgentStep
    <3>3. QED
      BY <2>1, <3>1, <3>2 DEF TimeoutKills
  <2>2. QED
    BY <1>8, <1>9, <2>1 DEF TimerStep
<1>10. ASSUME NEW w \in Watchers, WatcherFires(w) \/ WatcherStep(w)
       PROVE  [MNext]_mvars
  <2>1. ASSUME NEW p \in Procs, WatcherLooks(w, p) PROVE [MNext]_mvars
    BY <2>1, KillStep DEF WatcherLooks
  <2>2. QED
    BY <1>8, <1>10, <2>1 DEF WatcherFires, WatcherStep
<1>11. CASE UNCHANGED vars
  BY <1>11 DEF vars
<1>12. QED
  BY <1>1, <1>2, <1>3, <1>6, <1>7, <1>9, <1>10, <1>11 DEF Next

-----------------------------------------------------------------------------
(* The invariant of the agent.                                             *)

\* What is terminated stays so, and the list has only processes that exist.
LEMMA MonitorStep ==
    ASSUME MInv, ExistInv, [MNext]_mvars
    PROVE  /\ monitored \subseteq enlisted
           /\ enlisted \subseteq enlisted'
           /\ monitored' \subseteq enlisted'
           /\ ExistInv'
           /\ \A p \in enlisted : ~Alive(p) => ~Alive(p)'
<1> DEFINE Ended(p) == proc[p] \in {"exiting", "dead"}
           Kept == /\ enlisted' = enlisted
                   /\ \A p \in Procs : proc[p] # "none" => proc'[p] # "none"
                   /\ \A p \in Procs : Ended(p) => Ended(p)'
<1> USE MonitorAssumption DEF MInv, MTypeOK
<1>1. ASSUME NEW m \in sends, GiveUp(m) PROVE Kept
  BY <1>1 DEF GiveUp, Continue, AuthorAlive, Author, Message, listVars, CreatedInv, SendInv
<1>2. ASSUME ProcessStep, ~\E m \in sends : GiveUp(m) PROVE Kept
  <2>1. CASE CreateRoot \/ ResumeRoot \/ InjectorFails \/ InjectorExits
    BY <2>1 DEF CreateRoot, ResumeRoot, InjectorFails, InjectorExits, CreatedInv,
                Alive, listVars
  <2>2. ASSUME NEW p \in Procs,
               HookService(p) \/ Attach(p) \/ Exit(p) \/ Terminate(p) \/ Reap(p)
        PROVE  Kept
    BY <2>2 DEF HookService, Attach, Exit, Terminate, Reap, Alive, listVars
  <2>3. ASSUME NEW p \in Procs, NEW q \in Procs, Spawn(q, p) PROVE Kept
    BY <2>3 DEF Spawn, listVars
  <2>4. ASSUME NEW m \in sends, Abandon(m) PROVE Kept
    BY <2>4 DEF Abandon, listVars
  <2>5. QED
    BY <1>2, <2>1, <2>2, <2>3, <2>4 DEF ProcessStep
<1>3. ASSUME NEW s \in Servers, ServerStep(s), ~Register(s) PROVE Kept
  <2>1. ASSUME NEW m \in sends, Inspect(s, m) \/ HandleDead(s, m) PROVE Kept
    BY <2>1 DEF Inspect, HandleDead, RemovePid, Alive, listVars
  <2>2. CASE Acknowledge(s)
    BY <2>2 DEF Acknowledge, Continue, AuthorAlive, Author, Message, listVars,
                CreatedInv, SendInv
  <2>3. CASE LoseAck(s) \/ AnswerNobody(s) \/ LeaveLoop(s)
    BY <2>3 DEF LoseAck, AnswerNobody, LeaveLoop, listVars
  <2>4. QED
    BY <1>3, <2>1, <2>2, <2>3 DEF ServerStep
<1>4. ASSUME AgentStep PROVE Kept
  BY <1>4 DEF AgentStep, StartInjector, KillInjector, KillProcess, DropPid, RemovePid,
              WaitForFirst, NotifyInjectorExited, StopListening, Alive, listVars
<1>5. ASSUME NEW s \in Servers, Register(s)
      PROVE  /\ proc' = proc
             /\ enlisted' = enlisted \/ enlisted' = enlisted \cup {msg[s].pid}
             /\ proc[msg[s].pid] # "none"
  BY <1>5 DEF Register, CreatedInv, SendInv, injVars
<1>6. monitored \subseteq enlisted /\ monitored' \subseteq enlisted'
  BY MStepInv DEF ServiceInv
<1>7. CASE Kept
  BY <1>6, <1>7 DEF ExistInv, Alive
<1>8. ASSUME NEW s \in Servers, Register(s)
      PROVE  /\ enlisted \subseteq enlisted'
             /\ ExistInv'
             /\ \A p \in enlisted : ~Alive(p) => ~Alive(p)'
  BY <1>5, <1>8 DEF ExistInv, Alive
<1>9. CASE UNCHANGED mvars
  BY <1>6, <1>9 DEF mvars, ExistInv, Alive
<1> HIDE DEF Kept
<1>10. CASE ProcessStep
  BY <1>1, <1>2, <1>7, <1>10
<1>11. CASE \E s \in Servers : ServerStep(s)
  BY <1>3, <1>6, <1>7, <1>8, <1>11
<1>12. CASE AgentStep
  BY <1>4, <1>7, <1>12
<1>13. QED
  BY <1>9, <1>10, <1>11, <1>12 DEF MNext

\* A job that has just been acquired satisfies the invariant.
LEMMA AInitInv == Init => AInv
<1> SUFFICES ASSUME Init PROVE AInv
  OBVIOUS
<1> USE AgentAssumption DEF Init
<1>1. TypeOK
  <2>1. MTypeOK
    BY MInitInv DEF MInv
  <2>2. QED
    BY <2>1 DEF TypeOK, LogicPc, HandlerPc, Result
<1>2. SnapInv /\ ExistInv /\ ScanInv /\ ResultInv
  BY DEF MInit, SnapInv, ExistInv, ScanInv, ResultInv
<1>3. QED
  BY <1>1, <1>2 DEF AInv

\* What a step of the agent must leave true of its own variables, given what
\* MonitorStep says of the others.
AgentVarsInv ==
    /\ tpc \in [Threads -> LogicPc \cup HandlerPc]
    /\ tpc[Logic] \in LogicPc
    /\ \A t \in Threads \ {Logic} : tpc[t] \in HandlerPc
    /\ snap \in [Threads -> SUBSET Procs]
    /\ listed \subseteq Procs
    /\ timeout \in BOOLEAN
    /\ result \in Result
    /\ SnapInv
    /\ ScanInv
    /\ ResultInv

\* Each action of the agent preserves the invariant: one step per action.
LEMMA AStepInv == ASSUME MInv, AInv, [Next]_vars PROVE AInv'
<1> DEFINE Kept == /\ monitored \subseteq enlisted
                   /\ enlisted \subseteq enlisted'
                   /\ enlisted \subseteq Procs
                   /\ \A p \in enlisted : ~Alive(p) => ~Alive(p)'
<1>1. [MNext]_mvars
  BY AgentRefines DEF AInv
<1>2. MTypeOK' /\ ExistInv' /\ Kept
  BY <1>1, MStepInv, MonitorStep DEF AInv, MInv, MTypeOK
<1>3. AgentVarsInv
  BY DEF AInv, TypeOK, AgentVarsInv
<1>4. SUFFICES AgentVarsInv'
  BY <1>2, <1>4 DEF AInv, TypeOK, AgentVarsInv
<1> HIDE DEF Kept
<1>5. Kept
  BY <1>2
<1> USE AgentAssumption, <1>3, <1>5
    DEF Kept, AgentVarsInv, SnapInv, ScanInv, ResultInv, LogicPc, HandlerPc, Result, Goto, Skip
<1>6. ASSUME UNCHANGED avars PROVE AgentVarsInv'
  BY <1>6 DEF avars
<1>7. ASSUME NEW s \in Servers, EventSrvThrows(s) PROVE AgentVarsInv'
  BY <1>7 DEF EventSrvThrows
<1>8. ASSUME NEW t \in Threads, NEW l, BlockInPids(t, l) PROVE AgentVarsInv'
  BY <1>6, <1>8 DEF BlockInPids
<1>9. CASE LogicStep
  <2>1. CASE StartJob
    BY <2>1 DEF StartJob
  <2>2. CASE StartThrows \/ Grace \/ Loop \/ MitmSucceeded
    BY <2>2 DEF StartThrows, Grace, Loop, MitmSucceeded
  <2>3. CASE GetPids(Logic, "finished?", "scan")
    BY <2>3 DEF GetPids
  <2>4. ASSUME NEW p \in Procs, FindRunning(p) PROVE AgentVarsInv'
    BY <2>4 DEF FindRunning
  <2>5. ASSUME NEW p \in Procs, FindExited(p) PROVE AgentVarsInv'
    BY <2>5 DEF FindExited, mvars, Alive
  <2>6. ASSUME NEW p \in Procs, FindDead(p) PROVE AgentVarsInv'
    BY <2>6 DEF FindDead, DropPid, Alive
  <2>7. ASSUME NEW p \in Procs, Sweep(p) PROVE AgentVarsInv'
    <3>1. ~Alive(p)'
      BY <2>7 DEF Sweep, Kill, KillProcess, mvars, Alive, MInv, MTypeOK
    <3>2. QED
      BY <2>7, <3>1 DEF Sweep, Kill
  <2>8. CASE AllFinished
    BY <2>8 DEF AllFinished
  <2>9. CASE Interact
    BY <2>9 DEF Interact
  <2>10. CASE Post
    BY <2>10 DEF Post, KillIfRunning
  <2>11. CASE StopAll
    BY <2>11 DEF StopAll
  <2>12. CASE KillLeftInjector
    BY <2>12 DEF KillLeftInjector, KillIfRunning
  <2>13. CASE Notify
    BY <2>13 DEF Notify
  <2>14. CASE GetPids(Logic, "sweep?", "sweep")
    BY <2>14 DEF GetPids
  <2>15. CASE SweepDone \/ Report
    BY <2>15 DEF SweepDone, Report
  <2>16. QED
    BY <1>8, <1>9, <2>1, <2>2, <2>3, <2>4, <2>5, <2>6, <2>7, <2>8, <2>9, <2>10,
       <2>11, <2>12, <2>13, <2>14, <2>15 DEF LogicStep
<1>10. CASE TimeoutFires
  BY <1>10 DEF TimeoutFires
<1>11. ASSUME NEW t \in Threads \ {Logic}, HandlerStep(t) PROVE AgentVarsInv'
  <2>1. CASE GetPids(t, "list?", "kill")
    BY <2>1 DEF GetPids
  <2>2. CASE HandlerReturns(t)
    BY <2>2 DEF HandlerReturns
  <2>3. QED
    BY <1>8, <1>11, <2>1, <2>2 DEF HandlerStep
<1>12. ASSUME NEW p \in Procs, TimeoutKills(p) PROVE AgentVarsInv'
  BY <1>12 DEF TimeoutKills, Kill
<1>13. ASSUME NEW w \in Watchers, WatcherFires(w) PROVE AgentVarsInv'
  BY <1>13 DEF WatcherFires
<1>14. ASSUME NEW w \in Watchers, NEW p \in Procs, WatcherLooks(w, p) PROVE AgentVarsInv'
  BY <1>14 DEF WatcherLooks, Kill
<1>15. CASE UNCHANGED vars
  BY <1>6, <1>15 DEF vars
<1>16. QED
  BY <1>6, <1>7, <1>9, <1>10, <1>11, <1>12, <1>13, <1>14, <1>15
     DEF Next, TimerStep, WatcherStep

-----------------------------------------------------------------------------
\* The inductive invariant of the agent, type correctness included, together
\* with that of ProcessMonitor.
THEOREM AgentInvariant == Spec => [](MInv /\ AInv)
<1>1. Init => MInv /\ AInv
  BY AInitInv, MInitInv DEF Init
<1>2. MInv /\ AInv /\ [Next]_vars => (MInv /\ AInv)'
  BY AgentRefines, MStepInv, AStepInv DEF AInv
<1>3. QED
  BY <1>1, <1>2, PTL DEF Spec

\* The agent, with the lists its threads work on growing stale, does to the
\* processes and to ProgramStatus only what ProcessMonitor lets it.
THEOREM AgentImplementsMonitor == Spec => MonitorSpec
<1>1. Init => MInit
  BY DEF Init
<1>2. AInv /\ [Next]_vars => [MNext]_mvars
  BY AgentRefines DEF AInv
<1>3. QED
  BY <1>1, <1>2, AgentInvariant, PTL DEF Spec, MonitorSpec, MSpec

\* While the result is Finished, every process of the list it was concluded
\* from has exited (AreProcsFinished).
THEOREM FinishedMeansExitedTheorem == Spec => []FinishedMeansExited
<1>1. AInv => FinishedMeansExited
  BY DEF AInv, ResultInv, FinishedMeansExited
<1>2. QED
  BY <1>1, AgentInvariant, PTL

\* When the report is made, no process of the list that was swept is alive.
THEOREM SweptAtReportTheorem == Spec => []SweptAtReport
<1>1. AInv => SweptAtReport
  BY DEF AInv, ResultInv, SweptAtReport
<1>2. QED
  BY <1>1, AgentInvariant, PTL
=============================================================================
