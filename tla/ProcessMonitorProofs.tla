------------------------- MODULE ProcessMonitorProofs -------------------------
(***************************************************************************)
(* Proofs about ProcessMonitor for any processes, services, viewers and    *)
(* numbers of threads: MInv is inductive and implies the properties.       *)
(***************************************************************************)
EXTENDS ProcessMonitor, TLAPS

\* A pulse leaves a queue of threads.
LEMMA PulseType == ASSUME NEW q \in Seq(Threads) PROVE Pulse(q) \in Seq(Threads)
BY DEF Pulse

\* The invariant holds when the agent is up and nothing is hooked.
LEMMA MInitInv == MInit => MInv
<1> SUFFICES ASSUME MInit PROVE MInv
  OBVIOUS
<1> USE MonitorAssumption DEF MInit
<1>1. MTypeOK
  <2>1. waitq \in Seq(Threads)
    OBVIOUS
  <2>2. svc \in [Servers -> BOOLEAN] /\ listening \in BOOLEAN /\ firstDone \in BOOLEAN
    BY Zenon
  <2>3. at \in [Servers -> {"idle", "lock", "ack", "exited"}]
    BY Zenon
  <2>4. msg \in [Servers -> Message \cup {None}]
    BY Zenon
  <2>5. proc \in [Procs -> {"none", "suspended", "running", "exiting", "dead"}]
    BY Zenon
  <2>6. hier \in [Procs -> Procs \cup {None, "unknown"}]
    BY Zenon
  <2>7. QED
    BY <2>1, <2>2, <2>3, <2>4, <2>5, <2>6, Zenon DEF MTypeOK
<1>2. CreatedInv /\ SendInv /\ ServiceInv
  BY DEF CreatedInv, SendInv, ServiceInv
<1>3. ListInv /\ CreatorInv
  BY DEF ListInv, CreatorInv
<1>4. QED
  BY <1>1, <1>2, <1>3 DEF MInv

\* The sender that goes on changes processes and announcements only.
LEMMA ContinueType ==
    ASSUME MTypeOK, NEW m \in Message, Continue(m)
    PROVE  /\ sends' \subseteq Message
           /\ loading' \subseteq Procs
           /\ proc' \in [Procs -> {"none", "suspended", "running", "exiting", "dead"}]
BY MonitorAssumption DEF MTypeOK, Continue, Message

\* Each action preserves the types.
LEMMA MTypeStep == ASSUME MTypeOK, SendInv, [MNext]_mvars PROVE MTypeOK'
<1> USE MonitorAssumption, PulseType DEF MTypeOK, injVars, srvVars, listVars, lockVars
<1> DEFINE Spawnings == \A p \in Procs, q \in Procs \cup {None} : Spawned(q, p) \in Message
<1>1. Spawnings /\ \A p \in Procs : Dead(p) \in Message
  BY DEF Spawned, Dead, Message
<1>2. ASSUME NEW m \in sends, GiveUp(m) \/ Abandon(m) PROVE MTypeOK'
  BY <1>2, ContinueType DEF GiveUp, Abandon
<1>3. CASE CreateRoot \/ ResumeRoot \/ InjectorFails \/ InjectorExits
  BY <1>1, <1>3 DEF CreateRoot, ResumeRoot, InjectorFails, InjectorExits
<1>4. ASSUME NEW p \in Procs,
             HookService(p) \/ Attach(p) \/ Exit(p) \/ Terminate(p) \/ Reap(p)
      PROVE  MTypeOK'
  BY <1>1, <1>4 DEF HookService, Attach, Exit, Terminate, Reap
<1>5. ASSUME NEW q \in Procs, NEW p \in Procs, Spawn(q, p) PROVE MTypeOK'
  BY <1>1, <1>5 DEF Spawn
<1>6. ASSUME NEW s \in Servers, NEW m \in sends, Inspect(s, m) PROVE MTypeOK'
  BY <1>6 DEF Inspect, Message
<1>7. ASSUME NEW s \in Servers, NEW m \in sends, HandleDead(s, m) PROVE MTypeOK'
  BY <1>7 DEF HandleDead, RemovePid, Message
<1>8. ASSUME NEW s \in Servers, Register(s) PROVE MTypeOK'
  <2>1. msg[s] \in Message
    BY <1>8 DEF Register, SendInv
  <2>2. QED
    BY <1>8, <2>1 DEF Register, Message
<1>9. ASSUME NEW s \in Servers, Acknowledge(s) PROVE MTypeOK'
  <2>1. msg[s] \in Message
    BY <1>9 DEF Acknowledge, SendInv
  <2>2. QED
    BY <1>9, <2>1, ContinueType DEF Acknowledge, NextConnection
<1>10. ASSUME NEW s \in Servers, LoseAck(s) \/ AnswerNobody(s) \/ LeaveLoop(s)
       PROVE  MTypeOK'
  BY <1>10 DEF LoseAck, AnswerNobody, LeaveLoop, NextConnection
<1>11. CASE AgentStep
  <2>1. CASE StartInjector \/ KillInjector
    BY <2>1 DEF StartInjector, KillInjector
  <2>2. ASSUME NEW p \in enlisted, KillProcess(p) \/ DropPid(p) PROVE MTypeOK'
    BY <2>2 DEF KillProcess, DropPid, RemovePid
  <2>3. ASSUME NEW t \in Threads, WaitForFirst(t) PROVE MTypeOK'
    <3>1. waitq' \in Seq(Threads)
      BY <2>3 DEF WaitForFirst
    <3>2. UNCHANGED <<injVars, proc, sends, acked, srvVars, listening, listVars, firstDone>>
      BY <2>3 DEF WaitForFirst
    <3>3. QED
      BY <3>1, <3>2
  <2>4. CASE NotifyInjectorExited
    BY <2>4 DEF NotifyInjectorExited
  <2>5. CASE StopListening
    BY <2>5 DEF StopListening
  <2>6. QED
    BY <1>11, <2>1, <2>2, <2>3, <2>4, <2>5 DEF AgentStep
<1>12. CASE UNCHANGED mvars
  BY <1>12 DEF mvars
<1>13. QED
  BY <1>2, <1>3, <1>4, <1>5, <1>6, <1>7, <1>8, <1>9, <1>10, <1>11, <1>12
     DEF MNext, ProcessStep, ServerStep

\* What AddPid finds out of a process before the lock.
LEMMA InspectService ==
    ASSUME MTypeOK, NEW s \in Servers, NEW m \in sends, Inspect(s, m), ~svc'[s]
    PROVE  m.pid \notin Services \/ proc[m.pid] = "dead"
BY Zenon DEF MTypeOK, Inspect

\* Each action preserves the invariant: one step per action, and one per part of
\* the invariant for the actions that disturb most of them.
LEMMA MStepInv == MInv /\ [MNext]_mvars => MInv'
<1> SUFFICES ASSUME MInv, [MNext]_mvars PROVE MInv'
  OBVIOUS
<1>0. MTypeOK'
  BY MTypeStep DEF MInv
<1> USE MonitorAssumption, <1>0
    DEF MInv, MTypeOK, CreatedInv, SendInv, ServiceInv, Listed, ListInv, CreatorInv,
        Message, Spawned, Dead, Alive, Author, AuthorAlive, InService, Free, BlocksMain,
        InjectorRuns, injVars, srvVars, listVars, lockVars
<1>1. ASSUME NEW m \in sends, GiveUp(m) PROVE MInv'
  <2>2. CreatedInv'
    BY <1>1 DEF GiveUp, Continue
  <2>3. SendInv'
    BY <1>1 DEF GiveUp, Continue
  <2>4. ServiceInv'
    BY <1>1 DEF GiveUp, Continue
  <2>5. ListInv'
    BY <1>1 DEF GiveUp, Continue
  <2>6. CreatorInv'
    BY <1>1 DEF GiveUp, Continue
  <2>7. QED
    BY <1>0, <2>2, <2>3, <2>4, <2>5, <2>6
<1>2. ASSUME NEW m \in sends, Abandon(m) PROVE MInv'
  BY <1>2 DEF Abandon
<1>3. ASSUME NEW p \in Procs, HookService(p) PROVE MInv'
  BY <1>3 DEF HookService
<1>4. ASSUME CreateRoot PROVE MInv'
  BY <1>4 DEF CreateRoot
<1>5. ASSUME ResumeRoot PROVE MInv'
  BY <1>5 DEF ResumeRoot
<1>6. ASSUME InjectorFails PROVE MInv'
  BY <1>6 DEF InjectorFails
<1>7. ASSUME InjectorExits PROVE MInv'
  BY <1>7 DEF InjectorExits
<1>8. ASSUME NEW q \in Procs, NEW p \in Procs, Spawn(q, p) PROVE MInv'
  <2>2. CreatedInv'
    BY <1>8 DEF Spawn
  <2>3. SendInv'
    BY <1>8 DEF Spawn
  <2>4. ServiceInv'
    BY <1>8 DEF Spawn
  <2>5. ListInv'
    BY <1>8 DEF Spawn
  <2>6. CreatorInv'
    BY <1>8 DEF Spawn
  <2>7. QED
    BY <1>0, <2>2, <2>3, <2>4, <2>5, <2>6
<1>9. ASSUME NEW p \in Procs, Attach(p) PROVE MInv'
  BY <1>9 DEF Attach
<1>10. ASSUME NEW p \in Procs, Exit(p) PROVE MInv'
  BY <1>10 DEF Exit
<1>11. ASSUME NEW p \in Procs, Terminate(p) PROVE MInv'
  BY <1>11 DEF Terminate
<1>12. ASSUME NEW p \in Procs, Reap(p) PROVE MInv'
  BY <1>12 DEF Reap
<1>13. ASSUME NEW s \in Servers, NEW m \in sends, Inspect(s, m) PROVE MInv'
  <2>2. CreatedInv'
    BY <1>13 DEF Inspect
  <2>3. SendInv'
    BY <1>13 DEF Inspect
  <2>4. ServiceInv'
    <3>1. monitored' \subseteq enlisted' /\ \A p \in enlisted' \cap Services : proc'[p] = "dead"
      BY <1>13 DEF Inspect
    <3>2. ~svc'[s] => m.pid \notin Services \/ proc[m.pid] = "dead"
      BY <1>13, InspectService
    <3>3. \A t \in Servers : t # s => svc'[t] = svc[t] /\ at'[t] = at[t] /\ msg'[t] = msg[t]
      BY <1>13 DEF Inspect
    <3>4. msg'[s] = m /\ \A p \in Procs : proc[p] = "dead" => proc'[p] = "dead"
      BY <1>13 DEF Inspect
    <3>5. ASSUME NEW t \in Servers, at'[t] = "lock", msg'[t].pid \in Services, ~svc'[t]
          PROVE  proc'[msg'[t].pid] = "dead"
      <4>1. CASE t = s
        BY <4>1, <3>2, <3>4, <3>5
      <4>2. CASE t # s
        BY <4>2, <3>3, <3>4, <3>5
      <4>3. QED
        BY <4>1, <4>2
    <3>6. QED
      BY <3>1, <3>5
  <2>5. ListInv'
    BY <1>13 DEF Inspect
  <2>6. CreatorInv'
    BY <1>13 DEF Inspect
  <2>7. QED
    BY <1>0, <2>2, <2>3, <2>4, <2>5, <2>6
<1>14. ASSUME NEW s \in Servers, Register(s) PROVE MInv'
  <2>2. CreatedInv'
    BY <1>14 DEF Register
  <2>3. SendInv'
    BY <1>14 DEF Register
  <2>4. ServiceInv'
    BY <1>14 DEF Register
  <2>5. ListInv'
    BY <1>14 DEF Register
  <2>6. CreatorInv'
    BY <1>14 DEF Register
  <2>7. QED
    BY <1>0, <2>2, <2>3, <2>4, <2>5, <2>6
<1>15. ASSUME NEW s \in Servers, NEW m \in sends, HandleDead(s, m) PROVE MInv'
  BY <1>15 DEF HandleDead, RemovePid
<1>16. ASSUME NEW s \in Servers, Acknowledge(s) PROVE MInv'
  <2>2. CreatedInv'
    BY <1>16 DEF Acknowledge, Continue, NextConnection
  <2>3. SendInv'
    BY <1>16 DEF Acknowledge, Continue, NextConnection
  <2>4. ServiceInv'
    BY <1>16 DEF Acknowledge, Continue, NextConnection
  <2>5. ListInv'
    BY <1>16 DEF Acknowledge, Continue, NextConnection
  <2>6. CreatorInv'
    BY <1>16 DEF Acknowledge, Continue, NextConnection
  <2>7. QED
    BY <1>0, <2>2, <2>3, <2>4, <2>5, <2>6
<1>17. ASSUME NEW s \in Servers, LoseAck(s) PROVE MInv'
  BY <1>17 DEF LoseAck, NextConnection
<1>18. ASSUME NEW s \in Servers, AnswerNobody(s) PROVE MInv'
  BY <1>18 DEF AnswerNobody, NextConnection
<1>19. ASSUME NEW s \in Servers, LeaveLoop(s) PROVE MInv'
  BY <1>19 DEF LeaveLoop
<1>20. ASSUME StartInjector PROVE MInv'
  BY <1>20 DEF StartInjector
<1>21. ASSUME KillInjector PROVE MInv'
  BY <1>21 DEF KillInjector
<1>22. ASSUME NEW p \in enlisted, KillProcess(p) PROVE MInv'
  BY <1>22 DEF KillProcess
<1>23. ASSUME NEW p \in enlisted, proc[p] \in {"exiting", "dead"}, DropPid(p) PROVE MInv'
  BY <1>23 DEF DropPid, RemovePid
<1>24. ASSUME NEW t \in Threads, WaitForFirst(t) PROVE MInv'
  BY <1>24 DEF WaitForFirst
<1>25. ASSUME NotifyInjectorExited PROVE MInv'
  BY <1>25 DEF NotifyInjectorExited
<1>26. ASSUME StopListening PROVE MInv'
  BY <1>26 DEF StopListening
<1>27. CASE UNCHANGED mvars
  BY <1>27 DEF mvars
<1>28. QED
  BY <1>1, <1>2, <1>3, <1>4, <1>5, <1>6, <1>7, <1>8, <1>9, <1>10, <1>11, <1>12, <1>13, <1>14, <1>15, <1>16, <1>17, <1>18, <1>19, <1>20, <1>21, <1>22, <1>23, <1>24, <1>25, <1>26, <1>27 DEF MNext, ProcessStep, ServerStep, AgentStep

-----------------------------------------------------------------------------
\* The inductive invariant of process tracking, type correctness included.
THEOREM MonitorInvariant == MSpec => []MInv
<1>1. QED
  BY MInitInv, MStepInv, PTL DEF MSpec

\* No live process of session 0 has ever been on the list the agent kills
\* from (AddPid, IsService).
THEOREM ServicesSparedTheorem == MSpec => []ServicesSpared
<1>1. MInv => ServicesSpared
  BY DEF MInv, ServiceInv, ServicesSpared, Alive
<1>2. QED
  BY <1>1, MonitorInvariant, PTL

\* A process that runs after its creator's announcement was acknowledged is on
\* a list of the agent until it announces its end.
THEOREM CoverageTheorem == MSpec => []Coverage
<1>1. MInv => Coverage
  BY DEF MInv, ListInv, Listed, Coverage, Alive
<1>2. QED
  BY <1>1, MonitorInvariant, PTL

\* The hierarchy of the report has the creator of every child whose creator's
\* announcement was acknowledged.
THEOREM ParentRecordedTheorem == MSpec => []ParentRecorded
<1>1. MInv => ParentRecorded
  BY DEF MInv, CreatorInv, ParentRecorded
<1>2. QED
  BY <1>1, MonitorInvariant, PTL
=============================================================================
