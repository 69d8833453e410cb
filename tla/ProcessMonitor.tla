---------------------------- MODULE ProcessMonitor ----------------------------
(***************************************************************************)
(* Which processes the guest agent knows.  The injector starts the program *)
(* under test (Root) with the hook DLL in it and injects the DLL into a    *)
(* few services.  A hooked process announces the children it creates, its  *)
(* own DLL announces itself, and ExitProcess announces its end; each       *)
(* announcement blocks the announcing thread until the agent has handled   *)
(* it.  The EventSrv threads handle announcements in ProgramStatus: AddPid *)
(* and RemovePid.  The agent's threads read the list (Pids), kill          *)
(* processes of it and remove those they find dead.                        *)
(*                                                                         *)
(* The channel is EventDelivery, which EventPipe implements: at least once *)
(* until the sender gives up or dies, one handler per sending thread, at   *)
(* most one more event per EventSrv thread after Stop().                   *)
(* The module leaves open what the agent does and when; GuestAgent closes  *)
(* it.  Process identifiers are not reused.                                *)
(***************************************************************************)
EXTENDS Naturals, Sequences, FiniteSets

CONSTANTS Procs,            \* processes that may come to run
          Root,             \* the program under test
          Services,         \* those that run in session 0
          HookedServices,   \* those the injector injects the DLL into
          Viewers,          \* iexplore and notepad
          Servers,          \* EventSrv threads
          Threads,          \* threads of the agent that read Pids
          None              \* process identifier 0; no message

ASSUME MonitorAssumption ==
    /\ Root \in Procs \ Services
    /\ HookedServices \subseteq Services
    /\ Services \subseteq Procs
    /\ None \notin Procs
    /\ "unknown" \notin Procs \cup {None}

VARIABLES
    inj,          \* the injector process
    proc,         \* proc[p]: life cycle of process p
    loading,      \* processes whose LoadLibrary thread has not attached yet
    hooked,       \* processes with the hooks installed
    sends,        \* announcements whose sender has not returned
    acked,        \* creators' announcements of which the ACK was read
    at,           \* at[s]: where EventSrv thread s is
    msg,          \* msg[s]: the announcement s handles
    svc,          \* svc[s]: the local isService of AddPid
    listening,    \* NamedPipeServer._shouldRun
    monitored,    \* ProgramStatus._monitoredPids
    services,     \* ProgramStatus._servicePids
    enlisted,     \* processes that have been in _monitoredPids
    hier,         \* ProcessHierarchy._processes: the parent of a known child
    info,         \* keys of ProcessHierarchy._pinfo
    firstDone,    \* ProgramStatus._firstDone
    waitq         \* threads in Monitor.Wait(_pidsLock), in order

injVars == <<inj, loading, hooked>>
srvVars == <<at, msg, svc>>
listVars == <<monitored, services, enlisted, hier, info>>
lockVars == <<firstDone, waitq>>
mvars == <<inj, proc, loading, hooked, sends, acked, at, msg, svc, listening,
           monitored, services, enlisted, hier, info, firstDone, waitq>>

Message == [type : {"spawned", "dead"}, parent : Procs \cup {None}, pid : Procs]

Spawned(q, p) == [type |-> "spawned", parent |-> q, pid |-> p]
Dead(p) == [type |-> "dead", parent |-> None, pid |-> p]

MTypeOK ==
    /\ inj \in {"none", "hooking", "creating", "closing", "exiting", "exited", "failed"}
    /\ proc \in [Procs -> {"none", "suspended", "running", "exiting", "dead"}]
    /\ loading \subseteq Procs
    /\ hooked \subseteq Procs
    /\ sends \subseteq Message
    /\ acked \subseteq Message
    /\ at \in [Servers -> {"idle", "lock", "ack", "exited"}]
    /\ msg \in [Servers -> Message \cup {None}]
    /\ svc \in [Servers -> BOOLEAN]
    /\ listening \in BOOLEAN
    /\ monitored \subseteq Procs
    /\ services \subseteq Procs
    /\ enlisted \subseteq Procs
    /\ hier \in [Procs -> Procs \cup {None, "unknown"}]
    /\ info \subseteq Procs
    /\ firstDone \in BOOLEAN
    /\ waitq \in Seq(Threads)

\* The agent is up and listening; the services run; nothing is hooked.
MInit ==
    /\ inj = "none"
    /\ proc = [p \in Procs |-> IF p \in HookedServices THEN "running" ELSE "none"]
    /\ loading = {} /\ hooked = {}
    /\ sends = {} /\ acked = {}
    /\ at = [s \in Servers |-> "idle"]
    /\ msg = [s \in Servers |-> None]
    /\ svc = [s \in Servers |-> FALSE]
    /\ listening = TRUE
    /\ monitored = {} /\ services = {} /\ enlisted = {}
    /\ hier = [p \in Procs |-> "unknown"]
    /\ info = {}
    /\ firstDone = FALSE
    /\ waitq = <<>>

-----------------------------------------------------------------------------
(* Announcements and the threads that send them.                           *)

Alive(p) == proc[p] \in {"suspended", "running"}

\* The process that sends m: the creator of the child, or the process itself.
Author(m) == IF m.parent = None THEN m.pid ELSE m.parent

AuthorAlive(m) == proc[Author(m)] = "running"

\* The DLL of a child or of a service announces it from a thread of its own
\* (CreateRemoteThread), the DLL of Root from the main thread.
BlocksMain(m) == m.type = "dead" \/ m.parent # None \/ m.pid = Root

\* The main thread of p is not inside sendToEventPipe.
Free(p) == proc[p] = "running" /\ \A m \in sends : BlocksMain(m) => Author(m) # p

InService(m) == \E s \in Servers : at[s] \in {"lock", "ack"} /\ msg[s] = m

\* What the sender of m does when the send returns, acknowledged or not: start
\* the child and its LoadLibrary thread, or exit.
Continue(m) ==
    /\ sends' = sends \ {m}
    /\ IF m.type = "dead"
       THEN proc' = [proc EXCEPT ![m.pid] = "exiting"] /\ UNCHANGED loading
       ELSE IF m.parent # None /\ proc[m.pid] = "suspended"
       THEN /\ proc' = [proc EXCEPT ![m.pid] = "running"]
            /\ loading' = loading \cup {m.pid}
       ELSE UNCHANGED <<proc, loading>>

\* sendToEventPipe finds no pipe: the thread goes on unacknowledged.
GiveUp(m) ==
    /\ AuthorAlive(m)
    /\ ~InService(m)
    /\ Continue(m)
    /\ UNCHANGED <<inj, hooked, acked, srvVars, listening, listVars, lockVars>>

\* The sender is dead and no EventSrv thread has its message.
Abandon(m) ==
    /\ ~AuthorAlive(m)
    /\ ~InService(m)
    /\ sends' = sends \ {m}
    /\ UNCHANGED <<injVars, proc, acked, srvVars, listening, listVars, lockVars>>

-----------------------------------------------------------------------------
(* The injector and the processes.                                         *)

\* HookAndInjectService: the service's DLL announces it with parent 0.
HookService(p) ==
    /\ inj = "hooking"
    /\ p \in HookedServices \ hooked
    /\ proc[p] = "running"
    /\ hooked' = hooked \cup {p}
    /\ sends' = sends \cup {Spawned(None, p)}
    /\ UNCHANGED <<inj, proc, loading, acked, srvVars, listening, listVars, lockVars>>

\* MyDetourCreateProcessWithDll creates the program suspended ...
CreateRoot ==
    /\ inj = "hooking"
    /\ inj' = "creating"
    /\ proc' = [proc EXCEPT ![Root] = "suspended"]
    /\ UNCHANGED <<loading, hooked, sends, acked, srvVars, listening, listVars, lockVars>>

\* ... and resumes it; the DLL, an import of it now, runs before its code.
ResumeRoot ==
    /\ inj = "creating"
    /\ inj' = "closing"
    /\ IF proc[Root] = "suspended"
       THEN /\ proc' = [proc EXCEPT ![Root] = "running"]
            /\ hooked' = hooked \cup {Root}
            /\ sends' = sends \cup {Spawned(None, Root)}
       ELSE UNCHANGED <<proc, hooked, sends>>
    /\ UNCHANGED <<loading, acked, srvVars, listening, listVars, lockVars>>

\* Exit code -1: a file is missing, or the program cannot be started.
InjectorFails ==
    /\ inj \in {"hooking", "creating"}
    /\ inj' = "failed"
    /\ proc' = [proc EXCEPT ![Root] = IF Alive(Root) THEN "exiting" ELSE @]
    /\ UNCHANGED <<loading, hooked, sends, acked, srvVars, listening, listVars, lockVars>>

\* The injector returns 0 without waiting for the program, or its killing
\* takes effect.
InjectorExits ==
    /\ inj \in {"closing", "exiting"}
    /\ inj' = "exited"
    /\ UNCHANGED <<proc, loading, hooked, sends, acked, srvVars, listening, listVars,
                   lockVars>>

\* Mutant of Spawn: the child is not created suspended.
SpawnRunning(q, p) ==
    /\ Free(q)
    /\ proc[p] = "none"
    /\ p # Root
    /\ q \in hooked
    /\ proc' = [proc EXCEPT ![p] = "running"]
    /\ sends' = sends \cup {Spawned(q, p)}
    /\ UNCHANGED <<injVars, acked, srvVars, listening, listVars, lockVars>>

\* CreateProcess: MyCreateProcessInternalW creates the child suspended and
\* announces it; before its hooks are installed a process just starts it.
Spawn(q, p) ==
    /\ Free(q)
    /\ proc[p] = "none"
    /\ p # Root
    /\ IF q \in hooked
       THEN /\ proc' = [proc EXCEPT ![p] = "suspended"]
            /\ sends' = sends \cup {Spawned(q, p)}
       ELSE /\ q \notin HookedServices
            /\ proc' = [proc EXCEPT ![p] = "running"]
            /\ UNCHANGED sends
    /\ UNCHANGED <<injVars, acked, srvVars, listening, listVars, lockVars>>

\* DllMain in a child: install the hooks, announce the process.
Attach(p) ==
    /\ p \in loading
    /\ proc[p] = "running"
    /\ loading' = loading \ {p}
    /\ hooked' = hooked \cup {p}
    /\ sends' = sends \cup {Spawned(None, p)}
    /\ UNCHANGED <<inj, proc, acked, srvVars, listening, listVars, lockVars>>

\* MyExitProcess: announce the end first.
Exit(p) ==
    /\ p \in hooked
    /\ Free(p)
    /\ sends' = sends \cup {Dead(p)}
    /\ UNCHANGED <<injVars, proc, acked, srvVars, listening, listVars, lockVars>>

\* An end the hooks do not see: TerminateProcess, a crash.
Terminate(p) ==
    /\ Alive(p)
    /\ proc' = [proc EXCEPT ![p] = "exiting"]
    /\ UNCHANGED <<injVars, sends, acked, srvVars, listening, listVars, lockVars>>

\* GetProcessById no longer finds p.
Reap(p) ==
    /\ proc[p] = "exiting"
    /\ proc' = [proc EXCEPT ![p] = "dead"]
    /\ UNCHANGED <<injVars, sends, acked, srvVars, listening, listVars, lockVars>>

-----------------------------------------------------------------------------
(* The EventSrv threads: AddPid and RemovePid.                             *)

\* Monitor.Pulse wakes the thread that has waited longest.
Pulse(q) == IF q = <<>> THEN q ELSE Tail(q)

\* Mutant of Inspect: the ACK is sent before AddPid registers the process.
InspectAndAnswer(s, m) ==
    /\ at[s] = "idle"
    /\ m.type = "spawned"
    /\ ~InService(m)
    /\ msg' = [msg EXCEPT ![s] = m]
    /\ at' = [at EXCEPT ![s] = "ack"]
    /\ UNCHANGED <<injVars, proc, svc, sends, acked, listening, listVars, lockVars>>

\* AddPid before its lock: kill a viewer, find out whether pid is a service.
\* IsService of a process that is gone answers false.
Inspect(s, m) ==
    /\ at[s] = "idle"
    /\ m.type = "spawned"
    /\ ~InService(m)
    /\ proc' = [proc EXCEPT ![m.pid] = IF m.pid \in Viewers /\ Alive(m.pid)
                                       THEN "exiting" ELSE @]
    /\ svc' = [svc EXCEPT ![s] = m.pid \in Services /\ proc[m.pid] # "dead"]
    /\ msg' = [msg EXCEPT ![s] = m]
    /\ at' = [at EXCEPT ![s] = "lock"]
    /\ UNCHANGED <<injVars, sends, acked, listening, listVars, lockVars>>

\* Mutant of Register: services are monitored too.
RegisterEverything(s) ==
    /\ at[s] = "lock"
    /\ LET p == msg[s].pid IN
         /\ services' = IF svc[s] THEN services \cup {p} ELSE services
         /\ monitored' = monitored \cup {p}
         /\ enlisted' = enlisted \cup {p}
         /\ hier' = [hier EXCEPT ![p] = IF @ = "unknown" THEN msg[s].parent ELSE @]
         /\ info' = IF hier[p] = "unknown" /\ proc[p] # "dead"
                    THEN info \cup {p} ELSE info
    /\ firstDone' = TRUE
    /\ waitq' = Pulse(waitq)
    /\ at' = [at EXCEPT ![s] = "ack"]
    /\ UNCHANGED <<injVars, proc, sends, acked, msg, svc, listening>>

\* Mutant of Register: no Pulse.
RegisterSilently(s) ==
    /\ at[s] = "lock"
    /\ LET p == msg[s].pid IN
         /\ services' = IF svc[s] THEN services \cup {p} ELSE services
         /\ monitored' = IF svc[s] THEN monitored ELSE monitored \cup {p}
         /\ enlisted' = IF svc[s] THEN enlisted ELSE enlisted \cup {p}
         /\ hier' = [hier EXCEPT ![p] = IF @ = "unknown" THEN msg[s].parent ELSE @]
         /\ info' = IF hier[p] = "unknown" /\ proc[p] # "dead"
                    THEN info \cup {p} ELSE info
    /\ firstDone' = TRUE
    /\ UNCHANGED waitq
    /\ at' = [at EXCEPT ![s] = "ack"]
    /\ UNCHANGED <<injVars, proc, sends, acked, msg, svc, listening>>

\* AddPid under _pidsLock.  ProcessHierarchy.AddProcess keeps the first parent
\* it is told; the information is missing if the process is gone by now.
Register(s) ==
    /\ at[s] = "lock"
    /\ LET p == msg[s].pid IN
         /\ services' = IF svc[s] THEN services \cup {p} ELSE services
         /\ monitored' = IF svc[s] THEN monitored ELSE monitored \cup {p}
         /\ enlisted' = IF svc[s] THEN enlisted ELSE enlisted \cup {p}
         /\ hier' = [hier EXCEPT ![p] = IF @ = "unknown" THEN msg[s].parent ELSE @]
         /\ info' = IF hier[p] = "unknown" /\ proc[p] # "dead"
                    THEN info \cup {p} ELSE info
    /\ firstDone' = TRUE
    /\ waitq' = Pulse(waitq)
    /\ at' = [at EXCEPT ![s] = "ack"]
    /\ UNCHANGED <<injVars, proc, sends, acked, msg, svc, listening>>

RemovePid(p) ==
    /\ monitored' = monitored \ {p}
    /\ services' = services \ {p}
    /\ waitq' = Pulse(waitq)
    /\ UNCHANGED <<enlisted, hier, info, firstDone>>

HandleDead(s, m) ==
    /\ at[s] = "idle"
    /\ m.type = "dead"
    /\ ~InService(m)
    /\ RemovePid(m.pid)
    /\ msg' = [msg EXCEPT ![s] = m]
    /\ at' = [at EXCEPT ![s] = "ack"]
    /\ UNCHANGED <<injVars, proc, sends, acked, svc, listening>>

\* After the answer the thread looks at _shouldRun.
NextConnection(s) ==
    /\ at' = [at EXCEPT ![s] = IF listening THEN "idle" ELSE "exited"]
    /\ msg' = [msg EXCEPT ![s] = None]
    /\ svc' = [svc EXCEPT ![s] = FALSE]

\* The sender reads the ACK.
Acknowledge(s) ==
    /\ at[s] = "ack"
    /\ AuthorAlive(msg[s])
    /\ Continue(msg[s])
    /\ acked' = IF msg[s].type = "spawned" /\ BlocksMain(msg[s])
                THEN acked \cup {msg[s]} ELSE acked
    /\ NextConnection(s)
    /\ UNCHANGED <<inj, hooked, listening, listVars, lockVars>>

\* The ACK is discarded by the disconnection: the sender sends again.
LoseAck(s) ==
    /\ at[s] = "ack"
    /\ AuthorAlive(msg[s])
    /\ NextConnection(s)
    /\ UNCHANGED <<injVars, proc, sends, acked, listening, listVars, lockVars>>

\* The sender was killed while it was waiting.
AnswerNobody(s) ==
    /\ at[s] = "ack"
    /\ ~AuthorAlive(msg[s])
    /\ sends' = sends \ {msg[s]}
    /\ NextConnection(s)
    /\ UNCHANGED <<injVars, proc, acked, listening, listVars, lockVars>>

\* EventSrv leaves its loop.
LeaveLoop(s) ==
    /\ at[s] = "idle"
    /\ ~listening
    /\ at' = [at EXCEPT ![s] = "exited"]
    /\ UNCHANGED <<injVars, proc, sends, acked, msg, svc, listening, listVars, lockVars>>

-----------------------------------------------------------------------------
(* What the agent's threads do to the processes and to ProgramStatus.      *)

StartInjector ==
    /\ inj = "none"
    /\ inj' = "hooking"
    /\ UNCHANGED <<proc, loading, hooked, sends, acked, srvVars, listening, listVars,
                   lockVars>>

InjectorRuns == inj \in {"hooking", "creating", "closing"}

KillInjector ==
    /\ InjectorRuns
    /\ inj' = "exiting"
    /\ UNCHANGED <<proc, loading, hooked, sends, acked, srvVars, listening, listVars,
                   lockVars>>

\* Process.Kill.
KillProcess(p) ==
    /\ Alive(p)
    /\ proc' = [proc EXCEPT ![p] = "exiting"]
    /\ UNCHANGED <<injVars, sends, acked, srvVars, listening, listVars, lockVars>>

\* RemovePid called by a thread of the agent.
DropPid(p) ==
    /\ RemovePid(p)
    /\ UNCHANGED <<injVars, proc, sends, acked, srvVars, listening>>

\* The loop of Pids: "Only wait if the first process is not spawned".
WaitForFirst(t) ==
    /\ ~firstDone
    /\ \A i \in DOMAIN waitq : waitq[i] # t
    /\ waitq' = Append(waitq, t)
    /\ UNCHANGED <<injVars, proc, sends, acked, srvVars, listening, listVars, firstDone>>

\* Mutant of NotifyInjectorExited: Pulse for PulseAll.
NotifyOne ==
    /\ firstDone' = TRUE
    /\ waitq' = Pulse(waitq)
    /\ UNCHANGED <<injVars, proc, sends, acked, srvVars, listening, listVars>>

NotifyInjectorExited ==
    /\ firstDone' = TRUE
    /\ waitq' = <<>>
    /\ UNCHANGED <<injVars, proc, sends, acked, srvVars, listening, listVars>>

StopListening ==
    /\ listening' = FALSE
    /\ UNCHANGED <<injVars, proc, sends, acked, srvVars, listVars, lockVars>>

-----------------------------------------------------------------------------
\* Steps of the processes under test and of the injector.
ProcessStep ==
    \/ CreateRoot \/ ResumeRoot \/ InjectorFails \/ InjectorExits
    \/ \E p \in Procs : \/ HookService(p) \/ Attach(p) \/ Exit(p) \/ Terminate(p)
                        \/ Reap(p)
                        \/ \E q \in Procs : Spawn(q, p)
    \/ \E m \in sends : GiveUp(m) \/ Abandon(m)

\* Steps of EventSrv thread s.
ServerStep(s) ==
    \/ \E m \in sends : Inspect(s, m) \/ HandleDead(s, m)
    \/ Register(s) \/ Acknowledge(s) \/ LoseAck(s) \/ AnswerNobody(s) \/ LeaveLoop(s)

\* Steps the agent's other threads may take: they kill processes that Pids has
\* returned, maybe long ago, and remove those that have exited.
AgentStep ==
    \/ StartInjector \/ KillInjector
    \/ \E p \in enlisted : \/ KillProcess(p)
                           \/ proc[p] \in {"exiting", "dead"} /\ DropPid(p)
    \/ \E t \in Threads : WaitForFirst(t)
    \/ NotifyInjectorExited \/ StopListening

MNext == ProcessStep \/ (\E s \in Servers : ServerStep(s)) \/ AgentStep

MSpec == MInit /\ [][MNext]_mvars

-----------------------------------------------------------------------------
(* The inductive invariant behind the safety properties, in named parts.   *)

\* What the agent or the injector knows of has been created.
CreatedInv ==
    /\ inj \in {"none", "hooking"} => proc[Root] = "none"
    /\ \A p \in hooked \cup loading : proc[p] # "none"
    /\ \A m \in sends \cup acked : proc[m.pid] # "none"
    /\ \A p \in Procs : hier[p] # "unknown" => proc[p] # "none"

\* An announcement is handled while it is being sent, by one thread at most;
\* a process announces its end only after it has started.
SendInv ==
    /\ \A m \in sends : m.type = "dead" => m.parent = None /\ proc[m.pid] # "suspended"
    /\ \A m \in acked : m.type = "spawned"
    /\ \A s \in Servers : at[s] \in {"lock", "ack"} => msg[s] \in sends
    /\ \A s \in Servers : at[s] = "lock" => msg[s].type = "spawned"
    /\ \A s, t \in Servers :
          at[s] \in {"lock", "ack"} /\ at[t] \in {"lock", "ack"} /\ msg[s] = msg[t] => s = t

\* A process in session 0 gets on the monitored list only if it is gone.
ServiceInv ==
    /\ monitored \subseteq enlisted
    /\ \A p \in enlisted \cap Services : proc[p] = "dead"
    /\ \A s \in Servers :
          at[s] = "lock" /\ msg[s].pid \in Services /\ ~svc[s] => proc[msg[s].pid] = "dead"

\* A process leaves the lists by announcing its end, or dead.
Listed(p) == p \in monitored \cup services \/ Dead(p) \in sends \/ ~Alive(p)

ListInv ==
    /\ \A m \in acked : Listed(m.pid)
    /\ \A s \in Servers : at[s] = "ack" /\ msg[s].type = "spawned" => Listed(msg[s].pid)

\* Until its creator's announcement has returned, a child cannot announce
\* itself, and nobody else can announce it.
CreatorInv ==
    /\ \A m \in sends :
          m.type = "spawned" /\ m.parent # None
              => /\ m.pid \notin hooked \cup loading \cup {Root}
                 /\ proc[m.pid] # "running"
                 /\ hier[m.pid] \in {"unknown", m.parent}
                 /\ \A n \in sends : n.pid = m.pid => n = m
    /\ \A m \in acked : m.parent # None => hier[m.pid] = m.parent
    /\ \A s \in Servers : at[s] = "ack" /\ msg[s].type = "spawned" /\ msg[s].parent # None
                            => hier[msg[s].pid] = msg[s].parent

MInv == MTypeOK /\ CreatedInv /\ SendInv /\ ServiceInv /\ ListInv /\ CreatorInv

-----------------------------------------------------------------------------
(* Properties.                                                             *)

\* No live process of session 0 has ever been on the list the agent's threads
\* kill from, whatever the order of its death, of the IsService check and of
\* its registration ("we will keep monitoring only user processes").
ServicesSpared == \A p \in enlisted \cap Services : ~Alive(p)

\* A process that runs after its creator's announcement was acknowledged is on
\* a list of the agent until it announces its end: duplicated and late
\* announcements, its own from DllMain included, never lose it.
Coverage ==
    \A m \in acked :
        proc[m.pid] = "running" /\ Dead(m.pid) \notin sends
            => m.pid \in monitored \cup services

\* The report shows the true creator of a process whenever the creator's
\* announcement was acknowledged, although the process announces itself with
\* parent 0 as well and the first announcement handled wins.
ParentRecorded == \A m \in acked : m.parent # None => hier[m.pid] = m.parent
===============================================================================
