# TLA+ models of TheThing's guest agent

The repository is the guest side of a dynamic-analysis system. In a Windows 7
virtual machine the **guest agent** (`InstallerAnalyzer1.1/InstallerAnalyzer1.1`,
C#) fetches an installer from a host controller, runs it under hooks, clicks
through its windows, kills what is left and sends back a report of what the
installer did. The **injector** (`Injector`, C++) starts the installer with the
**hook DLL** (`CHookingDll`, C++) in it; the DLL follows every child process and
sends events to the agent over a named pipe, blocking the hooked thread until
the agent has answered.

Paths below are relative to `src/`; `G/` is
`InstallerAnalyzer1.1/InstallerAnalyzer1.1/`.

## The system's parts

| Part | State | Operations | Hard because |
|---|---|---|---|
| Event channel: `sendToEventPipe` (`CHookingDll/CHookingDll/dllmain.cpp`), `EventSrv`, `ProcessEvent`, `Stop` (`G/NamedPipeServer.cs`) | pipe instances, `_shouldRun`, one message in flight per hooked thread | send, connect, read, dispatch, ACK, disconnect, recover, stop | two server threads; ACKs discarded by `Disconnect`; retries; senders killed at any point; broken instances never closed |
| Process tracking: `AddPid`, `RemovePid`, `Pids`, `NotifyInjectorExited` (`G/ProgramStatus.cs`), `AddProcess`, `GetHierarchy` (`G/ProcessHierarchy.cs`) | `_monitoredPids`, `_servicePids`, `_firstDone`, the condition `_pidsLock`, parent and information of each process | register, remove, wait for the first process, copy the list | announcements are repeated and come from creator and child; what is found out before the lock is stale under it; `Pulse` against several waiters |
| Process interception: `DllMain`, `MyCreateProcessInternalW`, `MyExitProcess` (`dllmain.cpp`), `WinMain`, `HookAndInjectService`, `MyDetourCreateProcessWithDll` (`Injector/Injector/Injector.cpp`) | suspended children, processes with hooks | create suspended, announce, resume; announce exit | processes may be killed between any two steps |
| Job execution: `work`, `ExecuteJob`, `AreProcsFinished`, `TimeoutReached`, `_stuckUiWatcher_Elapsed` (`G/LogicThread.cs`) | `_timeout`, result, the copies of `Pids` each thread holds | start, interact, conclude, sweep, report; kill on timeout; kill hung windows | three threads decide and kill from copies of one list |
| File and registry history: `NotifyFileAccess`, `NotifyFileRename`, `NotifyRegistryAccess`, `FileAccessInfo`, `RegAccessInfo` (`G/ProgramStatus.cs`), the loops of `PrepareReport` | `_fileMap`, `_regMap`, the records of each file, the original values of each key | access, rename, look at the file, freeze and classify for the report | one lock for the map and one per file; renames over known paths; the report enumerates live collections while late events arrive |
| Activity and stability: `WaitForInputRequested` (`G/LogicThread.cs`), log rate, busy counter, `WaitUntilIdle`, `WaitUntilNotBusy` (`G/ProgramStatus.cs`) | scans, counters of frames, deadlines | scan the window, wait with timeout | counters of several windows share one wait |
| UI bot: the loop of `ExecuteJob`, `G/UIAnalysis` | visited windows, stuck counters, candidates | wait, rank, click, recover | ends by counters that are reset on some paths only; the timeout fires anywhere |
| Job and report protocol: `AcquireWork`, `ReportWork`, `G/Protocol` | one connection per exchange, the local file, the document of the report | fetch a job and its file, wait for the start, send a report and wait for the ACK | lost answers, short reads, attempts that add to one document |
| File and registry hooks (`dllmain.cpp`, `HandleMap.cpp`) | handle map | NtCreateFile, NtSetInformationFile, NtOpenKey, ... | the announcement must precede the change; the map is not kept up to date |
| Syscall log channel: `sendToLogPipe`, `LoggerSrv` | a second pipe, one XML document | log | two writers of one document |
| Service hooker (`InstallerAnalyzer1.1/serviceHooker`) | as the hook DLL, in services.exe | announce services' processes | as the hook DLL |
| Legacy host (`InstallerAnalyzer1.1/InstallerAnalyzer1_Host`) | job database, virtual machines | workers pop jobs, drive machines | workers race on the database |

How they interact: a hooked process calls the agent through the event channel
only, and each call blocks the calling thread. The channel's threads change
`ProgramStatus`; the LogicThread and the two timer handlers read it (`Pids`) and
act on processes directly (`Process.Kill`). The injector is a child of the agent
whose output the report reads. `Stop()` ends the channel when the interaction is
over; an unhandled exception of any thread ends the agent, and with it every
process of its job object.

What makes each modelled part correct:

- Event channel: a send that succeeded was dispatched; events of one thread are
  dispatched in order and never by two threads at once; what is sent while the
  agent listens is dispatched.
- Process tracking and interception: no process runs unlisted; services are
  never on the list the agent kills from; the recorded parent is the real one.
- Job execution: the result and the sweep mean what they say; a timeout ends the
  job; no thread is left waiting; the threads never kill what they were not told.
- File and registry history: the first thing the agent knows of a file or a key
  is what it was before the installer changed it, and the report says what
  became of it.
- Activity and UI bot: a window is touched only when it is calm; counters and the
  timeout bound the work.
- Job and report protocol: a job runs once, on its own complete file, and the
  controller has its report before the agent stops.

Vendored code (pugixml, WinPcap, base64, ssdeep, tessdata, EasyHook), the offline
viewers, the manual test rigs and the commented-out NetworkProtocol library have
no state worth a model. `PROJECT.json` lists every component with its status and
every hazard with its line.

## Modules

- **EventDelivery** is what the channel promises: at-least-once handling in
  order, one outstanding event per thread, a send that may give up or die with
  its process.
- **EventPipe** is the channel of the code. `cli[c]` is the position of a hooked
  thread in `sendToEventPipe`; `pc[s]` that of an `EventSrv` thread; `inst[s]`
  is the instance its local `srv` refers to (`null`, connectable, connected,
  disconnected, broken). `Connect`/`GiveUp` are the outcomes of `connectToPipe`,
  `WriteMessage`/`StartRead`/`ReadAnswer`/`ReadFails` those of
  `sendMessageToPipe`; `Dispatch`, `DispatchThrows`, `WriteAck`, `WriteFails`,
  `DisconnectAfterAck` are `ProcessEvent`, `Recover` is the `catch
  (IOException)` of `EventSrv`. `CloseThrows` and `AgentDies` end the agent.
  It implements EventDelivery (`DeliverySpec`, by the mapping `Phase`).
- **ProcessMonitor** is who is on which list. Processes go through
  `none, suspended, running, exiting, dead` (`exiting` is terminated but still
  found by `GetProcessById`). `sends` holds the announcements whose sender has
  not returned; the channel is used as EventDelivery describes it: `Acknowledge`
  (the sender goes on), `LoseAck` (it will send again), `GiveUp`, `Abandon`.
  `AddPid` is two steps, `Inspect` before the lock and `Register` under it.
  What the agent's own threads do is left open (`AgentStep`): any kill of a
  process that has been on the list, any removal of one that has exited.
- **GuestAgent** extends ProcessMonitor with the LogicThread and the timer
  handlers and implements it (`MonitorSpec`): `tpc[t]` is where a thread is,
  `snap[t]` what is left of its copy of the list. Each iteration of the loops
  over the copy is a step, so processes come and go in between.
- **FileHistory** is what the report says of files. `pos`, `want`, `open`, `hmap`
  are a hooked thread, the call it makes, its handle and what `handleMap` has for
  that handle value; `stage` is where a handler, or a task of `Parallel.ForEach`,
  is in `FileAccessInfo.NotifyAccess`, which locks one entry of `files` at a
  time; `fileMap` is `_fileMap`. `disturbed` collects the paths that were changed
  in a way the hooks do not see, of which the properties say nothing: a name
  relative to a directory, an open that creates, truncates or replaces the file
  without asking for write access (the hooks look at the access, not at the
  disposition), a handle no hook saw, an event that was given up, a
  rename, a deletion of a file that was never announced, a file that could not be
  read, a change once the report is being built.
- **RegistryHistory** does the same for registry keys: `KeyExists` and
  `PopulateOriginalValues` are the two looks `NotifyRegistryAccess` takes under
  `_regLock`; `SetDeleted`, `SetModified` and `SetNew` are the attributes of a key's
  element, and `ListNew`, `ListModified` and `ListDeleted` the condition under which
  the loop of `PrepareReport` appends it. Each reads the registry anew, and the
  installer goes on between them.
- **JobContract** is what the agent promises the controller: one job, run once,
  reported at least once.
- **HostExchange** is `work` with `AcquireWork`, `PrepareReport` and `ReportWork`.
  `conn` is the connection of the exchange under way, `toHost` and `toAgent` the
  messages on it, `doc` what each attempt has added to the document of the
  report. It implements JobContract (`ContractSpec`, by `ContractPhase`).
- **ReportCycle** composes HostExchange and RegistryHistory: the installer goes on
  changing keys while the report is prepared, sent, lost and prepared again. Each
  of its steps is a step of RegistryHistory or leaves it alone; each is a step of
  HostExchange or leaves it alone, but one: `KeysThrow`, the loop over the keys
  that throws, fails the attempt without a fault of the network.
- **StableWindow** is `WaitForInputRequested`; one action for each way a round of
  its loop goes.
- **UiBot** extends it with the interaction loop of `ExecuteJob`, the timeout and
  all ends of the loop. At its head `AreProcsFinished` reads `Pids` and waits there
  until a first process is announced (`PidsRead`); nothing makes that happen.
- **MCEventPipe, MCProcessMonitor, MCGuestAgent, MCFileHistory** instantiate them
  for TLC; the other two runs use ReportCycle and UiBot as they are.
- **EventPipeProofs, ProcessMonitorProofs, GuestAgentProofs, FileHistoryProofs,
  RegistryHistoryProofs, HostExchangeProofs, ReportCycleProofs, UiBotProofs** hold
  the proofs.

`EventPipe <= EventDelivery`, `GuestAgent <= ProcessMonitor` and `HostExchange <=
JobContract`. ProcessMonitor, FileHistory and RegistryHistory rest on
EventDelivery's promise rather than on EventPipe, which keeps their state spaces
small: an event is handled, handled again because its ACK was lost, or given up.
FileHistory also uses what EventPipe shows of `Stop` (`AtMostOneLateEvent`, as
`MaxLate`). GuestAgent has the whole of UiBot as its action `Interact`.

Abstractions, and why they are sound here:

- The creation of a pipe instance and `ConnectNamedPipe` are one state: a client
  that connects and dies early is met by `Accept` and `ReadBroken` instead of an
  error of `WaitForConnection`; both drop the instance.
- A message is its number (EventPipe) or its type, parent and process
  (ProcessMonitor). A handler throws depending on the message only (`Failing`).
- Process identifiers are not reused. A killed process is `exiting` at once.
- One pass of the interaction loop is one step, `Interact`, with any outcome; it
  is assumed to end, because each wait in it has a timeout but the first read of
  `Pids`, which is a step of GuestAgent of its own.
- `Other` stands for the results Unknown, UI_Stuck, PartiallyFinished and
  UnknownError.
- The stuck-UI timer elapses every minute; each element of `Watchers` is one call
  of its handler, so their number bounds the calls in a run (the proofs do not).
- The 60 seconds and 20 minutes of the timers are longer than the 12 seconds
  `ExecuteJob` sleeps before it calls `Pids` (`Late`); nothing else is assumed
  about time.
- A failing attempt to report is not a step of its own: it changes nothing that
  is modelled. The controller is assumed to answer.
- The contents of a file are one value for its size and its three hashes, read at
  once; a file somebody else has open may be unreadable. A thread has one handle
  at most, and a file that is open is renamed or deleted by its only user. Paths
  with wildcards are left out.
- A registry key is its values; subkeys are compared as values without contents
  would be. `NtSetValueKey` and its like are not announced and are the action
  `Change`. Keys of users are in the model, but the code looks for them under a
  name nothing is found at (`Found`), so the properties exclude them, as they do
  keys whose announcement was given up.
- Values are compared by `ToString`, which gives the name of the type for binary
  data (`Shown`): such a change is not seen, and `KeysReported` speaks of visible
  changes.
- The controller and the network are external. The controller does what the
  agent's code expects or refuses; a connection ends in an orderly way, which
  leaves what was sent readable, or is reset; a message may be read in part. The
  size of a file is a number of chunks.
- That an announcement wakes the LogicThread in `Pids`, and not only another thread
  that waits there, is a question of `Pulse`, which GuestAgent models
  (`TimeoutEndsJob`, `HandlersReturn`); UiBot takes the wait to end once a process
  is announced.
- An attempt to report that throws has added a section with the injector's output,
  one without because an earlier attempt had read it, or, when it throws before it
  reads the output (`LogicThread.cs:1085`), a short one, after which the output is
  still unread (`AttemptThrows`).
- What `Rank` finds, what a scan shows, whether processes run and what the log
  rate is are arbitrary at every point where the bot reads them.
- `acked` (ProcessMonitor), `dispatched`, `late` (EventPipe), `enlisted`,
  `listed`, `orig`, `disturbed`, `unannounced`, `late` (RegistryHistory, UiBot),
  `received`, `calm` and `clears` record history and are read by no guard of the
  code's actions, but for `clears`, which bounds the recoveries.

## Runs

| Run | Instance | Shows |
|---|---|---|
| pipe_safety | 2 hooked threads, 2 EventSrv threads (as in the code), 2 events each, the second one's handler throws | the inductive invariant `IInv`; `DoneMeansDispatched`, `OneHandlerPerThread`, `AtMostOneLateEvent`; `DeliverySpec`; `EventHandled` |
| monitor_tree | program, child that is a viewer, hooked service, 2 EventSrv threads, 1 waiting thread | `MInv`, `ServicesSpared`, `Coverage`, `ParentRecorded` |
| job_safety | program and a child, LogicThread and timeout handler | `AInv`, `FinishedMeansExited`, `SweptAtReport` |
| job_liveness | program, which inherits the injector's output, LogicThread and both timer handlers | `TimeoutEndsJob`, `HandlersReturn`, `MonitorSpec` |
| history | 2 files with 2 contents, 2 hooked threads, 2 operations or faults, 4 entries, 1 late event | the inductive invariant `FInv`; `ReportTrue`, `FirstIsOriginal` |
| report | 2 jobs, a file of 2 chunks, 1 fault of the exchange; 1 key with 1 value, 2 hooked threads, 2 operations or faults | the inductive invariant `CInv` (`XInv` of the exchange, `RInv` of the registry, `CycleInv` of both); `RunsItsFile`, `LastReportReceived`, `NoIdleRepeat`, `OutputReported`, `ContractSpec`, `Delivered`; `OriginalIsOriginal`, `KeysReported`; `TrueReportReceived` |
| bot | 2 windows, 2 frames, 2 candidates of each kind, the thresholds of the code scaled down | `BInv`, `WaitsForInput`, `InteractionsBounded`, `OneLateInteraction`, `LoopEnds` |
| pipe_wait | 2 hooked threads, 2 EventSrv threads | violation of `ConnectReturns` |
| job_finished, job_timeout, job_report, job_crash | one to three processes | violations of `FinishedIsTrue`, `TimeoutRecovers`, `ReportSent`, `AgentSurvives` |

The violation runs check what a comment of the code says and find a behaviour of
the code that contradicts it; the quotes are in `PROJECT.json`:

- *pipe_wait*: "Wait up to 20 seconds" is `NMPWAIT_WAIT_FOREVER`; with a leaked
  instance and no server left, a hooked thread never returns from `CreateProcess`.
- *job_finished*: the first announcement comes from a service the injector hooked;
  `Pids` returns an empty list and the job is Finished before its program exists.
  Without services it fails as well: a child registered after `AreProcsFinished`
  copied the list is alive when the job is declared Finished.
- *job_timeout*: if no process ever registers, the LogicThread and the handler
  of the timeout wait in `Pids` together; what would wake them,
  `NotifyInjectorExited`, is called by the LogicThread afterwards.
- *job_report*: a process that was gone when `AddProcess` looked has no
  information; `GetHierarchy` asks for it again, throws, and is retried for ever.
- *job_crash*: when `ExecuteJob` throws, `proc` is null in the catch clause that
  should report the failure; `Kill` outside a try and `EventSrv`'s `Close` on
  null end the agent too.

Other behaviour of the code that the models contain, which their properties have
to allow for and no run is spent on:

- A rename over a file that existed is reported as a left-over file (the renamed
  history begins with a file that was not there, `ProgramStatus.cs:695`), and
  after a rename an access through the old handle is announced under the old name.
- `__recvFile` reads 0 bytes from a closed connection for ever
  (`LogicThread.cs:92`); `Delivered` excludes it.
- A NACK of the report is taken for an ACK, because `isValid` of its class
  compares a constant with itself; and a job starts without its clearance when the
  connection is closed in place of it, because the answer is not looked at
  (`LogicThread.cs:284`).
- A history that was frozen by an attempt to report that failed stays frozen
  (`ProgramStatus.cs:633`): changes after that are in no report.
- A handler that has passed the test of `_finalized` before `CheckoutHistory` sets
  it adds its record afterwards (`ProgramStatus.cs:633`), which may also make the
  loop over the records throw and the attempt fail (`ReportFile`). Of a file the
  hooks can follow the record says nothing new (`FreshInv`).
- Keys under `\registry\user` are looked for under `hkey_current_user` with the
  user's name in the path, where nothing is found (`ProgramStatus.cs:803`).
- The loop over the write flags goes on behind the end of its table
  (`dllmain.cpp:2276`), so that more may be announced than is written.
- The result stays Unknown when the bot leaves its loop because all processes are
  gone and the log rate is 0 (`LogicThread.cs:366`).
- `WaitReaction` waits longer than its own timeout (5 seconds against half a
  second), so that a slow reaction counts as none and the bot goes on with the
  candidates of the old window.

Bounds. `MaxMsg` = 2 lets a retry of one event meet the next event; two clients
and two servers are the least number for which a message can outlive its
client's connection while another server takes the retry. Two processes give a
creator and a child; the third adds a creator the agent does not monitor.
`MCProcessMonitor!Overlap` explores two EventSrv threads at work before the
hooked service is touched and one afterwards, and ends once the agent has
stopped and handles nothing, a server has gone, or the injector has ended. `MCGuestAgent!JobRuns` ends the exploration of job_safety
at the report, and its VIEW drops `acked`, `hier` and `info`, which nothing reads
before that; the report itself is part of job_liveness. Three threads are needed
there for one `Pulse` to leave somebody asleep.

In history two operations are enough for two threads to open one file, or for one
to open a file and lose an ACK, rename it or be killed; writes, closings and
deletions through a handle are not counted. Four entries are as many as two files
and a rename can make. `MCFileHistory!UntilReported` cuts what no property speaks
of any more: after the report, and during it when every path is disturbed; after
`Stop` at most one thread has an event under way. In report one fault breaks each
step of the exchange in turn, and one key with a value that may be binary,
another value or none gives every kind of difference; two threads are what it takes
for one to announce or change the key while the handler of the other is between its
two looks, which `_regLock` prevents; the jobs are two so that a
file of another job can be left over. In bot a threshold of 3 scans lets two
frames alternate until one's counter exceeds it, and `MaxClears` = 1 gives one
recovery from a loop; the proofs have no bound on any of these.

Symmetry is used in safety runs only and only over values the specification does
not distinguish. Deadlock is not checked: hooked threads stop sending, the agent
stops after one job, and the violations above include real deadlocks, which the
liveness properties name.

Fairness. A thread that can run does (weak fairness of each thread's steps, in
report of each part of the LogicThread's loop, in bot of the LogicThread where it
does not wait in `Pids`). A
hooked thread that competes for a pipe instance is assumed to get one eventually
(strong fairness of `Connect`): `CreateFileA` and `WaitNamedPipeA` are retried
for ever and Windows serves waiters. Timers fire if not stopped; terminated
processes go away; the controller, which the agent cannot do without, answers,
and the number of faults is finite. Nothing is assumed of the installer, which need
not announce itself (`TimeoutEndsJob` and `LoopEnds` are about jobs where it does), of the
injector's progress, of users, of `Stop`, of kills and of the garbage collector.

## Proofs

`EventPipeProofs` proves, for any sets of threads and any number of events:

- `Invariant`: `Spec => []IInv`. The three safety properties are not inductive.
  That a server's message is the one its author still sends (`MessageInv`) needs
  that handles are exclusive (`HandleInv`) and that a disconnected or abandoned
  instance holds no message (`InstanceInv`); that an ACK implies a dispatch
  (`AnswerInv`) needs that a client which has read it is at the instance in
  `disconnect`; that a server handles one event after `Stop` (`LateInv`) needs
  that it has not gone back to `wait`. Proof: one step per action.
- `DoneMeansDispatchedTheorem`, `OneHandlerPerThreadTheorem`,
  `AtMostOneLateEventTheorem`: from the invariant.
- `Refinement`: `Spec => DeliverySpec`, each step of the pipe being a step of
  EventDelivery or invisible in it, under the invariant.

They assume `ConstAssumption` only (`Nobody` is nobody, `MaxMsg` is a number).

`ProcessMonitorProofs` proves, for any processes, services, viewers and threads:

- `MonitorInvariant`: `MSpec => []MInv`. `Coverage` and `ParentRecorded` speak of
  acknowledged announcements, so `ListInv` and `CreatorInv` say the same of
  announcements whose handler is at the ACK. That the creator's parent wins over
  the parent 0 the child's own DLL announces needs that the child cannot attach,
  or even run, while the creator's announcement is out, and that nobody else
  announces it meanwhile (`CreatorInv`). That a service on the list is dead,
  although `svc` was read before the lock, needs the state of a service between
  `Inspect` and `Register` (`ServiceInv`). `SendInv` (one handler per
  announcement) is where EventDelivery's promise enters. Proof: one step per
  action, one per part of the invariant where an action touches most of them.
- `ServicesSparedTheorem`, `CoverageTheorem`, `ParentRecordedTheorem`: from it.

`GuestAgentProofs` proves, for any processes and any number of EventSrv threads
and watchers:

- `AgentImplementsMonitor`: `Spec => MonitorSpec`. Every step maps to a step of
  ProcessMonitor or leaves its variables alone (`AgentRefines`); this needs that
  the copies of the list the threads hold contain only processes that have been
  on it (`SnapInv`). So the theorems above hold of the agent.
- `AgentInvariant`: `Spec => [](MInv /\ AInv)`. `ScanInv` says that what the
  scan and the sweep have gone through stays terminated, which follows from
  `MonitorStep`: no step of ProcessMonitor revives a process that was on the
  list. `ResultInv` carries it to the result and to the report.
- `FinishedMeansExitedTheorem`, `SweptAtReportTheorem`: from the invariant.

They assume `MonitorAssumption` (which processes are services; `None` and
`"unknown"` are no processes) and `AgentAssumption` (the threads are distinct).

`FileHistoryProofs` proves, for any paths, contents, threads and bounds:

- `HistoryInvariant`: `Spec => []HInv`. That the first record of a file is its
  original contents needs that whoever holds or is about to get a handle that
  writes has been waited for (`ThreadInv`), that an event which is answered has
  left a record under its path (`EventInv`), that what a handler has seen of a
  file without records is still its original contents when it adds it
  (`EntryInv`), and that no entry is reached under two paths, which a rename could
  bring about (`MapInv`). `TaskInv` is what the tasks of the report need: they
  work on entries that exist and freeze none that is empty.
- `FirstIsOriginalTheorem`: from it.
- `ReportInvariant`: `Spec => []FInv`, with `FInv == HInv /\ ReportInv`. An element
  of the report names a file by the path its entry has when the task gets to it,
  so an undisturbed path must belong to the entry `_fileMap` has for it and to no
  other (`PathInv`, the converse of what `HInv` says). Its kind is made of the
  first record, which `HInv` knows, and of the last, which is what the file is
  now: from the look of `CheckoutHistory` on nobody changes the file without
  disturbing it, and a handler that comes late saw the same (`FreshInv`, for which
  one worker at a time must be between its look and its record: `LockInv`). That
  no changed file is missing at the end is an invariant of the loop
  (`ElementInv`): its entry is still to be taken, or its task runs, or it has its
  element, or the attempt is going to fail; and a loop that ends has neither
  entries, nor tasks, nor a failure left (`LoopInv`).
- `ReportTrueTheorem`: from it; there is one element at most because all of them
  are equal.

One lemma for each action and invariant. What a handler does to the map, be it for
an access or a rename, is one lemma (`PlaceFacts`) for both invariants; so is the
record a worker adds (`RecordAdded`).

`RegistryHistoryProofs` proves, for any keys, values and threads:

- `RegistryInvariant`: `RegSpec => []RInv`. `HandlerInv` says that a handler
  between its two looks is the only one there (`_regLock`) and that the first look
  is still true: whoever could change the key is waiting for its answer, or is
  known to the map. `KeyInv` carries it to `_regMap`. `LoopInv` is about the loop
  of the report: a key that nobody changed since the attempt began has its true
  element, or rightly none, as soon as the loop is past it, none before, and
  while the loop is at it what has been read of it is what would be read again.
- `OriginalIsOriginalTheorem`, `KeysReportedTheorem`: from it.

`HostExchangeProofs` proves, for any jobs, sizes and numbers of faults:

- `ExchangeInvariant`: `Spec => []XInv`. An answer belongs to the request of its
  own connection (`AskInv`, `FetchInv`, `ReportInv`), although a message of a
  broken connection may reach the controller late: it is of the same job, and an
  answer in hand says that the report with all its sections has arrived.
  `RepeatInv` counts: each report the controller has, but for the one under way,
  was paid for by a fault, where a chunk left over from a broken connection may
  still complete a report. `OutputInv` says which sections the output can be in.
- `RunsItsFileTheorem`, `LastReportReceivedTheorem`, `NoIdleRepeatTheorem`,
  `OutputReportedTheorem`: from it.
- `ContractTheorem`: `Spec => ContractSpec`, by the refinement mapping, with the
  number of reports of a job as the cardinality of a set of positions.

`ReportCycleProofs` proves of the composition, for all constants of both parts:

- `CycleHasRegistry`: `CycleSpec => RegSpec`, so what is proved of the registry
  history holds of it in the cycle. There is no such theorem for the exchange:
  `KeysThrow` is no step of HostExchange, so `CycleInvariant` (`CycleSpec =>
  []CInv`) uses the lemmas about its single steps and proves the new one.
  `CycleInv` ties the two: the registry is compared once the job has ended, and a
  report that leaves the agent has come to the end of the comparison.
- `TrueReportReceivedTheorem`: the report the controller has when the agent stops
  is true of the registry, which neither part says alone.
- `CycleSafe`, `CycleKeepsContract`: the safety properties of both parts, and
  `CycleSpec => ContractSpec`.

`UiBotProofs` proves, for any windows, frames and thresholds:

- `BotInvariant`: `Spec => []BInv`. `WaitInv` says that no counter of a wait runs
  ahead of the scans that showed nothing new; `LateInv` that the one interaction
  after the timeout leaves the inner loop. `CountInv` bounds the interactions:
  each one since the last recovery has spent a pair of a frame and a value of its
  counter (`Spent`), of which there are only so many (`Slots`). It counts pairs
  instead of summing counters, because sums are folds, which the provers cannot
  reason about.
- `WaitsForInputTheorem`, `OneLateInteractionTheorem`,
  `InteractionsBoundedTheorem`: from it.

They assume `HistoryAssumption`, `RegistryAssumption`, `ExchangeAssumption`,
`WindowAssumption` and `BotAssumption`: the special values are no members of the
sets they are added to (`Absent`, the null of the registry history, is none of the
values it keeps, shows or compares), the bounds and thresholds are numbers, and a
window has finitely many frames.

Only model-checked: liveness, `EventHandled`, `TimeoutEndsJob`, `HandlersReturn`,
`Delivered` and `LoopEnds`, because the prover does not handle fairness. Every
invariant and every refinement the passing runs check is a theorem.

## Plan

Done: the event channel, process tracking and the agent with its threads; the
file and registry histories with the report that reads them; the exchange with
the controller and its composition with the registry history; the wait for a
stable window and the bot; the proofs of their inductive invariants, of all safety
properties and of the three refinements, and those of the composition. Left, in
this order:

1. FileHistory in ReportCycle: the loop over the files after the loop over keys;
   its proof would go as that of the registry does.
2. `WaitUntilIdle` and `WaitUntilNotBusy` over bounded time, against "quiet for
   the whole delay".
3. The log channel, as a second instance of EventPipe with a shared document.

## Not modelled, and why

The contents of the report, image analysis, OCR and the ranking of controls (no
state); the window and the log file; WinPcap capture in the injector's sources
(vendored, unused by the modelled paths); the rewriting of import tables; the
hooks that only log, and the log channel, which are compiled out by default;
`WaitUntilIdle` and `WaitUntilNotBusy` beyond the choice of an answer, because
they are about elapsed time and their answers only delay the bot or give it up;
the links inside `XmlDocument` and `std::map` when threads share them without a
lock; the service hooker, which repeats the hook DLL; the legacy host, which is
out of the solution and whose database is not in the repository. Much of the
repository is vendored (pugixml three times, WinPcap, ssdeep, base64, data) or
formatting of arguments in the hook DLL, which no model stands for.
