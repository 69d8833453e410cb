------------------------------ MODULE EventPipe ------------------------------
(***************************************************************************)
(* The event channel of the guest agent.  Threads of the hooked processes  *)
(* (Clients, running sendToEventPipe in the hook DLL) send one message per *)
(* connection over the named pipe "wk_event_pipe" to the EventSrv threads  *)
(* of the agent (Servers), which dispatch the message to ProgramStatus,    *)
(* answer with an ACK and disconnect.                                      *)
(*                                                                         *)
(* What makes it hard: a server disconnects right after writing the ACK    *)
(* (WaitForPipeDrain is commented out), which discards an ACK the client   *)
(* has not read; the client then sends the event again.  Processes are     *)
(* killed while they send.  A broken pipe instance is abandoned without    *)
(* being closed.  Stop() is noticed only between two connections.  An      *)
(* exception that leaves any of its threads ends the whole agent.          *)
(*                                                                         *)
(* A message is its number: the n-th event the thread sends.               *)
(***************************************************************************)
EXTENDS Naturals, FiniteSets

CONSTANTS Clients,      \* threads of hooked processes that send events
          Servers,      \* EventSrv threads (the code starts two)
          Nobody,       \* no client, no server
          MaxMsg,       \* bound: events each thread sends
          Failing       \* numbers of the events whose dispatch throws

ASSUME ConstAssumption ==
    /\ Nobody \notin Clients \cup Servers
    /\ MaxMsg \in Nat
    /\ Failing \subseteq 1..MaxMsg

VARIABLES
    shouldRun,    \* NamedPipeServer._shouldRun
    pc,           \* pc[s]: where the EventSrv thread s is
    inst,         \* inst[s]: the pipe instance its local variable srv refers to
    from, num,    \* client and number of the message in the instance s reads
    leaked,       \* an instance was abandoned without Close and not collected
    cli,          \* cli[c]: where c is in sendToEventPipe
    conn,         \* conn[c]: server whose instance c has an open, live handle to
    cur,          \* cur[c]: number of the event c sends or sent last
    outcome,      \* outcome[c]: local "done" of the last sendToEventPipe
    dispatched,   \* dispatched[c]: number of the last event of c handled
    late          \* late[s]: events s handled after Stop()

svars == <<pc, inst, from, num, leaked, late>>
cvars == <<cli, conn, cur, outcome>>
vars == <<shouldRun, pc, inst, from, num, leaked, cli, conn, cur, outcome,
          dispatched, late>>

TypeOK ==
    /\ shouldRun \in BOOLEAN
    /\ pc \in [Servers -> {"loop", "wait", "read", "dispatch", "ack",
                           "disconnect", "recover", "exited", "crashed"}]
    /\ inst \in [Servers -> {"null", "open", "busy", "disconnected", "broken"}]
    /\ from \in [Servers -> Clients \cup {Nobody}]
    /\ num \in [Servers -> 0..MaxMsg]
    /\ leaked \in BOOLEAN
    /\ cli \in [Clients -> {"idle", "connect", "connected", "wrote", "reading",
                            "acked", "gone"}]
    /\ conn \in [Clients -> Servers \cup {Nobody}]
    /\ cur \in [Clients -> 0..MaxMsg]
    /\ outcome \in [Clients -> {"none", "done", "failed"}]
    /\ dispatched \in [Clients -> 0..MaxMsg]
    /\ late \in [Servers -> Nat]

\* The channel when the first process is hooked: Start() ran long before, and
\* every EventSrv thread is in its first WaitForConnection.
Init ==
    /\ shouldRun = TRUE
    /\ pc = [s \in Servers |-> "wait"]
    /\ inst = [s \in Servers |-> "open"]
    /\ from = [s \in Servers |-> Nobody]
    /\ num = [s \in Servers |-> 0]
    /\ leaked = FALSE
    /\ cli = [c \in Clients |-> "idle"]
    /\ conn = [c \in Clients |-> Nobody]
    /\ cur = [c \in Clients |-> 0]
    /\ outcome = [c \in Clients |-> "none"]
    /\ dispatched = [c \in Clients |-> 0]
    /\ late = [s \in Servers |-> 0]

-----------------------------------------------------------------------------
(* The hooked thread: sendToEventPipe, connectToPipe, sendMessageToPipe.   *)

Send(c) ==
    /\ cli[c] = "idle"
    /\ cur[c] < MaxMsg
    /\ cur' = [cur EXCEPT ![c] = @ + 1]
    /\ cli' = [cli EXCEPT ![c] = "connect"]
    /\ outcome' = [outcome EXCEPT ![c] = "none"]
    /\ UNCHANGED <<shouldRun, svars, conn, dispatched>>

\* CreateFileA finds an instance nobody is connected to.  While all the
\* instances are busy the thread is blocked in WaitNamedPipeA.
Connect(c, s) ==
    /\ cli[c] = "connect"
    /\ inst[s] = "open"
    /\ inst' = [inst EXCEPT ![s] = "busy"]
    /\ conn' = [conn EXCEPT ![c] = s]
    /\ cli' = [cli EXCEPT ![c] = "connected"]
    /\ UNCHANGED <<shouldRun, pc, from, num, leaked, late, cur, outcome, dispatched>>

\* Mutant of GiveUp: a pipe that does not exist counts as success.
GiveUpAsDone(c) ==
    /\ cli[c] = "connect"
    /\ ~leaked
    /\ \A s \in Servers : inst[s] = "null"
    /\ cli' = [cli EXCEPT ![c] = "idle"]
    /\ outcome' = [outcome EXCEPT ![c] = "done"]
    /\ UNCHANGED <<shouldRun, svars, conn, cur, dispatched>>

\* The pipe does not exist: "we had a severe error and we cannot try again".
GiveUp(c) ==
    /\ cli[c] = "connect"
    /\ ~leaked
    /\ \A s \in Servers : inst[s] = "null"
    /\ cli' = [cli EXCEPT ![c] = "idle"]
    /\ outcome' = [outcome EXCEPT ![c] = "failed"]
    /\ UNCHANGED <<shouldRun, svars, conn, cur, dispatched>>

WriteMessage(c) ==
    /\ cli[c] = "connected"
    /\ conn[c] # Nobody
    /\ LET s == conn[c] IN
         /\ from' = [from EXCEPT ![s] = c]
         /\ num' = [num EXCEPT ![s] = cur[c]]
    /\ cli' = [cli EXCEPT ![c] = "wrote"]
    /\ UNCHANGED <<shouldRun, pc, inst, leaked, late, conn, cur, outcome, dispatched>>

\* ReadFile before the server has answered: the thread is blocked in it.
StartRead(c) ==
    /\ cli[c] = "wrote"
    /\ conn[c] # Nobody
    /\ pc[conn[c]] # "disconnect"
    /\ cli' = [cli EXCEPT ![c] = "reading"]
    /\ UNCHANGED <<shouldRun, svars, conn, cur, outcome, dispatched>>

\* ReadFile after the answer and before the disconnection.
ReadAnswer(c) ==
    /\ cli[c] = "wrote"
    /\ conn[c] # Nobody
    /\ pc[conn[c]] = "disconnect"
    /\ cli' = [cli EXCEPT ![c] = "acked"]
    /\ UNCHANGED <<shouldRun, svars, conn, cur, outcome, dispatched>>

\* Mutant of ReadFails: the result of ReadFile is not looked at.
ReadFailsAsDone(c) ==
    /\ cli[c] \in {"connected", "wrote", "reading"}
    /\ conn[c] = Nobody
    /\ cli' = [cli EXCEPT ![c] = "idle"]
    /\ outcome' = [outcome EXCEPT ![c] = "done"]
    /\ UNCHANGED <<shouldRun, svars, conn, cur, dispatched>>

\* Mutant of ReadFails: the client loses patience and tries again.
ReadTimesOut(c) ==
    /\ cli[c] \in {"connected", "wrote", "reading"}
    /\ cli' = [cli EXCEPT ![c] = "connect"]
    /\ conn' = [conn EXCEPT ![c] = Nobody]
    /\ UNCHANGED <<shouldRun, svars, cur, outcome, dispatched>>

\* ReadFile, or already WriteFile, fails: the server has disconnected or the
\* agent is gone.  Close the handle and try again.
ReadFails(c) ==
    /\ cli[c] \in {"connected", "wrote", "reading"}
    /\ conn[c] = Nobody
    /\ cli' = [cli EXCEPT ![c] = "connect"]
    /\ UNCHANGED <<shouldRun, svars, conn, cur, outcome, dispatched>>

\* disconnectPipe and the end of the loop "while (!done)".
Finish(c) ==
    /\ cli[c] = "acked"
    /\ cli' = [cli EXCEPT ![c] = "idle"]
    /\ conn' = [conn EXCEPT ![c] = Nobody]
    /\ outcome' = [outcome EXCEPT ![c] = "done"]
    /\ UNCHANGED <<shouldRun, svars, cur, dispatched>>

\* The process is terminated (by the agent, the user or itself).
Die(c) ==
    /\ cli[c] # "gone"
    /\ cli' = [cli EXCEPT ![c] = "gone"]
    /\ conn' = [conn EXCEPT ![c] = Nobody]
    /\ UNCHANGED <<shouldRun, svars, cur, outcome, dispatched>>

-----------------------------------------------------------------------------
(* The agent's thread: EventSrv and ProcessEvent.                          *)

\* Mutant of LoopAgain: a client is waited for only on a new instance.
LoopOnce(s) ==
    /\ pc[s] = "loop"
    /\ shouldRun
    /\ inst[s] = "null"
    /\ inst' = [inst EXCEPT ![s] = "open"]
    /\ pc' = [pc EXCEPT ![s] = "wait"]
    /\ UNCHANGED <<shouldRun, from, num, leaked, late, cvars, dispatched>>

\* Mutant of LoopAgain: the loop does not look at _shouldRun.
LoopForever(s) ==
    /\ pc[s] = "loop"
    /\ inst' = [inst EXCEPT ![s] = IF @ = "null" THEN "open" ELSE @]
    /\ pc' = [pc EXCEPT ![s] = "wait"]
    /\ UNCHANGED <<shouldRun, from, num, leaked, late, cvars, dispatched>>

\* The head of "while (_shouldRun)", and the creation of the instance.
LoopAgain(s) ==
    /\ pc[s] = "loop"
    /\ shouldRun
    /\ inst' = [inst EXCEPT ![s] = IF @ = "null" THEN "open" ELSE @]
    /\ pc' = [pc EXCEPT ![s] = "wait"]
    /\ UNCHANGED <<shouldRun, from, num, leaked, late, cvars, dispatched>>

\* Mutant of LeaveLoop: the instance is not closed.
LeaveLoopOpen(s) ==
    /\ pc[s] = "loop"
    /\ ~shouldRun
    /\ pc' = [pc EXCEPT ![s] = "exited"]
    /\ UNCHANGED <<shouldRun, inst, from, num, leaked, late, cvars, dispatched>>

\* srv.Close() after the loop.
LeaveLoop(s) ==
    /\ pc[s] = "loop"
    /\ ~shouldRun
    /\ inst[s] # "null"
    /\ pc' = [pc EXCEPT ![s] = "exited"]
    /\ inst' = [inst EXCEPT ![s] = "null"]
    /\ UNCHANGED <<shouldRun, from, num, leaked, late, cvars, dispatched>>

\* The agent's process is gone, and all its ends of pipes with it.
AgentGone ==
    /\ pc' = [s \in Servers |-> "crashed"]
    /\ inst' = [s \in Servers |-> "null"]
    /\ from' = [s \in Servers |-> Nobody]
    /\ num' = [s \in Servers |-> 0]
    /\ leaked' = FALSE
    /\ conn' = [c \in Clients |-> Nobody]
    /\ UNCHANGED <<shouldRun, late, cli, cur, outcome, dispatched>>

\* srv is null after a recovery: an exception no thread of the agent handles.
CloseThrows(s) ==
    /\ pc[s] = "loop"
    /\ ~shouldRun
    /\ inst[s] = "null"
    /\ AgentGone

AgentUp == \A s \in Servers : pc[s] # "crashed"

\* An unhandled exception of another thread of the agent.
AgentDies == AgentUp /\ AgentGone

\* WaitForConnection on a disconnected instance makes it connectable again.
Listen(s) ==
    /\ pc[s] = "wait"
    /\ inst[s] = "disconnected"
    /\ inst' = [inst EXCEPT ![s] = "open"]
    /\ UNCHANGED <<shouldRun, pc, from, num, leaked, late, cvars, dispatched>>

\* WaitForConnection returns.
Accept(s) ==
    /\ pc[s] = "wait"
    /\ inst[s] = "busy"
    /\ pc' = [pc EXCEPT ![s] = "read"]
    /\ UNCHANGED <<shouldRun, inst, from, num, leaked, late, cvars, dispatched>>

\* WaitForConnection throws IOException: the instance is in state Broken.
WaitFails(s) ==
    /\ pc[s] = "wait"
    /\ inst[s] = "broken"
    /\ pc' = [pc EXCEPT ![s] = "recover"]
    /\ UNCHANGED <<shouldRun, inst, from, num, leaked, late, cvars, dispatched>>

\* catch (IOException): srv is set to null before Close is called on it, so
\* the instance stays open until it is collected.
Recover(s) ==
    /\ pc[s] = "recover"
    /\ inst' = [inst EXCEPT ![s] = "null"]
    /\ leaked' = TRUE
    /\ pc' = [pc EXCEPT ![s] = "loop"]
    /\ UNCHANGED <<shouldRun, from, num, late, cvars, dispatched>>

\* The finalizer of the abandoned instances.
Collect ==
    /\ leaked
    /\ leaked' = FALSE
    /\ UNCHANGED <<shouldRun, pc, inst, from, num, late, cvars, dispatched>>

ReadMessage(s) ==
    /\ pc[s] = "read"
    /\ from[s] # Nobody
    /\ pc' = [pc EXCEPT ![s] = "dispatch"]
    /\ UNCHANGED <<shouldRun, inst, from, num, leaked, late, cvars, dispatched>>

\* The client is gone and has written nothing: the empty text is not XML, the
\* exception is swallowed and the broken instance is not disconnected.
ReadBroken(s) ==
    /\ pc[s] = "read"
    /\ from[s] = Nobody
    /\ \A c \in Clients : conn[c] # s
    /\ inst' = [inst EXCEPT ![s] = "broken"]
    /\ pc' = [pc EXCEPT ![s] = "loop"]
    /\ UNCHANGED <<shouldRun, from, num, leaked, late, cvars, dispatched>>

Dispatch(s) ==
    /\ pc[s] = "dispatch"
    /\ num[s] \notin Failing
    /\ dispatched' = [dispatched EXCEPT ![from[s]] = num[s]]
    /\ late' = [late EXCEPT ![s] = IF shouldRun THEN @ ELSE @ + 1]
    /\ pc' = [pc EXCEPT ![s] = "ack"]
    /\ UNCHANGED <<shouldRun, inst, from, num, leaked, cvars>>

\* Disconnect: the client's end is dead, an unread answer is discarded.
Disconnect(s) ==
    /\ inst' = [inst EXCEPT ![s] = "disconnected"]
    /\ from' = [from EXCEPT ![s] = Nobody]
    /\ num' = [num EXCEPT ![s] = 0]
    /\ conn' = [c \in Clients |-> IF conn[c] = s THEN Nobody ELSE conn[c]]
    /\ pc' = [pc EXCEPT ![s] = "loop"]

\* The handler throws: disconnect without an answer if the pipe is connected.
DispatchThrows(s) ==
    /\ pc[s] = "dispatch"
    /\ num[s] \in Failing
    /\ Disconnect(s)
    /\ UNCHANGED <<shouldRun, leaked, late, cli, cur, outcome, dispatched>>

\* Write(ENCODED_ACK): a client blocked in ReadFile has the answer at once,
\* otherwise it stays in the pipe until the client reads or s disconnects.
WriteAck(s) ==
    /\ pc[s] = "ack"
    /\ \E c \in Clients : conn[c] = s
    /\ pc' = [pc EXCEPT ![s] = "disconnect"]
    /\ cli' = [c \in Clients |-> IF conn[c] = s /\ cli[c] = "reading"
                                 THEN "acked" ELSE cli[c]]
    /\ UNCHANGED <<shouldRun, inst, from, num, leaked, late, conn, cur, outcome,
                   dispatched>>

\* The client is gone: Write throws and leaves the instance broken.
WriteFails(s) ==
    /\ pc[s] = "ack"
    /\ \A c \in Clients : conn[c] # s
    /\ inst' = [inst EXCEPT ![s] = "broken"]
    /\ from' = [from EXCEPT ![s] = Nobody]
    /\ num' = [num EXCEPT ![s] = 0]
    /\ pc' = [pc EXCEPT ![s] = "loop"]
    /\ UNCHANGED <<shouldRun, leaked, late, cvars, dispatched>>

DisconnectAfterAck(s) ==
    /\ pc[s] = "disconnect"
    /\ Disconnect(s)
    /\ UNCHANGED <<shouldRun, leaked, late, cli, cur, outcome, dispatched>>

\* NamedPipeServer.Stop(), called once by LogicThread.work.
Stop ==
    /\ shouldRun
    /\ shouldRun' = FALSE
    /\ UNCHANGED <<svars, cvars, dispatched>>

-----------------------------------------------------------------------------
ClientStep(c) ==
    \/ \E s \in Servers : Connect(c, s)
    \/ GiveUp(c)
    \/ WriteMessage(c)
    \/ StartRead(c)
    \/ ReadAnswer(c)
    \/ ReadFails(c)
    \/ Finish(c)

ServerStep(s) ==
    \/ LoopAgain(s)
    \/ LeaveLoop(s)
    \/ CloseThrows(s)
    \/ Listen(s)
    \/ Accept(s)
    \/ WaitFails(s)
    \/ Recover(s)
    \/ ReadMessage(s)
    \/ ReadBroken(s)
    \/ Dispatch(s)
    \/ DispatchThrows(s)
    \/ WriteAck(s)
    \/ WriteFails(s)
    \/ DisconnectAfterAck(s)

Next ==
    \/ \E c \in Clients : Send(c) \/ ClientStep(c) \/ Die(c)
    \/ \E s \in Servers : ServerStep(s)
    \/ Collect
    \/ Stop
    \/ AgentDies

Spec == Init /\ [][Next]_vars

(***************************************************************************)
(* Threads are scheduled: a thread that can run does.  CreateFileA and     *)
(* WaitNamedPipeA race with other clients for a free instance, and a       *)
(* client that keeps trying is assumed to win one eventually (SF).         *)
(* Nothing is assumed of Stop, Die, Send, the garbage collector and the    *)
(* agent's end.                                                            *)
(***************************************************************************)
Fairness ==
    /\ \A c \in Clients : /\ SF_vars(\E s \in Servers : Connect(c, s))
                          /\ WF_vars(ClientStep(c))
    /\ \A s \in Servers : WF_vars(ServerStep(s))

FairSpec == Spec /\ Fairness

-----------------------------------------------------------------------------
(* The inductive invariant behind the safety properties, in named parts.   *)

\* A server that has not answered yet, whatever it is doing.
Unanswered(s) == pc[s] \in {"wait", "read", "dispatch", "ack"}

\* The instance a server refers to fits the place the server is at.
InstanceInv ==
    \A s \in Servers :
        /\ pc[s] = "loop" => inst[s] \in {"null", "disconnected", "broken"}
        /\ pc[s] = "wait" => inst[s] # "null"
        /\ pc[s] \in {"read", "dispatch", "ack", "disconnect"} => inst[s] = "busy"
        /\ pc[s] \in {"dispatch", "ack", "disconnect"} => from[s] # Nobody
        /\ pc[s] = "recover" => inst[s] = "broken"
        /\ pc[s] \in {"exited", "crashed"} => inst[s] = "null"
        /\ inst[s] # "busy" => from[s] = Nobody

\* Handles are exclusive, and only a connected, unfinished client has one.
HandleInv ==
    /\ \A c \in Clients :
          /\ cli[c] \in {"idle", "connect", "gone"} => conn[c] = Nobody
          /\ conn[c] # Nobody => inst[conn[c]] = "busy"
          /\ conn[c] # Nobody /\ cli[c] = "connected" => /\ from[conn[c]] = Nobody
                                                        /\ Unanswered(conn[c])
    /\ \A c, d \in Clients : conn[c] # Nobody /\ conn[c] = conn[d] => c = d

\* The message a server holds is the one its author is still sending, until
\* the answer has been written.
MessageInv ==
    /\ \A c \in Clients :
          conn[c] # Nobody /\ cli[c] \in {"wrote", "reading", "acked"}
              => from[conn[c]] = c /\ num[conn[c]] = cur[c]
    /\ \A s \in Servers :
          from[s] # Nobody /\ Unanswered(s)
              => /\ num[s] = cur[from[s]]
                 /\ conn[from[s]] = s \/ cli[from[s]] = "gone"
    /\ \A s, t \in Servers :
          from[s] # Nobody /\ from[s] = from[t] /\ Unanswered(s) /\ Unanswered(t)
              => s = t

\* An answer exists only for a dispatched event.
AnswerInv ==
    /\ \A s \in Servers : pc[s] = "ack" => dispatched[from[s]] = cur[from[s]]
    /\ \A c \in Clients :
          /\ conn[c] # Nobody /\ pc[conn[c]] = "disconnect" => dispatched[c] = cur[c]
          /\ cli[c] = "acked" => dispatched[c] = cur[c]
          /\ cli[c] = "acked" /\ conn[c] # Nobody => pc[conn[c]] = "disconnect"
          /\ outcome[c] = "done" => dispatched[c] = cur[c]

\* A server that handled an event after Stop() never waits for a client again.
LateInv ==
    \A s \in Servers :
        late[s] # 0 => /\ late[s] = 1
                       /\ ~shouldRun
                       /\ pc[s] \in {"ack", "disconnect", "loop", "exited", "crashed"}

IInv == TypeOK /\ InstanceInv /\ HandleInv /\ MessageInv /\ AnswerInv /\ LateInv

-----------------------------------------------------------------------------
(* Properties.                                                             *)

\* A send that returned successfully had its event dispatched first: the ACK
\* is written after the handler (ProcessEvent), never on receipt.
DoneMeansDispatched ==
    \A c \in Clients : outcome[c] = "done" => dispatched[c] = cur[c]

\* Events of one thread are never handled by two EventSrv threads at once, in
\* spite of the retries and of the handlers that outlive the client's handle.
OneHandlerPerThread ==
    \A s, t \in Servers :
        /\ s # t
        /\ pc[s] \in {"read", "dispatch", "ack"}
        /\ pc[t] \in {"read", "dispatch", "ack"}
        /\ from[s] # Nobody
        => from[s] # from[t]

\* Stop() is not immediate, but each EventSrv thread handles at most one
\* event after it: the one of the connection it was in or was waiting for.
AtMostOneLateEvent == \A s \in Servers : late[s] <= 1

\* While the agent runs, an event whose handler does not throw is handled,
\* however many clients compete, die or have their answers discarded.
EventHandled ==
    \A c \in Clients :
        cli[c] = "connect" /\ cur[c] \notin Failing
            ~> \/ dispatched[c] = cur[c]
               \/ cli[c] \in {"gone", "idle"}
               \/ ~(shouldRun /\ AgentUp)

\* A hooked thread does not wait for the pipe for ever.
ConnectReturns == \A c \in Clients : cli[c] = "connect" ~> cli[c] # "connect"

\* The channel implements EventDelivery.
Phase == [c \in Clients |-> IF cli[c] \in {"idle", "gone"} THEN cli[c] ELSE "pending"]

Delivery == INSTANCE EventDelivery WITH phase <- Phase, sent <- cur,
                                        handled <- dispatched

DeliverySpec == Delivery!Spec
=============================================================================
