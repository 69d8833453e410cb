---------------------------- MODULE HostExchange ----------------------------
(***************************************************************************)
(* The exchange with the host controller: the loop of LogicThread.work     *)
(* with AcquireWork, the preparation of the report and ReportWork, one TCP *)
(* connection per exchange.  The controller and the network are external:  *)
(* the controller answers what the agent's code expects of it or refuses,  *)
(* a connection may end at any time, and a message may be read in part     *)
(* (__recv reads once).                                                    *)
(***************************************************************************)
EXTENDS Naturals, Sequences, FiniteSets

CONSTANTS Jobs, None,
          FileLen,      \* chunks of an installer
          ReportLen,    \* chunks of a report
          MaxFaults     \* bound: broken connections, refusals, failed attempts

ASSUME ExchangeAssumption == /\ None \notin Jobs
                             /\ {FileLen, ReportLen} \subseteq Nat \ {0}
                             /\ MaxFaults \in Nat

VARIABLES pc,           \* where the LogicThread is
          job,          \* the job of the last valid answer
          file,         \* the local file: the job each chunk came from
          output,       \* the injector's output: unread, read
          doc,          \* Program._xmlRoot: what each attempt has added
          sent,         \* chunks of the report sent in this exchange
          conn,         \* the connection: none, open, closed, reset
          toHost,       \* message on its way to the controller
          toAgent,      \* message on its way to the agent
          offer,        \* the job the controller has given or expects
          got,          \* chunks of a report it has received
          received,     \* complete reports it has got: job, number of sections
          faults

agentVars == <<job, file, output, doc, sent>>
netVars == <<conn, toHost, toAgent>>
hostVars == <<offer, got, received>>
vars == <<pc, job, file, output, doc, sent, conn, toHost, toAgent, offer, got, received, faults>>

Message == [kind : {"getWork", "getFile", "gotFile", "report", "work", "nothing", "chunk",
                    "start", "accept", "ack", "bad"},
            job : Jobs \cup {None}, no : Nat]

\* no is the number of sections in the report the message belongs to.
Msg(kind, j) == [kind |-> kind, job |-> j, no |-> Len(doc)]

Init == /\ pc = "idle" /\ job = None /\ file = <<>>
        /\ output = "unread" /\ doc = <<>> /\ sent = 0
        /\ conn = "none" /\ toHost = None /\ toAgent = None
        /\ offer = None /\ got = 0 /\ received = <<>>
        /\ faults = 0

Fault == faults < MaxFaults /\ faults' = faults + 1

-----------------------------------------------------------------------------
(* The network methods.  The first write to a connection the controller has *)
(* closed is lost without an error, a later one throws.                     *)

\* ConnectToHost retries until it has a connection; the request follows.
Connect(m, next) == /\ conn' = "open"
                    /\ toHost' = m /\ toAgent' = None
                    /\ pc' = next

Write(m, next) == /\ pc' = next
                  /\ \/ conn = "open" /\ toHost' = m
                     \/ conn = "closed" /\ UNCHANGED toHost
                  /\ UNCHANGED <<conn, toAgent>>

\* The exception reaches the finally clause, which closes the connection, and
\* then the catch clause of work, which sleeps and starts this part again.
Throw(next) == /\ pc' = next
               /\ conn' = "none" /\ toAgent' = None
               /\ UNCHANGED toHost

Read(kinds) == toAgent # None /\ toAgent.kind \in kinds

\* _recv_message does not give a message: the connection is reset, the answer
\* is read in part, or it is "" because the connection was closed, which is
\* deserialized to null.
NoMessage == toAgent = None /\ conn = "closed"
Unreadable == \/ conn = "reset" /\ UNCHANGED faults
              \/ toAgent # None /\ Fault

-----------------------------------------------------------------------------
(* AcquireWork. *)

RequestWork == /\ pc = "idle"
               /\ Connect(Msg("getWork", None), "asked")
               /\ UNCHANGED <<agentVars, hostVars, faults>>

\* Mutant of ReceiveWork: the local file is opened as it is.
ReceiveWorkAppending == /\ pc = "asked" /\ Read({"work"})
                        /\ job' = toAgent.job
                        /\ pc' = "fetching"
                        /\ \/ conn = "open" /\ toHost' = Msg("getFile", job')
                           \/ conn = "closed" /\ UNCHANGED toHost
                        /\ toAgent' = None
                        /\ UNCHANGED <<file, conn, output, doc, sent, hostVars, faults>>

\* A job: the local file is created, empty, and asked for.
ReceiveWork == /\ pc = "asked" /\ Read({"work"})
               /\ job' = toAgent.job
               /\ file' = <<>>
               /\ pc' = "fetching"
               /\ \/ conn = "open" /\ toHost' = Msg("getFile", job')
                  \/ conn = "closed" /\ UNCHANGED toHost
               /\ toAgent' = None
               /\ UNCHANGED <<conn, output, doc, sent, hostVars, faults>>

\* No job, or no valid answer: null is dereferenced, and throws as well.
NoWork == /\ pc = "asked"
          /\ Throw("idle")
          /\ \/ (Read({"nothing", "bad"}) \/ NoMessage) /\ UNCHANGED faults
             \/ Unreadable
          /\ UNCHANGED <<agentVars, hostVars>>

\* One round of __recvFile.  On a closed connection it reads 0 bytes, and goes
\* round again.
ReceiveChunk == /\ pc = "fetching" /\ Read({"chunk"})
                /\ Len(file) < FileLen
                /\ file' = Append(file, toAgent.job)
                /\ toAgent' = None
                /\ UNCHANGED <<pc, job, output, doc, sent, conn, toHost, hostVars, faults>>

\* An IOException: the partial file is deleted.
FetchThrows == /\ pc = "fetching" /\ Len(file) < FileLen /\ conn = "reset"
               /\ file' = <<>>
               /\ Throw("idle")
               /\ UNCHANGED <<job, output, doc, sent, hostVars, faults>>

FileComplete == /\ pc = "fetching" /\ Len(file) = FileLen
                /\ Write(Msg("gotFile", job), "waiting")
                /\ UNCHANGED <<agentVars, hostVars, faults>>

\* Mutant of Start: nothing but a start signal ends the wait for it.
StartSignalled == /\ pc = "waiting" /\ Read({"start"})
                  /\ pc' = "working"
                  /\ conn' = "none" /\ toAgent' = None
                  /\ UNCHANGED <<toHost, agentVars, hostVars, faults>>

\* The start signal.  The answer is not looked at: null will do.
Start == /\ pc = "waiting"
         /\ Read({"start"}) \/ NoMessage
         /\ pc' = "working"
         /\ conn' = "none" /\ toAgent' = None
         /\ UNCHANGED <<toHost, agentVars, hostVars, faults>>

StartThrows == /\ \/ pc = "waiting" /\ Unreadable
                  \/ /\ pc = "fetching" /\ Len(file) = FileLen
                     /\ conn # "open" /\ UNCHANGED faults
               /\ Throw("idle")
               /\ UNCHANGED <<agentVars, hostVars>>

-----------------------------------------------------------------------------
(* The job, PrepareReport and ReportWork. *)

EndJob == /\ pc = "working"
          /\ pc' = "preparing"
          /\ UNCHANGED <<agentVars, netVars, hostVars, faults>>

\* Mutant of Text: the output is there again for every attempt.
TextAgain == "output"

\* The injector's output can be read once.
Text == IF output = "unread" THEN "output" ELSE "empty"

PrepareReport == /\ pc = "preparing"
                 /\ pc' = "prepared"
                 /\ doc' = Append(doc, Text)
                 /\ output' = "read"
                 /\ UNCHANGED <<job, file, sent, netVars, hostVars, faults>>

\* An attempt that throws: what was added stays in doc.  A short one threw before it
\* came to the output.
AttemptThrows(text) == /\ pc = "preparing"
                       /\ doc' = Append(doc, text)
                       /\ output' = IF text = "short" THEN output ELSE "read"
                       /\ UNCHANGED <<pc, job, file, sent, netVars, hostVars>>

\* There is no network interface to describe, ExitCode throws because the injector,
\* whose output has ended, has not exited yet, or a later part of the report throws.
PrepareThrows == /\ Fault
                 /\ \E text \in {"short", "none", Text} : AttemptThrows(text)

SendReport == /\ pc = "prepared"
              /\ Connect(Msg("report", job), "offered")
              /\ sent' = 0
              /\ UNCHANGED <<job, file, output, doc, hostVars, faults>>

\* Mutant of SendFile: the report is sent before the controller has accepted it.
SendFileUnasked == /\ pc = "offered" \/ (pc = "sending" /\ sent < ReportLen)
                   /\ toHost = None \/ conn # "open"
                   /\ \/ conn = "open" /\ toHost' = Msg("chunk", job)
                      \/ conn = "closed" /\ UNCHANGED toHost
                   /\ pc' = "sending" /\ sent' = sent + 1
                   /\ UNCHANGED <<conn, toAgent, job, file, output, doc, hostVars, faults>>

\* The controller takes the report: __sendFile.
SendFile == /\ \/ /\ pc = "offered" /\ Read({"accept"})
                  /\ toAgent' = None
               \/ /\ pc = "sending" /\ sent < ReportLen
                  /\ UNCHANGED toAgent
            /\ toHost = None \/ conn # "open"
            /\ \/ conn = "open" /\ toHost' = Msg("chunk", job)
               \/ conn = "closed" /\ UNCHANGED toHost
            /\ pc' = "sending" /\ sent' = sent + 1
            /\ UNCHANGED <<conn, job, file, output, doc, hostVars, faults>>

\* Mutant of Done: the answer to the report is not waited for.
DoneUnanswered == /\ pc = "sending" /\ sent = ReportLen
                  /\ pc' = "done"
                  /\ conn' = "none" /\ toAgent' = None
                  /\ UNCHANGED <<toHost, agentVars, hostVars, faults>>

\* Mutant of Done: an accepted report is sent again.
DoneAgain == /\ pc = "sending" /\ sent = ReportLen
             /\ Read({"ack", "bad"})
             /\ pc' = "prepared"
             /\ conn' = "none" /\ toAgent' = None
             /\ UNCHANGED <<toHost, agentVars, hostVars, faults>>

\* WaitServerReportAck: isValid compares a constant with itself, so that any
\* answer that can be read is an ACK.
Done == /\ pc = "sending" /\ sent = ReportLen
        /\ Read({"ack", "bad"})
        /\ pc' = "done"
        /\ conn' = "none" /\ toAgent' = None
        /\ UNCHANGED <<toHost, agentVars, hostVars, faults>>

\* Mutant of ReportThrows: the job is given up and another one asked for.
ReportAbandoned == /\ \/ pc = "offered" /\ (Read({"bad"}) \/ NoMessage)
                      \/ pc = "sending" /\ (conn = "reset" \/ NoMessage)
                   /\ Throw("idle")
                   /\ UNCHANGED <<agentVars, hostVars, faults>>

\* The report is prepared and sent again.
ReportThrows == /\ \/ /\ pc = "offered"
                      /\ \/ (Read({"bad"}) \/ NoMessage) /\ UNCHANGED faults
                         \/ Unreadable
                   \/ /\ pc = "sending"
                      /\ \/ conn = "reset" /\ UNCHANGED faults
                         \/ NoMessage /\ UNCHANGED faults
                         \/ sent = ReportLen /\ Unreadable
                /\ Throw("preparing")
                /\ UNCHANGED <<agentVars, hostVars>>

-----------------------------------------------------------------------------
(* The controller, as the agent's code uses it, and the network. *)

Reply(m) == /\ toHost' = None
            /\ toAgent' = IF conn = "open" THEN m ELSE toAgent
            /\ UNCHANGED <<pc, conn, agentVars>>

Asked(kind) == toHost # None /\ toHost.kind = kind

\* The connection the answer would go to was closed by the agent: the data it
\* sent before may still be read.
HostGivesWork == /\ Asked("getWork")
                 /\ \/ \E j \in Jobs : Reply(Msg("work", j)) /\ offer' = j /\ UNCHANGED faults
                    \/ /\ Reply(Msg("nothing", None)) \/ Reply(Msg("bad", None))
                       /\ Fault
                       /\ UNCHANGED offer
                 /\ UNCHANGED <<got, received>>

HostSendsFile == /\ Asked("getFile")
                 /\ Reply(Msg("chunk", offer)) /\ got' = 1
                 /\ UNCHANGED <<offer, received, faults>>

HostSendsChunk == /\ pc = "fetching" /\ conn = "open" /\ toHost = None /\ toAgent = None
                  /\ got \in 1 .. FileLen - 1
                  /\ toAgent' = Msg("chunk", offer) /\ got' = got + 1
                  /\ UNCHANGED <<pc, conn, toHost, agentVars, offer, received, faults>>

HostStartsJob == /\ Asked("gotFile")
                 /\ Reply(Msg("start", offer)) /\ got' = 0
                 /\ UNCHANGED <<offer, received, faults>>

HostTakesReport == /\ Asked("report")
                   /\ got' = 0 /\ offer' = toHost.job
                   /\ \/ Reply(Msg("accept", None)) /\ UNCHANGED faults
                      \/ Reply(Msg("bad", None)) /\ Fault
                   /\ UNCHANGED received

\* The last chunk is answered, by an ACK or a NACK.
HostReceivesChunk ==
  /\ Asked("chunk")
  /\ got' = got + 1
  /\ IF got' = ReportLen
     THEN /\ received' = Append(received, [job |-> offer, no |-> toHost.no])
          /\ \/ Reply(Msg("ack", None)) /\ UNCHANGED faults
             \/ Reply(Msg("bad", None)) /\ Fault
     ELSE /\ toHost' = None
          /\ UNCHANGED <<received, toAgent, pc, conn, agentVars, faults>>
  /\ UNCHANGED offer

\* The connection ends.  An orderly end leaves what was sent readable.
Break == /\ conn = "open" /\ Fault
         /\ \/ conn' = "closed" /\ UNCHANGED <<toHost, toAgent>>
            \/ conn' = "reset" /\ toHost' \in {toHost, None} /\ toAgent' = None
         /\ UNCHANGED <<pc, agentVars, hostVars>>

-----------------------------------------------------------------------------
Acquire == \/ RequestWork \/ ReceiveWork \/ NoWork \/ ReceiveChunk \/ FetchThrows
           \/ FileComplete \/ Start \/ StartThrows

Report == \/ PrepareReport \/ SendReport \/ SendFile \/ Done \/ ReportThrows

Host == \/ HostGivesWork \/ HostSendsFile \/ HostSendsChunk \/ HostStartsJob
        \/ HostTakesReport \/ HostReceivesChunk

Next == Acquire \/ EndJob \/ Report \/ PrepareThrows \/ Host \/ Break

Spec == Init /\ [][Next]_vars

\* A thread that can run does; the job ends; the controller answers.
FairSpec == /\ Spec
            /\ WF_vars(Acquire \/ EndJob) /\ WF_vars(Report) /\ WF_vars(Host)

-----------------------------------------------------------------------------
(* Properties. *)

TypeOK ==
  /\ pc \in {"idle", "asked", "fetching", "waiting", "working", "preparing", "prepared",
             "offered", "sending", "done"}
  /\ job \in Jobs \cup {None} /\ offer \in Jobs \cup {None}
  /\ file \in Seq(Jobs) /\ Len(file) <= FileLen
  /\ output \in {"unread", "read"} /\ doc \in Seq({"output", "empty", "none", "short"})
  /\ sent \in 0 .. ReportLen /\ got \in Nat
  /\ conn \in {"none", "open", "closed", "reset"}
  /\ toHost \in Message \cup {None} /\ toAgent \in Message \cup {None}
  /\ received \in Seq([job : Jobs, no : Nat])
  /\ faults \in 0 .. MaxFaults

Seeking == pc \in {"idle", "asked", "fetching", "waiting"}

\* The answer to a request is the only message of its connection.
AskInv ==
  /\ Seeking /\ toHost # None => toHost.kind \in {"getWork", "getFile", "gotFile"}
  /\ pc = "asked" =>
    /\ toHost # None => toHost.kind = "getWork"
    /\ toAgent # None => /\ toHost = None
                         /\ toAgent.kind \in {"work", "nothing", "bad"}
                         /\ toAgent.kind = "work" => toAgent.job = offer /\ offer \in Jobs

FetchInv ==
  pc \in {"fetching", "waiting"} =>
    /\ job \in Jobs /\ offer = job
    /\ toHost # None => /\ toHost.kind \in {"getFile", "gotFile"}
                        /\ toHost.kind = "getFile" => file = <<>> /\ toAgent = None
    /\ toAgent # None /\ toAgent.kind = "chunk" => toAgent.job = job
    /\ \A i \in DOMAIN file : file[i] = job
    /\ pc = "waiting" => Len(file) = FileLen

Arrived == \E i \in DOMAIN received : received[i] = [job |-> job, no |-> Len(doc)]

\* A chunk left over from a broken exchange is of this job, too.
ReportInv ==
  ~Seeking =>
    /\ job \in Jobs /\ file = [i \in 1 .. FileLen |-> job]
    /\ toHost # None =>
         /\ toHost.kind \in {"gotFile", "report", "chunk"}
         /\ pc = "working" => toHost.kind = "gotFile"
         /\ toHost.kind = "chunk" => offer = job
         /\ toHost.kind = "report" => toHost.job = job
    /\ pc = "offered" => /\ sent = 0
                         /\ toHost # None => toHost.kind = "report"
                         /\ toAgent # None => toHost = None /\ offer = job /\ got = 0
    /\ pc = "sending" => /\ offer = job
                         /\ toHost # None => toHost.kind = "chunk" /\ toHost.no = Len(doc)
                         /\ got + (IF toHost = None THEN 0 ELSE 1) <= sent
                         /\ toAgent # None => got = ReportLen /\ Arrived
    /\ pc = "done" => toHost = None /\ Arrived

\* Each attempt that failed is a fault of its own, also if the controller got the whole
\* report, and a chunk left over from it may still complete that report.
RepeatInv ==
  /\ Seeking \/ pc = "working" => received = <<>>
  /\ pc \in {"preparing", "prepared"} =>
       Len(received) + (IF Asked("chunk") THEN 1 ELSE 0) <= faults
  /\ pc = "offered" =>
       Len(received) + (IF conn # "open" \/ Read({"bad"}) THEN 1 ELSE 0) <= faults
  /\ pc = "sending" =>
       Len(received) + (IF conn # "open" THEN 1 ELSE 0)
         <= faults + (IF got = ReportLen THEN 1 ELSE 0)
  /\ pc = "done" => Len(received) <= faults + 1

\* The section of the first attempt that came to the output.
Reader(i) == doc[i] # "short" /\ \A j \in 1 .. i - 1 : doc[j] = "short"

\* It has the output, and no other has it, or it was lost between being read and added.
OutputOnce == \E i \in DOMAIN doc :
                /\ Reader(i)
                /\ {j \in DOMAIN doc : doc[j] = "output"} = IF doc[i] = "none" THEN {} ELSE {i}

OutputInv ==
  /\ output = "unread" => \A i \in DOMAIN doc : doc[i] = "short"
  /\ output = "read" => OutputOnce
  /\ pc \in {"prepared", "offered", "sending", "done"} => output = "read"

XInv == TypeOK /\ AskInv /\ FetchInv /\ ReportInv /\ RepeatInv /\ OutputInv

ContractPhase == CASE Seeking -> "seeking"
                   [] pc \in {"working", "done"} -> pc
                   [] OTHER -> "reporting"

Contract == INSTANCE JobContract WITH
              phase <- ContractPhase,
              job <- IF Seeking THEN None ELSE job,
              received <- [j \in Jobs |-> Cardinality({i \in DOMAIN received :
                                                        received[i].job = j})]

\* The agent keeps the contract: one job, on its file, reported (LogicThread.cs:803).
ContractSpec == Contract!Spec

\* A job runs on its own file, complete, however many fetches broke before
\* (LogicThread.cs:258).
RunsItsFile == ~Seeking => file = [i \in 1 .. FileLen |-> job]

\* The agent stops when the controller has the report of the last attempt, not
\* only that of an earlier one (LogicThread.cs:899).
LastReportReceived ==
  pc = "done" => Arrived

\* The controller gets a report again only because something broke after it had it.
NoIdleRepeat == Len(received) <= 1 + faults

\* What the injector printed is in the report once, however often the report was
\* prepared, unless the attempt that read it broke before it was added: attempts that
\* broke earlier leave it to the next one (LogicThread.cs:1105).
OutputReported == pc = "done" => OutputOnce

\* With finitely many faults a job that was offered is run and reported, unless the
\* controller closes the connection in the middle of the file: __recvFile then reads
\* 0 bytes for ever (LogicThread.cs:92).
Delivered == pc = "fetching" ~> (pc = "done" \/ (pc = "fetching" /\ conn = "closed"))
=============================================================================
