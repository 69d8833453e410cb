-------------------------- MODULE HostExchangeProofs --------------------------
(***************************************************************************)
(* Proofs about HostExchange for any jobs, any lengths of the installer    *)
(* and of the report, and any number of faults: what runs is the file of   *)
(* the job, the agent stops with its last report received, and it keeps    *)
(* the contract of JobContract.                                            *)
(***************************************************************************)
EXTENDS HostExchange, FiniteSetTheorems, TLAPS

LEMMA InitInv == Init => XInv
  <1> SUFFICES ASSUME Init PROVE XInv
    OBVIOUS
  <1>1. TypeOK
    BY ExchangeAssumption DEF Init, TypeOK
  <1> QED  BY <1>1 DEF Init, XInv, AskInv, FetchInv, ReportInv, Seeking, RepeatInv, OutputInv

-----------------------------------------------------------------------------
(* Types. *)

LEMMA MsgFields ==
  ASSUME TypeOK, NEW kind, NEW j
  PROVE  /\ Msg(kind, j).kind = kind /\ Msg(kind, j).job = j
         /\ Msg(kind, j).no = Len(doc)
         /\ Len(doc) \in Nat
  BY DEF TypeOK, Msg

LEMMA MsgType ==
  ASSUME TypeOK, NEW kind \in {"getWork", "getFile", "gotFile", "report", "work", "nothing",
                               "chunk", "start", "accept", "ack", "bad"},
         NEW j \in Jobs \cup {None}
  PROVE  Msg(kind, j) \in Message
  BY DEF TypeOK, Msg, Message

LEMMA AppendType ==
  ASSUME NEW S, NEW s \in Seq(S), NEW e \in S PROVE Append(s, e) \in Seq(S)
  OBVIOUS

LEMMA AcquireType == XInv /\ Acquire => TypeOK'
  <1> SUFFICES ASSUME XInv, Acquire PROVE TypeOK'
    OBVIOUS
  <1> USE ExchangeAssumption, MsgType DEF XInv, TypeOK
  <1>1. CASE RequestWork
    BY <1>1 DEF RequestWork, Connect, agentVars, hostVars
  <1>2. CASE ReceiveWork
    <2>1. toAgent.job \in Jobs
      BY <1>2 DEF ReceiveWork, Read, AskInv
    <2>2. toHost' \in Message \cup {None}
      BY <1>2, <2>1 DEF ReceiveWork
    <2> QED  BY <1>2, <2>1, <2>2 DEF ReceiveWork, hostVars
  <1>3. CASE NoWork
    BY <1>3 DEF NoWork, Throw, Unreadable, Fault, agentVars, hostVars
  <1>4. CASE ReceiveChunk
    <2>1. toAgent.job \in Jobs
      BY <1>4 DEF ReceiveChunk, Read, FetchInv
    <2>2. file' \in Seq(Jobs) /\ Len(file') <= FileLen
      BY <1>4, <2>1 DEF ReceiveChunk
    <2> QED  BY <1>4, <2>2 DEF ReceiveChunk, hostVars
  <1>5. CASE FetchThrows
    BY <1>5 DEF FetchThrows, Throw, hostVars
  <1>6. CASE FileComplete
    BY <1>6 DEF FileComplete, Write, agentVars, hostVars
  <1>7. CASE Start
    BY <1>7 DEF Start, agentVars, hostVars
  <1>8. CASE StartThrows
    BY <1>8 DEF StartThrows, Throw, Unreadable, Fault, agentVars, hostVars
  <1> QED  BY <1>1, <1>2, <1>3, <1>4, <1>5, <1>6, <1>7, <1>8 DEF Acquire

LEMMA ReportType == XInv /\ (EndJob \/ Report \/ Break) => TypeOK'
  <1> SUFFICES ASSUME XInv, EndJob \/ Report \/ Break PROVE TypeOK'
    OBVIOUS
  <1> USE ExchangeAssumption, MsgType DEF XInv, TypeOK
  <1>1. CASE EndJob
    BY <1>1 DEF EndJob, agentVars, netVars, hostVars
  <1>2. CASE PrepareReport
    BY <1>2 DEF PrepareReport, Text, netVars, hostVars
  <1>4. CASE SendReport
    BY <1>4 DEF SendReport, Connect, hostVars
  <1>5. CASE SendFile
    <2>1. sent' \in 0 .. ReportLen
      BY <1>5 DEF SendFile, ReportInv, Seeking
    <2> QED  BY <1>5, <2>1 DEF SendFile, hostVars
  <1>6. CASE Done
    BY <1>6 DEF Done, agentVars, hostVars
  <1>7. CASE ReportThrows
    BY <1>7 DEF ReportThrows, Throw, Unreadable, Fault, agentVars, hostVars
  <1>8. CASE Break
    BY <1>8 DEF Break, Fault, agentVars, hostVars
  <1> QED  BY <1>1, <1>2, <1>4, <1>5, <1>6, <1>7, <1>8 DEF Report

LEMMA HostType == XInv /\ Host => TypeOK'
  <1> SUFFICES ASSUME XInv, Host PROVE TypeOK'
    OBVIOUS
  <1> USE ExchangeAssumption, MsgType DEF XInv, TypeOK
  <1>1. CASE HostGivesWork
    BY <1>1 DEF HostGivesWork, Asked, Reply, Fault, agentVars
  <1>2. CASE HostSendsFile
    BY <1>2 DEF HostSendsFile, Asked, Reply, agentVars
  <1>3. CASE HostSendsChunk
    BY <1>3 DEF HostSendsChunk, agentVars
  <1>4. CASE HostStartsJob
    BY <1>4 DEF HostStartsJob, Asked, Reply, agentVars
  <1>5. CASE HostTakesReport
    BY <1>5 DEF HostTakesReport, Asked, Reply, Fault, agentVars, Message
  <1>6. CASE HostReceivesChunk
    <2>0. toHost # None /\ toHost.kind = "chunk" /\ toHost \in Message
      BY <1>6 DEF HostReceivesChunk, Asked
    <2>1. offer \in Jobs /\ toHost.no \in Nat
      <3>1. ~Seeking
        BY <2>0 DEF AskInv
      <3>2. offer = job /\ job \in Jobs
        BY <2>0, <3>1 DEF ReportInv
      <3> QED  BY <2>0, <3>2 DEF Message
    <2>2. received' \in Seq([job : Jobs, no : Nat])
      <3>1. [job |-> offer, no |-> toHost.no] \in [job : Jobs, no : Nat]
        BY <2>1
      <3>2. \/ received' = Append(received, [job |-> offer, no |-> toHost.no])
            \/ received' = received
        BY <1>6 DEF HostReceivesChunk
      <3>3. received \in Seq([job : Jobs, no : Nat])
        BY DEF TypeOK
      <3> HIDE DEF TypeOK
      <3> QED  BY ONLY <3>1, <3>2, <3>3, AppendType
    <2>3. UNCHANGED <<pc, job, file, output, doc, sent, conn, offer>>
      BY <1>6 DEF HostReceivesChunk, Reply, agentVars
    <2>4. toHost' = None /\ got' \in Nat /\ faults' \in 0 .. MaxFaults
      BY <1>6 DEF HostReceivesChunk, Reply, Fault
    <2>5. toAgent' \in Message \cup {None}
      BY <1>6 DEF HostReceivesChunk, Reply
    <2> QED  BY <2>2, <2>3, <2>4, <2>5
  <1> QED  BY <1>1, <1>2, <1>3, <1>4, <1>5, <1>6 DEF Host

-----------------------------------------------------------------------------
(* What is known of the messages in each part of the exchange. *)

LEMMA AcquireInv == XInv /\ Acquire => AskInv' /\ FetchInv' /\ ReportInv'
  <1> SUFFICES ASSUME XInv, Acquire PROVE AskInv' /\ FetchInv' /\ ReportInv'
    OBVIOUS
  <1> USE ExchangeAssumption DEF XInv, AskInv, FetchInv, ReportInv, Seeking
  <1>1. CASE RequestWork
    BY <1>1, MsgFields DEF RequestWork, Connect, agentVars, hostVars
  <1>2. CASE ReceiveWork
    BY <1>2, MsgFields DEF ReceiveWork, Read, hostVars
  <1>3. CASE NoWork
    BY <1>3 DEF NoWork, Throw, agentVars, hostVars
  <1>4. CASE ReceiveChunk
    <2>0. /\ toAgent.job = job /\ job \in Jobs /\ file' = Append(file, job)
          /\ file \in Seq(Jobs) /\ \A i \in DOMAIN file : file[i] = job
      BY <1>4 DEF ReceiveChunk, Read, TypeOK
    <2>1. \A i \in DOMAIN file' : file'[i] = job
      BY <2>0
    <2>2. toAgent # None /\ toAgent' = None /\ pc = "fetching"
          /\ UNCHANGED <<pc, job, offer, toHost>>
      BY <1>4 DEF ReceiveChunk, Read, hostVars
    <2>3. toHost # None => toHost.kind = "gotFile"
      BY <2>2
    <2> QED  BY <2>1, <2>2, <2>3
  <1>5. CASE FetchThrows
    BY <1>5 DEF FetchThrows, Throw, hostVars
  <1>6. CASE FileComplete
    BY <1>6, MsgFields DEF FileComplete, Write, agentVars, hostVars, TypeOK
  <1>7. CASE Start
    <2>1. file = [i \in 1 .. FileLen |-> job] /\ file # <<>>
      BY <1>7 DEF Start, TypeOK
    <2> QED  BY <1>7, <2>1 DEF Start, agentVars, hostVars
  <1>8. CASE StartThrows
    BY <1>8 DEF StartThrows, Throw, agentVars, hostVars
  <1> QED  BY <1>1, <1>2, <1>3, <1>4, <1>5, <1>6, <1>7, <1>8 DEF Acquire

LEMMA ReportStepInv == XInv /\ (EndJob \/ Report \/ Break)
                         => AskInv' /\ FetchInv' /\ ReportInv'
  <1> SUFFICES ASSUME XInv, EndJob \/ Report \/ Break
               PROVE  AskInv' /\ FetchInv' /\ ReportInv'
    OBVIOUS
  <1> USE ExchangeAssumption DEF XInv, AskInv, FetchInv, ReportInv, Seeking
  <1>1. CASE EndJob
    BY <1>1 DEF EndJob, agentVars, netVars, hostVars
  <1>2. CASE PrepareReport
    BY <1>2 DEF PrepareReport, netVars, hostVars
  <1>4. CASE SendReport
    BY <1>4, MsgFields DEF SendReport, Connect, hostVars
  <1>5. CASE SendFile
    BY <1>5, MsgFields DEF SendFile, Read, hostVars, Arrived, TypeOK
  <1>6. CASE Done
    <2>1. toHost = None /\ Arrived
      BY <1>6 DEF Done, Read, TypeOK
    <2>2. Arrived'
      BY <1>6, <2>1 DEF Done, Arrived, agentVars, hostVars
    <2> QED  BY <1>6, <2>1, <2>2 DEF Done, agentVars, hostVars
  <1>7. CASE ReportThrows
    BY <1>7 DEF ReportThrows, Throw, agentVars, hostVars
  <1>8. CASE Break
    <2>1. /\ UNCHANGED <<pc, job, file, doc, sent, offer, got, received>>
          /\ toHost' \in {toHost, None} /\ toAgent' \in {toAgent, None}
          /\ toHost' = None => toAgent' = None \/ toHost = None
      BY <1>8 DEF Break, agentVars, hostVars
    <2>2. Arrived' = Arrived
      BY <2>1 DEF Arrived
    <2>3. AskInv' /\ FetchInv'
      BY <2>1
    <2>4. ReportInv'
      BY <2>1, <2>2 DEF TypeOK
    <2> QED  BY <2>3, <2>4
  <1> QED  BY <1>1, <1>2, <1>4, <1>5, <1>6, <1>7, <1>8 DEF Report

LEMMA HostInv == XInv /\ Host => AskInv' /\ FetchInv' /\ ReportInv'
  <1> SUFFICES ASSUME XInv, Host PROVE AskInv' /\ FetchInv' /\ ReportInv'
    OBVIOUS
  <1> USE ExchangeAssumption DEF XInv, AskInv, FetchInv, ReportInv, Seeking
  <1>1. CASE HostGivesWork
    BY <1>1, MsgFields DEF HostGivesWork, Asked, Reply, agentVars, TypeOK
  <1>2. CASE HostSendsFile
    BY <1>2, MsgFields DEF HostSendsFile, Asked, Reply, agentVars, TypeOK
  <1>3. CASE HostSendsChunk
    BY <1>3, MsgFields DEF HostSendsChunk, agentVars, TypeOK
  <1>4. CASE HostStartsJob
    BY <1>4, MsgFields DEF HostStartsJob, Asked, Reply, agentVars, TypeOK
  <1>5. CASE HostTakesReport
    BY <1>5, MsgFields DEF HostTakesReport, Asked, Reply, agentVars, TypeOK
  <1>6. CASE HostReceivesChunk
    <2>1. ~Seeking /\ pc \notin {"working", "offered", "done"} /\ offer = job
      BY <1>6 DEF HostReceivesChunk, Asked
    <2>2. /\ UNCHANGED <<pc, job, file, doc, sent, offer>>
          /\ toHost' = None /\ got' = got + 1
      BY <1>6 DEF HostReceivesChunk, Reply, agentVars
    <2>3. CASE pc = "sending"
      <3>1. toHost.no = Len(doc) /\ got + 1 <= sent /\ got \in Nat /\ sent \in 0 .. ReportLen
        BY <1>6, <2>3 DEF HostReceivesChunk, Asked, TypeOK
      <3>2. CASE got' = ReportLen
        <4>1. received' = Append(received, [job |-> job, no |-> Len(doc)])
          BY <1>6, <2>1, <3>1, <3>2 DEF HostReceivesChunk
        <4>2. Arrived'
          <5>1. received'[Len(received) + 1] = [job |-> job, no |-> Len(doc)]
                /\ Len(received) + 1 \in DOMAIN received'
            BY <4>1 DEF TypeOK
          <5> QED  BY <2>2, <5>1 DEF Arrived
        <4> QED  BY <2>1, <2>2, <2>3, <3>1, <3>2, <4>2
      <3>3. CASE got' # ReportLen
        <4>1. UNCHANGED <<received, toAgent>>
          BY <1>6, <3>3 DEF HostReceivesChunk
        <4>2. toAgent' = None
          BY <2>2, <2>3, <3>1, <4>1
        <4> QED  BY <2>1, <2>2, <2>3, <3>1, <4>2
      <3> QED  BY <3>2, <3>3
    <2>4. CASE pc # "sending"
      BY <2>1, <2>2, <2>4
    <2> QED  BY <2>3, <2>4
  <1> QED  BY <1>1, <1>2, <1>3, <1>4, <1>5, <1>6 DEF Host

-----------------------------------------------------------------------------
(* How often the controller gets the report, and what is in it. *)

LEMMA OnceFrame == doc' = doc => (OutputOnce' <=> OutputOnce)
  BY DEF OutputOnce, Reader

LEMMA AcquireRepeat == XInv /\ Acquire => RepeatInv' /\ OutputInv'
  <1> SUFFICES ASSUME XInv, Acquire PROVE RepeatInv' /\ OutputInv'
    OBVIOUS
  <1>1. Seeking /\ (Seeking' \/ pc' = "working")
    BY DEF Acquire, RequestWork, ReceiveWork, NoWork, ReceiveChunk, FetchThrows, FileComplete,
           Start, StartThrows, Connect, Write, Throw, Seeking
  <1>2. UNCHANGED <<doc, output, received>>
    BY DEF Acquire, RequestWork, ReceiveWork, NoWork, ReceiveChunk, FetchThrows, FileComplete,
           Start, StartThrows, agentVars, hostVars
  <1>3. pc' \notin {"preparing", "prepared", "offered", "sending", "done"}
    BY <1>1 DEF Seeking
  <1> QED  BY <1>1, <1>2, <1>3, OnceFrame DEF XInv, RepeatInv, OutputInv, Seeking

\* Whatever an attempt adds, the output is in one section, or lost.
LEMMA SectionAdded ==
  ASSUME doc \in Seq({"output", "empty", "none", "short"}), output \in {"read", "unread"},
         output = "unread" => \A i \in DOMAIN doc : doc[i] = "short",
         output = "read" => OutputOnce,
         NEW text \in {"short", "none", Text}, doc' = Append(doc, text),
         output' = IF text = "short" THEN output ELSE "read"
  PROVE  /\ output' = "unread" => \A i \in DOMAIN doc' : doc'[i] = "short"
         /\ output' = "read" => OutputOnce'
  <1>1. /\ DOMAIN doc' = 1 .. Len(doc) + 1 /\ doc'[Len(doc) + 1] = text
        /\ \A i \in DOMAIN doc : doc'[i] = doc[i]
        /\ DOMAIN doc = 1 .. Len(doc) /\ Len(doc) \in Nat
        /\ text \in {"short", "none", "output", "empty"}
    BY DEF Text
  <1>2. CASE output = "unread" /\ text = "short"
    BY <1>1, <1>2
  <1>3. CASE output = "unread" /\ text # "short"
    <2>0. PICK n \in Nat : n = Len(doc) + 1
      BY <1>1
    <2>1. Reader(n)'
      BY <1>1, <1>3, <2>0 DEF Reader
    <2>2. {j \in DOMAIN doc' : doc'[j] = "output"} = IF text = "none" THEN {} ELSE {n}
      BY <1>1, <1>3, <2>0 DEF Text
    <2> QED  BY <1>1, <1>3, <2>0, <2>1, <2>2 DEF OutputOnce
  <1>4. CASE output = "read"
    <2>1. PICK i \in DOMAIN doc : /\ Reader(i)
                                 /\ {j \in DOMAIN doc : doc[j] = "output"}
                                      = IF doc[i] = "none" THEN {} ELSE {i}
      BY <1>4 DEF OutputOnce
    <2>2. Reader(i)'
      BY <1>1, <2>1 DEF Reader
    <2>3. {j \in DOMAIN doc' : doc'[j] = "output"} = {j \in DOMAIN doc : doc[j] = "output"}
      BY <1>1, <1>4 DEF Text
    <2> QED  BY <1>1, <1>4, <2>1, <2>2, <2>3 DEF OutputOnce
  <1> QED  BY <1>2, <1>3, <1>4

LEMMA ReportRepeat == XInv /\ (EndJob \/ Report \/ Break) => RepeatInv' /\ OutputInv'
  <1> SUFFICES ASSUME XInv, EndJob \/ Report \/ Break PROVE RepeatInv' /\ OutputInv'
    OBVIOUS
  <1> USE ExchangeAssumption, OnceFrame DEF XInv, RepeatInv, OutputInv, Seeking, Asked, Read
  <1>0. Len(received) \in Nat /\ faults \in Nat
    BY DEF TypeOK
  <1>1. CASE EndJob
    BY <1>0, <1>1 DEF EndJob, agentVars, netVars, hostVars, ReportInv
  <1>2. CASE PrepareReport
    <2>1. /\ doc' = Append(doc, Text) /\ doc \in Seq({"output", "empty", "none", "short"})
          /\ output \in {"read", "unread"}
          /\ output' = "read" /\ Text # "short"
      BY <1>2 DEF PrepareReport, TypeOK, Text
    <2>2. OutputOnce'
      BY <2>1, SectionAdded
    <2>3. OutputInv'
      BY <2>1, <2>2
    <2> QED  BY <1>0, <1>2, <2>3 DEF PrepareReport, netVars, hostVars
  <1>4. CASE SendReport
    BY <1>0, <1>4 DEF SendReport, Connect, hostVars
  <1>5. CASE SendFile
    BY <1>0, <1>5 DEF SendFile, hostVars, ReportInv
  <1>6. CASE Done
    BY <1>0, <1>6 DEF Done, agentVars, hostVars
  <1>7. CASE ReportThrows
    <2>1. OutputInv'
      BY <1>7 DEF ReportThrows, Throw, agentVars
    <2>2. /\ pc \in {"offered", "sending"} /\ pc' = "preparing"
          /\ UNCHANGED <<received, toHost>>
      BY <1>7 DEF ReportThrows, Throw, agentVars, hostVars
    <2>3. Len(received) + (IF Asked("chunk") THEN 1 ELSE 0) <= faults'
      <3>1. CASE pc = "offered"
        <4>1. ~Asked("chunk")
          BY <3>1 DEF ReportInv
        <4>2. Len(received) <= faults /\ faults <= faults' /\ faults' \in Nat
          BY <1>0, <1>7, <3>1 DEF ReportThrows, Unreadable, Fault
        <4> HIDE DEF Asked
        <4> QED  BY <1>0, <4>1, <4>2
      <3>2. CASE pc = "sending"
        <4>1. got = ReportLen => ~Asked("chunk")
          BY <3>2 DEF ReportInv, TypeOK
        <4>2. \/ conn # "open" /\ faults' = faults
              \/ got = ReportLen /\ faults' = faults + 1
          BY <1>7, <3>2 DEF ReportThrows, NoMessage, Unreadable, Fault, ReportInv
        <4> QED  BY <1>0, <3>2, <4>1, <4>2
      <3> QED  BY <2>2, <3>1, <3>2
    <2> QED  BY <2>1, <2>2, <2>3
  <1>8. CASE Break
    BY <1>0, <1>8 DEF Break, Fault, agentVars, hostVars
  <1> QED  BY <1>1, <1>2, <1>4, <1>5, <1>6, <1>7, <1>8 DEF Report

LEMMA Budget ==
  ASSUME NEW n \in Nat, NEW broken \in Nat, NEW k \in Nat, NEW f \in Nat, NEW g \in Nat,
         n + broken <= f, f <= g
  PROVE  n + k + broken <= g + k
  OBVIOUS

LEMMA HostRepeat == XInv /\ Host => RepeatInv' /\ OutputInv'
  <1> SUFFICES ASSUME XInv, Host PROVE RepeatInv' /\ OutputInv'
    OBVIOUS
  <1> USE ExchangeAssumption DEF XInv
  <1>0. Len(received) \in Nat /\ faults \in Nat /\ got \in Nat
    BY DEF TypeOK
  <1>1. UNCHANGED <<pc, conn, doc, output>>
    BY DEF Host, HostGivesWork, HostSendsFile, HostSendsChunk, HostStartsJob, HostTakesReport,
           HostReceivesChunk, Reply, agentVars
  <1>2. OutputInv'
    BY <1>1, OnceFrame DEF OutputInv
  <1>3. CASE HostGivesWork \/ HostSendsFile \/ HostSendsChunk \/ HostStartsJob
    <2>1. UNCHANGED received /\ (toHost' = None) /\ faults <= faults' /\ faults' \in Nat
      BY <1>0, <1>3 DEF HostGivesWork, HostSendsFile, HostSendsChunk, HostStartsJob, Reply, Fault
    <2>2. pc \notin {"offered", "sending"}
      BY <1>3 DEF HostGivesWork, HostSendsFile, HostSendsChunk, HostStartsJob, Asked, ReportInv,
                  Seeking
    <2> QED  BY <1>0, <1>1, <1>2, <2>1, <2>2 DEF RepeatInv, Asked, Seeking
  <1>4. CASE HostTakesReport
    <2>1. /\ UNCHANGED received /\ toHost' = None /\ got' = 0
          /\ pc \notin {"sending", "done"}
      BY <1>4 DEF HostTakesReport, Asked, Reply, ReportInv, Seeking
    <2>2. /\ faults <= faults' /\ faults' \in Nat
          /\ pc = "offered" /\ Read({"bad"})' => faults' = faults + 1 \/ Read({"bad"})
      BY <1>0, <1>4, MsgFields DEF HostTakesReport, Reply, Fault, Read
    <2>3. pc = "offered" => toAgent = None
      BY <1>4 DEF HostTakesReport, Asked, ReportInv, Seeking
    <2>4. pc = "offered" /\ conn # "open" => toAgent' = None
      BY <1>4, <2>3 DEF HostTakesReport, Reply
    <2> QED  BY <1>0, <1>1, <1>2, <2>1, <2>2, <2>3, <2>4 DEF RepeatInv, Asked, Seeking, Read
  <1>5. CASE HostReceivesChunk
    <2>1. /\ toHost' = None /\ got' = got + 1 /\ Asked("chunk")
          /\ faults <= faults' /\ faults' \in Nat
      BY <1>0, <1>5 DEF HostReceivesChunk, Reply, Fault
    <2>2. /\ ~Seeking /\ pc \notin {"working", "offered", "done"}
          /\ pc = "sending" => got # ReportLen
      BY <1>0, <2>1 DEF AskInv, ReportInv, Asked, Seeking, TypeOK
    <2>3. Len(received') = Len(received) + IF got' = ReportLen THEN 1 ELSE 0
      <3>1. received \in Seq([job : Jobs, no : Nat])
        BY DEF TypeOK
      <3> QED  BY ONLY <1>5, <3>1 DEF HostReceivesChunk
    <2>4. pc \in {"preparing", "prepared"} => Len(received') <= faults'
      BY <1>0, <2>1, <2>3 DEF RepeatInv
    <2>5. pc = "sending" => Len(received') + (IF conn # "open" THEN 1 ELSE 0)
                              <= faults' + (IF got' = ReportLen THEN 1 ELSE 0)
      <3> SUFFICES ASSUME pc = "sending"
                   PROVE  Len(received') + (IF conn # "open" THEN 1 ELSE 0)
                            <= faults' + (IF got' = ReportLen THEN 1 ELSE 0)
        OBVIOUS
      <3>1. Len(received) + (IF conn # "open" THEN 1 ELSE 0) <= faults
        BY <1>0, <2>2 DEF RepeatInv
      <3> DEFINE n == Len(received)
                 c == IF conn # "open" THEN 1 ELSE 0
      <3>2. n \in Nat /\ c \in Nat /\ n + c <= faults
        BY <1>0, <3>1
      <3>3. Len(received') = n + IF got' = ReportLen THEN 1 ELSE 0
        BY <2>3
      <3>4. PICK k \in Nat : /\ k = IF got' = ReportLen THEN 1 ELSE 0
                             /\ Len(received') = n + k
        BY <3>3
      <3> HIDE DEF n, c
      <3>5. n + k + c <= faults' + k
        <4>1. /\ n \in Nat /\ c \in Nat /\ k \in Nat /\ faults \in Nat /\ faults' \in Nat
              /\ n + c <= faults /\ faults <= faults'
          BY ONLY <1>0, <2>1, <3>2, <3>4
        <4> QED  BY ONLY <4>1, Budget
      <3> QED  BY <3>4, <3>5 DEF c
    <2> QED  BY <1>0, <1>1, <1>2, <2>1, <2>2, <2>4, <2>5 DEF RepeatInv, Asked, Seeking
  <1> QED  BY <1>3, <1>4, <1>5 DEF Host

-----------------------------------------------------------------------------
(* An attempt that throws, whether or not a fault is to blame. *)

LEMMA AttemptInv ==
  ASSUME XInv, NEW text \in {"short", "none", Text}, AttemptThrows(text),
         faults' \in faults .. MaxFaults
  PROVE  XInv'
  <1> USE ExchangeAssumption DEF XInv, AttemptThrows, netVars, hostVars
  <1>0. /\ text \in {"short", "none", "output", "empty"} /\ faults \in Nat /\ faults' \in Nat
        /\ doc \in Seq({"output", "empty", "none", "short"})
        /\ output \in {"read", "unread"}
    BY DEF Text, TypeOK
  <1>1. TypeOK'
    BY <1>0 DEF TypeOK
  <1>2. AskInv' /\ FetchInv'
    BY DEF AskInv, FetchInv, Seeking
  <1>3. ReportInv'
    BY DEF ReportInv, Seeking
  <1>4. RepeatInv'
    BY <1>0 DEF RepeatInv, Seeking, Asked, TypeOK
  <1>5. OutputInv'
    <2>1. (output' = "unread" => \A i \in DOMAIN doc' : doc'[i] = "short")
          /\ (output' = "read" => OutputOnce')
      BY <1>0, SectionAdded DEF OutputInv
    <2> QED  BY <2>1 DEF OutputInv
  <1> QED  BY <1>1, <1>2, <1>3, <1>4, <1>5

LEMMA PrepareThrowsInv == XInv /\ PrepareThrows => XInv'
  <1> SUFFICES ASSUME XInv, PrepareThrows PROVE XInv'
    OBVIOUS
  <1>1. faults' \in faults .. MaxFaults
    BY ExchangeAssumption DEF PrepareThrows, Fault, XInv, TypeOK
  <1>2. PICK text \in {"short", "none", Text} : AttemptThrows(text)
    BY DEF PrepareThrows
  <1> QED  BY <1>1, <1>2, AttemptInv

-----------------------------------------------------------------------------
(* The theorems. *)

LEMMA ExchangeStep == XInv /\ [Next]_vars => XInv'
  <1>1. XInv /\ Next => XInv'
    BY AcquireType, ReportType, HostType, AcquireInv, ReportStepInv, HostInv, AcquireRepeat,
       ReportRepeat, HostRepeat, PrepareThrowsInv DEF Next, XInv
  <1>2. XInv /\ UNCHANGED vars => XInv'
    BY OnceFrame DEF vars, XInv, TypeOK, AskInv, FetchInv, ReportInv, RepeatInv, OutputInv, Seeking, Arrived,
           Asked, Read
  <1> QED  BY <1>1, <1>2

LEMMA ExchangeSafe == XInv => /\ RunsItsFile /\ LastReportReceived
                              /\ NoIdleRepeat /\ OutputReported
  <1> SUFFICES ASSUME XInv
               PROVE  RunsItsFile /\ LastReportReceived /\ NoIdleRepeat /\ OutputReported
    OBVIOUS
  <1>1. RunsItsFile
    BY DEF XInv, ReportInv, RunsItsFile
  <1>2. LastReportReceived
    BY DEF XInv, ReportInv, LastReportReceived, Seeking
  <1>3. NoIdleRepeat
    <2>1. /\ Len(received) \in Nat /\ faults \in Nat
          /\ received = <<>> => Len(received) = 0
          /\ pc \in {"idle", "asked", "fetching", "waiting", "working", "preparing", "prepared",
                     "offered", "sending", "done"}
      BY DEF XInv, TypeOK
    <2> QED  BY <2>1 DEF XInv, RepeatInv, NoIdleRepeat, Seeking
  <1>4. OutputReported
    BY DEF XInv, OutputInv, OutputReported
  <1> QED  BY <1>1, <1>2, <1>3, <1>4

\* In every reachable state the messages under way and the report received belong to
\* the step of the exchange the agent is in: AcquireWork and ReportWork
\* (LogicThread.cs:179-294) never act on the message of another step or job.
THEOREM ExchangeInvariant == Spec => []XInv
  BY InitInv, ExchangeStep, PTL DEF Spec

\* A job runs on its own file, complete, whatever broke before (LogicThread.cs:258).
THEOREM RunsItsFileTheorem == Spec => []RunsItsFile
  BY ExchangeSafe, ExchangeInvariant, PTL

\* When the agent stops the controller has the report of its last attempt
\* (LogicThread.cs:899).
THEOREM LastReportReceivedTheorem == Spec => []LastReportReceived
  BY ExchangeSafe, ExchangeInvariant, PTL

\* Each report beyond the first that the controller gets is paid for by a fault
\* (LogicThread.cs:206).
THEOREM NoIdleRepeatTheorem == Spec => []NoIdleRepeat
  BY ExchangeSafe, ExchangeInvariant, PTL

\* The report the agent ends with has the injector's output in one section, or in none if
\* the first attempt threw before it was added (LogicThread.cs:1105).
THEOREM OutputReportedTheorem == Spec => []OutputReported
  BY ExchangeSafe, ExchangeInvariant, PTL

-----------------------------------------------------------------------------
(* The exchange implements the contract. *)

ReportsOf(j, s) == {i \in DOMAIN s : s[i].job = j}

LEMMA ReportsFinite ==
  ASSUME NEW S, NEW s \in Seq(S), NEW j
  PROVE  IsFiniteSet(ReportsOf(j, s)) /\ Cardinality(ReportsOf(j, s)) \in Nat
  <1>1. IsFiniteSet(1 .. Len(s))
    BY FS_Interval
  <1>2. ReportsOf(j, s) \subseteq 1 .. Len(s)
    BY DEF ReportsOf
  <1> QED  BY <1>1, <1>2, FS_Subset, FS_CardinalityType

LEMMA ReportsAppend ==
  ASSUME NEW S, NEW s \in Seq(S), NEW e \in S, NEW j
  PROVE  Cardinality(ReportsOf(j, Append(s, e))) =
           Cardinality(ReportsOf(j, s)) + IF e.job = j THEN 1 ELSE 0
  <1>1. CASE e.job = j
    <2>1. ReportsOf(j, Append(s, e)) = ReportsOf(j, s) \cup {Len(s) + 1}
      BY <1>1 DEF ReportsOf
    <2>2. Len(s) + 1 \notin ReportsOf(j, s)
      BY DEF ReportsOf
    <2> QED  BY <1>1, <2>1, <2>2, ReportsFinite, FS_AddElement
  <1>2. CASE e.job # j
    <2>1. ReportsOf(j, Append(s, e)) = ReportsOf(j, s)
      BY <1>2 DEF ReportsOf
    <2> QED  BY <1>2, <2>1, ReportsFinite
  <1> QED  BY <1>1, <1>2

HasReport(s) == [j \in Jobs |-> Cardinality(ReportsOf(j, s))]

LEMMA CountAppend ==
  ASSUME NEW S, NEW s \in Seq(S), NEW e \in S, e.job \in Jobs
  PROVE  HasReport(Append(s, e)) = [HasReport(s) EXCEPT ![e.job] = @ + 1]
  <1>1. ASSUME NEW j \in Jobs
        PROVE  HasReport(Append(s, e))[j] = [HasReport(s) EXCEPT ![e.job] = @ + 1][j]
    <2>1. HasReport(Append(s, e))[j] = HasReport(s)[j] + IF e.job = j THEN 1 ELSE 0
      BY ReportsAppend DEF HasReport
    <2>2. HasReport(s)[j] \in Nat
      BY ReportsFinite DEF HasReport
    <2> QED  BY <2>1, <2>2 DEF HasReport
  <1> QED  BY <1>1 DEF HasReport

LEMMA ContractInit == Init => Contract!Init
  <1> SUFFICES ASSUME Init PROVE Contract!Init
    OBVIOUS
  <1>1. \A j \in Jobs : {i \in DOMAIN received : received[i].job = j} = {}
    BY DEF Init
  <1>2. ContractPhase = "seeking" /\ Seeking
    BY DEF Init, ContractPhase, Seeking
  <1> QED  BY <1>1, <1>2, FS_EmptySet DEF Contract!Init

LEMMA ContractStep == XInv /\ [Next]_vars => [Contract!Next]_(Contract!vars)
  <1> SUFFICES ASSUME XInv, [Next]_vars PROVE [Contract!Next]_(Contract!vars)
    OBVIOUS
  <1> DEFINE counts == [j \in Jobs |-> Cardinality({i \in DOMAIN received :
                                                       received[i].job = j})]
  <1>0. counts = HasReport(received)
    BY DEF HasReport, ReportsOf
  <1>1. CASE UNCHANGED <<pc, job, received>>
    BY <1>1 DEF Contract!vars, ContractPhase, Seeking
  <1>2. CASE /\ UNCHANGED received /\ Seeking /\ Seeking'
    BY <1>2 DEF Contract!vars, ContractPhase
  <1>3. CASE Start
    <2>1. job \in Jobs /\ job' = job /\ received' = received
          /\ pc = "waiting" /\ pc' = "working"
      BY <1>3 DEF Start, XInv, FetchInv, agentVars, hostVars
    <2> QED  BY <2>1 DEF Contract!Next, Contract!Take, ContractPhase, Seeking
  <1>4. CASE EndJob
    BY <1>4 DEF EndJob, agentVars, hostVars, Contract!Next, Contract!Finish,
                ContractPhase, Seeking
  <1>5. CASE /\ UNCHANGED <<job, received>>
             /\ {pc, pc'} \subseteq {"preparing", "prepared", "offered", "sending"}
    BY <1>5 DEF Contract!vars, ContractPhase, Seeking
  <1>6. CASE Done
    <2>1. /\ pc = "sending" /\ pc' = "done" /\ UNCHANGED <<job, received>>
          /\ Arrived /\ job \in Jobs
      BY <1>6 DEF Done, Read, agentVars, hostVars, XInv, ReportInv, Seeking
    <2>2. counts[job] > 0
      <3>1. ReportsOf(job, received) # {} /\ received \in Seq([job : Jobs, no : Nat])
        BY <2>1 DEF Arrived, ReportsOf, XInv, TypeOK
      <3>2. Cardinality(ReportsOf(job, received)) \in Nat \ {0}
        BY <3>1, ReportsFinite, FS_EmptySet
      <3> QED  BY <1>0, <2>1, <3>2 DEF HasReport
    <2> QED  BY <2>1, <2>2 DEF Contract!Next, Contract!Stop, ContractPhase, Seeking
  <1>7. CASE HostReceivesChunk /\ received' # received
    <2>1. /\ toHost # None /\ toHost.kind = "chunk" /\ toHost \in Message
          /\ UNCHANGED <<pc, job>>
          /\ received' = Append(received, [job |-> offer, no |-> toHost.no])
          /\ received \in Seq([job : Jobs, no : Nat])
      BY <1>7 DEF HostReceivesChunk, Asked, Reply, agentVars, XInv, TypeOK
    <2>2. ~Seeking
      BY <2>1 DEF XInv, AskInv
    <2>3. /\ pc \notin {"working", "done"} /\ offer = job /\ job \in Jobs
      BY <2>1, <2>2 DEF XInv, ReportInv
    <2>4. [job |-> job, no |-> toHost.no] \in [job : Jobs, no : Nat]
      BY <2>1, <2>3 DEF Message
    <2>5. counts' = [counts EXCEPT ![job] = @ + 1]
      <3>1. PICK e \in [job : Jobs, no : Nat] :
              e.job = job /\ received' = Append(received, e)
        BY <2>1, <2>3, <2>4
      <3>2. HasReport(Append(received, e)) = [HasReport(received) EXCEPT ![e.job] = @ + 1]
        <4> DEFINE R == [job : Jobs, no : Nat]
        <4>1. received \in Seq(R) /\ e \in R /\ e.job \in Jobs
          BY <2>1, <2>3, <3>1
        <4> HIDE DEF R
        <4> QED  BY ONLY <4>1, CountAppend
      <3>3. HasReport(received') = [HasReport(received) EXCEPT ![job] = @ + 1]
        BY <3>1, <3>2
      <3> QED  BY <3>3 DEF HasReport, ReportsOf
    <2> QED  BY <2>1, <2>2, <2>3, <2>5 DEF Contract!Next, Contract!Receive, ContractPhase,
                                          Seeking
  <1>8. CASE UNCHANGED vars
    BY <1>1, <1>8 DEF vars
  <1>9. CASE Acquire /\ ~Start
    BY <1>2, <1>9 DEF Acquire, RequestWork, ReceiveWork, NoWork, ReceiveChunk, FetchThrows,
          FileComplete, StartThrows, Connect, Write, Throw, agentVars, hostVars, Seeking
  <1>10. CASE (Report /\ ~Done) \/ PrepareThrows
    BY <1>5, <1>10 DEF Report, PrepareReport, SendReport, SendFile, ReportThrows, PrepareThrows, AttemptThrows,
          Connect, Throw, netVars, agentVars, hostVars
  <1>11. CASE Break \/ (Host /\ received' = received)
    <2>1. UNCHANGED <<pc, job, received>>
      BY <1>11 DEF Break, Host, HostGivesWork, HostSendsFile, HostSendsChunk, HostStartsJob,
            HostTakesReport, HostReceivesChunk, Reply, agentVars, hostVars
    <2> QED  BY <1>1, <2>1
  <1>12. CASE Host /\ received' # received
    BY <1>7, <1>12 DEF Host, HostGivesWork, HostSendsFile, HostSendsChunk, HostStartsJob,
            HostTakesReport
  <1> QED  BY <1>3, <1>4, <1>6, <1>8, <1>9, <1>10, <1>11, <1>12 DEF Next

\* LogicThread.work keeps the contract with the controller: one job, run once, on the
\* file it was sent for, and reported before the agent stops (LogicThread.cs:803-905).
THEOREM ContractTheorem == Spec => ContractSpec
  <1> QED  BY ContractInit, ContractStep, ExchangeInvariant, PTL
           DEF Spec, ContractSpec, Contract!Spec
=============================================================================
