--------------------------- MODULE FileHistoryProofs ---------------------------
(***************************************************************************)
(* Proofs about FileHistory for any files, threads, contents and bounds:   *)
(* HInv and FInv are inductive, the history of a file that was never       *)
(* changed behind the hooks' back starts with what the file was at the     *)
(* start, and the report is true of it.                                    *)
(***************************************************************************)
EXTENDS FileHistory, FiniteSetTheorems, TLAPS

LEMMA InitInv == Init => HInv
  <1> SUFFICES ASSUME Init PROVE HInv
    OBVIOUS
  <1> USE HistoryAssumption DEF Init
  <1>1. TypeOK
    BY DEF TypeOK
  <1>2. MapInv /\ EventInv
    BY DEF MapInv, EventInv, Known, Workers
  <1>3. EntryInv
    BY DEF EntryInv, Known
  <1>4. ThreadInv
    BY DEF ThreadInv, NoHandle
  <1>5. TaskInv
    BY DEF TaskInv, Inside, Workers
  <1> QED  BY <1>1, <1>2, <1>3, <1>4, <1>5 DEF HInv

LEMMA TasksApart ==
  ASSUME NEW f \in Tasks
  PROVE  f \in Nat \ {0} /\ f <= MaxEntries /\ f \notin Threads /\ f \in Workers
  BY HistoryAssumption DEF Tasks, Workers

LEMMA InfoType ==
  ASSUME NEW e \in FileInfo
  PROVE  /\ e.path \in Paths \cup {Relative} /\ e.info \in Seq(Record)
         /\ e.final \in BOOLEAN
         /\ [e EXCEPT !.final = TRUE] \in FileInfo
         /\ \A p \in Paths \cup {Relative} : [e EXCEPT !.path = p] \in FileInfo
         /\ \A x \in Seq(Record) : [e EXCEPT !.info = x] \in FileInfo
  BY DEF FileInfo

LEMMA ReplaceType ==
  ASSUME NEW S, NEW x \in Seq(S), NEW i \in DOMAIN x, NEW e \in S
  PROVE  /\ [x EXCEPT ![i] = e] \in Seq(S) /\ Len([x EXCEPT ![i] = e]) = Len(x)
         /\ DOMAIN [x EXCEPT ![i] = e] = DOMAIN x
  OBVIOUS

LEMMA NotifyOpenInv ==
  ASSUME HInv, NEW t \in Threads, NEW p \in Paths, NEW writes \in BOOLEAN, NEW name \in {p, Relative}, NotifyOpen(t, p, writes, name)
  PROVE  HInv'
  <1> USE HistoryAssumption DEF HInv, NotifyOpen, Begin, Spend, Send, diskVars, threadVars, agentVars, reportVars
  <1>0. /\ [path |-> p, writes |-> writes, name |-> name] \in Request
        /\ [old |-> None, new |-> name] \in Event
    BY DEF Request, Event
  <1>1. TypeOK'
    <2>1. /\ want' \in [Threads -> Request \cup {None}] /\ ev' \in [Threads -> Event \cup {None}]
          /\ disturbed' \subseteq Paths
      BY <1>0 DEF TypeOK, Unseen
    <2> QED  BY <2>1 DEF TypeOK, Workers
  <1>2. MapInv'
    BY DEF MapInv, TypeOK, Known, Workers
  <1>3. EventInv'
    <2>1. ASSUME NEW u \in Threads
          PROVE  \/ u = t /\ stage'[u] = "sent" /\ ev'[u] \in Event /\ ev'[u].old = None
                 \/ stage'[u] = stage[u] /\ ev'[u] = ev[u]
      BY <1>0 DEF TypeOK, Workers
    <2>2. \A q \in Paths : Unrecorded(q)' = Unrecorded(q)
      BY DEF Unrecorded
    <2>3. disturbed \subseteq disturbed' /\ UNCHANGED <<ref, fileMap>>
      OBVIOUS
    <2> HIDE DEF NotifyOpen
    <2> QED  BY <2>1, <2>2, <2>3 DEF EventInv
  <1>4. EntryInv'
    BY DEF EntryInv, TypeOK, Unrecorded, Known, Inside, Entry
  <1>5. ThreadInv'
    BY DEF ThreadInv, TypeOK, Unrecorded, Workers, Unseen, Request
  <1>6. TaskInv'
    BY DEF TaskInv, TypeOK, Workers, Tasks, Inside
  <1> QED  BY <1>1, <1>2, <1>3, <1>4, <1>5, <1>6

LEMMA CallOpenInv ==
  ASSUME HInv, NEW t \in Threads, CallOpen(t)
  PROVE  HInv'
  <1> USE HistoryAssumption DEF HInv, CallOpen, diskVars, threadVars, agentVars, reportVars
  <1>1. TypeOK'
    <2>1. want[t] \in Request
      BY DEF ThreadInv
    <2>2. /\ open' \in [Threads -> Handle \cup {NoHandle}]
          /\ hmap' \in [Threads -> Paths \cup {None, Relative}]
          /\ disk' \in [Paths -> Contents \cup {None}] /\ disturbed' \subseteq Paths
      <3>1. want[t].path \in Paths /\ want[t].name \in Paths \cup {Relative}
            /\ want[t].writes \in BOOLEAN
        BY <2>1 DEF Request
      <3>2. [path |-> want[t].path, writes |-> want[t].writes] \in Handle
        BY <3>1 DEF Handle
      <3>3. disk' \in [Paths -> Contents \cup {None}] /\ disturbed' \subseteq Paths
        <4>1. disk' \in [Paths -> Contents \cup {None}]
          <5>1. disk \in [Paths -> Contents \cup {None}]
            BY DEF TypeOK
          <5>2. disk' = disk \/ \E c \in Contents \cup {None} :
                                  disk' = [disk EXCEPT ![want[t].path] = c]
            BY <3>1, <5>1
          <5> QED  BY <3>1, <5>1, <5>2
        <4>2. disturbed' \subseteq Paths
          <5>1. TooLate(want[t].path) \cup Unseen(want[t].path) \subseteq Paths
            BY <3>1 DEF TooLate, Unseen
          <5>2. disturbed' \subseteq disturbed \cup TooLate(want[t].path) \cup Unseen(want[t].path)
            OBVIOUS
          <5>3. disturbed \subseteq Paths
            BY DEF TypeOK
          <5> QED  BY ONLY <5>1, <5>2, <5>3
        <4> QED  BY <4>1, <4>2
      <3>4. open' \in [Threads -> Handle \cup {NoHandle}]
        <4>1. open \in [Threads -> Handle \cup {NoHandle}]
          BY DEF TypeOK
        <4>2. open' = open \/ open' = [open EXCEPT ![t] = [path |-> want[t].path,
                                                         writes |-> want[t].writes]]
          OBVIOUS
        <4> QED  BY ONLY <3>2, <4>1, <4>2
      <3>5. hmap' \in [Threads -> Paths \cup {None, Relative}]
        BY <3>1 DEF TypeOK
      <3> QED  BY <3>3, <3>4, <3>5
    <2> QED  BY <2>1, <2>2 DEF TypeOK
  <1>2. MapInv'
    BY DEF MapInv, Known
  <1>3. EventInv'
    BY DEF EventInv, Unrecorded
  <1>4. EntryInv'
    <2>1. UNCHANGED <<orig, files, fileMap, stage, ref, seen>> /\ disturbed \subseteq disturbed'
      OBVIOUS
    <2>2. ASSUME NEW p \in Paths \ disturbed', Unrecorded(p) PROVE disk'[p] = disk[p]
      <3>1. CASE p # want[t].path
        BY <3>1 DEF TypeOK
      <3>2. CASE p = want[t].path /\ want[t].writes
        BY <2>1, <2>2, <3>2 DEF ThreadInv
      <3>3. CASE p = want[t].path /\ ~want[t].writes
        <4>1. p \in Unseen(p)
          BY <2>2 DEF Unseen
        <4> QED  BY <2>2, <3>3, <4>1 DEF TypeOK
      <3> QED  BY <3>1, <3>2, <3>3
    <2> QED  BY <2>1, <2>2 DEF EntryInv, Unrecorded, Known, Inside, Entry
  <1>5. ThreadInv'
    BY DEF ThreadInv, TypeOK, Unrecorded
  <1>6. TaskInv'
    BY DEF TaskInv, Inside
  <1> QED  BY <1>1, <1>2, <1>3, <1>4, <1>5, <1>6

LEMMA AdoptInv ==
  ASSUME HInv, NEW t \in Threads, NEW p \in Paths, Adopt(t, p)
  PROVE  HInv'
  <1> USE HistoryAssumption DEF HInv, Adopt, Begin, Spend, diskVars, threadVars, agentVars, reportVars
  <1>1. TypeOK'
    BY DEF TypeOK, Handle, Unseen
  <1>2. MapInv'
    BY DEF MapInv, Known
  <1>3. EventInv'
    BY DEF EventInv, Unrecorded
  <1>4. EntryInv'
    BY DEF EntryInv, Unrecorded, Known, Inside, Entry
  <1>5. ThreadInv'
    BY DEF ThreadInv, Unrecorded, Unseen
  <1>6. TaskInv'
    BY DEF TaskInv, Inside
  <1> QED  BY <1>1, <1>2, <1>3, <1>4, <1>5, <1>6

LEMMA WriteFileInv ==
  ASSUME HInv, NEW t \in Threads, NEW c \in Contents, WriteFile(t, c)
  PROVE  HInv'
  <1> USE HistoryAssumption DEF HInv, WriteFile, diskVars, threadVars, agentVars, reportVars
  <1>1. TypeOK'
    BY DEF TypeOK, Handle, NoHandle, TooLate
  <1>2. MapInv'
    BY DEF MapInv, Known
  <1>3. EventInv'
    BY DEF EventInv, Unrecorded
  <1>4. EntryInv'
    BY DEF EntryInv, Unrecorded, Known, Inside, Entry, ThreadInv
  <1>5. ThreadInv'
    BY DEF ThreadInv, Unrecorded
  <1>6. TaskInv'
    BY DEF TaskInv, Inside
  <1> QED  BY <1>1, <1>2, <1>3, <1>4, <1>5, <1>6

LEMMA MyNtCloseInv ==
  ASSUME HInv, NEW t \in Threads, MyNtClose(t)
  PROVE  HInv'
  <1> USE HistoryAssumption DEF HInv, MyNtClose, diskVars, threadVars, agentVars, reportVars
  <1>1. TypeOK'
    BY DEF TypeOK
  <1>2. MapInv'
    BY DEF MapInv, Known
  <1>3. EventInv'
    BY DEF EventInv, Unrecorded
  <1>4. EntryInv'
    BY DEF EntryInv, Unrecorded, Known, Inside, Entry
  <1>5. ThreadInv'
    BY DEF ThreadInv, Unrecorded, NoHandle
  <1>6. TaskInv'
    BY DEF TaskInv, Inside
  <1> QED  BY <1>1, <1>2, <1>3, <1>4, <1>5, <1>6

LEMMA DisposeInv ==
  ASSUME HInv, NEW t \in Threads, Dispose(t)
  PROVE  HInv'
  <1> USE HistoryAssumption DEF HInv, Dispose, diskVars, threadVars, agentVars, reportVars
  <1>1. TypeOK'
    BY DEF TypeOK, Handle, TooLate, Unseen
  <1>2. MapInv'
    BY DEF MapInv, Known
  <1>3. EventInv'
    BY DEF EventInv, Unrecorded
  <1>4. EntryInv'
    BY DEF EntryInv, Unrecorded, Known, Inside, Entry, Unseen
  <1>5. ThreadInv'
    BY DEF ThreadInv, Unrecorded, NoHandle
  <1>6. TaskInv'
    BY DEF TaskInv, Inside
  <1> QED  BY <1>1, <1>2, <1>3, <1>4, <1>5, <1>6

LEMMA MyNtDeleteFileInv ==
  ASSUME HInv, NEW t \in Threads, NEW p \in Paths, MyNtDeleteFile(t, p)
  PROVE  HInv'
  <1> USE HistoryAssumption DEF HInv, MyNtDeleteFile, Begin, Spend, Send, diskVars, threadVars, agentVars, reportVars
  <1>1. TypeOK'
    BY DEF TypeOK, Event, TooLate, Unseen
  <1>2. MapInv'
    BY DEF MapInv, Known
  <1>3. EventInv'
    BY DEF EventInv, TypeOK, Unrecorded, Event
  <1>4. EntryInv'
    BY DEF EntryInv, TypeOK, Unrecorded, Known, Inside, Entry, Unseen
  <1>5. ThreadInv'
    BY DEF ThreadInv, Unrecorded
  <1>6. TaskInv'
    BY DEF TaskInv, Tasks, Inside
  <1> QED  BY <1>1, <1>2, <1>3, <1>4, <1>5, <1>6

LEMMA MyNtSetInformationFileInv ==
  ASSUME HInv, NEW t \in Threads, NEW p \in Paths, MyNtSetInformationFile(t, p)
  PROVE  HInv'
  <1> USE HistoryAssumption DEF HInv, MyNtSetInformationFile, Begin, Spend, Send, diskVars, threadVars, agentVars, reportVars
  <1>1. TypeOK'
    <2>1. open[t] \in Handle
      BY DEF TypeOK
    <2>2. [old |-> hmap[t], new |-> p] \in Event /\ [open[t] EXCEPT !.path = p] \in Handle
      BY <2>1 DEF TypeOK, Event, Handle
    <2>3. disk' \in [Paths -> Contents \cup {None}] /\ disturbed' \subseteq Paths
      BY <2>1 DEF TypeOK, Handle
    <2>4. /\ open' \in [Threads -> Handle \cup {NoHandle}]
          /\ ev' \in [Threads -> Event \cup {None}]
      BY <2>2 DEF TypeOK
    <2> QED  BY <2>3, <2>4 DEF TypeOK, Workers
  <1>2. MapInv'
    BY DEF MapInv, Known
  <1>3. EventInv'
    BY DEF EventInv, TypeOK, Unrecorded, Event
  <1>4. EntryInv'
    BY DEF EntryInv, TypeOK, Unrecorded, Known, Inside, Entry
  <1>5. ThreadInv'
    BY DEF ThreadInv, Unrecorded
  <1>6. TaskInv'
    BY DEF TaskInv, Tasks, Inside
  <1> QED  BY <1>1, <1>2, <1>3, <1>4, <1>5, <1>6

LEMMA AcknowledgeInv ==
  ASSUME HInv, NEW t \in Threads, Acknowledge(t)
  PROVE  HInv'
  <1> USE HistoryAssumption DEF HInv, Acknowledge, Return, diskVars, threadVars, agentVars, reportVars
  <1>1. TypeOK'
    BY DEF TypeOK
  <1>2. MapInv'
    BY DEF MapInv, Known
  <1>3. EventInv'
    BY DEF EventInv, Workers, Unrecorded
  <1>4. EntryInv'
    BY DEF EntryInv, Unrecorded, Known, Inside, Entry
  <1>5. ThreadInv'
    BY DEF ThreadInv, TypeOK, Unrecorded, Request, EventInv
  <1>6. TaskInv'
    BY DEF TaskInv, Inside
  <1> QED  BY <1>1, <1>2, <1>3, <1>4, <1>5, <1>6

LEMMA GiveUpInv ==
  ASSUME HInv, NEW t \in Threads, GiveUp(t)
  PROVE  HInv'
  <1> USE HistoryAssumption DEF HInv, GiveUp, Return, Spend, diskVars, threadVars, agentVars, reportVars
  <1>1. TypeOK'
    BY DEF TypeOK
  <1>2. MapInv'
    BY DEF MapInv, Known
  <1>3. EventInv'
    BY DEF EventInv, TypeOK, Workers, Unrecorded
  <1>4. EntryInv'
    BY DEF EntryInv, Unrecorded, Known, Inside, Entry
  <1>5. ThreadInv'
    BY DEF ThreadInv, TypeOK, Unrecorded, Request
  <1>6. TaskInv'
    BY DEF TaskInv, Inside
  <1> QED  BY <1>1, <1>2, <1>3, <1>4, <1>5, <1>6

LEMMA LoseAckInv ==
  ASSUME HInv, NEW t \in Threads, LoseAck(t)
  PROVE  HInv'
  <1> USE HistoryAssumption DEF HInv, LoseAck, Spend, diskVars, threadVars, agentVars, reportVars
  <1>1. TypeOK'
    BY DEF TypeOK
  <1>2. MapInv'
    BY DEF MapInv, Known
  <1>3. EventInv'
    BY DEF EventInv, Unrecorded
  <1>4. EntryInv'
    BY DEF EntryInv, Unrecorded, Known, Inside, Entry
  <1>5. ThreadInv'
    BY DEF ThreadInv, Unrecorded
  <1>6. TaskInv'
    BY DEF TaskInv, Tasks, Inside
  <1> QED  BY <1>1, <1>2, <1>3, <1>4, <1>5, <1>6

LEMMA KillInv ==
  ASSUME HInv, NEW t \in Threads, Kill(t)
  PROVE  HInv'
  <1> USE HistoryAssumption DEF HInv, Kill, Spend, diskVars, threadVars, agentVars, reportVars
  <1>1. TypeOK'
    BY DEF TypeOK
  <1>2. MapInv'
    BY DEF MapInv, Known
  <1>3. EventInv'
    BY DEF EventInv, Unrecorded
  <1>4. EntryInv'
    BY DEF EntryInv, Unrecorded, Known, Inside, Entry
  <1>5. ThreadInv'
    BY DEF ThreadInv, TypeOK, Unrecorded, NoHandle
  <1>6. TaskInv'
    BY DEF TaskInv, Inside
  <1> QED  BY <1>1, <1>2, <1>3, <1>4, <1>5, <1>6

LEMMA NewEntryFacts ==
  ASSUME TypeOK, NEW p \in Paths \cup {Relative}, NewEntry(p)
  PROVE  /\ files' \in Seq(FileInfo)
         /\ Len(files') = Len(files) + 1 /\ Len(files) \in Nat
         /\ Len(files') <= MaxEntries
         /\ \A i \in DOMAIN files : i \in DOMAIN files' /\ files'[i] = files[i]
         /\ Len(files) + 1 \in DOMAIN files'
         /\ files'[Len(files) + 1] = [path |-> p, info |-> <<>>, final |-> FALSE]
  <1> DEFINE e == [path |-> p, info |-> <<>>, final |-> FALSE]
  <1>1. e \in FileInfo
    BY DEF FileInfo
  <1>2. files \in Seq(FileInfo) /\ files' = Append(files, e) /\ Len(files) < MaxEntries
    BY DEF TypeOK, NewEntry
  <1>3. MaxEntries \in Nat
    BY HistoryAssumption
  <1> HIDE DEF e
  <1>4. /\ files' \in Seq(FileInfo) /\ Len(files') = Len(files) + 1 /\ Len(files) \in Nat
        /\ \A i \in DOMAIN files : i \in DOMAIN files' /\ files'[i] = files[i]
        /\ Len(files) + 1 \in DOMAIN files' /\ files'[Len(files) + 1] = e
    BY <1>1, <1>2
  <1>5. Len(files') <= MaxEntries
    BY <1>2, <1>3, <1>4
  <1> QED  BY <1>4, <1>5 DEF e

\* A handler of the event that t sent gets to the entry of file p, which may be a new
\* one; the handler of a rename files it under q.
Placing(t, p, q, where) ==
  /\ stage[t] = "sent" /\ stage' = [stage EXCEPT ![t] = where]
  /\ UNCHANGED <<disk, orig, pos, want, open, hmap, ev, seen, phase, todo, disturbed>>
  /\ where = "placed" => ev[t].old = None /\ p = ev[t].new /\ q = p
  /\ where = "renaming" => ev[t].old # None /\ {p, q} \cap Paths \subseteq disturbed
  /\ \/ /\ Known(p) /\ files' = files
        /\ ref' = [ref EXCEPT ![t] = fileMap[p]]
        /\ fileMap' = [fileMap EXCEPT ![p] = 0, ![q] = fileMap[p]]
     \/ /\ ~Known(p) /\ NewEntry(p)
        /\ ref' = [ref EXCEPT ![t] = Len(files) + 1]
        /\ fileMap' = [fileMap EXCEPT ![p] = Len(files) + 1]

\* What it leaves alone: every entry, and the place of every undisturbed file but p.
Placed(n, t, p, q, where) ==
  /\ Len(files) \in Nat /\ Len(files') \in Nat /\ Len(files) <= Len(files')
  /\ \A i \in DOMAIN files : i \in DOMAIN files' /\ files'[i] = files[i]
  /\ \A i \in DOMAIN files' \ DOMAIN files :
       ~Known(p) /\ i = n /\ files'[i] = [path |-> p, info |-> <<>>, final |-> FALSE]
  /\ files' \in Seq(FileInfo)
  /\ Len(files') <= MaxEntries
  /\ n \in DOMAIN files' /\ n \in Nat \ {0} /\ ref' = [ref EXCEPT ![t] = n]
  /\ Known(p) <=> n \in DOMAIN files
  /\ \/ Known(p) /\ n = fileMap[p] /\ fileMap' = [fileMap EXCEPT ![p] = 0, ![q] = n]
     \/ ~Known(p) /\ n = Len(files) + 1 /\ fileMap' = [fileMap EXCEPT ![p] = n]
  /\ fileMap \in [Paths \cup {Relative} -> 0 .. Len(files)]
  /\ ref \in [Threads -> 0 .. Len(files)] /\ DOMAIN stage = Workers
  /\ DOMAIN files = 1 .. Len(files) /\ DOMAIN files' = 1 .. Len(files')
  /\ disturbed \subseteq Paths
  /\ \A r \in Paths \ disturbed :
       /\ r # p => fileMap'[r] = fileMap[r] /\ fileMap[r] # n
       /\ fileMap[r] # 0 => fileMap'[r] = fileMap[r]
       /\ r = p => where = "placed" /\ fileMap'[r] = n

LEMMA PlaceFacts ==
  ASSUME HInv, NEW t \in Threads, NEW p \in Paths \cup {Relative}, NEW q \in Paths \cup {Relative},
         NEW where \in {"placed", "renaming"}, Placing(t, p, q, where)
  PROVE  Placed(ref'[t], t, p, q, where)
  <1> USE HistoryAssumption DEF HInv, Placing
  <1> DEFINE n == ref'[t]
  <1>1. /\ Len(files) \in Nat /\ Len(files') \in Nat /\ Len(files) <= Len(files')
        /\ \A i \in DOMAIN files : i \in DOMAIN files' /\ files'[i] = files[i]
        /\ \A i \in DOMAIN files' \ DOMAIN files :
             ~Known(p) /\ i = n /\ files'[i] = [path |-> p, info |-> <<>>, final |-> FALSE]
        /\ files' \in Seq(FileInfo)
        /\ Len(files') <= MaxEntries
    <2>1. CASE NewEntry(p) /\ ~Known(p) /\ n = Len(files) + 1
      <3>1. /\ files' \in Seq(FileInfo)
            /\ Len(files') = Len(files) + 1 /\ Len(files) \in Nat
            /\ Len(files') <= MaxEntries
            /\ \A i \in DOMAIN files : i \in DOMAIN files' /\ files'[i] = files[i]
            /\ files'[Len(files) + 1] = [path |-> p, info |-> <<>>, final |-> FALSE]
        <4> HIDE DEF HInv
        <4>1. TypeOK
          BY DEF HInv
        <4> QED  BY ONLY <4>1, <2>1, NewEntryFacts, p \in Paths \cup {Relative}
      <3>2. DOMAIN files = 1 .. Len(files) /\ DOMAIN files' = 1 .. Len(files')
        BY <3>1 DEF TypeOK
      <3> QED  BY ONLY <2>1, <3>1, <3>2
    <2>2. CASE files' = files
      BY <2>2 DEF TypeOK
    <2> QED  BY <2>1, <2>2 DEF TypeOK
  <1>2. /\ n \in DOMAIN files' /\ n \in Nat \ {0} /\ ref' = [ref EXCEPT ![t] = n]
        /\ Known(p) <=> n \in DOMAIN files
    <2>1. ref \in [Threads -> 0 .. Len(files)] /\ DOMAIN files = 1 .. Len(files)
          /\ Len(files) \in Nat /\ fileMap \in [Paths \cup {Relative} -> 0 .. Len(files)]
      BY DEF TypeOK
    <2>2. CASE Known(p)
      BY <1>1, <2>1, <2>2 DEF Known
    <2>3. CASE ~Known(p)
      <3>1. n = Len(files) + 1 /\ ref' = [ref EXCEPT ![t] = n] /\ NewEntry(p)
        BY <2>1, <2>3
      <3>2. n \in DOMAIN files'
        <4> HIDE DEF n, HInv
        <4>1. TypeOK
          BY DEF HInv
        <4> QED  BY ONLY <3>1, <4>1, NewEntryFacts, p \in Paths \cup {Relative}
      <3> QED  BY <2>1, <2>3, <3>1, <3>2
    <2> QED  BY <2>2, <2>3
  <1>3. \/ Known(p) /\ n = fileMap[p] /\ fileMap' = [fileMap EXCEPT ![p] = 0, ![q] = n]
        \/ ~Known(p) /\ n = Len(files) + 1 /\ fileMap' = [fileMap EXCEPT ![p] = n]
    BY DEF TypeOK
  <1>4. /\ fileMap \in [Paths \cup {Relative} -> 0 .. Len(files)]
        /\ ref \in [Threads -> 0 .. Len(files)] /\ DOMAIN stage = Workers
        /\ DOMAIN files = 1 .. Len(files) /\ DOMAIN files' = 1 .. Len(files')
        /\ disturbed \subseteq Paths
    <2>1. DOMAIN files' = 1 .. Len(files')
      BY <1>1
    <2> QED  BY <2>1 DEF TypeOK
  <1>5. \A r \in Paths \ disturbed :
          /\ r # p => fileMap'[r] = fileMap[r] /\ fileMap[r] # n
          /\ fileMap[r] # 0 => fileMap'[r] = fileMap[r]
          /\ r = p => where = "placed" /\ fileMap'[r] = n
    <2> SUFFICES ASSUME NEW r \in Paths \ disturbed
                 PROVE  /\ r # p => fileMap'[r] = fileMap[r] /\ fileMap[r] # n
                        /\ fileMap[r] # 0 => fileMap'[r] = fileMap[r]
                        /\ r = p => where = "placed" /\ fileMap'[r] = n
      OBVIOUS
    <2>1. r = p => where = "placed" /\ fileMap'[r] = n
      BY <1>3, <1>4
    <2>2. r # p => r # q
      OBVIOUS
    <2>3. r # p => fileMap'[r] = fileMap[r]
      BY <1>3, <1>4, <2>2
    <2>4. r # p => fileMap[r] # n
      BY <1>2, <1>3, <1>4 DEF MapInv, Known
    <2>5. r = p /\ fileMap[r] # 0 => fileMap'[r] = fileMap[r]
      BY <1>3, <2>1 DEF Known
    <2> QED  BY <2>1, <2>3, <2>4, <2>5
  <1> QED  BY <1>1, <1>2, <1>3, <1>4, <1>5 DEF Placed

LEMMA PlaceInv ==
  ASSUME HInv, NEW t \in Threads, NEW p \in Paths \cup {Relative}, NEW q \in Paths \cup {Relative},
         NEW where \in {"placed", "renaming"}, Placing(t, p, q, where)
  PROVE  HInv'
  <1> DEFINE n == ref'[t]
  <1>0. Placed(n, t, p, q, where)
    BY PlaceFacts
  <1> USE HistoryAssumption DEF HInv, Placing
  <1> HIDE DEF Placed
  <1>1. /\ Len(files) \in Nat /\ Len(files') \in Nat /\ Len(files) <= Len(files')
        /\ \A i \in DOMAIN files : i \in DOMAIN files' /\ files'[i] = files[i]
        /\ \A i \in DOMAIN files' \ DOMAIN files :
             ~Known(p) /\ i = n /\ files'[i] = [path |-> p, info |-> <<>>, final |-> FALSE]
        /\ files' \in Seq(FileInfo)
        /\ Len(files') <= MaxEntries
    BY <1>0 DEF Placed
  <1>2. /\ n \in DOMAIN files' /\ n \in Nat \ {0} /\ ref' = [ref EXCEPT ![t] = n]
        /\ Known(p) <=> n \in DOMAIN files
    BY <1>0 DEF Placed
  <1>3. \/ Known(p) /\ n = fileMap[p] /\ fileMap' = [fileMap EXCEPT ![p] = 0, ![q] = n]
        \/ ~Known(p) /\ n = Len(files) + 1 /\ fileMap' = [fileMap EXCEPT ![p] = n]
    BY <1>0 DEF Placed
  <1>4. /\ fileMap \in [Paths \cup {Relative} -> 0 .. Len(files)]
        /\ ref \in [Threads -> 0 .. Len(files)] /\ DOMAIN stage = Workers
        /\ DOMAIN files = 1 .. Len(files) /\ DOMAIN files' = 1 .. Len(files')
        /\ disturbed \subseteq Paths
    BY <1>0 DEF Placed
  <1>5. \A r \in Paths \ disturbed :
          /\ r # p => fileMap'[r] = fileMap[r] /\ fileMap[r] # n
          /\ fileMap[r] # 0 => fileMap'[r] = fileMap[r]
          /\ r = p => where = "placed" /\ fileMap'[r] = n
    BY <1>0 DEF Placed
  <1>6. \A r \in Paths \ disturbed : Unrecorded(r)' = Unrecorded(r)
    BY <1>1, <1>2, <1>3, <1>4, <1>5 DEF Unrecorded, Known
  <1>11. TypeOK'
    <2>1. fileMap' \in [Paths \cup {Relative} -> 0 .. Len(files')]
      <3>1. n \in 0 .. Len(files') /\ 0 \in 0 .. Len(files')
        BY <1>1, <1>2, <1>4
      <3>2. \A x \in Paths \cup {Relative} : fileMap[x] \in 0 .. Len(files')
        BY <1>1, <1>4
      <3> QED  BY <1>3, <1>4, <3>1, <3>2
    <2>2. ref' \in [Threads -> 0 .. Len(files')]
      BY <1>1, <1>2, <1>4
    <2> QED  BY <1>1, <2>1, <2>2 DEF TypeOK, Workers, Tasks
  <1>12. MapInv'
    <2>1. \A x, y \in Paths \cup {Relative} :
            fileMap'[x] # 0 /\ fileMap'[x] = fileMap'[y] => x = y
      <3>1. \A x, y \in Paths \cup {Relative} :
              fileMap[x] # 0 /\ fileMap[x] = fileMap[y] => x = y
        BY <1>4 DEF MapInv, Known
      <3>2. CASE Known(p)
        BY <1>3, <1>4, <3>1, <3>2 DEF Known
      <3>3. CASE ~Known(p)
        BY <1>1, <1>3, <1>4, <3>1, <3>3 DEF Known
      <3> QED  BY <3>2, <3>3
    <2>2. \A u \in Threads : stage'[u] = "renaming" =>
            \A r \in Paths \ disturbed : fileMap'[r] # ref'[u]
      BY <1>1, <1>2, <1>3, <1>4, <1>5 DEF MapInv, Workers
    <2> QED  BY <1>4, <1>3, <2>1, <2>2 DEF MapInv, Known
  <1>13. EventInv'
    BY <1>2, <1>4, <1>5, <1>6 DEF EventInv, Workers, Event, Unrecorded
  <1>14. EntryInv'
    <2> SUFFICES ASSUME NEW r \in Paths \ disturbed
                 PROVE  /\ Unrecorded(r)' => disk[r] = orig[r]
                        /\ Known(r)' =>
                             /\ files'[fileMap'[r]].path = r
                             /\ files'[fileMap'[r]].info # <<>> =>
                                  files'[fileMap'[r]].info[1].body = orig[r]
                             /\ \A w \in Workers : Inside(w)' /\ Entry(w)' = fileMap'[r] =>
                                  /\ seen[w].path = r
                                  /\ stage'[w] = "looked" /\ files'[fileMap'[r]].info = <<>> =>
                                       seen[w].body = orig[r]
      BY DEF EntryInv
    <2>1. Unrecorded(r)' => disk[r] = orig[r]
      BY <1>6 DEF EntryInv
    <2>2. \A w \in Workers : Inside(w)' => Inside(w) /\ Entry(w)' = Entry(w)
                                           /\ Entry(w) <= Len(files)
      BY <1>4 DEF Inside, Entry, TaskInv, Workers, Tasks
    <2>3. CASE fileMap[r] # 0
      BY <1>1, <1>4, <1>5, <2>1, <2>2, <2>3 DEF EntryInv, Known, Inside
    <2>4. CASE fileMap[r] = 0 /\ fileMap'[r] # 0
      <3>1. r = p /\ n = Len(files) + 1 /\ fileMap'[r] = n /\ ~Known(p)
        BY <1>3, <1>5, <2>4 DEF Known
      <3>2. files'[n] = [path |-> p, info |-> <<>>, final |-> FALSE]
        BY <1>1, <1>2, <3>1
      <3>3. \A w \in Workers : Inside(w)' => Entry(w)' # n
        BY <1>1, <2>2, <3>1 DEF Entry, TypeOK
      <3> QED  BY <2>1, <3>1, <3>2, <3>3
    <2> QED  BY <2>1, <2>3, <2>4 DEF Known
  <1>15. ThreadInv'
    BY <1>4, <1>6 DEF ThreadInv, Workers, TypeOK, Handle, Request, NoHandle
  <1>16. TaskInv'
    <2>1. \A w \in Workers : Inside(w)' => Inside(w)
      BY <1>4 DEF Inside
    <2>2. \A w \in Workers : /\ Inside(w)' => seen[w] \in Record
                             /\ stage'[w] = "found" => seen[w].path \in Paths
      BY <1>4, <2>1 DEF TaskInv, Inside
    <2>3. \A u \in Threads : stage'[u] # "frozen"
      BY <1>4 DEF TaskInv, Workers
    <2>4. \A f \in Tasks : stage'[f] = stage[f]
      BY <1>4 DEF Workers, Tasks
    <2>5. \A f \in Tasks :
            /\ stage'[f] \notin {"sent", "renaming"}
            /\ stage'[f] # "idle" => f <= Len(files')
            /\ stage'[f] \in {"handled", "frozen"} => files'[f].info # <<>>
      <3> SUFFICES ASSUME NEW f \in Tasks
                   PROVE  /\ stage[f] \notin {"sent", "renaming"}
                          /\ stage[f] # "idle" => f <= Len(files')
                          /\ stage[f] \in {"handled", "frozen"} => files'[f].info # <<>>
        BY <2>4
      <3>1. f \in Nat \ {0} /\ f \in 1 .. MaxEntries
        BY DEF Tasks
      <3> QED  BY <1>1, <1>4, <3>1 DEF TaskInv
    <2>6. \A f \in DOMAIN files' : files'[f].final => files'[f].info # <<>>
      BY <1>1 DEF TaskInv
    <2>7. todo' \subseteq DOMAIN files'
      BY <1>1 DEF TaskInv
    <2> QED  BY <2>2, <2>3, <2>5, <2>6, <2>7 DEF TaskInv
  <1> QED  BY <1>11, <1>12, <1>13, <1>14, <1>15, <1>16

LEMMA AccessPlacing ==
  ASSUME HInv, NEW t \in Threads, NotifyFileAccess(t), ev[t].new # Relative
  PROVE  ev[t].new \in Paths \cup {Relative} /\ Placing(t, ev[t].new, ev[t].new, "placed")
  <1> DEFINE p == ev[t].new
  <1>1. /\ stage[t] = "sent" /\ ev[t].old = None /\ ev[t] \in Event
        /\ UNCHANGED <<disk, orig, pos, want, open, hmap, ev, seen, phase, todo, disturbed>>
    BY DEF NotifyFileAccess, Receive, diskVars, threadVars, EventInv, HInv
  <1>2. p \in Paths \cup {Relative}
    BY <1>1 DEF Event
  <1>3. stage' = [stage EXCEPT ![t] = "placed"]
    BY DEF NotifyFileAccess
  <1>4. \/ /\ Known(p) /\ files' = files
           /\ ref' = [ref EXCEPT ![t] = fileMap[p]] /\ fileMap' = fileMap
        \/ /\ ~Known(p) /\ NewEntry(p)
           /\ ref' = [ref EXCEPT ![t] = Len(files) + 1]
           /\ fileMap' = [fileMap EXCEPT ![p] = Len(files) + 1]
    BY DEF NotifyFileAccess, agentVars
  <1>5. fileMap = [fileMap EXCEPT ![p] = 0, ![p] = fileMap[p]]
    BY <1>2 DEF HInv, TypeOK
  <1> QED  BY <1>1, <1>2, <1>3, <1>4, <1>5 DEF Placing

LEMMA RenamePlacing ==
  ASSUME HInv, NEW t \in Threads, NotifyFileRename(t)
  PROVE  /\ {ev[t].old, ev[t].new} \subseteq Paths \cup {Relative}
         /\ Placing(t, ev[t].old, ev[t].new, "renaming")
  <1>1. /\ stage[t] = "sent" /\ ev[t].old # None /\ ev[t] \in Event
        /\ UNCHANGED <<disk, orig, pos, want, open, hmap, ev, seen, phase, todo, disturbed>>
        /\ stage' = [stage EXCEPT ![t] = "renaming"]
    BY DEF NotifyFileRename, Receive, diskVars, threadVars, EventInv, HInv
  <1>2. /\ {ev[t].old, ev[t].new} \subseteq Paths \cup {Relative}
        /\ {ev[t].old, ev[t].new} \cap Paths \subseteq disturbed
    BY <1>1 DEF Event, EventInv, HInv
  <1> QED  BY <1>1, <1>2 DEF Placing, NotifyFileRename

LEMMA NotifyFileAccessInv ==
  ASSUME HInv, NEW t \in Threads, NotifyFileAccess(t)
  PROVE  HInv'
  <1> USE HistoryAssumption DEF HInv
  <1>0. /\ stage[t] = "sent" /\ ev[t].old = None /\ ev[t] \in Event
        /\ UNCHANGED <<disk, orig, pos, want, open, hmap, ev, seen, phase, todo, disturbed>>
    BY DEF NotifyFileAccess, Receive, diskVars, threadVars, EventInv
  <1>1. CASE ev[t].new = Relative
    <2>1. stage' = [stage EXCEPT ![t] = "handled"] /\ UNCHANGED <<files, fileMap, ref>>
      BY <1>1 DEF NotifyFileAccess, agentVars
    <2> USE <1>0, <1>1, <2>1
    <2>2. TypeOK'
      BY DEF TypeOK, Workers, Tasks
    <2>3. MapInv'
      BY DEF MapInv, TypeOK, Workers, Known
    <2>4. EventInv'
      <3>1. \A u \in Threads : stage'[u] = IF u = t THEN "handled" ELSE stage[u]
        BY DEF TypeOK, Workers
      <3>2. Relative \notin Paths
        BY DEF Values
      <3> QED  BY <3>1, <3>2 DEF EventInv, Unrecorded
    <2>5. EntryInv'
      BY DEF EntryInv, TypeOK, Workers, Known, Unrecorded, Inside, Entry
    <2>6. ThreadInv'
      BY DEF ThreadInv, TypeOK, Workers, Unrecorded
    <2>7. TaskInv'
      BY DEF TaskInv, TypeOK, Workers, Tasks, Inside
    <2> QED  BY <2>2, <2>3, <2>4, <2>5, <2>6, <2>7
  <1>2. CASE ev[t].new # Relative
    BY <1>2, AccessPlacing, PlaceInv
  <1> QED  BY <1>1, <1>2

LEMMA NotifyFileRenameInv ==
  ASSUME HInv, NEW t \in Threads, NotifyFileRename(t)
  PROVE  HInv'
  BY RenamePlacing, PlaceInv

LEMMA NotifyRenamedToInv ==
  ASSUME HInv, NEW t \in Threads, NotifyRenamedTo(t)
  PROVE  HInv'
  <1> USE HistoryAssumption DEF HInv, NotifyRenamedTo, diskVars, threadVars, agentVars, reportVars
  <1>1. TypeOK'
    <2>1. ev[t].new \in Paths \cup {Relative} /\ ref[t] \in DOMAIN files
      BY DEF EventInv, Event, TypeOK
    <2>2. [files[ref[t]] EXCEPT !.path = ev[t].new] \in FileInfo
      <3>1. files[ref[t]] \in FileInfo
        BY <2>1 DEF TypeOK
      <3> QED  BY <2>1, <3>1, InfoType
    <2>3. files' \in Seq(FileInfo) /\ Len(files') = Len(files)
      BY <2>1, <2>2, ReplaceType DEF TypeOK
    <2> QED  BY <2>3 DEF TypeOK, Workers, Tasks
  <1>2. MapInv'
    BY DEF MapInv, Known
  <1>3. EventInv'
    BY DEF EventInv, Unrecorded
  <1>4. EntryInv'
    BY DEF EntryInv, Unrecorded, Known, Inside, Entry, MapInv
  <1>5. ThreadInv'
    BY DEF ThreadInv, Unrecorded
  <1>6. TaskInv'
    BY DEF TaskInv, Inside
  <1> QED  BY <1>1, <1>2, <1>3, <1>4, <1>5, <1>6

LEMMA AppendFirst ==
  ASSUME NEW S, NEW x \in Seq(S), NEW e \in S
  PROVE  /\ Append(x, e) \in Seq(S) /\ Append(x, e) # <<>>
         /\ Append(x, e)[1] = IF x = <<>> THEN e ELSE x[1]
  <1>1. Len(x) \in Nat /\ (x = <<>> <=> Len(x) = 0)
    OBVIOUS
  <1>2. CASE x = <<>>
    BY <1>1, <1>2
  <1>3. CASE x # <<>>
    BY <1>1, <1>3
  <1> QED  BY <1>2, <1>3

LEMMA EntryFacts ==
  ASSUME HInv, NEW w \in Workers, stage[w] \in {"placed", "found", "looked"}
  PROVE  /\ Entry(w) \in DOMAIN files /\ files[Entry(w)] \in FileInfo
         /\ w \in Threads => Entry(w) = ref[w] /\ w \notin Tasks
         /\ w \notin Threads => Entry(w) = w /\ w \in Tasks
  <1>1. files \in Seq(FileInfo) /\ DOMAIN files = 1 .. Len(files) /\ Len(files) \in Nat
        /\ ref \in [Threads -> 0 .. Len(files)]
    BY DEF HInv, TypeOK
  <1>2. CASE w \in Threads
    <2>1. Entry(w) = ref[w] /\ w \notin Tasks
      BY <1>2, TasksApart DEF Entry
    <2>2. ref[w] # 0
      BY <1>2 DEF HInv, EventInv
    <2> QED  BY <1>1, <1>2, <2>1, <2>2
  <1>3. CASE w \notin Threads
    <2>1. w \in Tasks /\ Entry(w) = w
      BY <1>3 DEF Workers, Entry
    <2>2. w \in Nat \ {0} /\ w <= Len(files)
      BY <2>1, TasksApart DEF HInv, TaskInv
    <2> QED  BY <1>1, <1>3, <2>1, <2>2
  <1> QED  BY <1>2, <1>3

LEMMA NotifyAccessInv ==
  ASSUME HInv, NEW w \in Workers, NotifyAccess(w)
  PROVE  HInv'
  <1> USE HistoryAssumption
  <1> DEFINE f == files[Entry(w)]
             r == [path |-> f.path, body |-> None]
  <1>1. /\ stage[w] = "placed"
        /\ Entry(w) \in DOMAIN files /\ f \in FileInfo
        /\ w \in Threads => Entry(w) = ref[w] /\ w \notin Tasks
        /\ w \notin Threads => Entry(w) = w /\ w \in Tasks
    BY EntryFacts DEF NotifyAccess
  <1>2. r \in Record
    BY <1>1 DEF Record, FileInfo
  <1>3. UNCHANGED <<disk, orig, pos, want, open, hmap, ev, ref, files, fileMap, phase, todo,
                    disturbed>>
    BY DEF NotifyAccess, diskVars, threadVars, agentVars, reportVars
  <1>4. /\ DOMAIN stage = Workers /\ DOMAIN seen = Workers
        /\ disk \in [Paths -> Contents \cup {None}]
    BY DEF HInv, TypeOK
  <1>5. \/ f.final /\ stage'[w] = "handled" /\ seen'[w] = None
        \/ stage'[w] = "looked" /\ seen'[w] = r /\ Body(f.path) = None
        \/ stage'[w] = "found" /\ seen'[w] = r /\ f.path \in Paths
    BY <1>1, <1>4 DEF NotifyAccess, Body, FileInfo
  <1>6. \A v \in Workers \ {w} : stage'[v] = stage[v] /\ seen'[v] = seen[v]
    BY <1>4 DEF NotifyAccess
  <1>7. DOMAIN stage' = Workers /\ DOMAIN seen' = Workers
    BY <1>4 DEF NotifyAccess
  <1>8. \A p \in Paths : Unrecorded(p)' = Unrecorded(p)
    BY <1>3 DEF Unrecorded
  <1>11. TypeOK'
    <2>1. /\ stage' \in [Workers -> {"idle", "sent", "renaming", "placed", "found", "looked",
                                      "handled", "frozen"}]
          /\ seen' \in [Workers -> Record \cup {None}]
      BY <1>2, <1>5 DEF HInv, TypeOK, NotifyAccess
    <2> QED  BY <1>3, <2>1 DEF HInv, TypeOK
  <1>12. MapInv'
    BY <1>3, <1>5, <1>6, <1>7 DEF HInv, MapInv, Known, Workers
  <1>13. EventInv'
    <2> SUFFICES ASSUME NEW t \in Threads
                 PROVE  /\ stage'[t] # "idle" => ev[t] \in Event
                        /\ stage'[t] = "renaming" => ev[t].old # None
                        /\ stage'[t] # "idle" /\ ev[t].old # None =>
                             ({ev[t].old, ev[t].new} \cap Paths) \subseteq disturbed
                        /\ stage'[t] \in {"renaming", "placed", "found", "looked"} => ref[t] # 0
                        /\ stage'[t] # "idle" /\ ev[t].old = None
                             /\ ev[t].new \in Paths \ disturbed =>
                             /\ stage'[t] \in {"placed", "found", "looked"} =>
                                  ref[t] = fileMap[ev[t].new]
                             /\ stage'[t] = "handled" => ~Unrecorded(ev[t].new)
      BY <1>3, <1>8 DEF EventInv
    <2>1. CASE t # w
      BY <1>6, <2>1 DEF HInv, EventInv, Workers
    <2>2. CASE t = w
      <3>1. f.final => f.info # <<>>
        BY <1>1 DEF HInv, TaskInv
      <3>2. /\ ev[t] \in Event /\ ref[t] # 0 /\ Entry(t) = ref[t]
            /\ ev[t].old # None =>
                 ({ev[t].old, ev[t].new} \cap Paths) \subseteq disturbed
            /\ ev[t].old = None /\ ev[t].new \in Paths \ disturbed =>
                 ref[t] = fileMap[ev[t].new]
        BY <1>1, <2>2 DEF HInv, EventInv
      <3> QED  BY <1>5, <2>2, <3>1, <3>2 DEF Unrecorded
    <2> QED  BY <2>1, <2>2
  <1>14. EntryInv'
    <2> SUFFICES ASSUME NEW p \in Paths \ disturbed, Known(p), NEW v \in Workers, Inside(v)',
                        Entry(v) = fileMap[p]
                 PROVE  /\ seen'[v].path = p
                        /\ stage'[v] = "looked" /\ files[fileMap[p]].info = <<>> =>
                             seen'[v].body = orig[p]
      BY <1>3 DEF HInv, EntryInv, Known, Unrecorded, Entry
    <2>1. CASE v # w
      BY <1>6, <2>1 DEF HInv, EntryInv, Inside
    <2>2. CASE v = w
      <3>1. f.path = p /\ (f.info = <<>> => disk[p] = orig[p])
        BY <2>2 DEF HInv, EntryInv, Unrecorded
      <3> QED  BY <1>5, <2>2, <3>1 DEF Body, Inside
    <2> QED  BY <2>1, <2>2
  <1>15. ThreadInv'
    <2>1. \A t \in Threads : stage[t] # "idle" => stage'[t] # "idle"
      BY <1>1, <1>5, <1>6 DEF Workers
    <2> QED  BY <1>3, <1>8, <2>1 DEF HInv, ThreadInv, TypeOK, Handle, NoHandle, Request
  <1>16. TaskInv'
    <2>1. \A v \in Workers : /\ Inside(v)' => seen'[v] \in Record
                             /\ stage'[v] = "found" => seen'[v].path \in Paths
      BY <1>2, <1>5, <1>6 DEF HInv, TaskInv, Inside
    <2>2. f.final => f.info # <<>>
      BY <1>1 DEF HInv, TaskInv
    <2>3. \A t \in Threads : stage'[t] # "frozen"
      BY <1>5, <1>6 DEF HInv, TaskInv, Workers
    <2>4. ASSUME NEW k \in Tasks
          PROVE  /\ stage'[k] \notin {"sent", "renaming"}
                 /\ stage'[k] # "idle" => k <= Len(files)
                 /\ stage'[k] \in {"handled", "frozen"} => files[k].info # <<>>
      <3>1. k \in Workers /\ k \notin Threads
        BY TasksApart
      <3>2. CASE k # w
        BY <1>6, <3>1, <3>2 DEF HInv, TaskInv
      <3>3. CASE k = w
        BY <1>1, <1>5, <2>2, <3>1, <3>3 DEF HInv, TaskInv
      <3> QED  BY <3>2, <3>3
    <2> QED  BY <1>3, <2>1, <2>3, <2>4 DEF HInv, TaskInv
  <1> QED  BY <1>11, <1>12, <1>13, <1>14, <1>15, <1>16 DEF HInv

LEMMA HashInv ==
  ASSUME HInv, NEW w \in Workers, Hash(w)
  PROVE  HInv'
  <1> USE HistoryAssumption
  <1> DEFINE p == seen[w].path
  <1>1. /\ stage[w] = "found" /\ seen[w] \in Record /\ p \in Paths
        /\ w \in Threads => Entry(w) = ref[w] /\ w \notin Tasks
        /\ w \notin Threads => Entry(w) = w /\ w \in Tasks
    BY EntryFacts DEF Hash, HInv, TaskInv, Inside
  <1>2. /\ UNCHANGED <<disk, orig, pos, want, open, hmap, ev, ref, files, fileMap, phase, todo>>
        /\ disturbed \subseteq disturbed' /\ disturbed' \subseteq Paths
    BY <1>1 DEF Hash, diskVars, threadVars, agentVars, HInv, TypeOK
  <1>3. /\ DOMAIN stage = Workers /\ DOMAIN seen = Workers
        /\ disk \in [Paths -> Contents \cup {None}]
    BY DEF HInv, TypeOK
  <1>4. \/ /\ stage'[w] = IF w \in Tasks THEN "idle" ELSE "sent"
           /\ seen'[w] = None
        \/ \E b \in Contents \cup {None, Unread} :
             /\ stage'[w] = "looked" /\ seen'[w] = [seen[w] EXCEPT !.body = b]
             /\ b = disk[p] \/ p \in disturbed'
    BY <1>1, <1>3 DEF Hash
  <1>5. \A v \in Workers \ {w} : stage'[v] = stage[v] /\ seen'[v] = seen[v]
    BY <1>3 DEF Hash
  <1>6. DOMAIN stage' = Workers /\ DOMAIN seen' = Workers
    BY <1>3 DEF Hash
  <1>7. \A q \in Paths : Unrecorded(q)' = Unrecorded(q)
    BY <1>2 DEF Unrecorded
  <1>8. \A b \in Contents \cup {None, Unread} :
          /\ [seen[w] EXCEPT !.body = b] \in Record
          /\ [seen[w] EXCEPT !.body = b].path = p /\ [seen[w] EXCEPT !.body = b].body = b
    BY <1>1 DEF Record
  <1>11. TypeOK'
    <2>1. stage' \in [Workers -> {"idle", "sent", "renaming", "placed", "found", "looked",
                                   "handled", "frozen"}]
      <3>1. stage'[w] \in {"idle", "sent", "looked"}
        BY <1>4
      <3>2. \E x : stage' = [stage EXCEPT ![w] = x]
        BY DEF Hash
      <3> QED  BY <3>1, <3>2 DEF HInv, TypeOK
    <2>2. seen' \in [Workers -> Record \cup {None}]
      <3>1. seen'[w] \in Record \cup {None}
        BY <1>4, <1>8
      <3>2. seen \in [Workers -> Record \cup {None}] /\ \E x : seen' = [seen EXCEPT ![w] = x]
        BY DEF HInv, TypeOK, Hash
      <3> QED  BY <3>1, <3>2
    <2> QED  BY <1>2, <2>1, <2>2 DEF HInv, TypeOK
  <1>12. MapInv'
    BY <1>2, <1>4, <1>5 DEF HInv, MapInv, Known, Workers
  <1>13. EventInv'
    <2> SUFFICES ASSUME NEW t \in Threads
                 PROVE  /\ stage'[t] # "idle" => ev[t] \in Event
                        /\ stage'[t] = "renaming" => ev[t].old # None
                        /\ stage'[t] # "idle" /\ ev[t].old # None =>
                             ({ev[t].old, ev[t].new} \cap Paths) \subseteq disturbed'
                        /\ stage'[t] \in {"renaming", "placed", "found", "looked"} => ref[t] # 0
                        /\ stage'[t] # "idle" /\ ev[t].old = None
                             /\ ev[t].new \in Paths \ disturbed' =>
                             /\ stage'[t] \in {"placed", "found", "looked"} =>
                                  ref[t] = fileMap[ev[t].new]
                             /\ stage'[t] = "handled" => ~Unrecorded(ev[t].new)
      BY <1>2, <1>7 DEF EventInv
    <2>1. CASE t # w
      BY <1>2, <1>5, <2>1 DEF HInv, EventInv, Workers
    <2>2. CASE t = w
      <3>1. /\ ev[t] \in Event /\ ref[t] # 0
            /\ ev[t].old # None =>
                 ({ev[t].old, ev[t].new} \cap Paths) \subseteq disturbed
            /\ ev[t].old = None /\ ev[t].new \in Paths \ disturbed =>
                 ref[t] = fileMap[ev[t].new]
        BY <1>1, <2>2 DEF HInv, EventInv
      <3>2. stage'[t] \in {"sent", "looked"}
        BY <1>1, <1>4, <2>2
      <3> QED  BY <1>2, <3>1, <3>2
    <2> QED  BY <2>1, <2>2
  <1>14. EntryInv'
    <2> SUFFICES ASSUME NEW q \in Paths \ disturbed', Known(q), NEW v \in Workers, Inside(v)',
                        Entry(v) = fileMap[q]
                 PROVE  /\ seen'[v].path = q
                        /\ stage'[v] = "looked" /\ files[fileMap[q]].info = <<>> =>
                             seen'[v].body = orig[q]
      BY <1>2, <1>7 DEF HInv, EntryInv, Known, Entry
    <2>1. CASE v # w
      BY <1>2, <1>5, <2>1 DEF HInv, EntryInv, Inside
    <2>2. CASE v = w
      <3>1. p = q /\ (files[fileMap[q]].info = <<>> => disk[q] = orig[q])
        BY <1>1, <1>2, <2>2 DEF HInv, EntryInv, Unrecorded, Inside
      <3> QED  BY <1>4, <1>8, <2>2, <3>1 DEF Inside
    <2> QED  BY <2>1, <2>2
  <1>15. ThreadInv'
    <2>1. \A t \in Threads : stage[t] # "idle" => stage'[t] # "idle"
      BY <1>1, <1>4, <1>5 DEF Workers
    <2> QED  BY <1>2, <1>7, <2>1 DEF HInv, ThreadInv, TypeOK, Handle, NoHandle, Request
  <1>16. TaskInv'
    <2>1. \A v \in Workers : /\ Inside(v)' => seen'[v] \in Record
                             /\ stage'[v] = "found" => seen'[v].path \in Paths
      <3> SUFFICES ASSUME NEW v \in Workers
                   PROVE  /\ Inside(v)' => seen'[v] \in Record
                          /\ stage'[v] = "found" => seen'[v].path \in Paths
        OBVIOUS
      <3>1. CASE v = w
        BY <1>4, <1>8, <3>1 DEF Inside
      <3>2. CASE v # w
        <4>1. stage'[v] = stage[v] /\ seen'[v] = seen[v]
          BY <1>5, <3>2
        <4>2. /\ Inside(v) => seen[v] \in Record
              /\ stage[v] = "found" => seen[v].path \in Paths
          BY DEF HInv, TaskInv
        <4> QED  BY <4>1, <4>2 DEF Inside
      <3> QED  BY <3>1, <3>2
    <2>3. \A t \in Threads : stage'[t] # "frozen"
      BY <1>4, <1>5 DEF HInv, TaskInv, Workers
    <2>4. ASSUME NEW k \in Tasks
          PROVE  /\ stage'[k] \notin {"sent", "renaming"}
                 /\ stage'[k] # "idle" => k <= Len(files)
                 /\ stage'[k] \in {"handled", "frozen"} => files[k].info # <<>>
      <3>1. k \in Workers /\ k \notin Threads
        BY TasksApart
      <3>2. CASE k # w
        BY <1>5, <3>1, <3>2 DEF HInv, TaskInv
      <3>3. CASE k = w
        BY <1>1, <1>4, <3>1, <3>3 DEF HInv, TaskInv
      <3> QED  BY <3>2, <3>3
    <2> QED  BY <1>2, <2>1, <2>3, <2>4 DEF HInv, TaskInv
  <1> QED  BY <1>11, <1>12, <1>13, <1>14, <1>15, <1>16 DEF HInv

LEMMA AppendLast ==
  ASSUME NEW S, NEW x \in Seq(S), NEW e \in S
  PROVE  Append(x, e)[Len(Append(x, e))] = e
  OBVIOUS

LEMMA RecordAdded ==
  ASSUME HInv, NEW w \in Workers, AddRecord(w), NEW e, e = Entry(w), NEW f, f = files[e]
  PROVE  /\ stage[w] = "looked" /\ seen[w] \in Record
         /\ e \in DOMAIN files /\ f \in FileInfo
         /\ w \in Threads => e = ref[w] /\ w \notin Tasks
         /\ w \notin Threads => e = w /\ w \in Tasks
         /\ files' \in Seq(FileInfo) /\ Len(files') = Len(files) /\ DOMAIN files' = DOMAIN files
         /\ \A i \in DOMAIN files \ {e} : files'[i] = files[i]
         /\ files'[e].path = f.path /\ files'[e].final = f.final
         /\ files'[e].info # <<>>
         /\ files'[e].info[1] = IF f.info = <<>> THEN seen[w] ELSE f.info[1]
         /\ files'[e].info[Len(files'[e].info)] = seen[w]
  <1>1. /\ stage[w] = "looked" /\ seen[w] \in Record
        /\ e \in DOMAIN files /\ f \in FileInfo
        /\ w \in Threads => e = ref[w] /\ w \notin Tasks
        /\ w \notin Threads => e = w /\ w \in Tasks
    BY EntryFacts DEF AddRecord, HInv, TaskInv, Inside
  <1>2. files \in Seq(FileInfo) /\ DOMAIN files = 1 .. Len(files) /\ Len(files) \in Nat
    BY DEF HInv, TypeOK
  <1>3. /\ files' \in Seq(FileInfo) /\ Len(files') = Len(files) /\ DOMAIN files' = DOMAIN files
        /\ \A i \in DOMAIN files \ {e} : files'[i] = files[i]
        /\ files'[e].path = f.path /\ files'[e].final = f.final
        /\ files'[e].info # <<>>
        /\ files'[e].info[1] = IF f.info = <<>> THEN seen[w] ELSE f.info[1]
        /\ files'[e].info[Len(files'[e].info)] = seen[w]
    <2>1. CASE files' = files /\ f.info # <<>> /\ f.info[Len(f.info)] = seen[w]
      BY <1>1, <1>2, <2>1
    <2>2. CASE files' = [files EXCEPT ![e].info = Append(@, seen[w])]
      <3> DEFINE i == Append(f.info, seen[w])
                 g == [f EXCEPT !.info = i]
      <3>1. f.info \in Seq(Record)
        BY <1>1, InfoType
      <3>2. /\ i \in Seq(Record) /\ i # <<>>
            /\ i[1] = IF f.info = <<>> THEN seen[w] ELSE f.info[1]
            /\ i[Len(i)] = seen[w]
        BY <1>1, <3>1, AppendFirst, AppendLast
      <3> HIDE DEF i
      <3>3. g \in FileInfo
        BY <1>1, <3>2, InfoType
      <3>4. g.path = f.path /\ g.final = f.final /\ g.info = i
        BY <1>1 DEF FileInfo
      <3>5. files' = [files EXCEPT ![e] = g]
        BY <1>1, <1>2, <2>2 DEF i
      <3> HIDE DEF g
      <3>6. files'[e] = g /\ \A k \in DOMAIN files \ {e} : files'[k] = files[k]
        BY <1>1, <1>2, <3>5
      <3>7. files' \in Seq(FileInfo) /\ Len(files') = Len(files) /\ DOMAIN files' = DOMAIN files
        BY <1>1, <1>2, <3>3, <3>5, ReplaceType
      <3> QED  BY <3>2, <3>4, <3>6, <3>7
    <2> QED  BY <2>1, <2>2 DEF AddRecord
  <1> QED  BY <1>1, <1>3

LEMMA AddRecordInv ==
  ASSUME HInv, NEW w \in Workers, AddRecord(w)
  PROVE  HInv'
  <1> USE HistoryAssumption
  <1> DEFINE e == Entry(w)
             f == files[e]
  <1>1. /\ stage[w] = "looked" /\ seen[w] \in Record
        /\ e \in DOMAIN files /\ f \in FileInfo
        /\ w \in Threads => e = ref[w] /\ w \notin Tasks
        /\ w \notin Threads => e = w /\ w \in Tasks
    BY RecordAdded
  <1>2. UNCHANGED <<disk, orig, pos, want, open, hmap, ev, fileMap, phase, todo, disturbed>>
    BY DEF AddRecord, diskVars, threadVars, reportVars
  <1>3. /\ DOMAIN stage = Workers /\ DOMAIN seen = Workers /\ DOMAIN ref = Threads
        /\ files \in Seq(FileInfo) /\ DOMAIN files = 1 .. Len(files) /\ Len(files) \in Nat
        /\ ref \in [Threads -> 0 .. Len(files)]
    BY DEF HInv, TypeOK
  <1>4. /\ stage'[w] = "handled"
        /\ \A v \in Workers \ {w} : stage'[v] = stage[v] /\ seen'[v] = seen[v]
        /\ \A t \in Threads \ {w} : ref'[t] = ref[t]
        /\ \A v \in Workers \ {w} : Entry(v)' = Entry(v)
    BY <1>3 DEF AddRecord, Entry, Workers
  <1>5. /\ files' \in Seq(FileInfo) /\ Len(files') = Len(files) /\ DOMAIN files' = DOMAIN files
        /\ \A i \in DOMAIN files \ {e} : files'[i] = files[i]
        /\ files'[e].path = f.path /\ files'[e].final = f.final
        /\ files'[e].info # <<>>
        /\ files'[e].info[1] = IF f.info = <<>> THEN seen[w] ELSE f.info[1]
    BY RecordAdded
  <1>6. \A p \in Paths \cup {Relative} : Known(p) => fileMap[p] \in DOMAIN files
    BY <1>3 DEF HInv, TypeOK, Known
  <1>7. \A p \in Paths : Unrecorded(p)' => Unrecorded(p)
    BY <1>2, <1>5, <1>6 DEF Unrecorded, Known
  <1> HIDE DEF e
  <1>11. TypeOK'
    <2>1. /\ stage' \in [Workers -> {"idle", "sent", "renaming", "placed", "found", "looked",
                                      "handled", "frozen"}]
          /\ seen' \in [Workers -> Record \cup {None}]
      BY DEF HInv, TypeOK, AddRecord
    <2>2. ref' \in [Threads -> 0 .. Len(files)]
      <3>1. ref' = ref \/ ref' = [ref EXCEPT ![w] = 0]
        BY DEF AddRecord
      <3>2. 0 \in 0 .. Len(files)
        BY <1>3
      <3> QED  BY <1>3, <3>1, <3>2
    <2> QED  BY <1>2, <1>5, <2>1, <2>2 DEF HInv, TypeOK
  <1>12. MapInv'
    <2>1. \A t \in Threads : stage'[t] = "renaming" => stage[t] = "renaming" /\ ref'[t] = ref[t]
      BY <1>4 DEF Workers
    <2> QED  BY <1>2, <2>1 DEF HInv, MapInv, Known
  <1>13. EventInv'
    <2> SUFFICES ASSUME NEW t \in Threads
                 PROVE  /\ stage'[t] # "idle" => ev[t] \in Event
                        /\ stage'[t] = "renaming" => ev[t].old # None
                        /\ stage'[t] # "idle" /\ ev[t].old # None =>
                             ({ev[t].old, ev[t].new} \cap Paths) \subseteq disturbed
                        /\ stage'[t] \in {"renaming", "placed", "found", "looked"} => ref'[t] # 0
                        /\ stage'[t] # "idle" /\ ev[t].old = None
                             /\ ev[t].new \in Paths \ disturbed =>
                             /\ stage'[t] \in {"placed", "found", "looked"} =>
                                  ref'[t] = fileMap[ev[t].new]
                             /\ stage'[t] = "handled" => ~Unrecorded(ev[t].new)'
      BY <1>2 DEF EventInv, Unrecorded
    <2>1. CASE t # w
      <3>1. ev[t].new \in Paths /\ Unrecorded(ev[t].new)' => Unrecorded(ev[t].new)
        BY <1>2, <1>7 DEF Unrecorded
      <3>2. stage'[t] = stage[t] /\ ref'[t] = ref[t]
        BY <1>4, <2>1 DEF Workers
      <3> QED  BY <3>1, <3>2 DEF HInv, EventInv
    <2>2. CASE t = w
      <3>1. /\ ev[t] \in Event /\ ref[t] # 0 /\ e = ref[t]
            /\ ev[t].old # None =>
                 ({ev[t].old, ev[t].new} \cap Paths) \subseteq disturbed
            /\ ev[t].old = None /\ ev[t].new \in Paths \ disturbed =>
                 ref[t] = fileMap[ev[t].new]
        BY <1>1, <2>2 DEF HInv, EventInv
      <3> QED  BY <1>2, <1>4, <1>5, <2>2, <3>1 DEF Unrecorded
    <2> QED  BY <2>1, <2>2
  <1>14. EntryInv'
    <2> SUFFICES ASSUME NEW p \in Paths \ disturbed, Known(p)
                 PROVE  /\ files'[fileMap[p]].path = p
                        /\ files'[fileMap[p]].info # <<>> =>
                             files'[fileMap[p]].info[1].body = orig[p]
                        /\ \A v \in Workers : Inside(v)' /\ Entry(v)' = fileMap[p] =>
                             /\ seen'[v].path = p
                             /\ stage'[v] = "looked" /\ files'[fileMap[p]].info = <<>> =>
                                  seen'[v].body = orig[p]
      BY <1>2, <1>7 DEF HInv, EntryInv, Known
    <2>1. \A v \in Workers : Inside(v)' => /\ v # w /\ Inside(v) /\ Entry(v)' = Entry(v)
                                           /\ stage'[v] = stage[v] /\ seen'[v] = seen[v]
      BY <1>4 DEF Inside
    <2>2. CASE fileMap[p] # e
      <3>1. files'[fileMap[p]] = files[fileMap[p]]
        BY <1>5, <1>6, <2>2
      <3> QED  BY <2>1, <3>1 DEF HInv, EntryInv
    <2>3. CASE fileMap[p] = e
      <3>1. /\ f.path = p /\ (f.info # <<>> => f.info[1].body = orig[p])
            /\ f.info = <<>> => seen[w].body = orig[p]
        BY <1>1, <2>3 DEF HInv, EntryInv, Inside, e
      <3> QED  BY <1>5, <2>1, <2>3, <3>1 DEF HInv, EntryInv
    <2> QED  BY <2>2, <2>3
  <1>15. ThreadInv'
    <2>1. \A t \in Threads : stage[t] # "idle" => stage'[t] # "idle"
      BY <1>4 DEF Workers
    <2> QED  BY <1>2, <1>7, <2>1 DEF HInv, ThreadInv, TypeOK, Handle, NoHandle, Request
  <1>16. TaskInv'
    <2>1. \A v \in Workers : /\ Inside(v)' => seen'[v] \in Record
                             /\ stage'[v] = "found" => seen'[v].path \in Paths
      BY <1>4 DEF HInv, TaskInv, Inside
    <2>2. \A i \in DOMAIN files : files[i].info # <<>> => files'[i].info # <<>>
      BY <1>5
    <2>3. \A t \in Threads : stage'[t] # "frozen"
      BY <1>4 DEF HInv, TaskInv, Workers
    <2>4. ASSUME NEW k \in Tasks
          PROVE  /\ stage'[k] \notin {"sent", "renaming"}
                 /\ stage'[k] # "idle" => k <= Len(files)
                 /\ stage'[k] \in {"handled", "frozen"} => files'[k].info # <<>>
      <3>1. k \in Workers /\ k \notin Threads /\ k \in Nat \ {0}
        BY TasksApart
      <3>2. CASE k # w
        <4>1. /\ stage[k] \notin {"sent", "renaming"} /\ (stage[k] # "idle" => k <= Len(files))
              /\ stage[k] \in {"handled", "frozen"} => files[k].info # <<>>
          BY DEF HInv, TaskInv
        <4> QED  BY <1>3, <1>4, <2>2, <3>1, <3>2, <4>1
      <3>3. CASE k = w
        BY <1>1, <1>3, <1>4, <1>5, <3>1, <3>3
      <3> QED  BY <3>2, <3>3
    <2>5. \A i \in DOMAIN files' : files'[i].final => files'[i].info # <<>>
      BY <1>5 DEF HInv, TaskInv
    <2> QED  BY <1>2, <1>5, <2>1, <2>3, <2>4, <2>5 DEF HInv, TaskInv
  <1> QED  BY <1>11, <1>12, <1>13, <1>14, <1>15, <1>16 DEF HInv

LEMMA StopInv ==
  ASSUME HInv, Stop
  PROVE  HInv'
  <1> USE HistoryAssumption DEF HInv, Stop, diskVars, threadVars, agentVars, reportVars
  <1>1. TypeOK'
    BY DEF TypeOK
  <1>2. MapInv'
    BY DEF MapInv, Known
  <1>3. EventInv'
    BY DEF EventInv, Unrecorded
  <1>4. EntryInv'
    BY DEF EntryInv, Unrecorded, Known, Inside, Entry
  <1>5. ThreadInv'
    BY DEF ThreadInv, Unrecorded
  <1>6. TaskInv'
    BY DEF TaskInv, Inside
  <1> QED  BY <1>1, <1>2, <1>3, <1>4, <1>5, <1>6

LEMMA ReadFilesInv ==
  ASSUME HInv, ReadFiles
  PROVE  HInv'
  <1> USE HistoryAssumption DEF HInv, ReadFiles, diskVars, threadVars, agentVars, reportVars
  <1>1. TypeOK'
    BY DEF TypeOK
  <1>2. MapInv'
    BY DEF MapInv, Known
  <1>3. EventInv'
    BY DEF EventInv, Unrecorded
  <1>4. EntryInv'
    BY DEF EntryInv, Unrecorded, Known, Inside, Entry
  <1>5. ThreadInv'
    BY DEF ThreadInv, Unrecorded
  <1>6. TaskInv'
    BY DEF TaskInv, TypeOK, Inside, Known
  <1> QED  BY <1>1, <1>2, <1>3, <1>4, <1>5, <1>6

LEMMA TakeFileInv ==
  ASSUME HInv, NEW f \in Tasks, TakeFile(f)
  PROVE  HInv'
  <1> USE HistoryAssumption DEF HInv, TakeFile, Active, diskVars, threadVars, agentVars, reportVars
  <1>1. TypeOK'
    BY DEF TypeOK
  <1>2. MapInv'
    BY DEF MapInv, Known
  <1>3. EventInv'
    <2>1. \A t \in Threads : stage'[t] = stage[t]
      BY TasksApart DEF TypeOK
    <2> QED  BY <2>1 DEF EventInv, Unrecorded
  <1>4. EntryInv'
    BY DEF EntryInv, Unrecorded, Known, Inside, Entry
  <1>5. ThreadInv'
    BY DEF ThreadInv, Unrecorded
  <1>6. TaskInv'
    BY DEF TaskInv, Inside
  <1> QED  BY <1>1, <1>2, <1>3, <1>4, <1>5, <1>6

LEMMA CheckoutHistoryInv ==
  ASSUME HInv, NEW f \in Tasks, CheckoutHistory(f)
  PROVE  HInv'
  <1> USE HistoryAssumption DEF HInv, CheckoutHistory, diskVars, threadVars, agentVars, reportVars
  <1>1. TypeOK'
    <2>1. f \in DOMAIN files
      <3>1. f \in Nat \ {0} /\ f <= Len(files) /\ DOMAIN files = 1 .. Len(files)
            /\ Len(files) \in Nat
        BY TasksApart DEF TaskInv, TypeOK
      <3> QED  BY <3>1
    <2>2. [files[f] EXCEPT !.final = TRUE] \in FileInfo
      BY <2>1, InfoType DEF TypeOK
    <2>3. files' \in Seq(FileInfo) /\ Len(files') = Len(files)
      BY <2>1, <2>2, ReplaceType DEF TypeOK
    <2> QED  BY <2>3 DEF TypeOK, Workers, Tasks
  <1>2. MapInv'
    BY DEF MapInv, Known
  <1>3. EventInv'
    BY DEF EventInv, Unrecorded
  <1>4. EntryInv'
    BY DEF EntryInv, Unrecorded, Known, Inside, Entry
  <1>5. ThreadInv'
    BY DEF ThreadInv, Unrecorded
  <1>6. TaskInv'
    BY DEF TaskInv, Tasks, Inside
  <1> QED  BY <1>1, <1>2, <1>3, <1>4, <1>5, <1>6

LEMMA ReportFileInv ==
  ASSUME HInv, NEW f \in Tasks, ReportFile(f)
  PROVE  HInv'
  <1> USE HistoryAssumption DEF HInv, ReportFile, diskVars, threadVars, agentVars, reportVars
  <1>1. TypeOK'
    BY DEF TypeOK
  <1>2. MapInv'
    BY DEF MapInv, Known
  <1>3. EventInv'
    BY DEF EventInv, Unrecorded
  <1>4. EntryInv'
    BY DEF EntryInv, Unrecorded, Known, Inside, Entry
  <1>5. ThreadInv'
    <2>1. \A t \in Threads : stage'[t] = stage[t]
      BY TasksApart DEF TypeOK
    <2> QED  BY <2>1 DEF ThreadInv, Unrecorded
  <1>6. TaskInv'
    BY DEF TaskInv, Inside
  <1> QED  BY <1>1, <1>2, <1>3, <1>4, <1>5, <1>6

LEMMA EndEnumerationInv ==
  ASSUME HInv, EndEnumeration
  PROVE  HInv'
  <1> USE HistoryAssumption DEF HInv, EndEnumeration, diskVars, threadVars, agentVars, reportVars
  <1>1. TypeOK'
    BY DEF TypeOK
  <1>2. MapInv'
    BY DEF MapInv, Known
  <1>3. EventInv'
    BY DEF EventInv, Unrecorded
  <1>4. EntryInv'
    BY DEF EntryInv, Unrecorded, Known, Inside, Entry
  <1>5. ThreadInv'
    BY DEF ThreadInv, Unrecorded
  <1>6. TaskInv'
    BY DEF TaskInv, Inside
  <1> QED  BY <1>1, <1>2, <1>3, <1>4, <1>5, <1>6

LEMMA EndLoopInv ==
  ASSUME HInv, EndLoop
  PROVE  HInv'
  <1> USE HistoryAssumption DEF HInv, EndLoop, Active, diskVars, threadVars, agentVars, reportVars
  <1>1. TypeOK'
    BY DEF TypeOK
  <1>2. MapInv'
    BY DEF MapInv, Known
  <1>3. EventInv'
    BY DEF EventInv, Unrecorded
  <1>4. EntryInv'
    BY DEF EntryInv, Unrecorded, Known, Inside, Entry
  <1>5. ThreadInv'
    BY DEF ThreadInv, Unrecorded
  <1>6. TaskInv'
    BY DEF TaskInv, Inside
  <1> QED  BY <1>1, <1>2, <1>3, <1>4, <1>5, <1>6

LEMMA HistoryStep == HInv /\ [Next]_vars => HInv'
  <1> SUFFICES ASSUME HInv, [Next]_vars PROVE HInv'
    OBVIOUS
  <1>1. ASSUME NEW t \in Threads, ThreadOp(t) PROVE HInv'
    BY <1>1, NotifyOpenInv, CallOpenInv, MyNtCloseInv, DisposeInv, WriteFileInv, AdoptInv,
       MyNtDeleteFileInv, MyNtSetInformationFileInv, AcknowledgeInv, LoseAckInv, GiveUpInv,
       KillInv DEF ThreadOp
  <1>2. ASSUME NEW t \in Threads, Handler(t) PROVE HInv'
    BY <1>2, NotifyFileAccessInv, NotifyFileRenameInv, NotifyRenamedToInv DEF Handler
  <1>3. ASSUME NEW w \in Workers, Access(w) PROVE HInv'
    BY <1>3, NotifyAccessInv, HashInv, AddRecordInv DEF Access
  <1>4. ASSUME NEW f \in Tasks, Task(f) PROVE HInv'
    BY <1>4, TakeFileInv, CheckoutHistoryInv, ReportFileInv DEF Task
  <1>5. CASE UNCHANGED vars
    BY <1>5 DEF vars, HInv, TypeOK, MapInv, EventInv, EntryInv, ThreadInv, TaskInv, Known,
                Unrecorded, Inside, Entry
  <1> QED  BY <1>1, <1>2, <1>3, <1>4, <1>5, StopInv, ReadFilesInv, EndEnumerationInv,
              EndLoopInv DEF Next

-----------------------------------------------------------------------------
(* ReportInv: what holds of the files while PrepareReport's loop reads them. *)

LEMMA KnownEntry ==
  ASSUME HInv, NEW p \in Paths, Known(p)
  PROVE  /\ fileMap[p] \in DOMAIN files /\ fileMap[p] \in Tasks
         /\ fileMap[p] \in Workers /\ fileMap[p] \notin Threads
         /\ Entry(fileMap[p]) = fileMap[p]
  <1>1. fileMap[p] \in DOMAIN files /\ fileMap[p] \in 1 .. Len(files) /\ Len(files) <= MaxEntries
        /\ Len(files) \in Nat
    BY DEF HInv, TypeOK, Known
  <1>2. fileMap[p] \in Tasks
    BY <1>1, HistoryAssumption DEF Tasks
  <1> QED  BY <1>1, <1>2, TasksApart DEF Entry

\* A step of a hooked thread leaves the report alone, if what it changes is disturbed
\* once the agent has taken the last look.
LEMMA ThreadFrame ==
  ASSUME FInv, UNCHANGED <<orig, files, fileMap, phase, todo, failed, report, ref, seen>>,
         disturbed \subseteq disturbed',
         \A w \in Workers : stage'[w] # stage[w] => w \in Threads /\ ~Inside(w) /\ ~Inside(w)',
         \A p \in Paths \ disturbed' : disk'[p] # disk[p] => p \notin TooLate(p)
  PROVE  ReportInv'
  <1>1. \A f \in Tasks : stage'[f] = stage[f]
    BY TasksApart
  <1>2. \A w \in Workers : Inside(w)' => Inside(w) /\ stage'[w] = stage[w]
    BY DEF Inside
  <1>3. \A w \in Workers : Entry(w)' = Entry(w)
    BY DEF Entry
  <1>4. LockInv'
    BY <1>2, <1>3 DEF FInv, ReportInv, LockInv
  <1>5. LoopInv' /\ PathInv'
    BY <1>1 DEF FInv, ReportInv, LoopInv, PathInv, Active
  <1>6. FreshInv'
    <2> SUFFICES ASSUME NEW p \in Paths \ disturbed', Known(p)
                 PROVE  LET f == fileMap[p]
                        IN  /\ stage'[f] = "looked" => seen[f].body = disk'[p]
                            /\ Settled(f)' =>
                                 /\ LastBody(f) = disk'[p]
                                 /\ \A t \in Threads : stage'[t] = "looked" /\ ref[t] = f =>
                                                         seen[t].body = disk'[p]
      BY DEF FreshInv, Known, LastBody
    <2> DEFINE f == fileMap[p]
    <2>1. f \in Tasks /\ stage'[f] = stage[f] /\ p \in Paths \ disturbed
      BY <1>1, KnownEntry DEF FInv
    <2>2. Settled(f)' = Settled(f)
      BY <2>1 DEF Settled
    <2>3. CASE disk'[p] = disk[p]
      <3>1. \A t \in Threads : stage'[t] = "looked" => stage[t] = "looked"
        BY <1>2 DEF Workers, Inside
      <3> QED  BY <2>1, <2>2, <2>3, <3>1 DEF FInv, ReportInv, FreshInv
    <2>4. CASE disk'[p] # disk[p]
      <3>1. phase \notin {"reading", "waiting"} /\ ~files[f].final
        BY <2>4 DEF TooLate, Known
      <3>2. stage[f] = "idle"
        BY <2>1, <3>1 DEF FInv, ReportInv, LoopInv, Active
      <3> QED  BY <2>1, <2>2, <3>1, <3>2 DEF Settled
    <2> QED  BY <2>3, <2>4
  <1>7. ElementInv'
    <2> SUFFICES ASSUME phase \in {"reading", "waiting", "done"}, NEW p \in Paths \ disturbed'
                 PROVE  /\ \A e \in report : e.path = p =>
                             Known(p) /\ e = [path |-> p, kind |-> Kind(orig[p], disk'[p]),
                                              entry |-> fileMap[p]]
                        /\ disk'[p] # orig[p] =>
                             \/ fileMap[p] \in todo \/ Active(fileMap[p])' \/ failed
                             \/ \E e \in report : e.path = p
      BY DEF ElementInv, Known
    <2>1. disk'[p] = disk[p] /\ p \in Paths \ disturbed
      BY DEF TooLate
    <2>2. CASE Known(p)
      <3>1. Active(fileMap[p])' = Active(fileMap[p])
        BY <1>1, <2>1, <2>2, KnownEntry DEF FInv, Active
      <3> QED  BY <2>1, <3>1 DEF FInv, ReportInv, ElementInv
    <2>3. CASE ~Known(p)
      <3>1. disk[p] = orig[p]
        BY <2>1, <2>3 DEF FInv, HInv, EntryInv, Unrecorded, Known
      <3> QED  BY <2>1, <2>3, <3>1 DEF FInv, ReportInv, ElementInv
    <2> QED  BY <2>2, <2>3
  <1> QED  BY <1>4, <1>5, <1>6, <1>7 DEF ReportInv

LEMMA ThreadOpReport ==
  ASSUME FInv, NEW t \in Threads, ThreadOp(t)
  PROVE  ReportInv'
  <1>0. DOMAIN stage = Workers /\ t \in Workers /\ DOMAIN disk = Paths
    BY DEF FInv, HInv, TypeOK, Workers
  <1> USE DEF diskVars, threadVars, agentVars, reportVars, Inside
  <1>1. ASSUME NEW p \in Paths, NEW writes \in BOOLEAN, NEW name \in {p, Relative},
               NotifyOpen(t, p, writes, name)
        PROVE  ReportInv'
    BY <1>0, <1>1, ThreadFrame DEF NotifyOpen, Begin, Send
  <1>2. CASE CallOpen(t)
    <2>1. \A p \in Paths \ disturbed' : disk'[p] # disk[p] => p \notin TooLate(p)
      BY <1>0, <1>2 DEF CallOpen
    <2> QED  BY <1>0, <1>2, <2>1, ThreadFrame DEF CallOpen
  <1>3. CASE \E p \in Paths : Adopt(t, p)
    BY <1>0, <1>3, ThreadFrame DEF Adopt, Begin
  <1>4. CASE \E c \in Contents : WriteFile(t, c)
    <2>1. \A p \in Paths \ disturbed' : disk'[p] # disk[p] => p \notin TooLate(p)
      BY <1>0, <1>4 DEF WriteFile
    <2> QED  BY <1>0, <1>4, <2>1, ThreadFrame DEF WriteFile
  <1>5. CASE MyNtClose(t)
    BY <1>0, <1>5, ThreadFrame DEF MyNtClose
  <1>6. CASE Dispose(t)
    <2>1. \A p \in Paths \ disturbed' : disk'[p] # disk[p] => p \notin TooLate(p)
      BY <1>0, <1>6 DEF Dispose
    <2> QED  BY <1>0, <1>6, <2>1, ThreadFrame DEF Dispose
  <1>7. ASSUME NEW p \in Paths, MyNtDeleteFile(t, p) PROVE ReportInv'
    <2>1. \A q \in Paths \ disturbed' : disk'[q] # disk[q] => q \notin TooLate(q)
      BY <1>0, <1>7 DEF MyNtDeleteFile
    <2> QED  BY <1>0, <1>7, <2>1, ThreadFrame DEF MyNtDeleteFile, Begin, Send
  <1>8. ASSUME NEW p \in Paths, MyNtSetInformationFile(t, p) PROVE ReportInv'
    <2>1. \A q \in Paths \ disturbed' : disk'[q] # disk[q] => q \notin TooLate(q)
      BY <1>0, <1>8 DEF MyNtSetInformationFile
    <2> QED  BY <1>0, <1>8, <2>1, ThreadFrame DEF MyNtSetInformationFile, Begin, Send
  <1>9. CASE Acknowledge(t)
    BY <1>0, <1>9, ThreadFrame DEF Acknowledge, Return
  <1>10. CASE GiveUp(t)
    BY <1>0, <1>10, ThreadFrame DEF GiveUp, Return
  <1>11. CASE LoseAck(t)
    BY <1>0, <1>11, ThreadFrame DEF LoseAck
  <1>12. CASE Kill(t)
    BY <1>0, <1>12, ThreadFrame DEF Kill
  <1> QED  BY <1>1, <1>2, <1>3, <1>4, <1>5, <1>6, <1>7, <1>8, <1>9, <1>10, <1>11, <1>12
           DEF ThreadOp

\* A handler that gets to its entry leaves the report alone.
LEMMA PlaceReport ==
  ASSUME FInv, NEW t \in Threads, NEW p \in Paths \cup {Relative}, NEW q \in Paths \cup {Relative},
         NEW where \in {"placed", "renaming"}, Placing(t, p, q, where),
         UNCHANGED report, failed => failed', failed' => failed \/ phase = "reading"
  PROVE  ReportInv'
  <1> DEFINE n == ref'[t]
  <1>1. Placed(n, t, p, q, where)
    BY PlaceFacts DEF FInv
  <1>2. /\ UNCHANGED <<disk, orig, seen, phase, todo, disturbed>>
        /\ stage[t] = "sent" /\ stage' = [stage EXCEPT ![t] = where]
    BY DEF Placing
  <1>3. /\ DOMAIN stage = Workers /\ DOMAIN files = 1 .. Len(files)
        /\ ref' = [ref EXCEPT ![t] = n] /\ ref \in [Threads -> 0 .. Len(files)]
    BY <1>1 DEF Placed
  <1>4. \A w \in Workers : Inside(w)' => /\ Inside(w) /\ stage'[w] = stage[w]
                                         /\ Entry(w)' = Entry(w)
    BY <1>2, <1>3 DEF Inside, Entry, Workers
  <1>5. \A f \in Tasks : stage'[f] = stage[f]
    BY <1>2, <1>3, TasksApart
  <1>6. \A r \in Paths \ disturbed :
          /\ Known(r) => fileMap'[r] = fileMap[r] /\ Known(r)'
          /\ ~Known(r) => disk[r] = orig[r]
    BY <1>1 DEF Placed, Known, FInv, HInv, EntryInv, Unrecorded
  <1>7. \A f \in DOMAIN files : f \in DOMAIN files' /\ files'[f] = files[f]
    BY <1>1 DEF Placed
  <1> HIDE DEF n
  <1>11. LockInv'
    BY <1>4 DEF FInv, ReportInv, LockInv
  <1>12. LoopInv'
    BY <1>2, <1>5 DEF FInv, ReportInv, LoopInv, Active
  <1>13. PathInv'
    <2> SUFFICES ASSUME NEW f \in DOMAIN files', files'[f].path \in Paths \ disturbed
                 PROVE  fileMap'[files'[f].path] = f
      BY <1>2 DEF PathInv
    <2>1. CASE f \in DOMAIN files
      <3>1. fileMap[files[f].path] = f /\ files'[f] = files[f] /\ f # 0
        BY <1>3, <1>7, <2>1 DEF FInv, ReportInv, PathInv
      <3> QED  BY <1>6, <3>1 DEF Known
    <2>2. CASE f \notin DOMAIN files
      BY <1>1, <2>2 DEF Placed
    <2> QED  BY <2>1, <2>2
  <1>14. FreshInv'
    <2> SUFFICES ASSUME NEW r \in Paths \ disturbed, Known(r)', NEW f, f = fileMap'[r]
                 PROVE  /\ stage'[f] = "looked" => seen[f].body = disk[r]
                        /\ Settled(f)' =>
                             /\ LastBody(f)' = disk[r]
                             /\ \A u \in Threads : stage'[u] = "looked" /\ ref'[u] = f =>
                                                     seen[u].body = disk[r]
      BY <1>2 DEF FreshInv
    <2>1. CASE Known(r)
      <3>1. f \in Tasks /\ f \in DOMAIN files /\ f = fileMap[r]
        BY <1>6, <2>1, KnownEntry DEF FInv
      <3>2. files'[f] = files[f] /\ stage'[f] = stage[f]
        BY <1>5, <1>7, <3>1
      <3>3. Settled(f)' = Settled(f) /\ LastBody(f)' = LastBody(f)
        BY <3>2 DEF Settled, LastBody
      <3>4. \A u \in Threads : stage'[u] = "looked" => stage[u] = "looked" /\ ref'[u] = ref[u]
        BY <1>2, <1>3 DEF Workers
      <3> QED  BY <2>1, <3>1, <3>2, <3>3, <3>4 DEF FInv, ReportInv, FreshInv
    <2>2. CASE ~Known(r)
      <3>1. r = p /\ f = Len(files) + 1 /\ Len(files) \in Nat /\ f = n /\ f \in DOMAIN files'
            /\ ~Known(p) /\ f \notin DOMAIN files /\ Len(files') <= MaxEntries
            /\ DOMAIN files' = 1 .. Len(files') /\ Len(files') \in Nat
        BY <1>1, <2>2 DEF Placed, Known
      <3>2. files'[f] = [path |-> p, info |-> <<>>, final |-> FALSE]
        BY <1>1, <3>1 DEF Placed
      <3>3. f \in Tasks
        BY <3>1, HistoryAssumption DEF Tasks
      <3>4. stage[f] = "idle"
        BY <3>1, <3>3 DEF FInv, HInv, TaskInv
      <3>5. ~Settled(f)' /\ stage'[f] # "looked"
        BY <1>5, <3>2, <3>3, <3>4 DEF Settled
      <3> QED  BY <3>5
    <2> QED  BY <2>1, <2>2
  <1>15. ElementInv'
    <2> SUFFICES ASSUME phase \in {"reading", "waiting", "done"}, NEW r \in Paths \ disturbed,
                        NEW f, f = fileMap'[r]
                 PROVE  /\ \A e \in report : e.path = r =>
                             Known(r)' /\ e = [path |-> r, kind |-> Kind(orig[r], disk[r]), entry |-> f]
                        /\ disk[r] # orig[r] => \/ f \in todo \/ Active(f)' \/ failed'
                                                \/ \E e \in report : e.path = r
      BY <1>2 DEF ElementInv, Active
    <2>1. CASE Known(r)
      <3>1. f = fileMap[r] /\ Known(r)' /\ Active(f)' = Active(f)
        BY <1>5, <1>6, <2>1, KnownEntry DEF FInv, Active
      <3> QED  BY <2>1, <3>1 DEF FInv, ReportInv, ElementInv
    <2>2. CASE ~Known(r)
      BY <1>6, <2>2 DEF FInv, ReportInv, ElementInv
    <2> QED  BY <2>1, <2>2
  <1> QED  BY <1>11, <1>12, <1>13, <1>14, <1>15 DEF ReportInv

LEMMA NotifyFileAccessReport ==
  ASSUME FInv, NEW t \in Threads, NotifyFileAccess(t)
  PROVE  ReportInv'
  <1>0. DOMAIN stage = Workers /\ t \in Workers
    BY DEF FInv, HInv, TypeOK, Workers
  <1>1. CASE ev[t].new = Relative
    <2>1. stage[t] = "sent" /\ stage' = [stage EXCEPT ![t] = "handled"]
          /\ UNCHANGED <<disk, orig, files, fileMap, phase, todo, failed, report, ref, seen, disturbed>>
      BY <1>1 DEF NotifyFileAccess, Receive, diskVars, agentVars
    <2> QED  BY <1>0, <2>1, ThreadFrame DEF Inside
  <1>2. CASE ev[t].new # Relative
    <2>1. UNCHANGED report /\ (failed => failed') /\ (failed' => failed \/ phase = "reading")
      BY <1>2 DEF NotifyFileAccess, Disturb
    <2> QED  BY <1>2, <2>1, AccessPlacing, PlaceReport DEF FInv
  <1> QED  BY <1>1, <1>2

LEMMA NotifyFileRenameReport ==
  ASSUME FInv, NEW t \in Threads, NotifyFileRename(t)
  PROVE  ReportInv'
  <1>1. UNCHANGED report /\ (failed => failed') /\ (failed' => failed \/ phase = "reading")
    BY DEF NotifyFileRename, Disturb
  <1> QED  BY <1>1, RenamePlacing, PlaceReport DEF FInv

\* A step that ends a task without its element makes the attempt fail, or it keeps
\* what the report says.
LEMMA ElementsKept ==
  ASSUME FInv, UNCHANGED <<disk, orig, fileMap, phase, todo, report>>,
         disturbed \subseteq disturbed', failed => failed',
         \A k \in Tasks : Active(k) => Active(k)' \/ failed'
  PROVE  ElementInv'
  <1> SUFFICES ASSUME phase \in {"reading", "waiting", "done"}, NEW r \in Paths \ disturbed
               PROVE  /\ \A e \in report : e.path = r =>
                           Known(r) /\ e = [path |-> r, kind |-> Kind(orig[r], disk[r]),
                                            entry |-> fileMap[r]]
                      /\ disk[r] # orig[r] =>
                           \/ fileMap[r] \in todo \/ Active(fileMap[r])' \/ failed'
                           \/ \E e \in report : e.path = r
    BY DEF ElementInv, Known
  <1>1. Known(r) /\ Active(fileMap[r]) => Active(fileMap[r])' \/ failed'
    BY KnownEntry DEF FInv
  <1>2. ~Known(r) => disk[r] = orig[r]
    BY DEF FInv, HInv, EntryInv, Unrecorded, Known
  <1> QED  BY <1>1, <1>2 DEF FInv, ReportInv, ElementInv

LEMMA NotifyRenamedToReport ==
  ASSUME FInv, NEW t \in Threads, NotifyRenamedTo(t)
  PROVE  ReportInv'
  <1>1. /\ stage[t] = "renaming" /\ stage' = [stage EXCEPT ![t] = "placed"]
        /\ files' = [files EXCEPT ![ref[t]].path = ev[t].new]
        /\ UNCHANGED <<disk, orig, ev, ref, seen, fileMap, phase, todo, failed, report, disturbed>>
    BY DEF NotifyRenamedTo, diskVars, reportVars
  <1>2. /\ DOMAIN stage = Workers /\ t \in Workers
        /\ ref[t] \in DOMAIN files /\ files \in Seq(FileInfo)
        /\ ev[t].new \notin Paths \ disturbed
    <2>1. ref[t] # 0 /\ ev[t] \in Event /\ ev[t].old # None
          /\ ({ev[t].old, ev[t].new} \cap Paths) \subseteq disturbed
      BY <1>1 DEF FInv, HInv, EventInv
    <2>2. ref[t] \in 0 .. Len(files) /\ files \in Seq(FileInfo)
      BY DEF FInv, HInv, TypeOK
    <2> QED  BY <2>1, <2>2 DEF FInv, HInv, TypeOK, Workers
  <1>3. /\ DOMAIN files' = DOMAIN files
        /\ \A f \in DOMAIN files : /\ files'[f].info = files[f].info /\ files'[f].final = files[f].final
                                   /\ f # ref[t] => files'[f] = files[f]
        /\ files'[ref[t]].path = ev[t].new
    <2>1. files[ref[t]] \in FileInfo
      BY <1>2
    <2>2. \A x : /\ [files[ref[t]] EXCEPT !.path = x].info = files[ref[t]].info
                 /\ [files[ref[t]] EXCEPT !.path = x].final = files[ref[t]].final
                 /\ [files[ref[t]] EXCEPT !.path = x].path = x
      BY <2>1 DEF FileInfo
    <2> QED  BY <1>1, <1>2, <2>2
  <1>4. \A w \in Workers : Inside(w)' => Inside(w) /\ stage'[w] = stage[w] /\ Entry(w)' = Entry(w)
    BY <1>1, <1>2 DEF Inside, Entry
  <1>5. \A f \in Tasks : stage'[f] = stage[f]
    BY <1>1, <1>2, TasksApart
  <1>11. LockInv'
    BY <1>4 DEF FInv, ReportInv, LockInv
  <1>12. LoopInv'
    BY <1>1, <1>5 DEF FInv, ReportInv, LoopInv, Active
  <1>13. PathInv'
    BY <1>1, <1>2, <1>3 DEF FInv, ReportInv, PathInv
  <1>14. FreshInv'
    <2> SUFFICES ASSUME NEW r \in Paths \ disturbed, Known(r), NEW f, f = fileMap[r]
                 PROVE  /\ stage'[f] = "looked" => seen[f].body = disk[r]
                        /\ Settled(f)' =>
                             /\ LastBody(f)' = disk[r]
                             /\ \A u \in Threads : stage'[u] = "looked" /\ ref[u] = f =>
                                                     seen[u].body = disk[r]
      BY <1>1 DEF FreshInv, Known
    <2>1. f \in Tasks /\ f \in DOMAIN files
      BY KnownEntry DEF FInv
    <2>2. Settled(f)' = Settled(f) /\ LastBody(f)' = LastBody(f) /\ stage'[f] = stage[f]
      BY <1>3, <1>5, <2>1 DEF Settled, LastBody
    <2>3. \A u \in Threads : stage'[u] = "looked" => stage[u] = "looked"
      BY <1>1, <1>2 DEF Workers
    <2> QED  BY <2>1, <2>2, <2>3 DEF FInv, ReportInv, FreshInv
  <1>15. ElementInv'
    BY <1>1, <1>5, ElementsKept DEF Active
  <1> QED  BY <1>11, <1>12, <1>13, <1>14, <1>15 DEF ReportInv

LEMMA NotifyAccessReport ==
  ASSUME FInv, NEW w \in Workers, NotifyAccess(w)
  PROVE  ReportInv'
  <1> DEFINE e == Entry(w)
             f == files[e]
  <1>1. /\ stage[w] = "placed" /\ e \in DOMAIN files /\ f \in FileInfo
        /\ w \in Threads => e = ref[w] /\ w \notin Tasks
        /\ w \notin Threads => e = w /\ w \in Tasks
    BY EntryFacts DEF NotifyAccess, FInv
  <1>2. /\ UNCHANGED <<disk, orig, ref, files, fileMap, phase, todo, failed, report, disturbed>>
        /\ \A v \in Workers : Inside(v) => Entry(v) # e
    BY DEF NotifyAccess, diskVars, agentVars, reportVars
  <1>3. DOMAIN stage = Workers /\ DOMAIN seen = Workers
    BY DEF FInv, HInv, TypeOK
  <1>4. \A v \in Workers \ {w} : stage'[v] = stage[v] /\ seen'[v] = seen[v]
    BY <1>3 DEF NotifyAccess
  <1>5. \/ f.final /\ stage'[w] = "handled"
        \/ ~f.final /\ stage'[w] = "looked" /\ seen'[w].body = None /\ Body(f.path) = None
        \/ ~f.final /\ stage'[w] = "found"
    BY <1>3 DEF NotifyAccess
  <1>6. \A v \in Workers : Entry(v)' = Entry(v)
    BY <1>2 DEF Entry
  <1>7. \A k \in Tasks : Active(k)' = Active(k)
    BY <1>1, <1>4, <1>5, TasksApart DEF Active
  <1> HIDE DEF f
  <1>11. LockInv'
    BY <1>2, <1>4, <1>6 DEF FInv, ReportInv, LockInv, Inside
  <1>12. LoopInv' /\ PathInv'
    BY <1>2, <1>7 DEF FInv, ReportInv, LoopInv, PathInv
  <1>13. FreshInv'
    <2> SUFFICES ASSUME NEW r \in Paths \ disturbed, Known(r), NEW k, k = fileMap[r]
                 PROVE  /\ stage'[k] = "looked" => seen'[k].body = disk[r]
                        /\ Settled(k)' =>
                             /\ LastBody(k) = disk[r]
                             /\ \A u \in Threads : stage'[u] = "looked" /\ ref[u] = k =>
                                                     seen'[u].body = disk[r]
      BY <1>2 DEF FreshInv, Known, LastBody
    <2>1. k \in Tasks /\ k \in Workers /\ k \notin Threads
      BY KnownEntry DEF FInv
    <2>2. e = k /\ stage'[w] = "looked" => seen'[w].body = disk[r]
      <3> SUFFICES ASSUME e = k, stage'[w] = "looked" PROVE seen'[w].body = disk[r]
        OBVIOUS
      <3>1. f.path = r
        BY DEF FInv, HInv, EntryInv, f
      <3> QED  BY <1>5, <3>1 DEF Body
    <2>3. stage'[k] = "looked" => seen'[k].body = disk[r]
      <3>1. CASE k = w
        BY <1>1, <2>1, <2>2, <3>1
      <3>2. CASE k # w
        BY <1>4, <2>1, <3>2 DEF FInv, ReportInv, FreshInv
      <3> QED  BY <3>1, <3>2
    <2>4. Settled(k)' => Settled(k)
      <3>1. files'[k].final = files[k].final
        BY <1>2
      <3>2. CASE k = w
        BY <1>1, <1>2, <1>5, <2>1, <3>1, <3>2 DEF Settled, f
      <3>3. CASE k # w
        BY <1>2, <1>4, <2>1, <3>1, <3>3 DEF Settled
      <3> QED  BY <3>2, <3>3
    <2>5. ASSUME Settled(k)', NEW u \in Threads, stage'[u] = "looked", ref[u] = k
          PROVE  seen'[u].body = disk[r]
      <3>1. CASE u = w
        BY <1>1, <2>2, <2>5, <3>1
      <3>2. CASE u # w
        BY <1>4, <2>4, <2>5, <3>2 DEF FInv, ReportInv, FreshInv, Workers
      <3> QED  BY <3>1, <3>2
    <2> QED  BY <2>3, <2>4, <2>5 DEF FInv, ReportInv, FreshInv
  <1>14. ElementInv'
    BY <1>2, <1>7, ElementsKept
  <1> QED  BY <1>11, <1>12, <1>13, <1>14 DEF ReportInv

LEMMA HashReport ==
  ASSUME FInv, NEW w \in Workers, Hash(w)
  PROVE  ReportInv'
  <1> DEFINE p == seen[w].path
  <1>1. /\ stage[w] = "found" /\ seen[w] \in Record /\ p \in Paths
        /\ w \in Threads => Entry(w) = ref[w] /\ w \notin Tasks
        /\ w \notin Threads => Entry(w) = w /\ w \in Tasks
    BY EntryFacts DEF Hash, FInv, HInv, TaskInv, Inside
  <1>2. /\ UNCHANGED <<disk, orig, ref, files, fileMap, phase, todo, report>>
        /\ disturbed \subseteq disturbed'
    BY DEF Hash, diskVars, agentVars
  <1>3. DOMAIN stage = Workers /\ DOMAIN seen = Workers
    BY DEF FInv, HInv, TypeOK
  <1>4. /\ \A v \in Workers \ {w} : stage'[v] = stage[v] /\ seen'[v] = seen[v]
        /\ failed => failed'
        /\ failed' => failed \/ w \in Tasks
    BY <1>3 DEF Hash
  <1>5. \/ stage'[w] \in {"idle", "sent"} /\ (w \in Tasks => failed')
        \/ /\ stage'[w] = "looked"
           /\ seen'[w].body = disk[p] \/ p \in disturbed'
    <2>1. \A b : [seen[w] EXCEPT !.body = b].body = b
      BY <1>1 DEF Record
    <2>2. CASE disk[p] = None
      BY <1>3, <2>2 DEF Hash
    <2>3. CASE disk[p] # None
      BY <1>1, <1>3, <2>1, <2>3 DEF Hash
    <2> QED  BY <2>2, <2>3
  <1>6. \A v \in Workers : (Inside(v)' => Inside(v)) /\ Entry(v)' = Entry(v)
    BY <1>1, <1>2, <1>4 DEF Entry, Inside
  <1>7. \A k \in Tasks : /\ Active(k)' => Active(k)
                         /\ Active(k) => Active(k)' \/ failed'
    BY <1>1, <1>4, <1>5, TasksApart DEF Active
  <1>8. failed' => failed \/ phase \in {"reading", "waiting"}
    BY <1>1, <1>4 DEF FInv, ReportInv, LoopInv, Active
  <1> HIDE DEF p
  <1>11. LockInv'
    BY <1>6 DEF FInv, ReportInv, LockInv
  <1>12. LoopInv' /\ PathInv'
    BY <1>2, <1>7, <1>8 DEF FInv, ReportInv, LoopInv, PathInv
  <1>13. FreshInv'
    <2> SUFFICES ASSUME NEW r \in Paths \ disturbed', Known(r), NEW k, k = fileMap[r]
                 PROVE  /\ stage'[k] = "looked" => seen'[k].body = disk[r]
                        /\ Settled(k)' =>
                             /\ LastBody(k) = disk[r]
                             /\ \A u \in Threads : stage'[u] = "looked" /\ ref[u] = k =>
                                                     seen'[u].body = disk[r]
      BY <1>2 DEF FreshInv, Known, LastBody
    <2>1. k \in Tasks /\ k \in Workers /\ k \notin Threads /\ r \in Paths \ disturbed
      BY <1>2, KnownEntry DEF FInv
    <2>2. Entry(w) = k /\ stage'[w] = "looked" => seen'[w].body = disk[r]
      <3> SUFFICES ASSUME Entry(w) = k, stage'[w] = "looked" PROVE seen'[w].body = disk[r]
        OBVIOUS
      <3>1. p = r
        BY <1>1, <2>1 DEF FInv, HInv, EntryInv, Inside, p
      <3> QED  BY <1>5, <3>1
    <2>3. stage'[k] = "looked" => seen'[k].body = disk[r]
      <3>1. CASE k = w
        BY <1>1, <2>1, <2>2, <3>1
      <3>2. CASE k # w
        BY <1>4, <2>1, <3>2 DEF FInv, ReportInv, FreshInv
      <3> QED  BY <3>1, <3>2
    <2>4. Settled(k)' => Settled(k)
      <3>1. files'[k].final = files[k].final
        BY <1>2
      <3>2. stage'[k] \in {"handled", "frozen"} => stage'[k] = stage[k]
        BY <1>4, <1>5, <2>1
      <3> QED  BY <1>2, <3>1, <3>2 DEF Settled
    <2>5. ASSUME Settled(k)', NEW u \in Threads, stage'[u] = "looked", ref[u] = k
          PROVE  seen'[u].body = disk[r]
      <3>1. CASE u = w
        BY <1>1, <2>2, <2>5, <3>1
      <3>2. CASE u # w
        BY <1>4, <2>1, <2>4, <2>5, <3>2 DEF FInv, ReportInv, FreshInv, Workers
      <3> QED  BY <3>1, <3>2
    <2> QED  BY <2>1, <2>3, <2>4, <2>5 DEF FInv, ReportInv, FreshInv
  <1>14. ElementInv'
    BY <1>2, <1>4, <1>7, ElementsKept
  <1> QED  BY <1>11, <1>12, <1>13, <1>14 DEF ReportInv

LEMMA AddRecordReport ==
  ASSUME FInv, NEW w \in Workers, AddRecord(w)
  PROVE  ReportInv'
  <1> DEFINE e == Entry(w)
  <1>1. /\ stage[w] = "looked"
        /\ e \in DOMAIN files
        /\ w \in Threads => e = ref[w] /\ w \notin Tasks
        /\ w \notin Threads => e = w /\ w \in Tasks
    BY RecordAdded DEF FInv
  <1>2. /\ DOMAIN files' = DOMAIN files
        /\ \A i \in DOMAIN files \ {e} : files'[i] = files[i]
        /\ files'[e].path = files[e].path /\ files'[e].final = files[e].final
        /\ files'[e].info[Len(files'[e].info)] = seen[w]
    BY RecordAdded DEF FInv
  <1>3. UNCHANGED <<disk, orig, fileMap, phase, todo, failed, report, disturbed>>
    BY DEF AddRecord, diskVars, reportVars
  <1>4. DOMAIN stage = Workers /\ DOMAIN seen = Workers /\ DOMAIN ref = Threads
    BY DEF FInv, HInv, TypeOK
  <1>5. /\ stage'[w] = "handled"
        /\ \A v \in Workers \ {w} : stage'[v] = stage[v] /\ seen'[v] = seen[v]
        /\ \A v \in Workers \ {w} : Entry(v)' = Entry(v)
        /\ \A t \in Threads \ {w} : ref'[t] = ref[t]
    BY <1>4 DEF AddRecord, Entry, Workers
  <1>6. \A k \in Tasks : Active(k)' = Active(k)
    BY <1>1, <1>5, TasksApart DEF Active
  <1>7. \A v \in Workers : Inside(v)' => v # w /\ Inside(v) /\ Entry(v) # e
    BY <1>1, <1>5 DEF Inside, FInv, ReportInv, LockInv
  <1> HIDE DEF e
  <1>11. LockInv'
    BY <1>5, <1>7 DEF FInv, ReportInv, LockInv
  <1>12. LoopInv'
    BY <1>3, <1>6 DEF FInv, ReportInv, LoopInv
  <1>13. PathInv'
    <2>1. \A i \in DOMAIN files : files'[i].path = files[i].path
      BY <1>2
    <2> QED  BY <1>2, <1>3, <2>1 DEF FInv, ReportInv, PathInv
  <1>14. FreshInv'
    <2> SUFFICES ASSUME NEW r \in Paths \ disturbed, Known(r), NEW k, k = fileMap[r]
                 PROVE  /\ stage'[k] = "looked" => seen'[k].body = disk[r]
                        /\ Settled(k)' =>
                             /\ LastBody(k)' = disk[r]
                             /\ \A u \in Threads : stage'[u] = "looked" /\ ref'[u] = k =>
                                                     seen'[u].body = disk[r]
      BY <1>3 DEF FreshInv, Known
    <2>1. /\ k \in Tasks /\ k \in Workers /\ k \notin Threads /\ k \in DOMAIN files
          /\ Entry(k) = k
      BY KnownEntry DEF FInv
    <2>2. stage'[k] = "looked" => seen'[k].body = disk[r]
      BY <1>5, <2>1 DEF FInv, ReportInv, FreshInv
    <2>3. CASE k = e
      <3>1. Settled(k)' => seen[w].body = disk[r]
        <4>1. CASE k = w
          BY <1>1, <4>1 DEF FInv, ReportInv, FreshInv
        <4>2. CASE k # w
          <5>1. Settled(k)' => Settled(k)
            BY <1>2, <1>5, <2>1, <2>3, <4>2 DEF Settled
          <5>2. w \in Threads /\ ref[w] = k
            BY <1>1, <2>3, <4>2
          <5> QED  BY <1>1, <5>1, <5>2 DEF FInv, ReportInv, FreshInv
        <4> QED  BY <4>1, <4>2
      <3>2. LastBody(k)' = seen[w].body
        BY <1>2, <2>3 DEF LastBody
      <3>3. \A u \in Threads : stage'[u] = "looked" => ref'[u] # k
        <4> SUFFICES ASSUME NEW u \in Threads, stage'[u] = "looked" PROVE ref'[u] # k
          OBVIOUS
        <4>1. u \in Workers /\ u # w /\ Inside(u) /\ Entry(u) # e
          BY <1>7 DEF Workers, Inside
        <4>2. Entry(u) = ref[u]
          BY TasksApart DEF Entry
        <4> QED  BY <1>5, <2>3, <4>1, <4>2
      <3> QED  BY <2>2, <3>1, <3>2, <3>3
    <2>4. CASE k # e
      <3>1. k # w /\ files'[k] = files[k] /\ stage'[k] = stage[k]
        BY <1>1, <1>2, <1>5, <2>1, <2>4
      <3>2. Settled(k)' = Settled(k) /\ LastBody(k)' = LastBody(k)
        BY <3>1 DEF Settled, LastBody
      <3>3. \A u \in Threads : stage'[u] = "looked" =>
              stage[u] = "looked" /\ ref'[u] = ref[u] /\ seen'[u] = seen[u]
        BY <1>5 DEF Workers
      <3> QED  BY <2>2, <3>2, <3>3 DEF FInv, ReportInv, FreshInv
    <2> QED  BY <2>3, <2>4
  <1>15. ElementInv'
    BY <1>3, <1>6, ElementsKept
  <1> QED  BY <1>11, <1>12, <1>13, <1>14, <1>15 DEF ReportInv

\* What a task does to entries and workers leaves what LockInv, PathInv and FreshInv say.
LEMMA TaskFrame ==
  ASSUME FInv, NEW f \in Tasks, UNCHANGED <<disk, fileMap, ref, seen, disturbed>>,
         ~Inside(f), ~Inside(f)', \A w \in Workers \ {f} : stage'[w] = stage[w],
         DOMAIN files' = DOMAIN files,
         \A i \in DOMAIN files : /\ files'[i].path = files[i].path
                                 /\ files'[i].info = files[i].info
                                 /\ i # f => files'[i] = files[i],
         Settled(f)' => Settled(f)
  PROVE  LockInv' /\ PathInv' /\ FreshInv'
  <1>1. \A w \in Workers : Inside(w)' = Inside(w) /\ Entry(w)' = Entry(w)
    BY TasksApart DEF Inside, Entry
  <1>2. LockInv'
    BY <1>1 DEF FInv, ReportInv, LockInv
  <1>3. PathInv'
    BY DEF FInv, ReportInv, PathInv
  <1>4. FreshInv'
    <2> SUFFICES ASSUME NEW r \in Paths \ disturbed, Known(r), NEW k, k = fileMap[r]
                 PROVE  /\ stage'[k] = "looked" => seen[k].body = disk[r]
                        /\ Settled(k)' =>
                             /\ LastBody(k)' = disk[r]
                             /\ \A u \in Threads : stage'[u] = "looked" /\ ref[u] = k =>
                                                     seen[u].body = disk[r]
      BY DEF FreshInv, Known
    <2>1. k \in Tasks /\ k \in Workers /\ k \in DOMAIN files
      BY KnownEntry DEF FInv
    <2>2. Settled(k)' => Settled(k)
      BY <2>1 DEF Settled
    <2>3. LastBody(k)' = LastBody(k)
      BY <2>1 DEF LastBody
    <2>4. stage'[k] = "looked" => stage[k] = "looked"
      BY <2>1 DEF Inside
    <2>5. \A u \in Threads : stage'[u] = "looked" => stage[u] = "looked"
      BY TasksApart DEF Workers
    <2> QED  BY <2>1, <2>2, <2>3, <2>4, <2>5 DEF FInv, ReportInv, FreshInv
  <1> QED  BY <1>2, <1>3, <1>4

LEMMA TakeFileReport ==
  ASSUME FInv, NEW f \in Tasks, TakeFile(f)
  PROVE  ReportInv'
  <1>1. /\ phase = "reading" /\ stage[f] = "idle" /\ todo' = todo \ {f}
        /\ stage' = [stage EXCEPT ![f] = "placed"]
        /\ UNCHANGED <<disk, orig, ref, seen, files, fileMap, phase, failed, report, disturbed>>
    BY DEF TakeFile, Active, diskVars, agentVars
  <1>2. DOMAIN stage = Workers /\ f \in Workers
    BY TasksApart DEF FInv, HInv, TypeOK
  <1>3. LockInv' /\ PathInv' /\ FreshInv'
    <2>1. Settled(f)' => Settled(f)
      BY <1>1, <1>2 DEF Settled
    <2> QED  BY <1>1, <1>2, <2>1, TaskFrame DEF Inside
  <1>4. LoopInv'
    BY <1>1 DEF FInv, ReportInv, LoopInv
  <1>5. ElementInv'
    <2> SUFFICES ASSUME NEW r \in Paths \ disturbed
                 PROVE  /\ \A e \in report : e.path = r =>
                             Known(r) /\ e = [path |-> r, kind |-> Kind(orig[r], disk[r]),
                                              entry |-> fileMap[r]]
                        /\ disk[r] # orig[r] =>
                             \/ fileMap[r] \in todo' \/ stage'[fileMap[r]] # "idle" \/ failed
                             \/ \E e \in report : e.path = r
      BY <1>1 DEF ElementInv, Known, Active
    <2>1. Known(r) => fileMap[r] \in Workers
      BY KnownEntry DEF FInv
    <2>2. ~Known(r) => disk[r] = orig[r]
      BY DEF FInv, HInv, EntryInv, Unrecorded, Known
    <2> QED  BY <1>1, <1>2, <2>1, <2>2 DEF FInv, ReportInv, ElementInv, Active
  <1> QED  BY <1>3, <1>4, <1>5 DEF ReportInv

LEMMA CheckoutHistoryReport ==
  ASSUME FInv, NEW f \in Tasks, CheckoutHistory(f)
  PROVE  ReportInv'
  <1>1. /\ stage[f] = "handled" /\ files' = [files EXCEPT ![f].final = TRUE]
        /\ stage' = [stage EXCEPT ![f] = "frozen"]
        /\ UNCHANGED <<disk, orig, ref, seen, fileMap, phase, todo, failed, report, disturbed>>
    BY DEF CheckoutHistory, diskVars, reportVars
  <1>2. DOMAIN stage = Workers /\ f \in Workers /\ files \in Seq(FileInfo)
    BY TasksApart DEF FInv, HInv, TypeOK
  <1>3. /\ DOMAIN files' = DOMAIN files
        /\ \A i \in DOMAIN files : /\ files'[i].path = files[i].path
                                   /\ files'[i].info = files[i].info
                                   /\ i # f => files'[i] = files[i]
    <2>1. \A e \in FileInfo : /\ [e EXCEPT !.final = TRUE].path = e.path
                              /\ [e EXCEPT !.final = TRUE].info = e.info
      BY DEF FileInfo
    <2>2. \A i \in DOMAIN files : files[i] \in FileInfo
      BY <1>2
    <2> QED  BY <1>1, <2>1, <2>2
  <1>4. \A k \in Tasks : Active(k)' = Active(k)
    BY <1>1, <1>2, TasksApart DEF Active
  <1>5. LockInv' /\ PathInv' /\ FreshInv'
    <2>1. Settled(f)
      BY <1>1 DEF Settled
    <2> QED  BY <1>1, <1>2, <1>3, <2>1, TaskFrame DEF Inside
  <1>6. LoopInv'
    BY <1>1, <1>4 DEF FInv, ReportInv, LoopInv
  <1>7. ElementInv'
    BY <1>1, <1>4, ElementsKept
  <1> QED  BY <1>5, <1>6, <1>7 DEF ReportInv

LEMMA ReportFileReport ==
  ASSUME FInv, NEW f \in Tasks, ReportFile(f)
  PROVE  ReportInv'
  <1> DEFINE kind == Kind(files[f].info[1].body, files[f].info[Len(files[f].info)].body)
             x == [path |-> files[f].path, kind |-> kind, entry |-> f]
  <1>1. /\ stage[f] = "frozen" /\ stage' = [stage EXCEPT ![f] = "idle"]
        /\ \/ report' = report \cup {x} /\ UNCHANGED failed
           \/ failed' = TRUE /\ UNCHANGED report
        /\ UNCHANGED <<disk, orig, ref, seen, files, fileMap, phase, todo, disturbed>>
    BY DEF ReportFile, diskVars, agentVars
  <1>2. DOMAIN stage = Workers /\ f \in Workers /\ f \in Nat \ {0} /\ f \in DOMAIN files
    BY <1>1, TasksApart DEF FInv, HInv, TypeOK, TaskInv
  <1>3. phase \in {"reading", "waiting"}
    BY <1>1 DEF FInv, ReportInv, LoopInv, Active
  <1>4. \A r \in Paths \ disturbed : /\ files[f].path = r <=> fileMap[r] = f
                                     /\ fileMap[r] = f => Known(r) /\ kind = Kind(orig[r], disk[r])
    <2> SUFFICES ASSUME NEW r \in Paths \ disturbed
                 PROVE  /\ files[f].path = r <=> fileMap[r] = f
                        /\ fileMap[r] = f => Known(r) /\ kind = Kind(orig[r], disk[r])
      OBVIOUS
    <2>1. files[f].path = r => fileMap[r] = f
      BY <1>2 DEF FInv, ReportInv, PathInv
    <2>2. ASSUME fileMap[r] = f
          PROVE  files[f].path = r /\ Known(r) /\ kind = Kind(orig[r], disk[r])
      <3>1. Known(r)
        BY <1>2, <2>2 DEF Known
      <3>2. files[f].path = r /\ files[f].info # <<>> /\ files[f].info[1].body = orig[r]
        BY <1>1, <2>2, <3>1 DEF FInv, HInv, EntryInv, TaskInv
      <3>3. files[f].info[Len(files[f].info)].body = disk[r]
        BY <1>1, <2>2, <3>1 DEF FInv, ReportInv, FreshInv, Settled, LastBody
      <3> QED  BY <3>1, <3>2, <3>3
    <2> QED  BY <2>1, <2>2
  <1> HIDE DEF kind
  <1>5. LockInv' /\ PathInv' /\ FreshInv'
    <2>1. Settled(f)' => Settled(f)
      BY <1>1, <1>2 DEF Settled
    <2> QED  BY <1>1, <1>2, <2>1, TaskFrame DEF Inside
  <1>6. LoopInv'
    <2>1. \A k \in Tasks : Active(k)' => Active(k)
      BY <1>1, <1>2, TasksApart DEF Active
    <2> QED  BY <1>1, <1>3, <2>1 DEF FInv, ReportInv, LoopInv
  <1>7. ElementInv'
    <2> SUFFICES ASSUME NEW r \in Paths \ disturbed
                 PROVE  /\ \A e \in report' : e.path = r =>
                             Known(r) /\ e = [path |-> r, kind |-> Kind(orig[r], disk[r]),
                                              entry |-> fileMap[r]]
                        /\ disk[r] # orig[r] =>
                             \/ fileMap[r] \in todo \/ stage'[fileMap[r]] # "idle" \/ failed'
                             \/ \E e \in report' : e.path = r
      BY <1>1 DEF ElementInv, Known, Active
    <2>1. /\ \A e \in report : e.path = r =>
               Known(r) /\ e = [path |-> r, kind |-> Kind(orig[r], disk[r]), entry |-> fileMap[r]]
          /\ disk[r] # orig[r] =>
               \/ fileMap[r] \in todo \/ stage[fileMap[r]] # "idle" \/ failed
               \/ \E e \in report : e.path = r
      BY <1>3 DEF FInv, ReportInv, ElementInv, Active
    <2>2. x.path = files[f].path
      OBVIOUS
    <2>3. ASSUME files[f].path = r
          PROVE  Known(r) /\ x = [path |-> r, kind |-> Kind(orig[r], disk[r]), entry |-> fileMap[r]]
      BY <1>4, <2>3
    <2> HIDE DEF x
    <2>4. CASE fileMap[r] = f
      BY <1>1, <1>4, <2>1, <2>2, <2>3, <2>4
    <2>5. CASE fileMap[r] # f
      BY <1>1, <1>2, <1>4, <2>1, <2>2, <2>5
    <2> QED  BY <2>4, <2>5
  <1> QED  BY <1>5, <1>6, <1>7 DEF ReportInv

\* The steps of the loop itself.
LEMMA LoopStepReport ==
  ASSUME FInv, Stop \/ ReadFiles \/ EndEnumeration \/ EndLoop
  PROVE  ReportInv'
  <1>1. UNCHANGED <<disk, orig, stage, ref, seen, files, fileMap, disturbed>>
    BY DEF Stop, ReadFiles, EndEnumeration, EndLoop, diskVars, agentVars
  <1>2. LockInv' /\ PathInv' /\ FreshInv'
    BY <1>1 DEF FInv, ReportInv, LockInv, PathInv, FreshInv, Inside, Entry, Known, Settled, LastBody
  <1>3. LoopInv'
    BY <1>1 DEF FInv, ReportInv, LoopInv, Active, Stop, ReadFiles, EndEnumeration, EndLoop, reportVars
  <1>4. ElementInv'
    <2> SUFFICES ASSUME phase' \in {"reading", "waiting", "done"}, NEW r \in Paths \ disturbed
                 PROVE  /\ \A e \in report' : e.path = r =>
                             Known(r) /\ e = [path |-> r, kind |-> Kind(orig[r], disk[r]),
                                              entry |-> fileMap[r]]
                        /\ disk[r] # orig[r] =>
                             \/ fileMap[r] \in todo' \/ Active(fileMap[r]) \/ failed'
                             \/ \E e \in report' : e.path = r
      BY <1>1 DEF ElementInv, Known, Active
    <2>1. CASE ReadFiles
      <3>1. disk[r] # orig[r] => Known(r)
        BY DEF FInv, HInv, EntryInv, Unrecorded, Known
      <3>2. r \in DOMAIN fileMap
        BY DEF FInv, HInv, TypeOK
      <3> QED  BY <2>1, <3>1, <3>2 DEF ReadFiles
    <2>2. CASE ~ReadFiles
      <3>1. UNCHANGED <<report, todo, failed>> /\ phase \in {"reading", "waiting"}
        BY <2>2 DEF Stop, EndEnumeration, EndLoop
      <3> QED  BY <3>1 DEF FInv, ReportInv, ElementInv
    <2> QED  BY <2>1, <2>2
  <1> QED  BY <1>2, <1>3, <1>4 DEF ReportInv

LEMMA ReportStep == FInv /\ [Next]_vars => FInv'
  <1> SUFFICES ASSUME FInv, [Next]_vars PROVE ReportInv'
    BY HistoryStep DEF FInv
  <1>1. ASSUME NEW t \in Threads, Handler(t) PROVE ReportInv'
    BY <1>1, NotifyFileAccessReport, NotifyFileRenameReport, NotifyRenamedToReport DEF Handler
  <1>2. ASSUME NEW w \in Workers, Access(w) PROVE ReportInv'
    BY <1>2, NotifyAccessReport, HashReport, AddRecordReport DEF Access
  <1>3. ASSUME NEW f \in Tasks, Task(f) PROVE ReportInv'
    BY <1>3, TakeFileReport, CheckoutHistoryReport, ReportFileReport DEF Task
  <1>4. CASE UNCHANGED vars
    <2>1. UNCHANGED <<orig, files, fileMap, phase, todo, failed, report, ref, seen, disturbed,
                      disk, stage>>
      BY <1>4 DEF vars
    <2> QED  BY <2>1, ThreadFrame
  <1> QED  BY <1>1, <1>2, <1>3, <1>4, ThreadOpReport, LoopStepReport DEF Next

\* The histories the agent keeps are those of their files: NotifyFileAccess,
\* NotifyFileRename and FileAccessInfo (ProgramStatus.cs:72-205, 576-706), called while
\* the threads that are going to change the files wait.
THEOREM HistoryInvariant == Spec => []HInv
  BY InitInv, HistoryStep, PTL DEF Spec

\* The history of a file that was never changed behind the hooks' back starts with what
\* the file was when the job started (dllmain.cpp:623).
THEOREM FirstIsOriginalTheorem == Spec => []FirstIsOriginal
  <1>1. HInv => FirstIsOriginal
    BY DEF HInv, EntryInv, FirstIsOriginal, Unrecorded, Known
  <1> QED  BY <1>1, HistoryInvariant, PTL

\* Whatever PrepareReport's loop has written of an undisturbed file is true, and nothing
\* is missing when it ends: the loop, CheckoutHistory and FileAccessInfo's lock
\* (LogicThread.cs:1303-1431, ProgramStatus.cs:576-706).
THEOREM ReportInvariant == Spec => []FInv
  <1>1. Init => ReportInv
    <2> SUFFICES ASSUME Init PROVE ReportInv
      OBVIOUS
    <2>1. HInv
      BY InitInv
    <2>2. LockInv /\ LoopInv /\ PathInv /\ ElementInv
      BY TasksApart DEF Init, LockInv, LoopInv, PathInv, ElementInv, Inside, Active
    <2>3. FreshInv
      BY DEF Init, FreshInv, Known
    <2> QED  BY <2>2, <2>3 DEF ReportInv
  <1> QED  BY <1>1, InitInv, ReportStep, PTL DEF Spec, FInv

\* The report is true of every file that was never changed behind the hooks' back
\* (LogicThread.cs:1303).
THEOREM ReportTrueTheorem == Spec => []ReportTrue
  <1>1. FInv => ReportTrue
    <2> SUFFICES ASSUME FInv, phase = "done", NEW p \in Paths \ disturbed,
                        NEW elements, elements = {e \in report : e.path = p}
                 PROVE  /\ \A e \in elements : e.kind = Kind(orig[p], disk[p])
                        /\ Cardinality(elements) <= 1
                        /\ disk[p] # orig[p] => elements # {}
      BY DEF ReportTrue
    <2> DEFINE x == [path |-> p, kind |-> Kind(orig[p], disk[p]), entry |-> fileMap[p]]
    <2>1. \A e \in elements : e = x
      BY DEF FInv, ReportInv, ElementInv
    <2>2. Cardinality(elements) <= 1
      <3> HIDE DEF x
      <3>1. elements = {} \/ elements = {x}
        BY <2>1
      <3>2. Cardinality({}) = 0 /\ Cardinality({x}) = 1
        BY FS_EmptySet, FS_Singleton
      <3> QED  BY <3>1, <3>2
    <2>3. disk[p] # orig[p] => elements # {}
      <3>1. disk[p] # orig[p] => Known(p)
        BY DEF FInv, HInv, EntryInv, Unrecorded, Known
      <3>2. Known(p) => ~Active(fileMap[p])
        BY KnownEntry DEF FInv, ReportInv, LoopInv
      <3>3. todo = {} /\ ~failed
        BY DEF FInv, ReportInv, LoopInv
      <3> QED  BY <3>1, <3>2, <3>3 DEF FInv, ReportInv, ElementInv
    <2> QED  BY <2>1, <2>2, <2>3
  <1> QED  BY <1>1, ReportInvariant, PTL
=============================================================================
