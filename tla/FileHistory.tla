----------------------------- MODULE FileHistory -----------------------------
(***************************************************************************)
(* What the report says of the files an installer touched.  Hooked threads *)
(* announce files to the agent (the file hooks of dllmain.cpp), the agent  *)
(* looks at each announced file while the thread is blocked and keeps what *)
(* it saw as the file's history (NotifyFileAccess, NotifyFileRename,       *)
(* FileAccessInfo of ProgramStatus.cs), and PrepareReport freezes every    *)
(* history and classifies the file by its first and last record            *)
(* (LogicThread.cs).  The channel is used as EventDelivery describes it.   *)
(*                                                                         *)
(* A handler and a task of Parallel.ForEach are both workers: they run     *)
(* FileAccessInfo.NotifyAccess on their entry, under lock (this).          *)
(***************************************************************************)
EXTENDS Naturals, Sequences, FiniteSets

CONSTANTS Paths,        \* files
          Threads,      \* hooked threads, each with one file handle at most
          Contents,     \* what a file may contain
          None,         \* no file, no handle, no path
          Unread,       \* the hash of a file the agent could not open
          Relative,     \* a path that was built from a directory handle
          MaxOps,       \* bound: file operations, lost ACKs, lost events and kills
          MaxEntries,   \* bound: FileAccessInfo objects
          MaxLate       \* events handled after Stop (AtMostOneLateEvent)

Values == {None, Unread, Relative}

ASSUME HistoryAssumption == /\ Paths \cap Values = {}
                            /\ Contents \cap Values = {}
                            /\ Threads \cap Nat = {}
                            /\ Cardinality(Values) = 3
                            /\ {MaxOps, MaxEntries, MaxLate} \subseteq Nat

Tasks == 1 .. MaxEntries
Workers == Threads \cup Tasks

VARIABLES disk, orig,   \* contents of each path, now and at the start
          pos,          \* where a hooked thread is
          want,         \* the open it is executing
          open,         \* its handle: path, None if it has none, and write access
          hmap,         \* handleMap's path for that handle value
          ev,           \* the event it announces: [old, new], old = None for an access
          stage,        \* progress of each worker
          ref,          \* the entry a handler works on
          seen,         \* what it has found out about the file
          files,        \* every FileAccessInfo: path, records, finalized
          fileMap,      \* _fileMap: index of the entry of a path, 0 if none
          phase,        \* run, stopped, reading, waiting, done
          todo,         \* entries Parallel.ForEach has not taken
          failed,       \* the loop of the report is going to throw
          report,       \* what is written to the report in this attempt
          late,         \* events taken since Stop
          ops,          \* operations and faults so far
          disturbed     \* history: paths changed in a way the hooks do not see

diskVars == <<disk, orig>>
threadVars == <<pos, want, open, hmap>>
agentVars == <<files, fileMap>>
reportVars == <<phase, todo, failed, report>>
vars == <<disk, orig, pos, want, open, hmap, ev, stage, ref, seen, files,
          fileMap, phase, todo, failed, report, late, ops, disturbed>>

NoHandle == [path |-> None, writes |-> FALSE]

Init == /\ orig \in [Paths -> Contents \cup {None}]
        /\ disk = orig
        /\ pos = [t \in Threads |-> "free"]
        /\ want = [t \in Threads |-> None]
        /\ open = [t \in Threads |-> NoHandle]
        /\ hmap = [t \in Threads |-> None]
        /\ ev = [t \in Threads |-> None]
        /\ stage = [w \in Workers |-> "idle"]
        /\ ref = [t \in Threads |-> 0]
        /\ seen = [w \in Workers |-> None]
        /\ files = <<>>
        /\ fileMap = [p \in Paths \cup {Relative} |-> 0]
        /\ phase = "run"
        /\ todo = {} /\ failed = FALSE /\ report = {} /\ late = 0 /\ ops = 0
        /\ disturbed = {}

-----------------------------------------------------------------------------
(* The hooked threads.  What they do behind the hooks' back is collected in *)
(* disturbed: a path named relative to a directory, a handle the hooks did  *)
(* not see, an event that was given up, a rename, a deletion of a file the  *)
(* agent has not looked at, its creation or truncation by an open without   *)
(* write access, a change once the report is being built.                   *)

Unrecorded(p) == fileMap[p] = 0 \/ files[fileMap[p]].info = <<>>

Unseen(p) == IF Unrecorded(p) THEN {p} ELSE {}

TooLate(p) == IF \/ fileMap[p] # 0 /\ files[fileMap[p]].final
                 \/ phase \in {"reading", "waiting", "done"}
              THEN {p} ELSE {}

Spend == ops < MaxOps /\ ops' = ops + 1

Begin(t) == pos[t] = "free" /\ Spend

Send(t, old, new, where) == /\ stage[t] = "idle"
                            /\ ev' = [ev EXCEPT ![t] = [old |-> old, new |-> new]]
                            /\ stage' = [stage EXCEPT ![t] = "sent"]
                            /\ pos' = [pos EXCEPT ![t] = where]

UsedByOther(t, p) == \E u \in Threads \ {t} : open[u].path = p

\* IsRequestingWriteAccess reads past the end of its table, so it may answer
\* yes to anything; it never answers no to an access that writes.
NotifyOpen(t, p, writes, name) ==
  /\ Begin(t)
  /\ open[t] = NoHandle
  /\ want' = [want EXCEPT ![t] = [path |-> p, writes |-> writes, name |-> name]]
  /\ \/ Send(t, None, name, "sending")
     \/ /\ ~writes
        /\ pos' = [pos EXCEPT ![t] = "calling"]
        /\ UNCHANGED <<ev, stage>>
  /\ disturbed' = disturbed \cup (IF name = Relative THEN Unseen(p) ELSE {})
  /\ UNCHANGED <<diskVars, open, hmap, ref, seen, agentVars, reportVars, late>>

\* Mutant of CallOpen: the thread does not wait for the answer to its announcement.
CallOpenUnanswered(t) ==
  /\ pos[t] \in {"sending", "calling"} /\ want[t].writes
  /\ disk' = [disk EXCEPT ![want[t].path] = CHOOSE c \in Contents : c # @]
  /\ open' = [open EXCEPT ![t] = [path |-> want[t].path, writes |-> TRUE]]
  /\ pos' = [pos EXCEPT ![t] = "free"]
  /\ UNCHANGED <<orig, want, hmap, ev, stage, ref, seen, agentVars, reportVars,
                 late, ops, disturbed>>

\* realNtCreateFile, realNtOpenFile: the file may be created or overwritten, which
\* depends on the disposition and not on the access the hook looks at.
CallOpen(t) ==
  LET p == want[t].path
      unasked == IF want[t].writes THEN {} ELSE Unseen(p)
  IN  /\ pos[t] = "calling"
      /\ \/ \E c \in Contents :
              /\ disk' = [disk EXCEPT ![p] = c]
              /\ open' = [open EXCEPT ![t] = [path |-> p, writes |-> want[t].writes]]
              /\ hmap' = [hmap EXCEPT ![t] = want[t].name]
              /\ disturbed' = disturbed \cup (IF c # disk[p] THEN TooLate(p) \cup unasked
                                              ELSE {})
         \/ UNCHANGED <<disk, open, hmap, disturbed>>
      /\ pos' = [pos EXCEPT ![t] = "free"]
      /\ want' = [want EXCEPT ![t] = None]
      /\ UNCHANGED <<orig, ev, stage, ref, seen, agentVars, reportVars,
                     late, ops>>

\* A handle that no hook saw: inherited, duplicated or opened by another path.
\* handleMap still has what it held for that handle value (MyNtClose keeps it).
Adopt(t, p) ==
  /\ Begin(t)
  /\ open[t] = NoHandle /\ disk[p] # None
  /\ open' = [open EXCEPT ![t] = [path |-> p, writes |-> TRUE]]
  /\ disturbed' = disturbed \cup Unseen(p)
  /\ UNCHANGED <<diskVars, pos, want, hmap, ev, stage, ref, seen, agentVars,
                 reportVars, late>>

WriteFile(t, c) ==
  /\ pos[t] = "free"
  /\ open[t].writes /\ disk[open[t].path] # c
  /\ disk' = [disk EXCEPT ![open[t].path] = c]
  /\ disturbed' = disturbed \cup TooLate(open[t].path)
  /\ UNCHANGED <<orig, threadVars, ev, stage, ref, seen, agentVars, reportVars,
                 late, ops>>

MyNtClose(t) == /\ pos[t] = "free" /\ open[t] # NoHandle
                /\ open' = [open EXCEPT ![t] = NoHandle]
                /\ UNCHANGED <<diskVars, pos, want, hmap, ev, stage, ref, seen,
                               agentVars, reportVars, late, ops, disturbed>>

\* NtSetInformationFile with FileDispositionInformation, which is what DeleteFile
\* uses: the hook passes it on and announces nothing.
Dispose(t) ==
  /\ pos[t] = "free"
  /\ open[t] # NoHandle /\ ~UsedByOther(t, open[t].path)
  /\ disk' = [disk EXCEPT ![open[t].path] = None]
  /\ open' = [open EXCEPT ![t] = NoHandle]
  /\ disturbed' = disturbed \cup Unseen(open[t].path) \cup TooLate(open[t].path)
  /\ UNCHANGED <<orig, pos, want, hmap, ev, stage, ref, seen, agentVars,
                 reportVars, late, ops>>

\* MyNtDeleteFile announces the path afterwards, whatever the call returned.
MyNtDeleteFile(t, p) ==
  /\ Begin(t)
  /\ \/ /\ disk[p] # None
        /\ \A u \in Threads : open[u].path # p
        /\ disk' = [disk EXCEPT ![p] = None]
        /\ disturbed' = disturbed \cup Unseen(p) \cup TooLate(p)
     \/ UNCHANGED <<disk, disturbed>>
  /\ Send(t, None, p, "telling")
  /\ UNCHANGED <<orig, want, open, hmap, ref, seen, agentVars, reportVars, late>>

\* MyNtSetInformationFile: the old name is the one handleMap has for the handle,
\* which neither this hook nor NtClose brings up to date.
MyNtSetInformationFile(t, q) ==
  LET p == open[t].path
  IN  /\ Begin(t)
      /\ open[t] # NoHandle
      /\ q # p /\ ~UsedByOther(t, p) /\ ~UsedByOther(t, q)
      /\ disk' = [disk EXCEPT ![q] = disk[p], ![p] = None]
      /\ open' = [open EXCEPT ![t].path = q]
      /\ Send(t, hmap[t], q, "telling")
      /\ disturbed' = disturbed \cup {p, q} \cup ({hmap[t]} \cap Paths)
      /\ UNCHANGED <<orig, want, hmap, ref, seen, agentVars, reportVars, late>>

\* sendToEventPipe returns, or its thread is dead.
Return(t) == /\ stage' = [stage EXCEPT ![t] = "idle"]
             /\ ev' = [ev EXCEPT ![t] = None]
             /\ pos' = [pos EXCEPT ![t] = CASE @ = "sending" -> "calling"
                                            [] @ = "telling" -> "free"
                                            [] OTHER -> @]
             /\ UNCHANGED <<diskVars, want, open, hmap, ref, seen, agentVars,
                            reportVars, late>>

\* The event was handled and its ACK read.
Acknowledge(t) == /\ stage[t] = "handled" /\ Return(t)
                  /\ UNCHANGED <<ops, disturbed>>

\* No pipe is to be had, or the sender died: the event is not sent (again).
GiveUp(t) == /\ stage[t] = "sent" /\ Return(t)
             /\ disturbed' = disturbed \cup (IF pos[t] = "sending"
                                             THEN {ev[t].new} \cap Paths ELSE {})
             /\ IF pos[t] = "gone" THEN UNCHANGED ops ELSE Spend

\* The ACK is lost and the same event is sent again.
LoseAck(t) == /\ stage[t] = "handled" /\ pos[t] # "gone"
              /\ Spend
              /\ stage' = [stage EXCEPT ![t] = "sent"]
              /\ UNCHANGED <<diskVars, threadVars, ev, ref, seen, agentVars, reportVars,
                             late, disturbed>>

Kill(t) == /\ pos[t] # "gone" /\ Spend
           /\ pos' = [pos EXCEPT ![t] = "gone"]
           /\ open' = [open EXCEPT ![t] = NoHandle]
           /\ want' = [want EXCEPT ![t] = None]
           /\ hmap' = [hmap EXCEPT ![t] = None]
           /\ UNCHANGED <<diskVars, ev, stage, ref, seen, agentVars,
                          reportVars, late, disturbed>>

-----------------------------------------------------------------------------
(* The agent's handlers. *)

Known(p) == fileMap[p] # 0

NewEntry(p) == /\ Len(files) < MaxEntries
               /\ files' = Append(files, [path |-> p, info |-> <<>>, final |-> FALSE])

\* A change of the dictionary makes its enumeration throw.
Disturb == failed' = (failed \/ phase = "reading")

Receive(t) == /\ stage[t] = "sent"
              /\ phase = "run" \/ late < MaxLate
              /\ late' = IF phase = "run" THEN late ELSE late + 1

\* NotifyFileAccess up to the release of _filesLock.  A path without the prefix
\* \??\ is ignored.
NotifyFileAccess(t) ==
  LET p == ev[t].new
  IN  /\ Receive(t) /\ ev[t].old = None
      /\ IF p = Relative
         THEN /\ stage' = [stage EXCEPT ![t] = "handled"]
              /\ UNCHANGED <<agentVars, ref, failed>>
         ELSE /\ stage' = [stage EXCEPT ![t] = "placed"]
              /\ \/ /\ Known(p)
                    /\ ref' = [ref EXCEPT ![t] = fileMap[p]]
                    /\ UNCHANGED <<agentVars, failed>>
                 \/ /\ ~Known(p)
                    /\ NewEntry(p)
                    /\ fileMap' = [fileMap EXCEPT ![p] = Len(files) + 1]
                    /\ ref' = [ref EXCEPT ![t] = Len(files) + 1]
                    /\ Disturb
      /\ UNCHANGED <<diskVars, threadVars, ev, seen, phase, todo, report, ops, disturbed>>

\* NotifyFileRename up to the release of _filesLock.  A known entry moves, over
\* the entry of the new name if there is one; an entry for an unknown file is
\* filed under the old name.
NotifyFileRename(t) ==
  LET e == ev[t]
  IN  /\ Receive(t) /\ e.old # None
      /\ stage' = [stage EXCEPT ![t] = "renaming"]
      /\ \/ /\ Known(e.old)
            /\ ref' = [ref EXCEPT ![t] = fileMap[e.old]]
            /\ fileMap' = [fileMap EXCEPT ![e.old] = 0, ![e.new] = fileMap[e.old]]
            /\ UNCHANGED files
         \/ /\ ~Known(e.old)
            /\ NewEntry(e.old)
            /\ ref' = [ref EXCEPT ![t] = Len(files) + 1]
            /\ fileMap' = [fileMap EXCEPT ![e.old] = Len(files) + 1]
      /\ Disturb
      /\ UNCHANGED <<diskVars, threadVars, ev, seen, phase, todo, report, ops, disturbed>>

\* The first line of NotifyRenamedTo, outside every lock.
NotifyRenamedTo(t) ==
  /\ stage[t] = "renaming"
  /\ files' = [files EXCEPT ![ref[t]].path = ev[t].new]
  /\ stage' = [stage EXCEPT ![t] = "placed"]
  /\ UNCHANGED <<diskVars, threadVars, ev, ref, seen, fileMap, reportVars, late,
                 ops, disturbed>>

-----------------------------------------------------------------------------
(* FileAccessInfo.NotifyAccess, by handlers and by the tasks of the report. *)

Body(p) == IF p \in Paths THEN disk[p] ELSE None

Entry(w) == IF w \in Tasks THEN w ELSE ref[w]

Inside(w) == stage[w] \in {"found", "looked"}

\* lock (this), the test of _finalized and File.Exists.
NotifyAccess(w) ==
  LET f == files[Entry(w)]
  IN  /\ stage[w] = "placed"
      /\ \A v \in Workers : Inside(v) => Entry(v) # Entry(w)
      /\ seen' = [seen EXCEPT ![w] = IF f.final THEN None
                                      ELSE [path |-> f.path, body |-> None]]
      /\ stage' = [stage EXCEPT ![w] = CASE f.final -> "handled"
                                         [] ~f.final /\ Body(f.path) = None -> "looked"
                                         [] OTHER -> "found"]
      /\ UNCHANGED <<diskVars, threadVars, ev, ref, agentVars, reportVars, late, ops, disturbed>>

\* The size and the hashes of a file that existed.  FileInfo.Length throws if it
\* is gone meanwhile; CalculateHash leaves null for what it cannot open.
Hash(w) ==
  LET p == seen[w].path
      inUse == \E u \in Threads : open[u].path = p
  IN  /\ stage[w] = "found"
      /\ IF disk[p] = None
         THEN /\ stage' = [stage EXCEPT ![w] = IF w \in Tasks THEN "idle" ELSE "sent"]
              /\ failed' = (failed \/ w \in Tasks)
              /\ seen' = [seen EXCEPT ![w] = None]
              /\ UNCHANGED disturbed
         ELSE \E b \in {disk[p]} \cup (IF inUse THEN {Unread} ELSE {}) :
              /\ seen' = [seen EXCEPT ![w].body = b]
              /\ stage' = [stage EXCEPT ![w] = "looked"]
              /\ disturbed' = disturbed \cup (IF b = Unread THEN {p} ELSE {})
              /\ UNCHANGED failed
      /\ UNCHANGED <<diskVars, threadVars, ev, ref, agentVars, phase, todo, report,
                     late, ops>>

\* A record is added if it differs from the last one; the lock is released.
AddRecord(w) ==
  LET f == files[Entry(w)]
      news == f.info = <<>> \/ f.info[Len(f.info)] # seen[w]
  IN  /\ stage[w] = "looked"
      /\ files' = IF news THEN [files EXCEPT ![Entry(w)].info = Append(@, seen[w])]
                   ELSE files
      /\ stage' = [stage EXCEPT ![w] = "handled"]
      /\ seen' = [seen EXCEPT ![w] = None]
      /\ ref' = IF w \in Tasks THEN ref ELSE [ref EXCEPT ![w] = 0]
      /\ UNCHANGED <<diskVars, threadVars, ev, fileMap, reportVars, late,
                     ops, disturbed>>

-----------------------------------------------------------------------------
(* The end of the job and PrepareReport's loop over FileAccessLog. *)

Kind(first, last) == CASE first = None -> IF last = None THEN "other" ELSE "leftover"
                       [] first # None /\ last = None -> "deleted"
                       [] OTHER -> IF first = last THEN "other" ELSE "modified"

Active(f) == stage[f] # "idle"

Stop == /\ phase = "run"
        /\ phase' = "stopped"
        /\ UNCHANGED <<diskVars, threadVars, ev, stage, ref, seen, agentVars, todo,
                       failed, report, late, ops, disturbed>>

ReadFiles == /\ phase = "stopped"
             /\ phase' = "reading"
             /\ todo' = {fileMap[p] : p \in {q \in DOMAIN fileMap : Known(q)}}
             /\ failed' = FALSE /\ report' = {}
             /\ UNCHANGED <<diskVars, threadVars, ev, stage, ref, seen, agentVars,
                            late, ops, disturbed>>

\* Mutant of TakeFile: CheckoutHistory does not look at the file once more.
TakeFileAsItIs(f) == /\ phase = "reading" /\ ~failed
                     /\ f \in todo /\ ~Active(f) /\ files[f].info # <<>>
                     /\ todo' = todo \ {f}
                     /\ stage' = [stage EXCEPT ![f] = "handled"]
                     /\ UNCHANGED <<diskVars, threadVars, ev, ref, seen, agentVars, phase,
                                    failed, report, late, ops, disturbed>>

\* A task gets the next entry from the enumerator.
TakeFile(f) == /\ phase = "reading" /\ ~failed
               /\ f \in todo /\ ~Active(f)
               /\ todo' = todo \ {f}
               /\ stage' = [stage EXCEPT ![f] = "placed"]
               /\ UNCHANGED <<diskVars, threadVars, ev, ref, seen, agentVars, phase,
                              failed, report, late, ops, disturbed>>

\* The rest of CheckoutHistory, after NotifyAccess has released the lock.
CheckoutHistory(f) == /\ stage[f] = "handled"
                      /\ files' = [files EXCEPT ![f].final = TRUE]
                      /\ stage' = [stage EXCEPT ![f] = "frozen"]
                      /\ UNCHANGED <<diskVars, threadVars, ev, ref, seen, fileMap,
                                     reportVars, late, ops, disturbed>>

\* The File element.  An Add during its foreach makes it throw.
ReportFile(f) ==
  LET e == files[f]
      kind == Kind(e.info[1].body, e.info[Len(e.info)].body)
  IN  /\ stage[f] = "frozen"
      /\ \/ /\ report' = report \cup {[path |-> e.path, kind |-> kind, entry |-> f]}
            /\ UNCHANGED failed
         \/ /\ \E t \in Threads : stage[t] = "looked" /\ ref[t] = f
            /\ failed' = TRUE
            /\ UNCHANGED report
      /\ stage' = [stage EXCEPT ![f] = "idle"]
      /\ UNCHANGED <<diskVars, threadVars, ev, ref, seen, agentVars, phase, todo, late,
                     ops, disturbed>>

\* The enumeration ends, then the loop has waited for its tasks.
EndEnumeration == /\ phase = "reading" /\ ~failed /\ todo = {}
                  /\ phase' = "waiting"
                  /\ UNCHANGED <<diskVars, threadVars, ev, stage, ref, seen, agentVars,
                                 todo, failed, report, late, ops, disturbed>>

\* work catches what PrepareReport throws and prepares the report again.
EndLoop == /\ phase = "waiting" \/ (phase = "reading" /\ failed)
           /\ \A f \in Tasks : ~Active(f)
           /\ phase' = IF failed THEN "stopped" ELSE "done"
           /\ UNCHANGED <<diskVars, threadVars, ev, stage, ref, seen, agentVars, todo,
                          failed, report, late, ops, disturbed>>

-----------------------------------------------------------------------------
ThreadOp(t) == \/ \E p \in Paths, writes \in BOOLEAN :
                    \E name \in {p, Relative} : NotifyOpen(t, p, writes, name)
               \/ CallOpen(t) \/ MyNtClose(t) \/ Dispose(t)
               \/ \E c \in Contents : WriteFile(t, c)
               \/ \E p \in Paths : Adopt(t, p) \/ MyNtDeleteFile(t, p) \/ MyNtSetInformationFile(t, p)
               \/ Acknowledge(t) \/ LoseAck(t) \/ GiveUp(t) \/ Kill(t)

Handler(t) == NotifyFileAccess(t) \/ NotifyFileRename(t) \/ NotifyRenamedTo(t)

Access(w) == NotifyAccess(w) \/ Hash(w) \/ AddRecord(w)

Task(f) == TakeFile(f) \/ CheckoutHistory(f) \/ ReportFile(f)

Next == \/ \E t \in Threads : ThreadOp(t) \/ Handler(t)
        \/ \E w \in Workers : Access(w)
        \/ \E f \in Tasks : Task(f)
        \/ Stop \/ ReadFiles \/ EndEnumeration \/ EndLoop

Spec == Init /\ [][Next]_vars

-----------------------------------------------------------------------------
(* Properties. *)

Event == [old : Paths \cup {None, Relative}, new : Paths \cup {Relative}]
Record == [path : Paths \cup {Relative}, body : Contents \cup {None, Unread}]
FileInfo == [path : Paths \cup {Relative}, info : Seq(Record), final : BOOLEAN]
Handle == [path : Paths, writes : BOOLEAN]
Request == [path : Paths, writes : BOOLEAN, name : Paths \cup {Relative}]

TypeOK ==
  /\ disk \in [Paths -> Contents \cup {None}] /\ orig \in [Paths -> Contents \cup {None}]
  /\ pos \in [Threads -> {"free", "sending", "calling", "telling", "gone"}]
  /\ open \in [Threads -> Handle \cup {NoHandle}]
  /\ hmap \in [Threads -> Paths \cup {None, Relative}]
  /\ ev \in [Threads -> Event \cup {None}]
  /\ stage \in [Workers -> {"idle", "sent", "renaming", "placed", "found", "looked",
                            "handled", "frozen"}]
  /\ ref \in [Threads -> 0 .. Len(files)]
  /\ want \in [Threads -> Request \cup {None}]
  /\ disturbed \subseteq Paths
  /\ seen \in [Workers -> Record \cup {None}]
  /\ files \in Seq(FileInfo)
  /\ Len(files) <= MaxEntries
  /\ fileMap \in [Paths \cup {Relative} -> 0 .. Len(files)]
  /\ phase \in {"run", "stopped", "reading", "waiting", "done"}

\* The report is true of every file that was never changed behind the hooks' back:
\* its element says what became of the file since the job started, and a file that
\* changed has one (LogicThread.cs:1303).
ReportTrue ==
  phase = "done" =>
    \A p \in Paths \ disturbed :
      LET elements == {e \in report : e.path = p}
      IN  /\ \A e \in elements : e.kind = Kind(orig[p], disk[p])
          /\ Cardinality(elements) <= 1
          /\ disk[p] # orig[p] => elements # {}

\* The first record of such a file is what the file was when the job started: the
\* thread that was going to change it waited for the agent to look first
\* (dllmain.cpp:623).
FirstIsOriginal == \A p \in Paths \ disturbed :
                     ~Unrecorded(p) => files[fileMap[p]].info[1].body = orig[p]

-----------------------------------------------------------------------------
(* The inductive invariant behind FirstIsOriginal. *)

\* No entry is filed under two paths, and none of a renamed file under a path
\* that was never renamed.
MapInv == /\ \A p, q \in DOMAIN fileMap : Known(p) /\ fileMap[p] = fileMap[q] => p = q
          /\ \A t \in Threads : stage[t] = "renaming" =>
               \A p \in Paths \ disturbed : fileMap[p] # ref[t]

\* An event whose ACK is on its way has left a record.
EventInv ==
  \A t \in Threads :
    /\ stage[t] # "idle" => ev[t] \in Event
    /\ stage[t] = "renaming" => ev[t].old # None
    /\ stage[t] # "idle" /\ ev[t].old # None =>
         ({ev[t].old, ev[t].new} \cap Paths) \subseteq disturbed
    /\ stage[t] \in {"renaming", "placed", "found", "looked"} => ref[t] # 0
    /\ stage[t] # "idle" /\ ev[t].old = None /\ ev[t].new \in Paths \ disturbed =>
         /\ stage[t] \in {"placed", "found", "looked"} => ref[t] = fileMap[ev[t].new]
         /\ stage[t] = "handled" => ~Unrecorded(ev[t].new)

\* The entry of an undisturbed file is about that file, and starts with its
\* original contents.
EntryInv ==
  \A p \in Paths \ disturbed :
    /\ Unrecorded(p) => disk[p] = orig[p]
    /\ Known(p) =>
         /\ files[fileMap[p]].path = p
         /\ files[fileMap[p]].info # <<>> => files[fileMap[p]].info[1].body = orig[p]
         /\ \A w \in Workers : Inside(w) /\ Entry(w) = fileMap[p] =>
              /\ seen[w].path = p
              /\ stage[w] = "looked" /\ files[fileMap[p]].info = <<>> =>
                   seen[w].body = orig[p]

\* Whoever may change an undisturbed file has been waited for.
ThreadInv ==
  \A t \in Threads :
    /\ open[t].writes /\ open[t].path \notin disturbed => ~Unrecorded(open[t].path)
    /\ pos[t] \in {"sending", "calling"} =>
         want[t] \in Request /\ want[t].name \in {want[t].path, Relative}
    /\ pos[t] = "sending" =>
         stage[t] # "idle" /\ ev[t].old = None /\ ev[t].new = want[t].name
    /\ /\ pos[t] = "calling" \/ (pos[t] = "sending" /\ want[t].name = Relative)
       /\ want[t].writes /\ want[t].path \notin disturbed
       => ~Unrecorded(want[t].path)

\* The report's tasks work on entries that exist, and freeze no empty history.
TaskInv ==
  /\ \A w \in Workers : Inside(w) => seen[w] \in Record
  /\ \A w \in Workers : stage[w] = "found" => seen[w].path \in Paths
  /\ \A t \in Threads : stage[t] # "frozen"
  /\ \A f \in Tasks :
       /\ stage[f] \notin {"sent", "renaming"}
       /\ stage[f] # "idle" => f <= Len(files)
       /\ stage[f] \in {"handled", "frozen"} => files[f].info # <<>>
  /\ \A f \in DOMAIN files : files[f].final => files[f].info # <<>>
  /\ todo \subseteq DOMAIN files

HInv == TypeOK /\ MapInv /\ EventInv /\ EntryInv /\ ThreadInv /\ TaskInv

-----------------------------------------------------------------------------
(* The inductive invariant behind ReportTrue. *)

\* lock (this) lets one worker at a time look at an entry.
LockInv == \A v, w \in Workers : Inside(v) /\ Inside(w) /\ Entry(v) = Entry(w) => v = w

\* Tasks run inside the loop, which ends when every entry was taken and no task threw.
LoopInv == /\ (\E f \in Tasks : Active(f)) => phase \in {"reading", "waiting"}
           /\ phase \in {"waiting", "done"} => todo = {}
           /\ phase = "done" => ~failed

\* An undisturbed file has one entry: the one _fileMap gives for it.
PathInv == \A f \in DOMAIN files :
             files[f].path \in Paths \ disturbed => fileMap[files[f].path] = f

\* CheckoutHistory has looked at the entry.
Settled(f) == files[f].final \/ stage[f] \in {"handled", "frozen"}

LastBody(f) == files[f].info[Len(files[f].info)].body

\* From the look of CheckoutHistory on, an undisturbed file is what the agent saw.
FreshInv ==
  \A p \in Paths \ disturbed : Known(p) =>
    LET f == fileMap[p]
    IN  /\ stage[f] = "looked" => seen[f].body = disk[p]
        /\ Settled(f) =>
             /\ LastBody(f) = disk[p]
             /\ \A t \in Threads : stage[t] = "looked" /\ ref[t] = f => seen[t].body = disk[p]

\* An undisturbed file has the right element or none; one that changed has it, or will
\* have it, or this attempt is going to fail.
ElementInv ==
  phase \in {"reading", "waiting", "done"} =>
    \A p \in Paths \ disturbed :
      /\ \A e \in report : e.path = p =>
           Known(p) /\ e = [path |-> p, kind |-> Kind(orig[p], disk[p]), entry |-> fileMap[p]]
      /\ disk[p] # orig[p] => \/ fileMap[p] \in todo \/ Active(fileMap[p]) \/ failed
                              \/ \E e \in report : e.path = p

ReportInv == LockInv /\ LoopInv /\ PathInv /\ FreshInv /\ ElementInv

FInv == HInv /\ ReportInv
=============================================================================
