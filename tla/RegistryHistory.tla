--------------------------- MODULE RegistryHistory ---------------------------
(***************************************************************************)
(* What the report says of the registry keys an installer touched.  The    *)
(* hooks of NtOpenKey and NtCreateKey announce a key before the call; the  *)
(* agent keeps the values the key has then (NotifyRegistryAccess,          *)
(* RegAccessInfo), and every attempt to build the report compares them     *)
(* with the values of that moment (UpdateDifferences).  Subkeys are        *)
(* compared as values without contents, and have no state of their own.    *)
(***************************************************************************)
EXTENDS Naturals, FiniteSets

CONSTANTS Keys,         \* registry keys
          UserKeys,     \* those under \registry\user
          Threads,      \* hooked threads
          Names,        \* names of values
          Data,         \* what a value may be
          Binary,       \* the data whose ToString is the name of their type
          Absent,       \* no value, no key
          MaxOps        \* bound: openings, changes, lost events, kills

Values == [Names -> Data \cup {Absent}]
NoValues == [n \in Names |-> Absent]
Differences == [deleted : SUBSET Names, added : SUBSET Names, modified : SUBSET Names]
NoDifferences == [deleted |-> {}, added |-> {}, modified |-> {}]
Flags == [key : Keys, deleted : BOOLEAN, modified : BOOLEAN, new : BOOLEAN, diff : Differences,
          next : {"modified", "new", "if", "compare", "gone"}]

ASSUME RegistryAssumption == /\ UserKeys \subseteq Keys /\ Binary \subseteq Data
                             /\ Absent \notin Keys \cup Data \cup Values \cup {"type"}
                             /\ Absent \notin [existed : BOOLEAN, values : Values] \cup Flags
                             /\ MaxOps \in Nat

VARIABLES reg, orig,    \* each key now and at the start: Absent or its values
          pos,          \* where a hooked thread is
          key,          \* the key it opens or has a handle of
          stage,        \* the handling of its event
          exists,       \* what KeyExists told the handler
          regMap,       \* _regMap: Absent or [existed, values]
          phase,        \* run, stopped, reading, done
          todo,         \* keys the enumerator has not given yet
          failed,       \* the enumeration is going to throw
          flags,        \* the key under examination, what was read of it, what is next
          report,       \* the elements of this attempt
          ops,
          unannounced,  \* history: keys opened before the agent knew of them
          late          \* history: keys changed since this attempt began

keyVars == <<reg, orig>>
threadVars == <<pos, key>>
handlerVars == <<stage, exists, regMap>>
reportVars == <<phase, todo, failed, flags, report>>
historyVars == <<unannounced, late>>
aroundVars == <<keyVars, threadVars, handlerVars, phase, todo, failed, ops, historyVars>>
loopVars == <<aroundVars, report>>
regVars == <<reg, orig, pos, key, stage, exists, regMap, phase, todo, failed, flags,
             report, ops, unannounced, late>>

RegInit == /\ orig \in [Keys -> Values \cup {Absent}]
           /\ reg = orig
           /\ pos = [t \in Threads |-> "free"]
           /\ key = [t \in Threads |-> Absent]
           /\ stage = [t \in Threads |-> "idle"]
           /\ exists = [t \in Threads |-> FALSE]
           /\ regMap = [k \in Keys |-> Absent]
           /\ phase = "run" /\ todo = {} /\ failed = FALSE /\ flags = Absent /\ report = {}
           /\ ops = 0 /\ unannounced = {} /\ late = {}

-----------------------------------------------------------------------------
(* The hooked threads. *)

Spend == ops < MaxOps /\ ops' = ops + 1

\* A change that the attempt in progress may have missed.
Changes(k) == late' = IF phase \in {"reading", "done"} THEN late \cup {k} ELSE late

\* The announcement of MyNtOpenKey and of MyNtCreateKey, for write access.
NotifyRegistryAccess(t, k) ==
  /\ pos[t] = "free" /\ key[t] = Absent /\ stage[t] = "idle" /\ Spend
  /\ pos' = [pos EXCEPT ![t] = "sending"]
  /\ key' = [key EXCEPT ![t] = k]
  /\ stage' = [stage EXCEPT ![t] = "sent"]
  /\ UNCHANGED <<keyVars, exists, regMap, reportVars, historyVars>>

\* Mutant of CallKey: the thread does not wait for the answer to its announcement.
CallKeyUnanswered(t) ==
  /\ pos[t] = "sending" /\ stage[t] # "checked"
  /\ stage' = [stage EXCEPT ![t] = "idle"]
  /\ reg' = [reg EXCEPT ![key[t]] = IF @ = Absent THEN NoValues ELSE @]
  /\ pos' = [pos EXCEPT ![t] = "open"]
  /\ UNCHANGED <<orig, key, exists, regMap, reportVars, ops, historyVars>>

\* The call itself, which may create the key, or fail.
CallKey(t) ==
  /\ pos[t] = "sending" /\ stage[t] \in {"handled", "lost"}
  /\ stage' = [stage EXCEPT ![t] = "idle"]
  /\ \/ /\ reg' = [reg EXCEPT ![key[t]] = IF @ = Absent THEN NoValues ELSE @]
        /\ pos' = [pos EXCEPT ![t] = "open"]
        /\ unannounced' = unannounced \cup (IF stage[t] = "lost" /\ regMap[key[t]] = Absent
                                         THEN {key[t]} ELSE {})
        /\ IF reg[key[t]] = Absent THEN Changes(key[t]) ELSE UNCHANGED late
        /\ UNCHANGED key
     \/ /\ pos' = [pos EXCEPT ![t] = "free"]
        /\ key' = [key EXCEPT ![t] = Absent]
        /\ UNCHANGED <<reg, unannounced, late>>
  /\ UNCHANGED <<orig, exists, regMap, reportVars, ops>>

\* A change through the handle, which no hook sees: of a value, or the deletion
\* of the key.
Change(t) ==
  /\ pos[t] = "open" /\ reg[key[t]] # Absent
  /\ \E v \in Values \cup {Absent} :
       /\ v = Absent \/ \E n \in Names : \A m \in Names \ {n} : v[m] = reg[key[t]][m]
       /\ reg' = [reg EXCEPT ![key[t]] = v]
  /\ Changes(key[t])
  /\ UNCHANGED <<orig, threadVars, handlerVars, reportVars, ops, unannounced>>

Close(t) == /\ pos[t] = "open"
            /\ pos' = [pos EXCEPT ![t] = "free"]
            /\ key' = [key EXCEPT ![t] = Absent]
            /\ UNCHANGED <<keyVars, handlerVars, reportVars, ops, historyVars>>

\* The event is not delivered (the sender goes on), or its ACK is lost.
LoseEvent(t) == /\ stage[t] = "sent" /\ Spend
                /\ stage' = [stage EXCEPT ![t] = "lost"]
                /\ UNCHANGED <<keyVars, threadVars, exists, regMap, reportVars, historyVars>>

LoseAck(t) == /\ stage[t] = "handled" /\ Spend
              /\ stage' = [stage EXCEPT ![t] = "sent"]
              /\ UNCHANGED <<keyVars, threadVars, exists, regMap, reportVars, historyVars>>

-----------------------------------------------------------------------------
(* NotifyRegistryAccess of the agent, under _regLock. *)

\* ConvertToFullName puts the key of a user under hkey_current_user together with
\* the name of the user, where nothing is found.
Found(k) == IF k \in UserKeys THEN Absent ELSE reg[k]

\* Mutant of KeyExists: the handlers do not exclude each other.
KeyExistsUnlocked(t) ==
  /\ stage[t] = "sent"
  /\ IF regMap[key[t]] = Absent
     THEN /\ exists' = [exists EXCEPT ![t] = Found(key[t]) # Absent]
          /\ stage' = [stage EXCEPT ![t] = "checked"]
     ELSE /\ stage' = [stage EXCEPT ![t] = "handled"]
          /\ UNCHANGED exists
  /\ UNCHANGED <<keyVars, threadVars, regMap, reportVars, ops, historyVars>>

KeyExists(t) ==
  /\ stage[t] = "sent"
  /\ \A u \in Threads : stage[u] # "checked"
  /\ IF regMap[key[t]] = Absent
     THEN /\ exists' = [exists EXCEPT ![t] = Found(key[t]) # Absent]
          /\ stage' = [stage EXCEPT ![t] = "checked"]
     ELSE /\ stage' = [stage EXCEPT ![t] = "handled"]
          /\ UNCHANGED exists
  /\ UNCHANGED <<keyVars, threadVars, regMap, reportVars, ops, historyVars>>

ValuesOf(k) == IF Found(k) = Absent THEN NoValues ELSE Found(k)

PopulateOriginalValues(t) ==
  /\ stage[t] = "checked"
  /\ regMap' = [regMap EXCEPT ![key[t]] = [existed |-> exists[t],
                                           values |-> ValuesOf(key[t])]]
  /\ failed' = (failed \/ phase = "reading")
  /\ exists' = [exists EXCEPT ![t] = FALSE]
  /\ stage' = [stage EXCEPT ![t] = "handled"]
  /\ UNCHANGED <<keyVars, threadVars, phase, todo, flags, report, ops, historyVars>>

-----------------------------------------------------------------------------
(* RegAccessInfo's comparison and the loop of PrepareReport. *)

\* Values are compared by ToString.
Shown(v) == IF v \in Binary THEN "type" ELSE v

\* Mutant of UpdateDifferences: the new values are not compared with the original ones.
DifferencesOfNow(k) == NoDifferences

UpdateDifferences(k) ==
  LET old == regMap[k].values
      new == ValuesOf(k)
  IN  [deleted |-> {n \in Names : old[n] # Absent /\ new[n] = Absent},
       added |-> {n \in Names : old[n] = Absent /\ new[n] # Absent},
       modified |-> {n \in Names : /\ old[n] # Absent /\ new[n] # Absent
                                   /\ Shown(old[n]) # Shown(new[n])}]

Differs(d) == d.deleted \cup d.added \cup d.modified # {}

IsNew(k) == ~regMap[k].existed /\ Found(k) # Absent
IsDeleted(k) == regMap[k].existed /\ Found(k) = Absent

Stop == /\ phase = "run"
        /\ phase' = "stopped"
        /\ UNCHANGED <<keyVars, threadVars, handlerVars, todo, failed, flags, report, ops,
                       historyVars>>

ReadKeys == /\ phase = "stopped"
            /\ phase' = "reading"
            /\ todo' = {k \in Keys : regMap[k] # Absent}
            /\ failed' = FALSE /\ report' = {} /\ late' = {}
            /\ UNCHANGED <<keyVars, threadVars, handlerVars, flags, ops, unannounced>>

\* The attributes of the element, each read when it is set.  The comparison before the
\* first of them is overwritten by that of IsModified.
SetDeleted(k) == /\ phase = "reading" /\ ~failed /\ flags = Absent /\ k \in todo
                 /\ todo' = todo \ {k}
                 /\ flags' = [key |-> k, deleted |-> IsDeleted(k), modified |-> FALSE,
                              new |-> FALSE, diff |-> NoDifferences, next |-> "modified"]
                 /\ UNCHANGED <<keyVars, threadVars, handlerVars, phase, failed, report, ops,
                                historyVars>>

At(next) == flags # Absent /\ flags.next = next

SetModified == /\ At("modified")
               /\ LET d == UpdateDifferences(flags.key)
                  IN  flags' = [flags EXCEPT !.modified = Differs(d), !.diff = d, !.next = "new"]
               /\ UNCHANGED loopVars

SetNew == /\ At("new")
          /\ flags' = [flags EXCEPT !.new = IsNew(flags.key), !.next = "if"]
          /\ UNCHANGED loopVars

\* The element of a key is appended with the differences found last, or is not.
AppendElement(diff) ==
  report' = report \cup {[key |-> flags.key, deleted |-> flags.deleted, new |-> flags.new,
                          modified |-> flags.modified, diff |-> diff]}

\* The condition of the if reads everything again until it knows.
ListNew == /\ At("if")
           /\ IF IsNew(flags.key)
              THEN AppendElement(flags.diff) /\ flags' = Absent
              ELSE flags' = [flags EXCEPT !.next = "compare"] /\ UNCHANGED report
           /\ UNCHANGED aroundVars

ListModified ==
  LET d == UpdateDifferences(flags.key)
  IN  /\ At("compare")
      /\ IF Differs(d)
         THEN AppendElement(d) /\ flags' = Absent
         ELSE flags' = [flags EXCEPT !.diff = d, !.next = "gone"] /\ UNCHANGED report
      /\ UNCHANGED aroundVars

ListDeleted == /\ At("gone")
               /\ flags' = Absent
               /\ IF IsDeleted(flags.key) THEN AppendElement(flags.diff) ELSE UNCHANGED report
               /\ UNCHANGED aroundVars

\* The enumerator has no more keys, or throws because one was added.
EndKeys == /\ phase = "reading" /\ flags = Absent
           /\ failed \/ todo = {}
           /\ phase' = IF failed THEN "stopped" ELSE "done"
           /\ UNCHANGED <<keyVars, threadVars, handlerVars, todo, failed, flags, report, ops,
                          historyVars>>

\* The report has to be prepared again.
Again == /\ phase = "done"
         /\ phase' = "stopped"
         /\ UNCHANGED <<keyVars, threadVars, handlerVars, todo, failed, flags, report, ops,
                        historyVars>>

-----------------------------------------------------------------------------
ThreadOp(t) == \/ \E k \in Keys : NotifyRegistryAccess(t, k)
               \/ CallKey(t) \/ Change(t) \/ Close(t) \/ LoseEvent(t) \/ LoseAck(t)

Handler(t) == KeyExists(t) \/ PopulateOriginalValues(t)

ExamineKey == \/ \E k \in Keys : SetDeleted(k)
              \/ SetModified \/ SetNew \/ ListNew \/ ListModified \/ ListDeleted

ReportStep == ReadKeys \/ ExamineKey

RegNext == \/ \E t \in Threads : ThreadOp(t) \/ Handler(t)
           \/ Stop \/ ReportStep \/ EndKeys \/ Again

RegSpec == RegInit /\ [][RegNext]_regVars

-----------------------------------------------------------------------------
(* Properties. *)

RegTypeOK ==
  /\ reg \in [Keys -> Values \cup {Absent}] /\ orig \in [Keys -> Values \cup {Absent}]
  /\ pos \in [Threads -> {"free", "sending", "open"}]
  /\ key \in [Threads -> Keys \cup {Absent}]
  /\ stage \in [Threads -> {"idle", "sent", "lost", "checked", "handled"}]
  /\ exists \in [Threads -> BOOLEAN]
  /\ regMap \in [Keys -> [existed : BOOLEAN, values : Values] \cup {Absent}]
  /\ phase \in {"run", "stopped", "reading", "done"}
  /\ todo \subseteq Keys /\ failed \in BOOLEAN /\ ops \in Nat
  /\ flags \in Flags \cup {Absent}
  /\ unannounced \subseteq Keys /\ late \subseteq Keys

Followed == Keys \ (UserKeys \cup unannounced)

Original(k) == [existed |-> orig[k] # Absent,
                values |-> IF orig[k] = Absent THEN NoValues ELSE orig[k]]

\* One handler at a time is between its two looks at the registry.
HandlerInv ==
  \A t \in Threads :
    /\ stage[t] = "idle" <=> pos[t] # "sending"
    /\ pos[t] = "free" <=> key[t] = Absent
    /\ stage[t] = "handled" => regMap[key[t]] # Absent
    /\ stage[t] = "checked" =>
         /\ regMap[key[t]] = Absent
         /\ key[t] \in Followed => exists[t] = (orig[key[t]] # Absent)
         /\ \A u \in Threads : stage[u] = "checked" => u = t
    /\ pos[t] = "open" => regMap[key[t]] # Absent \/ key[t] \in unannounced

KeyInv == \A k \in Followed : IF regMap[k] = Absent THEN reg[k] = orig[k]
                              ELSE regMap[k] = Original(k)

\* A report lists a key whose values changed visibly, and says what happened to it,
\* whichever attempt it is (LogicThread.cs:1199).
Visible(k) == {<<n, Shown(IF reg[k] = Absent THEN Absent ELSE reg[k][n])>> : n \in Names}
Before(k) == {<<n, Shown(IF orig[k] = Absent THEN Absent ELSE orig[k][n])>> : n \in Names}

ReportedTruly(k) ==
  LET elements == {e \in report : e.key = k}
      changed == {n \in Names : \E x \in Visible(k) \ Before(k) : x[1] = n}
      became == (orig[k] = Absent) # (reg[k] = Absent)
  IN  /\ elements # {} <=> became \/ changed # {}
      /\ \A e \in elements : /\ e.new = (orig[k] = Absent /\ reg[k] # Absent)
                             /\ e.deleted = (orig[k] # Absent /\ reg[k] = Absent)
                             /\ e.modified = (changed # {})
                             /\ e.diff.added \cup e.diff.deleted \cup e.diff.modified
                                = changed

KeysReported == phase = "done" => \A k \in Followed \ late : ReportedTruly(k)

\* The keys the loop has still to come to, and the one it is at.
Pending(k) == k \in todo \/ (flags # Absent /\ flags.key = k)

\* What was read of the key under examination, and what the if knows of it already.
ReadTruly(k) ==
  LET d == UpdateDifferences(k)
  IN  /\ flags.deleted = IsDeleted(k)
      /\ flags.next # "modified" => flags.diff = d /\ flags.modified = Differs(d)
      /\ flags.next \notin {"modified", "new"} => flags.new = IsNew(k)
      /\ flags.next \in {"compare", "gone"} => ~IsNew(k)
      /\ flags.next = "gone" => ~Differs(d)

\* A key that has not changed since the attempt began is reported truly once the loop
\* is past it, and not at all before.
LoopInv ==
  /\ flags # Absent => phase = "reading" /\ flags.key \in Keys \ todo
  /\ phase = "done" => todo = {}
  /\ phase \in {"reading", "done"} =>
       \A k \in Followed \ late :
         IF Pending(k)
         THEN /\ regMap[k] # Absent
              /\ \A e \in report : e.key # k
              /\ k \notin todo => ReadTruly(k)
         ELSE ReportedTruly(k)

RInv == RegTypeOK /\ HandlerInv /\ KeyInv /\ LoopInv

\* What the agent keeps of a key is what the key was when the job started: nobody
\* changes it before, nor between the two looks the handler takes (dllmain.cpp:875,
\* ProgramStatus.cs:228).
OriginalIsOriginal == \A k \in Followed : regMap[k] # Absent => regMap[k] = Original(k)
=============================================================================
