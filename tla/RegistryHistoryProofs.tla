------------------------ MODULE RegistryHistoryProofs ------------------------
(***************************************************************************)
(* Proofs about RegistryHistory for any keys, values and threads: what the *)
(* agent keeps of a key is what the key was before the job touched it.     *)
(***************************************************************************)
EXTENDS RegistryHistory, TLAPS

LEMMA ValuesType == NoValues \in Values
  BY DEF NoValues, Values

LEMMA RegInitInv == RegInit => RInv
  <1> SUFFICES ASSUME RegInit PROVE RInv
    OBVIOUS
  <1>1. exists \in [Threads -> BOOLEAN] /\ failed \in BOOLEAN
    BY Zenon DEF RegInit
  <1>2. RegTypeOK
    BY <1>1 DEF RegInit, RegTypeOK
  <1>3. HandlerInv
    BY DEF RegInit, HandlerInv
  <1>4. KeyInv
    BY DEF RegInit, KeyInv, Followed
  <1>5. LoopInv
    BY DEF RegInit, LoopInv
  <1> QED  BY <1>2, <1>3, <1>4, <1>5 DEF RInv

-----------------------------------------------------------------------------
(* Types. *)

LEMMA FoundType == RegTypeOK => \A k \in Keys : ValuesOf(k) \in Values
  BY ValuesType DEF RegTypeOK, ValuesOf, Found

LEMMA DifferencesType == \A k : UpdateDifferences(k) \in Differences
  BY DEF UpdateDifferences, Differences

LEMMA FlagsGone ==
  ASSUME NEW f \in Flags, NEW d \in Differences
  PROVE  [f EXCEPT !.diff = d, !.next = "gone"] \in Flags
  BY DEF Flags

LEMMA ExamineFlags == RegTypeOK /\ ExamineKey => flags' \in Flags \cup {Absent}
  <1> SUFFICES ASSUME flags \in Flags \cup {Absent}, todo \subseteq Keys, ExamineKey
               PROVE  flags' \in Flags \cup {Absent}
    BY DEF RegTypeOK
  <1>1. ASSUME NEW k, IsNew(k) \notin BOOLEAN \/ IsDeleted(k) \notin BOOLEAN PROVE FALSE
    BY <1>1 DEF IsNew, IsDeleted
  <1>2. ASSUME NEW d, Differs(d) \notin BOOLEAN PROVE FALSE
    BY <1>2 DEF Differs
  <1>3. ASSUME NEW k \in Keys, SetDeleted(k) PROVE flags' \in Flags
    <2>1. NoDifferences \in Differences
      BY DEF NoDifferences, Differences
    <2> QED  BY <1>1, <1>3, <2>1 DEF SetDeleted, Flags
  <1>4. CASE SetModified
    BY <1>2, <1>4, DifferencesType DEF SetModified, At, Flags
  <1>5. CASE SetNew
    BY <1>1, <1>5 DEF SetNew, At, Flags
  <1>6. CASE ListNew \/ ListDeleted
    BY <1>6 DEF ListNew, ListDeleted, At, Flags
  <1>7. CASE ListModified
    <2>1. PICK d \in Differences :
            flags' = Absent \/ flags' = [flags EXCEPT !.diff = d, !.next = "gone"]
      BY <1>7, DifferencesType DEF ListModified
    <2>2. flags \in Flags
      BY <1>7 DEF ListModified, At
    <2> QED  BY <2>1, <2>2, FlagsGone
  <1> QED  BY <1>3, <1>4, <1>5, <1>6, <1>7 DEF ExamineKey

LEMMA NextType == RegTypeOK /\ HandlerInv /\ [RegNext]_regVars => RegTypeOK'
  <1> SUFFICES ASSUME RegTypeOK, HandlerInv, [RegNext]_regVars PROVE RegTypeOK'
    OBVIOUS
  <1> USE DEF RegTypeOK
  <1>1. ASSUME NEW t \in Threads, NEW k \in Keys, NotifyRegistryAccess(t, k) PROVE RegTypeOK'
    BY <1>1 DEF NotifyRegistryAccess, Spend, keyVars, reportVars, historyVars
  <1>2. ASSUME NEW t \in Threads, CallKey(t) PROVE RegTypeOK'
    <2>1. key[t] \in Keys
      BY <1>2 DEF CallKey, HandlerInv
    <2>2. reg' \in [Keys -> Values \cup {Absent}]
      BY <1>2, <2>1, ValuesType DEF CallKey
    <2>3. /\ pos' \in [Threads -> {"free", "sending", "open"}]
          /\ key' \in [Threads -> Keys \cup {Absent}]
          /\ stage' \in [Threads -> {"idle", "sent", "lost", "checked", "handled"}]
      BY <1>2 DEF CallKey
    <2>4. unannounced' \subseteq Keys /\ late' \subseteq Keys
      BY <1>2, <2>1 DEF CallKey, Changes
    <2> QED  BY <1>2, <2>2, <2>3, <2>4 DEF CallKey, reportVars
  <1>3. ASSUME NEW t \in Threads, Change(t) PROVE RegTypeOK'
    <2>1. key[t] \in Keys
      BY <1>3 DEF Change, HandlerInv
    <2>2. reg' \in [Keys -> Values \cup {Absent}]
      BY <1>3, <2>1 DEF Change
    <2>3. late' \subseteq Keys
      BY <1>3, <2>1 DEF Change, Changes
    <2> QED  BY <1>3, <2>2, <2>3 DEF Change, threadVars, handlerVars, reportVars
  <1>4. ASSUME NEW t \in Threads, Close(t) PROVE RegTypeOK'
    BY <1>4 DEF Close, keyVars, handlerVars, reportVars, historyVars
  <1>5. ASSUME NEW t \in Threads, LoseEvent(t) \/ LoseAck(t) PROVE RegTypeOK'
    BY <1>5 DEF LoseEvent, LoseAck, Spend, keyVars, threadVars, reportVars, historyVars
  <1>6. ASSUME NEW t \in Threads, KeyExists(t) PROVE RegTypeOK'
    <2>1. exists' \in [Threads -> BOOLEAN]
      BY <1>6, Zenon DEF KeyExists
    <2>2. stage' \in [Threads -> {"idle", "sent", "lost", "checked", "handled"}]
      BY <1>6 DEF KeyExists
    <2> QED  BY <1>6, <2>1, <2>2 DEF KeyExists, keyVars, threadVars, reportVars, historyVars
  <1>7. ASSUME NEW t \in Threads, PopulateOriginalValues(t) PROVE RegTypeOK'
    <2>1. key[t] \in Keys
      BY <1>7 DEF PopulateOriginalValues, HandlerInv
    <2>2. exists[t] \in BOOLEAN
      OBVIOUS
    <2>3. regMap' \in [Keys -> [existed : BOOLEAN, values : Values] \cup {Absent}]
      BY <1>7, <2>1, <2>2, FoundType DEF PopulateOriginalValues
    <2>4. exists' \in [Threads -> BOOLEAN] /\ failed' \in BOOLEAN
      BY <1>7, Zenon DEF PopulateOriginalValues
    <2>5. stage' \in [Threads -> {"idle", "sent", "lost", "checked", "handled"}]
      BY <1>7 DEF PopulateOriginalValues
    <2> QED  BY <1>7, <2>3, <2>4, <2>5 DEF PopulateOriginalValues, keyVars, threadVars, historyVars
  <1>8. CASE Stop
    BY <1>8 DEF Stop, keyVars, threadVars, handlerVars, historyVars
  <1>9. CASE ReadKeys
    BY <1>9 DEF ReadKeys, keyVars, threadVars, handlerVars
  <1>10. CASE ExamineKey
    <2>1. flags' \in Flags \cup {Absent}
      BY <1>10, ExamineFlags
    <2>2. UNCHANGED <<keyVars, threadVars, handlerVars, phase, failed, ops, historyVars>>
          /\ todo' \subseteq todo
      BY <1>10 DEF ExamineKey, SetDeleted, SetModified, SetNew, ListNew, ListModified, ListDeleted,
            aroundVars, loopVars
    <2>3. UNCHANGED <<reg, orig, pos, key, stage, exists, regMap, phase, failed, ops, unannounced,
                      late>>
      BY <2>2 DEF keyVars, threadVars, handlerVars, historyVars
    <2> QED  BY <2>1, <2>2, <2>3
  <1>12. CASE EndKeys
    BY <1>12 DEF EndKeys, keyVars, threadVars, handlerVars, historyVars
  <1>13. CASE Again
    BY <1>13 DEF Again, keyVars, threadVars, handlerVars, historyVars
  <1>14. CASE UNCHANGED regVars
    BY <1>14 DEF regVars
  <1> QED  BY <1>1, <1>2, <1>3, <1>4, <1>5, <1>6, <1>7, <1>8, <1>9, <1>10, <1>12, <1>13,
              <1>14 DEF RegNext, ThreadOp, Handler, ReportStep

-----------------------------------------------------------------------------
(* The handlers, and the keys they have looked at. *)

LEMMA Quiet == HandlerInv /\ KeyInv /\ UNCHANGED <<keyVars, threadVars, handlerVars, unannounced>>
                 => HandlerInv' /\ KeyInv'
  BY DEF HandlerInv, KeyInv, Followed, Original, keyVars, threadVars, handlerVars

LEMMA NextHandler == RInv /\ [RegNext]_regVars => HandlerInv' /\ KeyInv'
  <1> SUFFICES ASSUME RegTypeOK, HandlerInv, KeyInv, [RegNext]_regVars
               PROVE  HandlerInv' /\ KeyInv'
    BY DEF RInv
  <1> USE DEF RegTypeOK
  <1>1. ASSUME NEW t \in Threads, NEW k \in Keys, NotifyRegistryAccess(t, k)
        PROVE  HandlerInv' /\ KeyInv'
    <2>1. HandlerInv'
      BY <1>1, RegistryAssumption
         DEF HandlerInv, NotifyRegistryAccess, Followed, keyVars, historyVars
    <2>2. KeyInv'
      BY <1>1 DEF KeyInv, NotifyRegistryAccess, Followed, Original, keyVars, historyVars
    <2> QED  BY <2>1, <2>2
  <1>2. ASSUME NEW t \in Threads, CallKey(t) PROVE HandlerInv' /\ KeyInv'
    <2>0. key[t] \in Keys /\ unannounced \subseteq unannounced'
      BY <1>2 DEF CallKey, HandlerInv
    <2>1. HandlerInv'
      BY <1>2, <2>0, RegistryAssumption DEF CallKey, HandlerInv, Followed
    <2>2. KeyInv'
      <3> SUFFICES ASSUME NEW k \in Followed'
                   PROVE  IF regMap[k] = Absent THEN reg'[k] = orig[k] ELSE regMap[k] = Original(k)
        BY <1>2 DEF KeyInv, CallKey, Original
      <3>1. k \in Followed
        BY <2>0 DEF Followed
      <3>2. CASE reg'[k] = reg[k]
        BY <3>1, <3>2 DEF KeyInv
      <3>3. CASE reg'[k] # reg[k]
        <4>1. key[t] = k /\ regMap[k] # Absent
          BY <1>2, <2>0, <3>3 DEF CallKey, HandlerInv, Followed
        <4> QED  BY <3>1, <4>1 DEF KeyInv
      <3> QED  BY <3>2, <3>3
    <2> QED  BY <2>1, <2>2
  <1>3. ASSUME NEW t \in Threads, Change(t) PROVE HandlerInv' /\ KeyInv'
    <2>1. HandlerInv'
      BY <1>3 DEF Change, HandlerInv, Followed, threadVars, handlerVars
    <2>2. regMap[key[t]] # Absent \/ key[t] \notin Followed
      BY <1>3 DEF Change, HandlerInv, Followed
    <2>3. KeyInv'
      BY <1>3, <2>2 DEF Change, KeyInv, Followed, Original, handlerVars
    <2> QED  BY <2>1, <2>3
  <1>4. ASSUME NEW t \in Threads, Close(t) PROVE HandlerInv' /\ KeyInv'
    BY <1>4 DEF Close, HandlerInv, KeyInv, Followed, Original, keyVars, handlerVars, historyVars
  <1>5. ASSUME NEW t \in Threads, LoseEvent(t) \/ LoseAck(t) PROVE HandlerInv' /\ KeyInv'
    <2>1. HandlerInv'
      BY <1>5 DEF LoseEvent, LoseAck, HandlerInv, Followed, keyVars, threadVars, historyVars
    <2>2. KeyInv'
      BY <1>5 DEF LoseEvent, LoseAck, KeyInv, Followed, Original, keyVars, historyVars
    <2> QED  BY <2>1, <2>2
  <1>6. ASSUME NEW t \in Threads, KeyExists(t) PROVE HandlerInv' /\ KeyInv'
    <2>1. KeyInv'
      BY <1>6 DEF KeyExists, KeyInv, Followed, Original, keyVars, historyVars
    <2>2. key[t] \in Keys /\ pos[t] = "sending"
      BY <1>6 DEF KeyExists, HandlerInv
    <2>3. CASE regMap[key[t]] = Absent
      <3>1. key[t] \in Followed => (Found(key[t]) # Absent) = (orig[key[t]] # Absent)
        BY <2>3 DEF KeyInv, Found, Followed
      <3>2. /\ stage' = [stage EXCEPT ![t] = "checked"]
            /\ exists' = [exists EXCEPT ![t] = Found(key[t]) # Absent]
            /\ \A u \in Threads : stage[u] # "checked"
        BY <1>6, <2>3 DEF KeyExists
      <3>3. exists'[t] = (Found(key[t]) # Absent)
        BY <3>2, Zenon
      <3>4. /\ stage'[t] = "checked"
            /\ \A u \in Threads \ {t} : stage'[u] = stage[u]
        BY <3>2
      <3>5. UNCHANGED <<pos, key, regMap, unannounced, orig>>
        BY <1>6 DEF KeyExists, keyVars, threadVars, historyVars
      <3>6. Followed' = Followed
        BY <3>5 DEF Followed
      <3> QED
        <4> SUFFICES ASSUME NEW u \in Threads
                     PROVE  /\ stage'[u] = "idle" <=> pos[u] # "sending"
                            /\ pos[u] = "free" <=> key[u] = Absent
                            /\ stage'[u] = "handled" => regMap[key[u]] # Absent
                            /\ stage'[u] = "checked" =>
                                 /\ regMap[key[u]] = Absent
                                 /\ key[u] \in Followed => exists'[u] = (orig[key[u]] # Absent)
                                 /\ \A v \in Threads : stage'[v] = "checked" => v = u
                            /\ pos[u] = "open" => regMap[key[u]] # Absent \/ key[u] \in unannounced
          BY <2>1, <3>5, <3>6 DEF HandlerInv
        <4>1. CASE u = t
          <5>1. key[u] \in Followed => exists'[u] = (orig[key[u]] # Absent)
            BY <3>1, <3>3, <4>1, Zenon
          <5> QED  BY <2>2, <2>3, <3>2, <3>4, <4>1, <5>1 DEF HandlerInv
        <4>2. CASE u # t
          BY <3>2, <3>4, <4>2 DEF HandlerInv
        <4> QED  BY <4>1, <4>2
    <2>4. CASE regMap[key[t]] # Absent
      <3>1. HandlerInv'
        BY <1>6, <2>2, <2>4 DEF KeyExists, HandlerInv, Followed, keyVars, threadVars, historyVars
      <3> QED  BY <2>1, <3>1
    <2> QED  BY <2>3, <2>4
  <1>7. ASSUME NEW t \in Threads, PopulateOriginalValues(t) PROVE HandlerInv' /\ KeyInv'
    <2>1. /\ key[t] \in Keys /\ pos[t] = "sending"
          /\ regMap[key[t]] = Absent /\ \A u \in Threads : stage[u] = "checked" => u = t
          /\ key[t] \in Followed => exists[t] = (orig[key[t]] # Absent)
      BY <1>7 DEF PopulateOriginalValues, HandlerInv
    <2>2. /\ regMap' = [regMap EXCEPT ![key[t]] = [existed |-> exists[t],
                                                  values |-> ValuesOf(key[t])]]
          /\ stage' = [stage EXCEPT ![t] = "handled"]
          /\ UNCHANGED <<reg, orig, pos, key, unannounced>>
      BY <1>7 DEF PopulateOriginalValues, keyVars, threadVars, historyVars
    <2>3. [existed |-> exists[t], values |-> ValuesOf(key[t])] # Absent
      BY <2>1, FoundType, RegistryAssumption
    <2>4. regMap'[key[t]] # Absent /\ \A k \in Keys \ {key[t]} : regMap'[k] = regMap[k]
      BY <2>1, <2>2, <2>3
    <2>5. HandlerInv'
      BY <2>1, <2>2, <2>4 DEF HandlerInv, Followed
    <2>6. KeyInv'
      <3> SUFFICES ASSUME NEW k \in Followed
                   PROVE  IF regMap'[k] = Absent THEN reg[k] = orig[k] ELSE regMap'[k] = Original(k)
        BY <2>2 DEF KeyInv, Original, Followed
      <3>1. CASE k = key[t]
        <4>1. reg[k] = orig[k] /\ Found(k) = orig[k]
          BY <2>1, <3>1 DEF KeyInv, Found, Followed
        <4>2. ValuesOf(k) = IF orig[k] = Absent THEN NoValues ELSE orig[k]
          BY <4>1 DEF ValuesOf
        <4>3. regMap'[k] = [existed |-> exists[t], values |-> ValuesOf(k)]
          BY <2>1, <2>2, <3>1
        <4>4. exists[t] = (orig[k] # Absent)
          BY <2>1, <3>1
        <4>5. regMap'[k] = Original(k)
          BY <4>2, <4>3, <4>4, Zenon DEF Original
        <4> QED  BY <2>4, <3>1, <4>5
      <3>2. CASE k # key[t]
        BY <2>4, <3>2 DEF KeyInv, Followed
      <3> QED  BY <3>1, <3>2
    <2> QED  BY <2>5, <2>6
  <1>8. CASE Stop \/ EndKeys \/ Again \/ ReadKeys \/ ExamineKey
    BY <1>8, Quiet DEF Stop, EndKeys, Again, ReadKeys, ExamineKey, SetDeleted, SetModified, SetNew,
          ListNew, ListModified, ListDeleted, aroundVars, loopVars, historyVars
  <1>9. CASE UNCHANGED regVars
    BY <1>9, Quiet DEF regVars, keyVars, threadVars, handlerVars
  <1> QED  BY <1>1, <1>2, <1>3, <1>4, <1>5, <1>6, <1>7, <1>8, <1>9
           DEF RegNext, ThreadOp, Handler, ReportStep

-----------------------------------------------------------------------------
(* What the report says of a key. *)

Now(k, n) == Shown(IF reg[k] = Absent THEN Absent ELSE reg[k][n])
Then(k, n) == Shown(IF orig[k] = Absent THEN Absent ELSE orig[k][n])
Changed(k) == {n \in Names : Now(k, n) # Then(k, n)}

LEMMA ChangedNames ==
  ASSUME NEW k
  PROVE  {n \in Names : \E x \in Visible(k) \ Before(k) : x[1] = n} = Changed(k)
  <1>1. ASSUME NEW n \in Names, NEW x \in Visible(k) \ Before(k), x[1] = n
        PROVE  Now(k, n) # Then(k, n)
    BY <1>1 DEF Visible, Before, Now, Then
  <1>2. ASSUME NEW n \in Names, Now(k, n) # Then(k, n)
        PROVE  \E x \in Visible(k) \ Before(k) : x[1] = n
    <2>1. <<n, Now(k, n)>> \in Visible(k)
      BY DEF Visible, Now
    <2>2. ASSUME <<n, Now(k, n)>> \in Before(k) PROVE FALSE
      <3>1. PICK m \in Names : <<n, Now(k, n)>> = <<m, Then(k, m)>>
        BY <2>2 DEF Before, Then
      <3> QED  BY <1>2, <3>1
    <2> QED  BY <2>1, <2>2
  <1> QED  BY <1>1, <1>2 DEF Changed

\* UpdateDifferences finds the visible changes: an absent value is no value, and shows
\* as nothing that a value shows as.
LEMMA DifferencesChanged ==
  ASSUME RInv, NEW k \in Followed, regMap[k] # Absent
  PROVE  LET d == UpdateDifferences(k) IN d.added \cup d.deleted \cup d.modified = Changed(k)
  <1>1. /\ regMap[k].values = IF orig[k] = Absent THEN NoValues ELSE orig[k]
        /\ ValuesOf(k) = IF reg[k] = Absent THEN NoValues ELSE reg[k]
        /\ reg[k] \in Values \cup {Absent} /\ orig[k] \in Values \cup {Absent}
    BY DEF RInv, RegTypeOK, KeyInv, Original, Followed, ValuesOf, Found
  <1> DEFINE old(n) == IF orig[k] = Absent THEN Absent ELSE orig[k][n]
             new(n) == IF reg[k] = Absent THEN Absent ELSE reg[k][n]
  <1>2. ASSUME NEW n \in Names
        PROVE  /\ regMap[k].values[n] = old(n) /\ ValuesOf(k)[n] = new(n)
               /\ old(n) \in Data \cup {Absent} /\ new(n) \in Data \cup {Absent}
    BY <1>1 DEF NoValues, Values
  <1>3. ASSUME NEW v \in Data \cup {Absent}
        PROVE  Shown(v) = Absent <=> v = Absent
    BY RegistryAssumption DEF Shown
  <1>4. ASSUME NEW n \in Names
        PROVE  LET d == UpdateDifferences(k)
               IN  n \in d.added \cup d.deleted \cup d.modified <=> Shown(new(n)) # Shown(old(n))
    BY <1>2, <1>3 DEF UpdateDifferences
  <1>5. LET d == UpdateDifferences(k) IN d.added \cup d.deleted \cup d.modified \subseteq Names
    BY DEF UpdateDifferences
  <1> QED  BY <1>4, <1>5 DEF Changed, Now, Then

LEMMA UntouchedTruly ==
  ASSUME NEW k, reg[k] = orig[k], \A e \in report : e.key # k
  PROVE  ReportedTruly(k)
  <1>1. Changed(k) = {}
    BY DEF Changed, Now, Then
  <1> QED  BY <1>1, ChangedNames DEF ReportedTruly

LEMMA TrulyFrame ==
  ASSUME NEW k, reg'[k] = reg[k], orig' = orig,
         {e \in report' : e.key = k} = {e \in report : e.key = k}
  PROVE  ReportedTruly(k)' = ReportedTruly(k)
  BY DEF ReportedTruly, Visible, Before

LEMMA KeptExisted == ASSUME NEW a, NEW b PROVE [existed |-> a, values |-> b].existed = a
  OBVIOUS

LEMMA OriginalExisted == ASSUME NEW k PROVE Original(k).existed = (orig[k] # Absent)
  <1>1. Original(k) = [existed |-> orig[k] # Absent, values |-> Original(k).values]
    BY DEF Original
  <1> QED  BY ONLY <1>1, KeptExisted, Zenon

\* The element that is appended, or left out, is right.
LEMMA ListedTruly ==
  ASSUME RInv, NEW k \in Followed \ late, flags # Absent, flags.key = k,
         flags.next \notin {"modified", "new"}, UNCHANGED <<reg, orig>>,
         NEW listed \in BOOLEAN,
         listed <=> IsNew(k) \/ Differs(UpdateDifferences(k)) \/ IsDeleted(k),
         IF listed THEN AppendElement(UpdateDifferences(k)) ELSE report' = report
  PROVE  ReportedTruly(k)'
  <1> DEFINE d == UpdateDifferences(k)
             e0 == [key |-> flags.key, deleted |-> flags.deleted, new |-> flags.new,
                    modified |-> flags.modified, diff |-> d]
  <1>1. /\ k \notin todo /\ phase = "reading" /\ regMap[k] # Absent
        /\ \A e \in report : e.key # k
        /\ ReadTruly(k)
    BY DEF RInv, LoopInv, Pending
  <1>2. report' = IF listed THEN report \cup {e0} ELSE report
    BY DEF AppendElement
  <1>3. /\ IsNew(k) = (orig[k] = Absent /\ reg[k] # Absent)
        /\ IsDeleted(k) = (orig[k] # Absent /\ reg[k] = Absent)
    <2>1. regMap[k] = Original(k) /\ Found(k) = reg[k]
      BY <1>1 DEF RInv, KeyInv, Followed, Found
    <2>2. regMap[k].existed = (orig[k] # Absent)
      BY ONLY <2>1, OriginalExisted, Zenon
    <2> QED  BY <2>1, <2>2, Zenon DEF IsNew, IsDeleted
  <1>4. d.added \cup d.deleted \cup d.modified = Changed(k)
    BY <1>1, DifferencesChanged
  <1>5. Differs(d) = (Changed(k) # {})
    <2>1. d.deleted \cup d.added \cup d.modified = Changed(k)
      BY <1>4
    <2> HIDE DEF d
    <2> QED  BY <2>1, Zenon DEF Differs
  <1>6. {e \in report' : e.key = k} = IF listed THEN {e0} ELSE {}
    <2>1. e0.key = k
      OBVIOUS
    <2> HIDE DEF e0
    <2> QED  BY <1>1, <1>2, <2>1
  <1>7. /\ e0.new = IsNew(k) /\ e0.deleted = IsDeleted(k) /\ e0.modified = Differs(d)
        /\ e0.diff = d
    <2>1. /\ e0.new = flags.new /\ e0.deleted = flags.deleted /\ e0.modified = flags.modified
          /\ e0.diff = d
      OBVIOUS
    <2>2. flags.new = IsNew(k) /\ flags.deleted = IsDeleted(k) /\ flags.modified = Differs(d)
      BY <1>1 DEF ReadTruly
    <2> HIDE DEF e0, d
    <2> QED  BY <2>1, <2>2
  <1>9. {n \in Names : \E x \in Visible(k)' \ Before(k)' : x[1] = n} = Changed(k)
    BY ChangedNames DEF Visible, Before
  <1> HIDE DEF e0, d
  <1>10. \A e \in {x \in report' : x.key = k} :
           /\ e.new = (orig[k] = Absent /\ reg[k] # Absent)
           /\ e.deleted = (orig[k] # Absent /\ reg[k] = Absent)
           /\ e.modified = (Changed(k) # {})
           /\ e.diff.added \cup e.diff.deleted \cup e.diff.modified = Changed(k)
    BY <1>3, <1>4, <1>5, <1>6, <1>7
  <1>11. {x \in report' : x.key = k} # {}
           <=> (orig[k] = Absent) # (reg[k] = Absent) \/ Changed(k) # {}
    <2>1. listed <=> IsNew(k) \/ Differs(d) \/ IsDeleted(k)
      BY DEF d
    <2>2. {x \in report' : x.key = k} # {} <=> listed
      BY <1>6
    <2> QED  BY ONLY <1>3, <1>5, <2>1, <2>2, Zenon
  <1> QED  BY <1>9, <1>10, <1>11 DEF ReportedTruly

-----------------------------------------------------------------------------
(* The loop over the keys. *)

\* A step that leaves the loop alone, and every key it is to report truly.
LEMMA LoopFrame ==
  ASSUME RInv, UNCHANGED <<orig, todo, flags, report, phase>>,
         late \subseteq late', unannounced \subseteq unannounced',
         phase \in {"reading", "done"} =>
           \A k \in (Followed \ late)' : /\ reg'[k] = reg[k]
                                         /\ regMap[k] # Absent => regMap'[k] = regMap[k]
  PROVE  LoopInv'
  <1>1. ASSUME phase \in {"reading", "done"}, NEW k \in (Followed \ late)'
        PROVE  IF Pending(k)'
               THEN /\ regMap'[k] # Absent
                    /\ \A e \in report : e.key # k
                    /\ k \notin todo => ReadTruly(k)'
               ELSE ReportedTruly(k)'
    <2>1. /\ k \in Followed \ late
          /\ reg'[k] = reg[k] /\ (regMap[k] # Absent => regMap'[k] = regMap[k])
          /\ Pending(k)' = Pending(k)
      BY <1>1 DEF Followed, Pending
    <2>2. CASE Pending(k)
      <3>1. regMap'[k] = regMap[k]
        BY <1>1, <2>1, <2>2 DEF RInv, LoopInv
      <3>2. /\ IsNew(k)' = IsNew(k) /\ IsDeleted(k)' = IsDeleted(k)
            /\ UpdateDifferences(k)' = UpdateDifferences(k)
        BY <2>1, <3>1 DEF IsNew, IsDeleted, UpdateDifferences, ValuesOf, Found
      <3>3. k \notin todo => ReadTruly(k)'
        <4>1. k \notin todo => ReadTruly(k)
          BY <1>1, <2>1, <2>2 DEF RInv, LoopInv
        <4> QED  BY <3>2, <4>1 DEF ReadTruly
      <3> QED  BY <1>1, <2>1, <2>2, <3>1, <3>3 DEF RInv, LoopInv
    <2>3. CASE ~Pending(k)
      <3>1. ReportedTruly(k)
        BY <1>1, <2>1, <2>3 DEF RInv, LoopInv
      <3> QED  BY <2>1, <2>3, <3>1, TrulyFrame
    <2> QED  BY <2>2, <2>3
  <1> QED  BY <1>1 DEF RInv, LoopInv

LEMMA AroundVars ==
  UNCHANGED aroundVars => UNCHANGED <<reg, orig, regMap, phase, todo, late, unannounced>>
  BY DEF aroundVars, keyVars, handlerVars, historyVars

LEMMA LoopVars ==
  UNCHANGED loopVars
    => UNCHANGED <<reg, orig, regMap, phase, todo, report, late, unannounced>>
  BY AroundVars DEF loopVars

LEMMA ReadFrame ==
  ASSUME NEW k, UNCHANGED <<reg, regMap>>
  PROVE  /\ IsNew(k)' = IsNew(k) /\ IsDeleted(k)' = IsDeleted(k)
         /\ UpdateDifferences(k)' = UpdateDifferences(k)
  BY DEF IsNew, IsDeleted, UpdateDifferences, ValuesOf, Found

LEMMA ReadNow ==
  ASSUME RInv, flags # Absent, NEW k \in Followed \ late, k = flags.key
  PROVE  ReadTruly(k)
  BY DEF RInv, LoopInv, Pending

LEMMA AppendFrame ==
  ASSUME NEW d, AppendElement(d) \/ report' = report, NEW k, k # flags.key
  PROVE  {e \in report' : e.key = k} = {e \in report : e.key = k}
  BY DEF AppendElement

\* A step that reads something more of the key under examination.
LEMMA FlagsFrame ==
  ASSUME RInv, flags # Absent, flags' # Absent, NEW q, q = flags.key, flags'.key = q,
         UNCHANGED <<reg, orig, regMap, phase, todo, report, late, unannounced>>,
         ReadTruly(q) => ReadTruly(q)'
  PROVE  LoopInv'
  <1>1. phase = "reading" /\ q \in Keys \ todo
    BY DEF RInv, LoopInv
  <1>2. ASSUME NEW k \in (Followed \ late)'
        PROVE  IF Pending(k)'
               THEN /\ regMap'[k] # Absent
                    /\ \A e \in report' : e.key # k
                    /\ k \notin todo' => ReadTruly(k)'
               ELSE ReportedTruly(k)'
    <2>1. k \in Followed \ late /\ Pending(k)' = Pending(k)
      BY DEF Followed, Pending
    <2>2. CASE Pending(k)
      <3>1. regMap[k] # Absent /\ \A e \in report : e.key # k
        BY <1>1, <2>1, <2>2 DEF RInv, LoopInv
      <3>2. k \notin todo => k = q
        BY <2>2 DEF Pending
      <3>3. ASSUME k \notin todo PROVE ReadTruly(k)'
        <4>1. k = q /\ ReadTruly(q)
          BY <2>1, <3>2, <3>3, ReadNow
        <4>2. ReadTruly(q)'
          BY <4>1
        <4> QED  BY ONLY <4>1, <4>2, UNCHANGED <<reg, regMap>> DEF ReadTruly
      <3> QED  BY <2>1, <2>2, <3>1, <3>3
    <2>3. CASE ~Pending(k)
      <3>1. ReportedTruly(k)
        BY <1>1, <2>1, <2>3 DEF RInv, LoopInv
      <3> QED  BY <2>1, <2>3, <3>1, TrulyFrame
    <2> QED  BY <2>2, <2>3
  <1> QED  BY <1>1, <1>2 DEF LoopInv

\* A step with which the loop leaves a key.
LEMMA EndedFrame ==
  ASSUME RInv, flags # Absent, flags' = Absent, NEW q, q = flags.key,
         UNCHANGED <<reg, orig, regMap, phase, todo, late, unannounced>>,
         \A k : k # q => {e \in report' : e.key = k} = {e \in report : e.key = k},
         q \in Followed \ late => ReportedTruly(q)'
  PROVE  LoopInv'
  <1>1. phase = "reading" /\ q \notin todo
    BY DEF RInv, LoopInv
  <1>2. ASSUME NEW k \in (Followed \ late)'
        PROVE  IF Pending(k)'
               THEN /\ regMap'[k] # Absent
                    /\ \A e \in report' : e.key # k
                    /\ k \in todo'
               ELSE ReportedTruly(k)'
    <2>1. k \in Followed \ late
      BY DEF Followed
    <2>2. CASE q = k
      <3>1. ReportedTruly(q)' /\ ~Pending(k)'
        BY <1>1, <2>1, <2>2 DEF Pending
      <3> QED  BY <2>2, <3>1
    <2>3. CASE q # k
      <3>1. {e \in report' : e.key = k} = {e \in report : e.key = k}
        BY <2>3
      <3>2. Pending(k)' = Pending(k) /\ (Pending(k) => k \in todo)
        BY <2>3 DEF Pending
      <3>3. CASE Pending(k)
        BY <1>1, <2>1, <3>1, <3>2, <3>3 DEF RInv, LoopInv
      <3>4. CASE ~Pending(k)
        <4>1. ReportedTruly(k)
          BY <1>1, <2>1, <3>4 DEF RInv, LoopInv
        <4> QED  BY <3>1, <3>2, <3>4, <4>1, TrulyFrame
      <3> QED  BY <3>3, <3>4
    <2> QED  BY <2>2, <2>3
  <1> QED  BY <1>1, <1>2 DEF LoopInv

LEMMA NextLoop == RInv /\ [RegNext]_regVars => LoopInv'
  <1> SUFFICES ASSUME RInv, [RegNext]_regVars PROVE LoopInv'
    OBVIOUS
  <1>1. ASSUME NEW t \in Threads, NEW k \in Keys, NotifyRegistryAccess(t, k) PROVE LoopInv'
    BY <1>1, LoopFrame DEF NotifyRegistryAccess, keyVars, reportVars, historyVars
  <1>2. ASSUME NEW t \in Threads, CallKey(t) PROVE LoopInv'
    <2>1. /\ UNCHANGED <<orig, todo, flags, report, phase, regMap>>
          /\ late \subseteq late' /\ unannounced \subseteq unannounced'
      BY <1>2 DEF CallKey, Changes, reportVars
    <2>2. ASSUME phase \in {"reading", "done"}, NEW k \in (Followed \ late)'
          PROVE  reg'[k] = reg[k]
      <3>1. k \in Keys /\ k \notin late'
        BY DEF Followed
      <3> QED  BY <1>2, <2>2, <3>1 DEF CallKey, Changes, RInv, RegTypeOK
    <2> QED  BY <2>1, <2>2, LoopFrame
  <1>3. ASSUME NEW t \in Threads, Change(t) PROVE LoopInv'
    <2>1. /\ UNCHANGED <<orig, todo, flags, report, phase, regMap, unannounced>>
          /\ late \subseteq late'
      BY <1>3 DEF Change, Changes, reportVars, handlerVars
    <2>2. ASSUME phase \in {"reading", "done"}, NEW k \in (Followed \ late)'
          PROVE  reg'[k] = reg[k]
      <3>1. k \in Keys /\ k \notin late'
        BY DEF Followed
      <3> QED  BY <1>3, <2>2, <3>1 DEF Change, Changes, RInv, RegTypeOK
    <2> QED  BY <2>1, <2>2, LoopFrame
  <1>4. ASSUME NEW t \in Threads, Close(t) PROVE LoopInv'
    BY <1>4, LoopFrame DEF Close, keyVars, handlerVars, reportVars, historyVars
  <1>5. ASSUME NEW t \in Threads, LoseEvent(t) \/ LoseAck(t) PROVE LoopInv'
    BY <1>5, LoopFrame DEF LoseEvent, LoseAck, keyVars, reportVars, historyVars
  <1>6. ASSUME NEW t \in Threads, KeyExists(t) PROVE LoopInv'
    BY <1>6, LoopFrame DEF KeyExists, keyVars, reportVars, historyVars
  <1>7. ASSUME NEW t \in Threads, PopulateOriginalValues(t) PROVE LoopInv'
    <2>1. /\ UNCHANGED <<orig, todo, flags, report, phase, reg, late, unannounced>>
          /\ regMap' = [regMap EXCEPT ![key[t]] = [existed |-> exists[t],
                                                  values |-> ValuesOf(key[t])]]
      BY <1>7 DEF PopulateOriginalValues, keyVars, historyVars
    <2>2. regMap[key[t]] = Absent
      BY <1>7 DEF PopulateOriginalValues, RInv, HandlerInv
    <2>3. \A k \in Keys : regMap[k] # Absent => regMap'[k] = regMap[k]
      BY <2>1, <2>2 DEF RInv, RegTypeOK
    <2> QED  BY <2>1, <2>3, LoopFrame DEF Followed
  <1>8. CASE Stop
    BY <1>8 DEF Stop, RInv, LoopInv
  <1>9. CASE ReadKeys
    <2>1. /\ phase' = "reading" /\ phase = "stopped" /\ report' = {} /\ late' = {}
          /\ todo' = {k \in Keys : regMap[k] # Absent} /\ flags = Absent
          /\ UNCHANGED <<reg, orig, regMap, flags, unannounced>>
      BY <1>9 DEF ReadKeys, keyVars, handlerVars, RInv, LoopInv
    <2>2. ASSUME NEW k \in (Followed \ late)', ~Pending(k)' PROVE ReportedTruly(k)'
      <3>1. k \in Followed /\ regMap[k] = Absent
        BY <2>1, <2>2 DEF Followed, Pending
      <3>2. reg[k] = orig[k]
        BY <3>1 DEF RInv, KeyInv
      <3>3. Changed(k)' = {}
        BY <2>1, <3>2 DEF Changed, Now, Then
      <3>4. {n \in Names : \E x \in Visible(k)' \ Before(k)' : x[1] = n} = {}
        BY <2>1, <3>2 DEF Visible, Before
      <3> QED  BY <2>1, <3>2, <3>4 DEF ReportedTruly
    <2> QED  BY <2>1, <2>2 DEF LoopInv, Pending, Followed
  <1>10. ASSUME NEW q \in Keys, SetDeleted(q) PROVE LoopInv'
    <2>1. /\ phase = "reading" /\ flags = Absent /\ q \in todo /\ todo' = todo \ {q}
          /\ flags' = [key |-> q, deleted |-> IsDeleted(q), modified |-> FALSE,
                       new |-> FALSE, diff |-> NoDifferences, next |-> "modified"]
          /\ UNCHANGED <<reg, orig, regMap, phase, report, late, unannounced>>
      BY <1>10 DEF SetDeleted, keyVars, handlerVars, historyVars
    <2>2. flags'.key = q /\ flags'.deleted = IsDeleted(q) /\ flags'.next = "modified"
      BY <2>1
    <2>3. flags' # Absent
      <3>1. IsDeleted(q) \in BOOLEAN /\ NoDifferences \in Differences
        BY DEF IsDeleted, NoDifferences, Differences
      <3>2. flags' \in Flags
        BY <2>1, <3>1 DEF Flags
      <3> QED  BY <3>2, RegistryAssumption
    <2>4. ASSUME NEW k \in (Followed \ late)'
          PROVE  IF Pending(k)'
                 THEN /\ regMap'[k] # Absent
                      /\ \A e \in report' : e.key # k
                      /\ k \notin todo' => ReadTruly(k)'
                 ELSE ReportedTruly(k)'
      <3>1. k \in Followed \ late /\ Pending(k)' = Pending(k)
        BY <2>1, <2>2, <2>3 DEF Followed, Pending
      <3>2. IsDeleted(k)' = IsDeleted(k)
        BY <2>1 DEF IsDeleted, Found
      <3>3. CASE Pending(k)
        <4>1. regMap[k] # Absent /\ \A e \in report : e.key # k
          BY <2>1, <3>1, <3>3 DEF RInv, LoopInv
        <4>2. k \notin todo' => ReadTruly(k)'
          <5>1. k \notin todo' => k = q
            BY <2>1, <3>3 DEF Pending
          <5> QED  BY <2>2, <3>2, <5>1 DEF ReadTruly
        <4> QED  BY <2>1, <3>1, <3>3, <4>1, <4>2
      <3>4. CASE ~Pending(k)
        <4>1. ReportedTruly(k)
          BY <2>1, <3>1, <3>4 DEF RInv, LoopInv
        <4> QED  BY <2>1, <3>1, <3>4, <4>1, TrulyFrame
      <3> QED  BY <3>3, <3>4
    <2> QED  BY <2>1, <2>2, <2>3, <2>4 DEF LoopInv
  <1>11. CASE SetModified
    <2>1. PICK k, d : /\ k = flags.key /\ d = UpdateDifferences(k) /\ At("modified")
                      /\ flags' = [flags EXCEPT !.modified = Differs(d), !.diff = d,
                                                !.next = "new"]
      BY <1>11 DEF SetModified
    <2>2. UNCHANGED <<reg, orig, regMap, phase, todo, report, late, unannounced>>
      BY <1>11, LoopVars DEF SetModified
    <2>3. flags \in Flags
      BY <2>1 DEF RInv, RegTypeOK, At
    <2>4. /\ flags'.key = k /\ flags'.deleted = flags.deleted /\ flags'.new = flags.new
          /\ flags'.next = "new" /\ flags'.diff = d /\ flags'.modified = Differs(d)
      BY <2>1, <2>3 DEF Flags
    <2>5. flags' # Absent
      <3>1. Differs(d) \in BOOLEAN /\ d \in Differences
        BY <2>1, DifferencesType DEF Differs
      <3> QED  BY <2>1, <2>3, <3>1, RegistryAssumption DEF Flags
    <2>6. ReadTruly(k) => ReadTruly(k)'
      BY <2>1, <2>2, <2>4, ReadFrame DEF ReadTruly
    <2> QED  BY <2>1, <2>2, <2>4, <2>5, <2>6, FlagsFrame DEF At
  <1>12. CASE SetNew
    <2>1. PICK k : /\ k = flags.key /\ At("new")
                   /\ flags' = [flags EXCEPT !.new = IsNew(k), !.next = "if"]
      BY <1>12 DEF SetNew
    <2>2. UNCHANGED <<reg, orig, regMap, phase, todo, report, late, unannounced>>
      BY <1>12, LoopVars DEF SetNew
    <2>3. flags \in Flags
      BY <2>1 DEF RInv, RegTypeOK, At
    <2>4. /\ flags'.key = k /\ flags'.deleted = flags.deleted /\ flags'.new = IsNew(k)
          /\ flags'.next = "if" /\ flags'.diff = flags.diff /\ flags'.modified = flags.modified
      BY <2>1, <2>3 DEF Flags
    <2>5. flags' # Absent
      <3>1. IsNew(k) \in BOOLEAN
        BY DEF IsNew
      <3> QED  BY <2>1, <2>3, <3>1, RegistryAssumption DEF Flags
    <2>6. ReadTruly(k) => ReadTruly(k)'
      BY <2>1, <2>2, <2>4, ReadFrame DEF ReadTruly, At
    <2> QED  BY <2>1, <2>2, <2>4, <2>5, <2>6, FlagsFrame DEF At
  <1>13. CASE ListNew
    <2>1. PICK k, d : k = flags.key /\ d = UpdateDifferences(k) /\ At("if")
      BY <1>13 DEF ListNew
    <2>2. UNCHANGED <<reg, orig, regMap, phase, todo, late, unannounced>>
      BY <1>13, AroundVars DEF ListNew
    <2>3. CASE IsNew(k)
      <3>1. AppendElement(flags.diff) /\ flags' = Absent
        BY <1>13, <2>1, <2>3 DEF ListNew
      <3>2. ASSUME k \in Followed \ late PROVE ReportedTruly(k)'
        <4>1. flags.diff = d
          BY <2>1, <3>2, ReadNow DEF At, ReadTruly
        <4> QED  BY <2>1, <2>2, <2>3, <3>1, <3>2, <4>1, ListedTruly DEF At
      <3> QED  BY <2>1, <2>2, <3>1, <3>2, AppendFrame, EndedFrame DEF At
    <2>4. CASE ~IsNew(k)
      <3>1. flags' = [flags EXCEPT !.next = "compare"] /\ report' = report /\ flags \in Flags
        BY <1>13, <2>1, <2>4 DEF ListNew, RInv, RegTypeOK, At
      <3>2. /\ flags'.key = k /\ flags'.deleted = flags.deleted /\ flags'.new = flags.new
            /\ flags'.next = "compare" /\ flags'.diff = flags.diff
            /\ flags'.modified = flags.modified
        BY <2>1, <3>1 DEF Flags
      <3>3. flags' # Absent
        BY <3>1, RegistryAssumption DEF Flags
      <3>4. ReadTruly(k) => ReadTruly(k)'
        BY <2>1, <2>2, <2>4, <3>2, ReadFrame DEF ReadTruly, At
      <3> QED  BY <2>1, <2>2, <3>1, <3>2, <3>3, <3>4, FlagsFrame DEF At
    <2> QED  BY <2>3, <2>4
  <1>14. CASE ListModified
    <2>1. PICK k, d : k = flags.key /\ d = UpdateDifferences(k) /\ At("compare")
      BY <1>14 DEF ListModified
    <2>2. UNCHANGED <<reg, orig, regMap, phase, todo, late, unannounced>>
      BY <1>14, AroundVars DEF ListModified
    <2>3. CASE Differs(d)
      <3>1. AppendElement(d) /\ flags' = Absent
        BY <1>14, <2>1, <2>3 DEF ListModified
      <3>2. ASSUME k \in Followed \ late PROVE ReportedTruly(k)'
        BY <2>1, <2>2, <2>3, <3>1, <3>2, ListedTruly DEF At
      <3> QED  BY <2>1, <2>2, <3>1, <3>2, AppendFrame, EndedFrame DEF At
    <2>4. CASE ~Differs(d)
      <3>1. /\ flags' = [flags EXCEPT !.diff = d, !.next = "gone"] /\ report' = report
            /\ flags \in Flags
        BY <1>14, <2>1, <2>4 DEF ListModified, RInv, RegTypeOK, At
      <3>2. /\ flags'.key = k /\ flags'.deleted = flags.deleted /\ flags'.new = flags.new
            /\ flags'.next = "gone" /\ flags'.diff = d
            /\ flags'.modified = flags.modified
        BY <2>1, <3>1 DEF Flags
      <3>3. flags' # Absent
        <4>1. d \in Differences
          BY <2>1, DifferencesType
        <4> QED  BY <3>1, <4>1, FlagsGone, RegistryAssumption
      <3>4. ReadTruly(k) => ReadTruly(k)'
        BY <2>1, <2>2, <2>4, <3>2, ReadFrame DEF ReadTruly, At
      <3> QED  BY <2>1, <2>2, <3>1, <3>2, <3>3, <3>4, FlagsFrame DEF At
    <2> QED  BY <2>3, <2>4
  <1>15. CASE ListDeleted
    <2>1. PICK k, d : k = flags.key /\ d = UpdateDifferences(k) /\ At("gone")
      BY <1>15 DEF ListDeleted
    <2>2. UNCHANGED <<reg, orig, regMap, phase, todo, late, unannounced>> /\ flags' = Absent
      BY <1>15, AroundVars DEF ListDeleted
    <2>3. IF IsDeleted(k) THEN AppendElement(flags.diff) ELSE report' = report
      BY <1>15, <2>1 DEF ListDeleted
    <2>4. ASSUME k \in Followed \ late PROVE ReportedTruly(k)'
      <3>1. flags.diff = d /\ ~IsNew(k) /\ ~Differs(d)
        BY <2>1, <2>4, ReadNow DEF At, ReadTruly
      <3>2. IsDeleted(k) \in BOOLEAN
        BY DEF IsDeleted
      <3> QED  BY <2>1, <2>2, <2>3, <2>4, <3>1, <3>2, ListedTruly DEF At
    <2> QED  BY <2>1, <2>2, <2>3, <2>4, AppendFrame, EndedFrame DEF At
  <1>16. CASE EndKeys
    <2>1. /\ phase = "reading" /\ flags = Absent
          /\ phase' = "stopped" \/ (phase' = "done" /\ todo = {})
          /\ UNCHANGED <<reg, orig, regMap, todo, flags, report, late, unannounced>>
      BY <1>16 DEF EndKeys, keyVars, handlerVars, historyVars
    <2>2. ASSUME todo = {}, NEW k \in (Followed \ late)'
          PROVE  ~Pending(k)' /\ ReportedTruly(k)'
      <3>1. k \in Followed \ late /\ ~Pending(k)' /\ ~Pending(k)
        BY <2>1, <2>2 DEF Followed, Pending
      <3>2. ReportedTruly(k)
        BY <2>1, <3>1 DEF RInv, LoopInv
      <3> QED  BY <2>1, <3>1, <3>2, TrulyFrame
    <2> QED  BY <2>1, <2>2 DEF LoopInv
  <1>17. CASE Again
    BY <1>17 DEF Again, RInv, LoopInv
  <1>18. CASE UNCHANGED regVars
    BY <1>18, LoopFrame DEF regVars
  <1> QED  BY <1>1, <1>2, <1>3, <1>4, <1>5, <1>6, <1>7, <1>8, <1>9, <1>10, <1>11, <1>12, <1>13,
              <1>14, <1>15, <1>16, <1>17, <1>18
           DEF RegNext, ThreadOp, Handler, ReportStep, ExamineKey

LEMMA RegStep == RInv /\ [RegNext]_regVars => RInv'
  BY NextType, NextHandler, NextLoop DEF RInv

LEMMA OriginalKept == RInv => OriginalIsOriginal
  BY DEF RInv, KeyInv, OriginalIsOriginal

LEMMA TrulyReported == RInv => KeysReported
  <1> SUFFICES ASSUME RInv, phase = "done", NEW k \in Followed \ late PROVE ReportedTruly(k)
    BY DEF KeysReported
  <1>1. ~Pending(k)
    BY DEF RInv, LoopInv, Pending
  <1> QED  BY <1>1 DEF RInv, LoopInv

-----------------------------------------------------------------------------
(* The theorems. *)

\* The invariant of the registry history: a key nobody has announced is as it was,
\* what is kept of any other is what it was, and the loop over the keys has reported
\* truly every key it has passed and that has not changed since.
THEOREM RegistryInvariant == RegSpec => []RInv
  BY RegInitInv, RegStep, PTL DEF RegSpec

\* What NotifyRegistryAccess keeps of a key is the state of the key at the start.
THEOREM OriginalIsOriginalTheorem == RegSpec => []OriginalIsOriginal
  BY OriginalKept, RegistryInvariant, PTL

\* The report of a loop that ended without an exception lists exactly the keys that
\* changed visibly, with the attributes and the values that PrepareReport is to give
\* them, whichever attempt it is.
THEOREM KeysReportedTheorem == RegSpec => []KeysReported
  BY TrulyReported, RegistryInvariant, PTL
=============================================================================
