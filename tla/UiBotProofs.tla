----------------------------- MODULE UiBotProofs -----------------------------
(***************************************************************************)
(* Proofs about UiBot for any windows, frames and thresholds: type         *)
(* correctness, what a returned window has been seen to do, and the one    *)
(* interaction that may follow the timeout.                                *)
(***************************************************************************)
EXTENDS UiBot, FiniteSetTheorems, TLAPS

(* The values a counter of a window takes. *)

LEMMA SlotsFinite == /\ IsFiniteSet(Slots) /\ Cardinality(Slots) \in Nat
                     /\ Cardinality(Slots) = Cardinality(Frames) * (CIRCULAR_LOOP_THRESHOLD + 1)
                     /\ Cardinality(Frames) \in Nat
  <1> DEFINE I == 1 .. CIRCULAR_LOOP_THRESHOLD + 1
  <1>1. IsFiniteSet(Frames) /\ CIRCULAR_LOOP_THRESHOLD \in Nat
    BY BotAssumption
  <1>2. IsFiniteSet(I) /\ Cardinality(I) = CIRCULAR_LOOP_THRESHOLD + 1
    BY <1>1, FS_Interval
  <1> HIDE DEF I
  <1>3. /\ IsFiniteSet(Frames \X I)
        /\ Cardinality(Frames \X I) = Cardinality(Frames) * Cardinality(I)
    BY <1>1, <1>2, FS_Product
  <1>4. Slots = Frames \X I
    BY DEF Slots, I
  <1> QED  BY <1>1, <1>2, <1>3, <1>4, FS_CardinalityType

LEMMA SpentFinite == /\ IsFiniteSet(Spent) /\ Cardinality(Spent) \in Nat
                     /\ Cardinality(Spent) <= Cardinality(Slots)
  <1>1. Spent \in SUBSET Slots
    BY DEF Spent
  <1> QED  BY <1>1, SlotsFinite, FS_Subset, FS_CardinalityType

-----------------------------------------------------------------------------
LEMMA InitInv == Init => BInv
  <1> SUFFICES ASSUME Init PROVE BInv
    OBVIOUS
  <1>0. anyWindow \in BOOLEAN /\ timeout \in BOOLEAN /\ firstDone \in BOOLEAN
    BY DEF Init, WindowInit
  <1>1. TypeOK
    BY <1>0, WindowAssumption DEF Init, WindowInit, TypeOK, Empty, NoHashes
  <1>2. WaitInv
    BY WindowAssumption DEF Init, WindowInit, WaitInv, NoHashes
  <1>3. LateInv
    BY DEF Init, LateInv
  <1>4. CountInv
    <2>1. interactions = 0 /\ clears = 0 /\ pc # "act"
      BY DEF Init
    <2> QED  BY <2>1, SlotsFinite, SpentFinite DEF CountInv
  <1> QED  BY <1>1, <1>2, <1>3, <1>4 DEF BInv

-----------------------------------------------------------------------------
(* Types. *)

WindowTypeOK ==
  /\ wait \in {"off", "scanning", "returned"} /\ timeout \in BOOLEAN
  /\ prevHandle \in Windows \cup {None} /\ prevHash \in Frames \cup {None}
  /\ anyWindow \in BOOLEAN
  /\ previousHashes \in [Frames -> Nat \cup {None}]
  /\ stableScans \in Nat /\ currentWindow \in Windows \cup {None}
  /\ calm \in 0 .. LOOP_THRESHOLD

BotTypeOK ==
  /\ pc \in {"check", "pids", "waiting", "pick", "act", "react", "loop", "ended"}
  /\ result \in {"Unknown", "Finished", "UI_Stuck", "UnknownError", "PartiallyFinished",
                 "TimeOut"}
  /\ set \in [hash : Frames \cup {None}, good : Nat, other : Nat]
  /\ visited \in [Frames -> Nat]
  /\ stuckCounter \in Nat /\ stuckWaitingForControlsCounter \in Nat
  /\ interactions \in Nat /\ clears \in Nat /\ late \in Nat

LEMMA TypeSplit == TypeOK <=> WindowTypeOK /\ BotTypeOK /\ firstDone \in BOOLEAN
  BY DEF TypeOK, WindowTypeOK, BotTypeOK

LEMMA ReturnedType == WindowTypeOK /\ Returned /\ timeout' \in BOOLEAN => WindowTypeOK'
  <1> SUFFICES ASSUME WindowTypeOK, Returned, timeout' \in BOOLEAN PROVE WindowTypeOK'
    OBVIOUS
  <1>1. anyWindow' \in BOOLEAN
    BY DEF Returned
  <1> QED  BY <1>1, WindowAssumption DEF WindowTypeOK, Returned, NoHashes

LEMMA ScanType ==
  ASSUME WindowTypeOK, NEW f \in Frames \cup {None}, Scan(f),
         previousHashes' \in [Frames -> Nat \cup {None}],
         prevHash' \in Frames \cup {None}, anyWindow' \in BOOLEAN, stableScans' \in Nat
  PROVE  WindowTypeOK'
  <1>1. calm' \in 0 .. LOOP_THRESHOLD
    BY WindowAssumption DEF WindowTypeOK, Scan, Show
  <1> QED  BY <1>1 DEF WindowTypeOK, Scan, Scanning

LEMMA CountType ==
  ASSUME WindowTypeOK, NEW f \in Frames, previousHashes[f] # None, Count(f)
  PROVE  previousHashes' \in [Frames -> Nat \cup {None}]
  <1>1. previousHashes[f] + 1 \in Nat
    BY DEF WindowTypeOK
  <1> QED  BY <1>1 DEF WindowTypeOK, Count

LEMMA AddFrameType ==
  ASSUME WindowTypeOK, NEW f \in Frames, AddFrame(f)
  PROVE  previousHashes' \in [Frames -> Nat \cup {None}]
  BY DEF AddFrame

LEMMA WindowStepType == WindowTypeOK /\ WindowStep => WindowTypeOK'
  <1> SUFFICES ASSUME WindowTypeOK, WindowStep PROVE WindowTypeOK'
    OBVIOUS
  <1>1. CASE EndWait
    BY <1>1 DEF EndWait, scanVars, WindowTypeOK
  <1>2. CASE FindNoWindow
    BY <1>2 DEF FindNoWindow, Scanning, WindowTypeOK
  <1>3. ASSUME NEW w \in Windows, FindOtherWindow(w) PROVE WindowTypeOK'
    BY <1>3, WindowAssumption DEF FindOtherWindow, Scanning, NoHashes, WindowTypeOK
  <1>4. ASSUME NEW f \in Frames \cup {None}, FirstScan(f) PROVE WindowTypeOK'
    <2>1. previousHashes' \in [Frames -> Nat \cup {None}]
      BY <1>4, AddFrameType DEF FirstScan, WindowTypeOK
    <2> QED  BY <1>4, <2>1, ScanType DEF FirstScan
  <1>5. ASSUME NEW f \in Frames \cup {None}, ScanAfterNoHash(f) PROVE WindowTypeOK'
    <2>1. /\ previousHashes' \in [Frames -> Nat \cup {None}]
          /\ anyWindow' \in BOOLEAN
      BY <1>5 DEF ScanAfterNoHash, WindowTypeOK
    <2> QED  BY <1>5, <2>1, ScanType DEF ScanAfterNoHash
  <1>6. ASSUME NEW f \in Frames \cup {None}, ScanChanged(f) PROVE WindowTypeOK'
    <2>1. previousHashes' \in [Frames -> Nat \cup {None}]
      BY <1>6, AddFrameType, CountType DEF ScanChanged
    <2>2. anyWindow' \in BOOLEAN
      BY <1>6 DEF ScanChanged, WindowTypeOK
    <2> QED  BY <1>6, <2>1, <2>2, ScanType DEF ScanChanged
  <1>7. ASSUME NEW f \in Frames \cup {None}, ScanUnchanged(f) PROVE WindowTypeOK'
    <2>0. prevHash \in Frames
      BY <1>7 DEF ScanUnchanged, WindowTypeOK
    <2>1. previousHashes' \in [Frames -> Nat \cup {None}]
      <3>1. CASE previousHashes[prevHash] = None
        BY <1>7, <2>0, <3>1 DEF ScanUnchanged, WindowTypeOK
      <3>2. CASE previousHashes[prevHash] # None
        BY <1>7, <2>0, <3>2, CountType DEF ScanUnchanged
      <3> QED  BY <3>1, <3>2
    <2>2. anyWindow' \in BOOLEAN /\ stableScans' \in Nat /\ prevHash' \in Frames \cup {None}
      BY <1>7, <2>0 DEF ScanUnchanged, WindowTypeOK
    <2> QED  BY <1>7, <2>1, <2>2, ScanType DEF ScanUnchanged
  <1> QED  BY <1>1, <1>2, <1>3, <1>4, <1>5, <1>6, <1>7 DEF WindowStep, Round

LEMMA UnchangedWindow == WindowTypeOK /\ UNCHANGED <<wait, scanVars, calm>>
                           /\ timeout' \in BOOLEAN => WindowTypeOK'
  BY DEF WindowTypeOK, scanVars

LEMMA EndType == BotTypeOK /\ WindowTypeOK => \A r \in {"Unknown", "Finished", "UI_Stuck",
                   "UnknownError", "PartiallyFinished"} : End(r) =>
                   /\ pc' = "ended" /\ timeout' = timeout
                   /\ result' \in {"Unknown", "Finished", "UI_Stuck", "UnknownError",
                                   "PartiallyFinished", "TimeOut"}
  BY DEF End

LEMMA NextType == TypeOK /\ [Next]_vars => TypeOK'
  <1>0. TypeOK /\ [Next]_vars => firstDone' \in BOOLEAN
    BY DEF TypeOK, Next, Bot, TimeoutReached, FirstProcess, vars
  <1> SUFFICES ASSUME WindowTypeOK, BotTypeOK, [Next]_vars
               PROVE  WindowTypeOK' /\ BotTypeOK'
    BY <1>0 DEF TypeOK, WindowTypeOK, BotTypeOK
  <1> USE DEF BotTypeOK
  <1>1. CASE LeaveLoop
    BY <1>1, UnchangedWindow, EndType DEF LeaveLoop, countVars, WindowTypeOK
  <1>2. CASE AllFinished
    BY <1>2, UnchangedWindow, EndType DEF AllFinished, countVars, WindowTypeOK
  <1>3. CASE StartWait
    <2>1. WindowTypeOK'
      BY <1>3 DEF StartWait, WaitForInputRequested, WindowTypeOK, scanVars
    <2>2. BotTypeOK'
      BY <1>3 DEF StartWait, Empty, countVars
    <2> QED  BY <2>1, <2>2
  <1>4. CASE Wait
    BY <1>4, WindowStepType DEF Wait, botVars, countVars
  <1>5. CASE NoWindow
    <2>1. timeout' \in BOOLEAN
      BY <1>5, EndType DEF NoWindow, WindowTypeOK
    <2>2. WindowTypeOK'
      BY <1>5, <2>1, ReturnedType DEF NoWindow
    <2>3. BotTypeOK'
      BY <1>5, EndType DEF NoWindow, countVars
    <2> QED  BY <2>2, <2>3
  <1>6. CASE Rank
    <2>1. WindowTypeOK'
      BY <1>6, ReturnedType DEF Rank, WindowTypeOK
    <2>2. BotTypeOK'
      BY <1>6, BotAssumption DEF Rank, countVars
    <2> QED  BY <2>1, <2>2
  <1>7. CASE NoMoreCandidate
    <2>1. timeout' \in BOOLEAN
      BY <1>7, EndType DEF NoMoreCandidate, GiveUp, WindowTypeOK
    <2>2. WindowTypeOK'
      BY <1>7, <2>1, UnchangedWindow DEF NoMoreCandidate
    <2>3. BotTypeOK'
      BY <1>7, EndType DEF NoMoreCandidate, GiveUp
    <2> QED  BY <2>2, <2>3
  <1>8. CASE SkipCandidate
    BY <1>8, UnchangedWindow DEF SkipCandidate, Again, countVars, windowVars, WindowTypeOK
  <1>9. CASE PopTopCandidate
    <2>1. WindowTypeOK'
      BY <1>9, UnchangedWindow DEF PopTopCandidate, windowVars, WindowTypeOK
    <2>2. set' \in [hash : Frames \cup {None}, good : Nat, other : Nat]
      BY <1>9 DEF PopTopCandidate
    <2>3. visited' \in [Frames -> Nat]
      BY <1>9 DEF PopTopCandidate
    <2> QED  BY <1>9, <2>1, <2>2, <2>3 DEF PopTopCandidate, countVars
  <1>10. CASE PopWithoutHash
    BY <1>10, UnchangedWindow, EndType DEF PopWithoutHash, countVars, WindowTypeOK
  <1>11. CASE Interact
    BY <1>11, UnchangedWindow DEF Interact, countVars, windowVars, WindowTypeOK
  <1>12. CASE ElementNotAvailable
    <2>1. timeout' \in BOOLEAN
      BY <1>12, EndType DEF ElementNotAvailable, GiveUp, WindowTypeOK
    <2>2. WindowTypeOK'
      BY <1>12, <2>1, ReturnedType DEF ElementNotAvailable
    <2>3. BotTypeOK'
      BY <1>12, EndType DEF ElementNotAvailable, GiveUp
    <2> QED  BY <2>2, <2>3
  <1>13. CASE WaitReaction
    BY <1>13, UnchangedWindow DEF WaitReaction, Again, countVars, windowVars, WindowTypeOK
  <1>14. CASE LoopFound
    <2>1. WindowTypeOK'
      BY <1>14, UnchangedWindow, EndType DEF LoopFound, WindowTypeOK
    <2>2. BotTypeOK'
      BY <1>14, EndType, BotAssumption DEF LoopFound, countVars
    <2> QED  BY <2>1, <2>2
  <1>15. CASE Fail
    BY <1>15, UnchangedWindow, EndType DEF Fail, countVars, WindowTypeOK
  <1>16. CASE TimeoutReached
    BY <1>16, UnchangedWindow DEF TimeoutReached, botVars, countVars
  <1>17. CASE UNCHANGED vars
    BY <1>17, UnchangedWindow DEF vars, windowVars, botVars, countVars, WindowTypeOK
  <1>18. CASE EnterLoop \/ FirstProcess
    BY <1>18, UnchangedWindow DEF EnterLoop, FirstProcess, windowVars, botVars, countVars,
          WindowTypeOK
  <1> QED  BY <1>1, <1>2, <1>3, <1>4, <1>5, <1>6, <1>7, <1>8, <1>9, <1>10, <1>11, <1>12,
              <1>13, <1>14, <1>15, <1>16, <1>17, <1>18 DEF Next, Bot

-----------------------------------------------------------------------------
(* The scans of a wait. *)

\* What the loop leaves alone or starts again.
LEMMA ReturnedWait == Returned => WaitInv'
  BY DEF Returned, WaitInv, NoHashes

LEMMA UnchangedWait == WaitInv /\ UNCHANGED <<wait, timeout, scanVars, calm>> => WaitInv'
  <1> SUFFICES ASSUME WaitInv, UNCHANGED <<wait, timeout, scanVars, calm>> PROVE WaitInv'
    OBVIOUS
  <1>1. UNCHANGED <<prevHandle, prevHash, anyWindow, previousHashes, stableScans, currentWindow>>
    BY DEF scanVars
  <1>2. WaitOver' = WaitOver /\ NoHashes' = NoHashes
    BY <1>1 DEF WaitOver, Stable, LoopDetected, NoHashes
  <1> QED  BY <1>1, <1>2 DEF WaitInv

\* What a scan has to show.
LEMMA ScanWait ==
  ASSUME wait' = "scanning", anyWindow',
         prevHash' = None => previousHashes' = NoHashes,
         calm' < LOOP_THRESHOLD => stableScans' <= calm',
         calm' < LOOP_THRESHOLD => \A g \in Frames : previousHashes'[g] # None =>
                                                      previousHashes'[g] <= calm' + 1
  PROVE  WaitInv'
  BY DEF WaitInv, NoHashes

\* A scan that counts as new starts calm again, any other makes it grow.
LEMMA Calmer ==
  ASSUME WindowTypeOK, NEW f \in Frames \cup {None}, Scan(f), calm' < LOOP_THRESHOLD
  PROVE  IF f # None /\ f # prevHash /\ previousHashes[f] = None THEN calm' = 0
         ELSE calm < LOOP_THRESHOLD /\ calm' = calm + 1
  BY WindowAssumption DEF Scan, Show, WindowTypeOK

LEMMA WindowStepWait == WindowTypeOK /\ WaitInv /\ WindowStep => WaitInv'
  <1> SUFFICES ASSUME WindowTypeOK, WaitInv, WindowStep PROVE WaitInv'
    OBVIOUS
  <1>1. CASE EndWait
    <2>1. UNCHANGED <<prevHandle, prevHash, anyWindow, previousHashes, stableScans,
                      currentWindow, timeout, calm>>
      BY <1>1 DEF EndWait, scanVars
    <2>2. WaitOver' /\ wait' = "returned"
      BY <1>1, <2>1 DEF EndWait, WaitOver, Stable, LoopDetected
    <2> QED  BY <2>1, <2>2 DEF WaitInv, NoHashes
  <1>2. CASE FindNoWindow
    BY <1>2 DEF FindNoWindow, Scanning, WaitInv, NoHashes
  <1>3. ASSUME NEW w \in Windows, FindOtherWindow(w) PROVE WaitInv'
    BY <1>3, WindowAssumption DEF FindOtherWindow, Scanning, WaitInv, NoHashes, WindowTypeOK
  <1>4. ASSUME NEW f \in Frames \cup {None}, FirstScan(f) PROVE WaitInv'
    <2>1. prevHash = None /\ previousHashes = NoHashes
      BY <1>4 DEF FirstScan, WaitInv
    <2>2. wait' = "scanning" /\ anyWindow' /\ prevHash' = f /\ stableScans' = 0
      BY <1>4 DEF FirstScan, Scan, Scanning
    <2>3. calm' \in Nat
      BY <1>4, WindowAssumption DEF FirstScan, Scan, Show, WindowTypeOK
    <2>4. CASE f = None
      <3>1. previousHashes' = NoHashes
        BY <1>4, <2>1, <2>4 DEF FirstScan
      <3> QED  BY <2>2, <2>3, <3>1, ScanWait DEF NoHashes
    <2>5. CASE f # None
      <3>1. \A g \in Frames : previousHashes'[g] # None => previousHashes'[g] = 1
        BY <1>4, <2>5, WindowAssumption DEF FirstScan, AddFrame
      <3> QED  BY <2>2, <2>3, <2>5, <3>1, ScanWait
    <2> QED  BY <2>4, <2>5
  <1>5. ASSUME NEW f \in Frames \cup {None}, ScanAfterNoHash(f) PROVE WaitInv'
    <2>1. previousHashes' = NoHashes
      BY <1>5 DEF ScanAfterNoHash, WaitInv, NoHashes
    <2>2. wait' = "scanning" /\ anyWindow' /\ stableScans' = 0
      BY <1>5 DEF ScanAfterNoHash, Scan, Scanning
    <2>3. calm' \in Nat
      BY <1>5, WindowAssumption DEF ScanAfterNoHash, Scan, Show, WindowTypeOK
    <2> QED  BY <2>1, <2>2, <2>3, ScanWait DEF NoHashes
  <1>6. ASSUME NEW f \in Frames \cup {None}, ScanChanged(f) PROVE WaitInv'
    <2>1. /\ wait' = "scanning" /\ anyWindow' /\ stableScans' = 0
          /\ f \in Frames /\ prevHash' = f /\ f # None
      BY <1>6 DEF ScanChanged, Scan, Scanning
    <2>3. calm' \in Nat
      BY <1>6, WindowAssumption DEF ScanChanged, Scan, Show, WindowTypeOK
    <2>4. CASE previousHashes[f] = None
      <3>1. \A g \in Frames : previousHashes'[g] # None => previousHashes'[g] = 1
        BY <1>6, <2>4 DEF ScanChanged, AddFrame
      <3> QED  BY <2>1, <2>3, <3>1, ScanWait
    <2>5. CASE previousHashes[f] # None
      <3>1. previousHashes[f] \in Nat /\ previousHashes \in [Frames -> Nat \cup {None}]
        BY <2>1, <2>5 DEF WindowTypeOK
      <3>2. previousHashes' = [previousHashes EXCEPT ![f] = @ + 1]
        BY <1>6, <2>5 DEF ScanChanged, Count
      <3>3. ASSUME calm' < LOOP_THRESHOLD, NEW g \in Frames, previousHashes'[g] # None
            PROVE  previousHashes'[g] <= calm' + 1
        <4>1. calm < LOOP_THRESHOLD /\ calm' = calm + 1
          BY <1>6, <2>5, <3>3, Calmer DEF ScanChanged
        <4>2. \A h \in Frames : previousHashes[h] # None => previousHashes[h] <= calm + 1
          BY <4>1 DEF WaitInv
        <4>3. calm \in Nat
          BY WindowAssumption DEF WindowTypeOK
        <4>4. CASE g = f
          BY <2>1, <2>5, <3>1, <3>2, <4>1, <4>2, <4>3, <4>4
        <4>5. CASE g # f
          <5>1. previousHashes'[g] = previousHashes[g]
            BY <3>1, <3>2, <4>5
          <5>2. previousHashes[g] \in Nat
            BY <3>1, <3>3, <5>1
          <5> QED  BY <3>3, <4>1, <4>2, <4>3, <5>1, <5>2
        <4> QED  BY <4>4, <4>5
      <3> QED  BY <2>1, <2>3, <3>3, ScanWait
    <2> QED  BY <2>4, <2>5
  <1>7. ASSUME NEW f \in Frames \cup {None}, ScanUnchanged(f) PROVE WaitInv'
    <2>1. /\ wait' = "scanning" /\ anyWindow' /\ stableScans' = stableScans + 1
          /\ prevHash \in Frames /\ prevHash' = prevHash /\ prevHash # None
      BY <1>7 DEF ScanUnchanged, Scan, Scanning, WindowTypeOK
    <2>2. calm' < LOOP_THRESHOLD => calm < LOOP_THRESHOLD /\ calm' = calm + 1
      BY <1>7, Calmer DEF ScanUnchanged
    <2>3. calm \in Nat /\ stableScans \in Nat
      BY WindowAssumption DEF WindowTypeOK
    <2>4. calm' < LOOP_THRESHOLD => stableScans' <= calm'
      BY <2>1, <2>2, <2>3 DEF WaitInv
    <2>5. ASSUME calm' < LOOP_THRESHOLD, NEW g \in Frames, previousHashes'[g] # None
          PROVE  previousHashes'[g] <= calm' + 1
      <3>1. \A h \in Frames : previousHashes[h] # None => previousHashes[h] <= calm + 1
        BY <2>2, <2>5 DEF WaitInv
      <3>2. previousHashes \in [Frames -> Nat \cup {None}]
        BY DEF WindowTypeOK
      <3>3. CASE previousHashes[prevHash] = None
        <4>1. previousHashes' = [previousHashes EXCEPT ![prevHash] = 0]
          BY <1>7, <3>3 DEF ScanUnchanged
        <4>2. CASE g = prevHash
          BY <2>2, <2>3, <2>5, <3>2, <4>1, <4>2
        <4>3. CASE g # prevHash
          <5>1. previousHashes'[g] = previousHashes[g] /\ previousHashes[g] \in Nat
            BY <2>5, <3>2, <4>1, <4>3
          <5> QED  BY <2>2, <2>3, <2>5, <3>1, <5>1
        <4> QED  BY <4>2, <4>3
      <3>4. CASE previousHashes[prevHash] # None
        <4>1. previousHashes' = [previousHashes EXCEPT ![prevHash] = @ + 1]
          BY <1>7, <3>4 DEF ScanUnchanged, Count
        <4>2. previousHashes[prevHash] \in Nat
          BY <2>1, <3>2, <3>4
        <4>3. CASE g = prevHash
          BY <2>1, <2>2, <2>3, <2>5, <3>1, <3>2, <3>4, <4>1, <4>2, <4>3
        <4>4. CASE g # prevHash
          <5>1. previousHashes'[g] = previousHashes[g] /\ previousHashes[g] \in Nat
            BY <2>5, <3>2, <4>1, <4>4
          <5> QED  BY <2>2, <2>3, <2>5, <3>1, <5>1
        <4> QED  BY <4>3, <4>4
      <3> QED  BY <3>3, <3>4
    <2> QED  BY <2>1, <2>4, <2>5, ScanWait
  <1> QED  BY <1>1, <1>2, <1>3, <1>4, <1>5, <1>6, <1>7 DEF WindowStep, Round

LEMMA NextWait == TypeOK /\ WaitInv /\ [Next]_vars => WaitInv'
  <1> SUFFICES ASSUME TypeOK, WaitInv, [Next]_vars PROVE WaitInv'
    OBVIOUS
  <1>1. CASE Wait
    BY <1>1, WindowStepWait, TypeSplit DEF Wait
  <1>2. CASE NoWindow \/ Rank \/ ElementNotAvailable
    BY <1>2, ReturnedWait DEF NoWindow, Rank, ElementNotAvailable
  <1>3. CASE StartWait
    BY <1>3 DEF StartWait, WaitForInputRequested, scanVars, WaitInv, NoHashes
  <1>4. CASE TimeoutReached
    BY <1>4 DEF TimeoutReached, scanVars, WaitInv, NoHashes, WaitOver
  <1>5. CASE FirstProcess \/ EnterLoop \/ UNCHANGED vars
    BY <1>5, UnchangedWait DEF FirstProcess, EnterLoop, vars, windowVars
  <1>6. CASE LeaveLoop \/ AllFinished \/ NoMoreCandidate \/ PopWithoutHash \/ Fail
    BY <1>6, UnchangedWait DEF LeaveLoop, AllFinished, NoMoreCandidate, PopWithoutHash, Fail,
                               GiveUp, End
  <1>7. CASE SkipCandidate \/ PopTopCandidate \/ Interact \/ WaitReaction
    BY <1>7, UnchangedWait DEF SkipCandidate, PopTopCandidate, Interact, WaitReaction, windowVars
  <1>8. CASE LoopFound
    BY <1>8, UnchangedWait DEF LoopFound, End
  <1> QED  BY <1>1, <1>2, <1>3, <1>4, <1>5, <1>6, <1>7, <1>8 DEF Next, Bot

-----------------------------------------------------------------------------
(* The interaction after the timeout. *)

LEMMA NextLate == TypeOK /\ LateInv /\ [Next]_vars => LateInv'
  <1> SUFFICES ASSUME TypeOK, LateInv, [Next]_vars PROVE LateInv'
    OBVIOUS
  <1> USE DEF LateInv
  <1>1. CASE Interact
    BY <1>1 DEF Interact, TypeOK, windowVars
  <1>2. CASE WaitReaction
    BY <1>2 DEF WaitReaction, Again, windowVars
  <1>3. CASE LeaveLoop \/ EnterLoop \/ AllFinished \/ StartWait \/ Fail
    BY <1>3 DEF LeaveLoop, EnterLoop, AllFinished, StartWait, Fail, PidsRead, End, windowVars
  <1>4. CASE Wait \/ TimeoutReached
    BY <1>4 DEF Wait, TimeoutReached, botVars
  <1>5. CASE NoWindow \/ Rank \/ NoMoreCandidate \/ SkipCandidate \/ PopTopCandidate
             \/ PopWithoutHash \/ LoopFound \/ ElementNotAvailable
    <2>1. pc \in {"waiting", "pick", "act", "loop"} /\ late' = late
      BY <1>5 DEF NoWindow, Rank, NoMoreCandidate, SkipCandidate, PopTopCandidate,
                  PopWithoutHash, LoopFound, ElementNotAvailable
    <2> QED  BY <2>1
  <1>6. CASE FirstProcess \/ UNCHANGED vars
    BY <1>6 DEF FirstProcess, vars, windowVars, botVars
  <1> QED  BY <1>1, <1>2, <1>3, <1>4, <1>5, <1>6 DEF Next, Bot

-----------------------------------------------------------------------------
(* How often the bot interacts. *)

\* A step that does not interact spends nothing that was spent before, or more.
LEMMA CountFrame ==
  ASSUME TypeOK, CountInv, UNCHANGED <<interactions, clears, visited>>,
         pc' = "act" => pc = "act" /\ set' = set
  PROVE  CountInv'
  <1>1. Spent \subseteq Spent'
    BY SlotsFinite, BotAssumption DEF Spent, Slots, TypeOK
  <1>2. /\ IsFiniteSet(Spent') /\ Cardinality(Spent') \in Nat /\ Slots' = Slots
        /\ Cardinality(Spent) <= Cardinality(Spent')
    <2>1. Slots' = Slots /\ Spent' \in SUBSET Slots
      BY DEF Slots, Spent
    <2>2. IsFiniteSet(Spent')
      BY <2>1, SlotsFinite, FS_Subset
    <2> QED  BY <1>1, <2>1, <2>2, FS_Subset, FS_CardinalityType
  <1>3. interactions <= clears * Cardinality(Slots) + Cardinality(Spent')
    <2>1. clears * Cardinality(Slots) \in Nat /\ interactions \in Nat
      BY SlotsFinite DEF TypeOK
    <2> QED  BY <1>2, <2>1, SpentFinite DEF CountInv
  <1>4. pc' = "act" => <<set'.hash, visited'[set'.hash]>> \in Slots
    BY DEF CountInv
  <1> QED  BY <1>2, <1>3, <1>4 DEF CountInv

\* A window whose counter is over the threshold is not worked on.
LEMMA PopCount == TypeOK /\ CountInv /\ PopTopCandidate => CountInv'
  <1> SUFFICES ASSUME TypeOK, CountInv, PopTopCandidate PROVE CountInv'
    OBVIOUS
  <1>1. /\ set.hash \in Frames /\ set'.hash = set.hash /\ pc = "pick"
        /\ visited' = [visited EXCEPT ![set.hash] = @ + 1]
        /\ visited \in [Frames -> Nat]
        /\ UNCHANGED <<interactions, clears>> /\ CIRCULAR_LOOP_THRESHOLD \in Nat
    BY BotAssumption DEF PopTopCandidate, TypeOK
  <1>2. pc' = "act" => visited[set.hash] <= CIRCULAR_LOOP_THRESHOLD
    BY <1>1 DEF PopTopCandidate, Counter
  <1>3. pc' = "act" => <<set.hash, visited'[set.hash]>> \in Slots
    BY <1>1, <1>2 DEF Slots
  <1>4. Spent \subseteq Spent'
    BY <1>1 DEF Spent, Slots
  <1>5. /\ IsFiniteSet(Spent') /\ Cardinality(Spent') \in Nat /\ Slots' = Slots
        /\ Cardinality(Spent) <= Cardinality(Spent')
    <2>1. Slots' = Slots /\ Spent' \in SUBSET Slots
      BY DEF Slots, Spent
    <2>2. IsFiniteSet(Spent')
      BY <2>1, SlotsFinite, FS_Subset
    <2> QED  BY <1>4, <2>1, <2>2, FS_Subset, FS_CardinalityType
  <1>6. interactions <= clears * Cardinality(Slots) + Cardinality(Spent')
    <2>1. clears * Cardinality(Slots) \in Nat /\ interactions \in Nat
      BY SlotsFinite DEF TypeOK
    <2> QED  BY <1>5, <2>1, SpentFinite DEF CountInv
  <1> QED  BY <1>1, <1>3, <1>5, <1>6 DEF CountInv

\* An interaction spends the value the counter of the window has then.
LEMMA InteractCount == TypeOK /\ CountInv /\ Interact => CountInv'
  <1> SUFFICES ASSUME TypeOK, CountInv, Interact PROVE CountInv'
    OBVIOUS
  <1> DEFINE s == <<set.hash, visited[set.hash]>>
  <1>1. /\ pc = "act" /\ pc' = "react" /\ s \in Slots
        /\ interactions' = interactions + 1 /\ UNCHANGED <<clears, visited>>
    BY DEF Interact, CountInv
  <1>2. Spent' = Spent \cup {s} /\ s \notin Spent
    <2>1. visited \in [Frames -> Nat] /\ set.hash \in Frames
      BY <1>1 DEF TypeOK, Slots
    <2>2. ASSUME NEW r \in Slots PROVE r \in Spent' <=> r \in Spent \/ r = s
      <3>1. PICK f \in Frames, i \in 1 .. CIRCULAR_LOOP_THRESHOLD + 1 : r = <<f, i>>
        BY DEF Slots
      <3>2. r \in Spent' <=> i <= visited[f]
        BY <1>1, <3>1 DEF Spent, Slots
      <3>3. r \in Spent <=> IF set.hash = f THEN i < visited[f] ELSE i <= visited[f]
        BY <1>1, <3>1 DEF Spent
      <3> QED  BY <2>1, <3>1, <3>2, <3>3, BotAssumption
    <2>3. s \notin Spent
      BY <1>1, <2>1 DEF Spent
    <2>4. Spent \subseteq Slots /\ Spent' \subseteq Slots
      BY DEF Spent, Slots
    <2> QED  BY <1>1, <2>2, <2>3, <2>4
  <1> HIDE DEF s
  <1>3. Cardinality(Spent') = Cardinality(Spent) + 1
    BY <1>2, SpentFinite, FS_AddElement
  <1>4. Slots' = Slots
    BY DEF Slots
  <1>5. interactions' <= clears' * Cardinality(Slots) + Cardinality(Spent')
    <2>1. clears * Cardinality(Slots) \in Nat /\ interactions \in Nat
      BY SlotsFinite DEF TypeOK
    <2> QED  BY <1>1, <1>3, <2>1, SpentFinite DEF CountInv
  <1> QED  BY <1>1, <1>4, <1>5 DEF CountInv

LEMMA Recovered ==
  ASSUME NEW n \in Nat, NEW c \in Nat, NEW N \in Nat, NEW k \in Nat, NEW m \in Nat,
         n <= c * N + k, k <= N
  PROVE  n <= (c + 1) * N + m
  <1>1. (c + 1) * N = c * N + N /\ c * N \in Nat
    OBVIOUS
  <1> QED  BY <1>1

\* Forgetting the counters allows the bot as much again.
LEMMA LoopCount == TypeOK /\ CountInv /\ LoopFound => CountInv'
  <1> SUFFICES ASSUME TypeOK, CountInv, LoopFound PROVE CountInv'
    OBVIOUS
  <1>1. pc = "loop" /\ pc' # "act" /\ interactions' = interactions
    BY DEF LoopFound, End
  <1>2. CASE UNCHANGED <<visited, clears>>
    BY <1>1, <1>2, CountFrame
  <1>3. CASE clears' = clears + 1
    <2>1. Slots' = Slots /\ Spent' \in SUBSET Slots
      BY DEF Slots, Spent
    <2>2. Cardinality(Spent') \in Nat
      BY <2>1, SlotsFinite, FS_Subset, FS_CardinalityType
    <2>3. interactions \in Nat /\ clears \in Nat
      BY DEF TypeOK
    <2>4. interactions <= (clears + 1) * Cardinality(Slots) + Cardinality(Spent')
      BY <2>2, <2>3, SlotsFinite, SpentFinite, Recovered DEF CountInv
    <2> QED  BY <1>1, <1>3, <2>1, <2>4 DEF CountInv
  <1> QED  BY <1>2, <1>3 DEF LoopFound

LEMMA NextCount == TypeOK /\ CountInv /\ [Next]_vars => CountInv'
  <1> SUFFICES ASSUME TypeOK, CountInv, [Next]_vars PROVE CountInv'
    OBVIOUS
  <1>1. CASE PopTopCandidate \/ Interact \/ LoopFound
    BY <1>1, PopCount, InteractCount, LoopCount
  <1>2. CASE Wait \/ TimeoutReached \/ FirstProcess
    BY <1>2, CountFrame DEF Wait, TimeoutReached, FirstProcess, botVars
  <1>3. CASE UNCHANGED vars
    BY <1>3, CountFrame DEF vars, botVars
  <1>4. CASE LeaveLoop \/ EnterLoop \/ AllFinished \/ StartWait \/ NoWindow \/ Rank \/ Fail
    BY <1>4, CountFrame DEF LeaveLoop, EnterLoop, AllFinished, StartWait, NoWindow, Rank, Fail, End
  <1>5. CASE NoMoreCandidate \/ SkipCandidate \/ PopWithoutHash \/ ElementNotAvailable
             \/ WaitReaction
    BY <1>5, CountFrame DEF NoMoreCandidate, SkipCandidate, PopWithoutHash, ElementNotAvailable,
                            WaitReaction, Again, GiveUp, End
  <1> QED  BY <1>1, <1>2, <1>3, <1>4, <1>5 DEF Next, Bot

-----------------------------------------------------------------------------
(* The theorems. *)

\* The bot's inductive invariant: the counters of WaitForInputRequested never run ahead
\* of what the window has shown, what is late is one interaction, and no value of a
\* window's counter pays for two interactions.
THEOREM BotInvariant == Spec => []BInv
  <1>1. BInv /\ [Next]_vars => BInv'
    BY NextType, NextWait, NextLate, NextCount DEF BInv
  <1> QED  BY InitInv, <1>1, PTL DEF Spec

\* WaitForInputRequested returns a window before the timeout only when it has shown
\* nothing new for LOOP_THRESHOLD scans.
THEOREM WaitsForInputTheorem == Spec => []WaitsForInput
  <1>1. BInv => WaitsForInput
    <2> SUFFICES ASSUME TypeOK, WaitInv, wait = "returned", currentWindow # None, ~timeout,
                        ~(calm >= LOOP_THRESHOLD)
                 PROVE  FALSE
      BY DEF BInv, WaitsForInput
    <2>1. Stable
      BY DEF WaitInv, WaitOver
    <2>2. calm \in Nat /\ LOOP_THRESHOLD \in Nat /\ stableScans \in Nat /\ calm < LOOP_THRESHOLD
      BY WindowAssumption DEF TypeOK
    <2>3. CASE stableScans > LOOP_THRESHOLD
      BY <2>2, <2>3 DEF WaitInv
    <2>4. ASSUME NEW f \in Frames, previousHashes[f] # None, previousHashes[f] > LOOP_THRESHOLD
          PROVE  FALSE
      <3>1. previousHashes[f] \in Nat /\ previousHashes[f] <= calm + 1
        BY <2>2, <2>4 DEF TypeOK, WaitInv
      <3> QED  BY <2>2, <2>4, <3>1
    <2> QED  BY <2>1, <2>3, <2>4 DEF Stable, LoopDetected
  <1> QED  BY <1>1, BotInvariant, PTL

\* After the timeout the bot interacts at most once more.
THEOREM OneLateInteractionTheorem == Spec => []OneLateInteraction
  <1>1. BInv => OneLateInteraction
    BY DEF BInv, TypeOK, LateInv, OneLateInteraction
  <1> QED  BY <1>1, BotInvariant, PTL

\* Whatever the installer shows, the bot works on each window at most
\* CIRCULAR_LOOP_THRESHOLD + 1 times between two recoveries from a loop.
THEOREM InteractionsBoundedTheorem == Spec => []InteractionsBounded
  <1>1. BInv => InteractionsBounded
    <2> SUFFICES ASSUME BInv
                 PROVE  interactions <= (clears + 1) * Cardinality(Frames)
                                          * (CIRCULAR_LOOP_THRESHOLD + 1)
      BY DEF InteractionsBounded
    <2>1. interactions \in Nat /\ clears \in Nat /\ CIRCULAR_LOOP_THRESHOLD \in Nat
      BY BotAssumption DEF BInv, TypeOK
    <2>2. interactions <= (clears + 1) * Cardinality(Slots) + 0
      BY <2>1, SlotsFinite, SpentFinite, Recovered DEF BInv, CountInv
    <2>3. (clears + 1) * Cardinality(Slots)
            = (clears + 1) * Cardinality(Frames) * (CIRCULAR_LOOP_THRESHOLD + 1)
      BY <2>1, SlotsFinite
    <2> QED  BY <2>1, <2>2, <2>3, SlotsFinite
  <1> QED  BY <1>1, BotInvariant, PTL
=============================================================================
