---------------------------- MODULE StableWindow ----------------------------
(***************************************************************************)
(* LogicThread.WaitForInputRequested: the bot scans the window in front    *)
(* until it seems to wait for input, because it does not change or because *)
(* it repeats an animation.  What a scan finds (GetProcUIWindowHandle and  *)
(* CalculateHash) is up to the installer: any window, any frame, or none.  *)
(***************************************************************************)
EXTENDS Naturals

CONSTANTS Windows,      \* handles of windows
          Frames,       \* hashes of screenshots
          None,         \* no window, no hash, no counter
          LOOP_THRESHOLD

ASSUME WindowAssumption == /\ None \notin Windows \cup Frames \cup Nat
                           /\ LOOP_THRESHOLD \in Nat \ {0}

VARIABLES wait,             \* off, scanning, returned
          timeout,          \* _timeout
          prevHandle, prevHash,
          anyWindow,        \* prevWindow is not null
          previousHashes,   \* a counter for each frame, None if it has no entry
          stableScans,
          currentWindow,    \* what is returned
          calm              \* history: scans of this window since the last one that
                            \* showed something new, at most LOOP_THRESHOLD

scanVars == <<prevHandle, prevHash, anyWindow, previousHashes, stableScans, currentWindow>>
windowVars == <<wait, timeout, scanVars, calm>>

NoHashes == [f \in Frames |-> None]

WindowInit == /\ wait = "off" /\ timeout = FALSE
              /\ prevHandle = None /\ prevHash = None /\ anyWindow = FALSE
              /\ previousHashes = NoHashes
              /\ stableScans = 0 /\ currentWindow = None /\ calm = 0

WaitForInputRequested == /\ wait = "off"
                         /\ wait' = "scanning"
                         /\ UNCHANGED <<timeout, scanVars, calm>>

\* The caller has the window, and the locals are gone.
Returned == /\ wait' = "off"
            /\ prevHandle' = None /\ prevHash' = None /\ anyWindow' = FALSE
            /\ previousHashes' = NoHashes
            /\ stableScans' = 0 /\ currentWindow' = None /\ calm' = 0

-----------------------------------------------------------------------------
(* The exits of the loop. *)

LoopDetected == \E f \in Frames : previousHashes[f] # None /\ previousHashes[f] > LOOP_THRESHOLD

Stable == stableScans > LOOP_THRESHOLD \/ LoopDetected

\* Mutant of WaitOver: the timeout does not end the wait.
WaitOverWhenStable == Stable

WaitOver == Stable \/ timeout

EndWait == /\ wait = "scanning" /\ WaitOver
           /\ wait' = "returned"
           /\ UNCHANGED <<timeout, scanVars, calm>>

Scanning == wait = "scanning" /\ ~WaitOver

\* A window was there before: that is forgotten.
FindNoWindow == /\ Scanning
                /\ wait' = "returned"
                /\ currentWindow' = None
                /\ UNCHANGED <<timeout, prevHandle, prevHash, anyWindow, previousHashes,
                               stableScans, calm>>

-----------------------------------------------------------------------------
(* One round of the loop. *)

\* Mutant of FindOtherWindow: the scans of the last window count for this one.
FindOtherWindowCounting(w) == /\ Scanning /\ w # prevHandle
                              /\ prevHandle' = w
                              /\ calm' = 0
                              /\ UNCHANGED <<wait, timeout, prevHash, anyWindow, previousHashes,
                                             stableScans, currentWindow>>

\* Another window: it is looked at in the next round.  The hash of the last one stays.
FindOtherWindow(w) == /\ Scanning /\ w # prevHandle
                      /\ prevHandle' = w
                      /\ previousHashes' = NoHashes
                      /\ stableScans' = 0 /\ calm' = 0
                      /\ UNCHANGED <<wait, timeout, prevHash, anyWindow, currentWindow>>

\* An entry for a new frame resets the counters of the others.
AddFrame(f) == previousHashes' = [g \in Frames |->
                 IF g = f \/ previousHashes[g] # None THEN 1 ELSE None]

Count(f) == previousHashes' = [previousHashes EXCEPT ![f] = @ + 1]

\* f is the hash of the window, None if there is no screenshot.
Show(f) == calm' = IF f # None /\ f # prevHash /\ previousHashes[f] = None THEN 0
                   ELSE IF calm < LOOP_THRESHOLD THEN calm + 1 ELSE calm

Scan(f) == /\ Scanning /\ prevHandle # None
           /\ currentWindow' = prevHandle
           /\ Show(f)
           /\ UNCHANGED <<wait, timeout, prevHandle>>

FirstScan(f) == /\ ~anyWindow /\ Scan(f)
                /\ anyWindow' = TRUE /\ prevHash' = f
                /\ IF f = None THEN UNCHANGED previousHashes ELSE AddFrame(f)
                /\ stableScans' = 0

ScanAfterNoHash(f) == /\ anyWindow /\ prevHash = None /\ Scan(f)
                      /\ prevHash' = f
                      /\ stableScans' = 0
                      /\ UNCHANGED <<anyWindow, previousHashes>>

\* Mutant of ScanChanged: a change does not start the count again.
ScanChangedCounting(f) ==
  /\ anyWindow /\ prevHash # None /\ f \notin {None, prevHash} /\ Scan(f)
  /\ prevHash' = f
  /\ IF previousHashes[f] = None THEN AddFrame(f) ELSE Count(f)
  /\ stableScans' = stableScans + 1
  /\ UNCHANGED anyWindow

ScanChanged(f) == /\ anyWindow /\ prevHash # None /\ f \notin {None, prevHash} /\ Scan(f)
                  /\ prevHash' = f
                  /\ IF previousHashes[f] = None THEN AddFrame(f) ELSE Count(f)
                  /\ stableScans' = 0
                  /\ UNCHANGED anyWindow

\* No screenshot is no change.
ScanUnchanged(f) == /\ anyWindow /\ prevHash # None /\ f \in {None, prevHash} /\ Scan(f)
                    /\ IF previousHashes[prevHash] = None
                       THEN previousHashes' = [previousHashes EXCEPT ![prevHash] = 0]
                       ELSE Count(prevHash)
                    /\ stableScans' = stableScans + 1
                    /\ UNCHANGED <<prevHash, anyWindow>>

Round == \/ FindNoWindow
         \/ \E w \in Windows : FindOtherWindow(w)
         \/ \E f \in Frames \cup {None} :
              FirstScan(f) \/ ScanAfterNoHash(f) \/ ScanChanged(f) \/ ScanUnchanged(f)

WindowStep == EndWait \/ Round

-----------------------------------------------------------------------------
\* A window is returned before the timeout only when it has shown nothing new for
\* LOOP_THRESHOLD scans in a row (LogicThread.cs:1511).
WaitsForInput ==
  wait = "returned" /\ currentWindow # None /\ ~timeout => calm >= LOOP_THRESHOLD
=============================================================================
