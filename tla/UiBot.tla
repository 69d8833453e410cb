-------------------------------- MODULE UiBot --------------------------------
(***************************************************************************)
(* The interaction loop of LogicThread.ExecuteJob with the windows that    *)
(* WaitForInputRequested returns, the candidates that Rank finds on them   *)
(* and the ends of the loop.  Whether processes run, the log rate and what *)
(* the installer shows are read when the code reads them, and may be       *)
(* anything; the interaction timer may fire between any two steps.         *)
(***************************************************************************)
EXTENDS StableWindow, FiniteSets

CONSTANTS CIRCULAR_LOOP_THRESHOLD, STUCK_THRESHOLD, STUCK_NO_CONTROLS_THRESHOLD,
          MaxCandidates,        \* bound: controls on a window
          MaxClears             \* bound: recoveries from a loop

ASSUME BotAssumption == /\ {CIRCULAR_LOOP_THRESHOLD, STUCK_THRESHOLD,
                            STUCK_NO_CONTROLS_THRESHOLD} \subseteq Nat
                        /\ {MaxCandidates, MaxClears} \subseteq Nat
                        /\ IsFiniteSet(Frames)

VARIABLES firstDone,    \* ProgramStatus._firstDone: a process has been announced
          pc,           \* check, pids, waiting, pick, act, react, loop, ended
          result,       \* proc.Result
          set,          \* w: its hash, candidates with positive scores and others
          visited,      \* _visitedVindows
          stuckCounter, stuckWaitingForControlsCounter,
          interactions, \* _c
          clears,       \* history: how often _visitedVindows was cleared
          late          \* history: interactions after the timeout

countVars == <<stuckCounter, stuckWaitingForControlsCounter>>
botVars == <<pc, result, set, visited, countVars, interactions, clears, late>>
vars == <<windowVars, botVars, firstDone>>

Empty == [hash |-> None, good |-> 0, other |-> 0]

\* The agent sleeps before the loop: a process may have been announced meanwhile.
Init == /\ WindowInit /\ firstDone \in BOOLEAN
        /\ pc = "check" /\ result = "Unknown" /\ set = Empty
        /\ visited = [f \in Frames |-> 0]
        /\ stuckCounter = 0 /\ stuckWaitingForControlsCounter = 0
        /\ interactions = 0 /\ clears = 0 /\ late = 0

-----------------------------------------------------------------------------
(* The head of the loop. *)

End(r) == /\ pc' = "ended"
          /\ result' = IF timeout THEN "TimeOut" ELSE r
          /\ UNCHANGED timeout

\* The condition of the while: the timeout, or the man in the middle succeeded.
LeaveLoop == /\ pc = "check"
             /\ End("Unknown")
             /\ UNCHANGED <<wait, scanVars, calm, set, visited, countVars, interactions,
                            clears, late>>

EnterLoop == /\ pc = "check" /\ ~timeout
             /\ pc' = "pids"
             /\ UNCHANGED <<windowVars, result, set, visited, countVars, interactions, clears,
                            late>>

\* AreProcsFinished reads Pids, which waits until a process has been announced, for
\* ever if need be; the timeout may be reached meanwhile.  The reads of Pids that
\* come later in the loop find one announced.
PidsRead == pc = "pids" /\ firstDone

AllFinished == /\ PidsRead
               /\ End("Finished")
               /\ UNCHANGED <<wait, scanVars, calm, set, visited, countVars, interactions,
                              clears, late>>

StartWait == /\ PidsRead
             /\ WaitForInputRequested
             /\ pc' = "waiting" /\ set' = Empty
             /\ UNCHANGED <<result, visited, countVars, interactions, clears, late>>

Wait == /\ pc = "waiting"
        /\ WindowStep
        /\ UNCHANGED botVars

\* Without a window the loop goes on, or ends when no process is left and the log
\* rate is 0.
NoWindow == /\ pc = "waiting" /\ wait = "returned" /\ currentWindow = None
            /\ Returned
            /\ \/ pc' = "check" /\ UNCHANGED <<timeout, result>>
               \/ End("Unknown")
            /\ UNCHANGED <<set, visited, countVars, interactions, clears, late>>

\* Rank: an exception inside leaves an empty set, no screenshot a set without a hash.
\* A progress bar that is not complete sends the loop back.
Rank == /\ pc = "waiting" /\ wait = "returned" /\ currentWindow # None
        /\ Returned
        /\ \/ pc' = "check" /\ UNCHANGED set
           \/ /\ pc' = "pick"
              /\ \E h \in Frames \cup {None}, n, m \in 0 .. MaxCandidates :
                   set' = [hash |-> h, good |-> n, other |-> m]
        /\ UNCHANGED <<timeout, result, visited, countVars, interactions, clears, late>>

-----------------------------------------------------------------------------
(* The inner loop. *)

\* Mutant of Again: only the UI ends the loop.
AgainUntilChanged(changed) == pc' = IF ~changed THEN "pick" ELSE "check"

\* The end of its body: is the UI as it was, and may the loop go on?
Again(changed) == pc' = IF ~changed /\ ~timeout THEN "pick" ELSE "check"

\* One more step of a bounded number of failures, or the end.
GiveUp(counter, max) == IF counter < max
                        THEN counter' = counter + 1 /\ pc' = "check" /\ UNCHANGED <<timeout, result>>
                        ELSE End("UI_Stuck") /\ UNCHANGED counter

NoMoreCandidate == /\ pc = "pick" /\ set.good = 0 /\ set.other = 0
                   /\ GiveUp(stuckWaitingForControlsCounter, STUCK_NO_CONTROLS_THRESHOLD)
                   /\ UNCHANGED <<wait, scanVars, calm, set, visited, stuckCounter,
                                  interactions, clears, late>>

SkipCandidate == /\ pc = "pick" /\ set.good = 0 /\ set.other > 0
                 /\ set' = [set EXCEPT !.other = @ - 1]
                 /\ Again(FALSE)
                 /\ UNCHANGED <<windowVars, result, visited, countVars, interactions, clears,
                                late>>

\* Mutant of Counter: the counter of a window is one behind.
CounterBehind == IF visited[set.hash] = 0 THEN 0 ELSE visited[set.hash] - 1

\* PopTopCandidate, and the note in _visitedVindows: the counter tested is the one
\* from before.
Counter == IF visited[set.hash] = 0 THEN 1 ELSE visited[set.hash]

PopTopCandidate ==
  /\ pc = "pick" /\ set.good > 0 /\ set.hash # None
  /\ set' = [set EXCEPT !.good = @ - 1]
  /\ visited' = [visited EXCEPT ![set.hash] = @ + 1]
  /\ pc' = IF Counter > CIRCULAR_LOOP_THRESHOLD THEN "loop" ELSE "act"
  /\ UNCHANGED <<windowVars, result, countVars, interactions, clears, late>>

\* The dictionary does not take null.
PopWithoutHash == /\ pc = "pick" /\ set.good > 0 /\ set.hash = None
                  /\ End("UnknownError")
                  /\ UNCHANGED <<wait, scanVars, calm, set, visited, countVars, interactions,
                                 clears, late>>

\* SaveInteractionScreen, which puts the candidate back in the set while it writes it
\* down and leaves it there when that throws; then Interact.
Interact ==
  /\ pc = "act"
  /\ set' \in {set, [set EXCEPT !.good = @ + 1]}
  /\ pc' = "react"
  /\ interactions' = interactions + 1
  /\ late' = IF timeout THEN late + 1 ELSE late
  /\ UNCHANGED <<windowVars, result, visited, countVars, clears>>

\* The element is disabled or gone.
ElementNotAvailable ==
  /\ pc = "act" \/ (pc = "waiting" /\ wait = "returned" /\ currentWindow # None)
  /\ Returned
  /\ GiveUp(stuckCounter, STUCK_THRESHOLD)
  /\ UNCHANGED <<set, visited, stuckWaitingForControlsCounter, interactions,
                 clears, late>>

\* WaitReaction answers that the UI has changed if it had changed at the first look;
\* its only wait is longer than the timeout.  Without a reaction the inner loop is
\* left when no process is left and the log rate is 0.
WaitReaction == /\ pc = "react"
                /\ \E changed \in BOOLEAN : Again(changed)
                /\ UNCHANGED <<windowVars, result, set, visited, countVars, interactions,
                               clears, late>>

\* UILoopException: new programs, busy processes that become idle, or the end.
LoopFound ==
  /\ pc = "loop"
  /\ \/ /\ \E r \in {"PartiallyFinished", "UI_Stuck"} : End(r)
        /\ UNCHANGED <<visited, clears>>
     \/ /\ clears < MaxClears
        /\ clears' = clears + 1
        /\ visited' = [f \in Frames |-> 0]
        /\ pc' = "check"
        /\ UNCHANGED <<timeout, result>>
  /\ UNCHANGED <<wait, scanVars, calm, set, countVars, interactions, late>>

\* Any other exception.
Fail == /\ PidsRead \/ pc \in {"act", "react"} \/ (pc = "waiting" /\ wait = "returned")
        /\ End("UnknownError")
        /\ UNCHANGED <<wait, scanVars, calm, set, visited, countVars, interactions, clears, late>>

-----------------------------------------------------------------------------
TimeoutReached == /\ ~timeout /\ pc # "ended"
                  /\ timeout' = TRUE
                  /\ UNCHANGED <<wait, scanVars, calm, botVars, firstDone>>

\* NotifyNewProcess: the first process of the job, if there is one.
FirstProcess == /\ ~firstDone
                /\ firstDone' = TRUE
                /\ UNCHANGED <<windowVars, botVars>>

Bot == /\ UNCHANGED firstDone
       /\ \/ LeaveLoop \/ EnterLoop \/ AllFinished \/ StartWait \/ Wait \/ NoWindow \/ Rank
          \/ NoMoreCandidate \/ SkipCandidate \/ PopTopCandidate \/ PopWithoutHash
          \/ Interact \/ ElementNotAvailable \/ WaitReaction \/ LoopFound \/ Fail

Next == Bot \/ TimeoutReached \/ FirstProcess

Spec == Init /\ [][Next]_vars

\* The LogicThread runs, but for its wait in Pids, and the timer fires if the job goes
\* on.  That the announcement wakes the LogicThread is what GuestAgent models, with
\* the other threads that wait there.  Nothing makes the installer announce itself.
FairSpec == Spec /\ WF_vars(Bot) /\ WF_vars(TimeoutReached)

-----------------------------------------------------------------------------
(* Properties. *)

TypeOK ==
  /\ wait \in {"off", "scanning", "returned"} /\ timeout \in BOOLEAN
  /\ prevHandle \in Windows \cup {None} /\ prevHash \in Frames \cup {None}
  /\ anyWindow \in BOOLEAN
  /\ previousHashes \in [Frames -> Nat \cup {None}]
  /\ stableScans \in Nat /\ currentWindow \in Windows \cup {None}
  /\ calm \in 0 .. LOOP_THRESHOLD
  /\ firstDone \in BOOLEAN
  /\ pc \in {"check", "pids", "waiting", "pick", "act", "react", "loop", "ended"}
  /\ result \in {"Unknown", "Finished", "UI_Stuck", "UnknownError", "PartiallyFinished",
                 "TimeOut"}
  /\ set \in [hash : Frames \cup {None}, good : Nat, other : Nat]
  /\ visited \in [Frames -> Nat]
  /\ stuckCounter \in Nat /\ stuckWaitingForControlsCounter \in Nat
  /\ interactions \in Nat /\ clears \in Nat /\ late \in Nat

\* The counters of a wait run behind the scans that showed nothing new.
WaitInv ==
  /\ wait = "off" => /\ previousHashes = NoHashes /\ prevHash = None /\ ~anyWindow
                     /\ stableScans = 0
  /\ ~anyWindow => prevHash = None
  /\ prevHash = None => previousHashes = NoHashes
  /\ calm < LOOP_THRESHOLD =>
       /\ stableScans <= calm
       /\ \A f \in Frames : previousHashes[f] # None => previousHashes[f] <= calm + 1
  /\ wait = "returned" /\ currentWindow # None => WaitOver

LateInv == late # 0 => late = 1 /\ timeout /\ pc \in {"react", "check", "ended"}

\* Between two recoveries the bot works on a window once for each value its counter
\* takes up to the threshold; the value of an interaction to come is not spent yet.
Slots == Frames \X (1 .. CIRCULAR_LOOP_THRESHOLD + 1)
Spent == {s \in Slots : IF pc = "act" /\ set.hash = s[1] THEN s[2] < visited[s[1]]
                        ELSE s[2] <= visited[s[1]]}

CountInv == /\ pc = "act" => <<set.hash, visited[set.hash]>> \in Slots
            /\ interactions <= clears * Cardinality(Slots) + Cardinality(Spent)

BInv == TypeOK /\ WaitInv /\ LateInv /\ CountInv

\* However the windows follow each other, and however often a candidate comes back, the
\* bot works on a window at most CIRCULAR_LOOP_THRESHOLD + 1 times between two
\* recoveries (LogicThread.cs:422).
InteractionsBounded ==
  interactions <= (clears + 1) * Cardinality(Frames) * (CIRCULAR_LOOP_THRESHOLD + 1)

\* After the timeout, which kills the processes, the bot interacts once more at most,
\* wherever the timeout finds it (LogicThread.cs:459).
OneLateInteraction == late <= 1

\* Once a process has been announced the loop ends: the timeout ends every wait for a
\* window and every inner loop at the latest (LogicThread.cs:346).  Without a process
\* it may wait in Pids for ever, whatever the timeout.
LoopEnds == firstDone ~> (pc = "ended")
=============================================================================
