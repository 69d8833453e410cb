-------------------------- MODULE ReportCycleProofs --------------------------
(***************************************************************************)
(* Proofs about ReportCycle for any jobs, keys, values and threads: the    *)
(* two parts of the cycle keep their invariants next to each other, the    *)
(* whole keeps the contract with the controller, and the report that ends  *)
(* the job is the one the agent prepared last and is true.                 *)
(***************************************************************************)
EXTENDS ReportCycle, HostExchangeProofs, RegistryHistoryProofs

\* Every step is a step of the registry history, or none.
LEMMA RegistrySide == [CycleNext]_cycleVars => [RegNext]_regVars
  BY DEF CycleNext, Exchange, FinishJob, ThrowEarly, Preparing, PrepareStep, PrepareEnds,
         KeysThrow, Repeat, Installer, cycleVars, RegNext

\* Every step but one is a step of the exchange, or none.
LEMMA ExchangeSide == [CycleNext]_cycleVars => [Next]_vars \/ KeysThrow
  BY DEF CycleNext, Exchange, FinishJob, ThrowEarly, Preparing, PrepareStep, PrepareEnds,
         Repeat, Installer, cycleVars, Next, Acquire, Report

\* An exception of the loop over the keys is an attempt that failed.
LEMMA KeysThrowInv == XInv /\ KeysThrow => XInv'
  <1> SUFFICES ASSUME XInv, KeysThrow PROVE XInv'
    OBVIOUS
  <1>1. faults' \in faults .. MaxFaults
    BY ExchangeAssumption DEF KeysThrow, XInv, TypeOK
  <1>2. AttemptThrows(Text)
    BY DEF KeysThrow
  <1> QED  BY <1>1, <1>2, AttemptInv

-----------------------------------------------------------------------------
(* Where the two parts are together. *)

LEMMA CycleInitInv == CycleInit => CInv
  <1>1. CycleInit => CycleInv
    BY DEF CycleInit, Init, RegInit, CycleInv
  <1> QED  BY <1>1, InitInv, RegInitInv DEF CycleInit, CInv

LEMMA CycleTogether == CycleInv /\ [CycleNext]_cycleVars => CycleInv'
  <1> SUFFICES ASSUME CycleInv, [CycleNext]_cycleVars PROVE CycleInv'
    OBVIOUS
  <1> USE DEF CycleInv, Seeking
  <1>1. CASE Exchange
    <2>1. phase' = phase
      BY <1>1 DEF Exchange, regVars
    <2>2. CASE Acquire
      BY <2>1, <2>2 DEF Acquire, RequestWork, ReceiveWork, NoWork, ReceiveChunk, FetchThrows,
            FileComplete, Start, StartThrows, Connect, Write, Throw
    <2>3. CASE SendReport \/ SendFile \/ Done
      BY <2>1, <2>3 DEF SendReport, SendFile, Done, Connect
    <2>4. CASE Host \/ Break
      BY <2>1, <2>4 DEF Host, HostGivesWork, HostSendsFile, HostSendsChunk, HostStartsJob,
            HostTakesReport, HostReceivesChunk, Reply, Break
    <2> QED  BY <1>1, <2>2, <2>3, <2>4 DEF Exchange
  <1>2. CASE FinishJob
    BY <1>2 DEF FinishJob, EndJob, Stop
  <1>3. CASE ThrowEarly
    BY <1>3 DEF ThrowEarly, PrepareThrows, AttemptThrows, regVars
  <1>4. CASE PrepareStep
    BY <1>4 DEF PrepareStep, ReportStep, ReadKeys, ExamineKey, SetDeleted, SetModified, SetNew,
          ListNew, ListModified, ListDeleted, aroundVars, loopVars, vars
  <1>5. CASE PrepareEnds
    BY <1>5 DEF PrepareEnds, PrepareReport, EndKeys
  <1>6. CASE KeysThrow
    BY <1>6 DEF KeysThrow, AttemptThrows, EndKeys
  <1>7. CASE Repeat
    BY <1>7 DEF Repeat, ReportThrows, Throw, Again
  <1>8. CASE Installer
    <2>1. UNCHANGED <<pc, phase>>
      BY <1>8 DEF Installer, ThreadOp, Handler, NotifyRegistryAccess, CallKey, Change, Close,
            LoseEvent, LoseAck, KeyExists, PopulateOriginalValues, reportVars, vars
    <2> QED  BY <2>1
  <1>9. CASE UNCHANGED cycleVars
    BY <1>9 DEF cycleVars, vars, regVars
  <1> QED  BY <1>1, <1>2, <1>3, <1>4, <1>5, <1>6, <1>7, <1>8, <1>9 DEF CycleNext, Preparing

LEMMA CycleStep == CInv /\ [CycleNext]_cycleVars => CInv'
  BY ExchangeSide, RegistrySide, ExchangeStep, KeysThrowInv, RegStep, CycleTogether DEF CInv

-----------------------------------------------------------------------------
(* The theorems. *)

\* The composition keeps the invariants of the exchange and of the registry history, and
\* the loop over the keys is where LogicThread.work is.
THEOREM CycleInvariant == CycleSpec => []CInv
  BY CycleInitInv, CycleStep, PTL DEF CycleSpec

\* What is proved of the registry history holds of it inside the cycle.
THEOREM CycleHasRegistry == CycleSpec => RegSpec
  BY RegistrySide, PTL DEF CycleSpec, CycleInit, RegSpec

\* The report the agent stops with has arrived, and is true (LogicThread.cs:890).
THEOREM TrueReportReceivedTheorem == CycleSpec => []TrueReportReceived
  <1>1. CInv => TrueReportReceived
    <2> SUFFICES ASSUME CInv, pc = "done" PROVE Arrived /\ phase = "done" /\ KeysReported
      BY DEF TrueReportReceived, KeysReported
    <2> QED  BY ExchangeSafe, TrulyReported DEF CInv, CycleInv, LastReportReceived
  <1> QED  BY <1>1, CycleInvariant, PTL

\* The safety of the exchange also holds with the loop that throws and the installer that
\* still runs.
THEOREM CycleSafe == CycleSpec => [](/\ RunsItsFile /\ LastReportReceived
                                     /\ NoIdleRepeat /\ OutputReported
                                     /\ OriginalIsOriginal /\ KeysReported)
  <1>1. CInv => /\ RunsItsFile /\ LastReportReceived /\ NoIdleRepeat /\ OutputReported
                /\ OriginalIsOriginal /\ KeysReported
    BY ExchangeSafe, OriginalKept, TrulyReported DEF CInv
  <1> QED  BY <1>1, CycleInvariant, PTL

\* The agent keeps the contract with the controller while its own loop over the keys
\* fails and is repeated: for the contract that is a stutter.
THEOREM CycleKeepsContract == CycleSpec => ContractSpec
  <1>1. CycleInit => Contract!Init
    BY ContractInit DEF CycleInit
  <1>2. CInv /\ [CycleNext]_cycleVars => [Contract!Next]_(Contract!vars)
    <2> SUFFICES ASSUME CInv, [CycleNext]_cycleVars PROVE [Contract!Next]_(Contract!vars)
      OBVIOUS
    <2>1. CASE [Next]_vars
      BY <2>1, ContractStep DEF CInv
    <2>2. CASE KeysThrow
      BY <2>2 DEF KeysThrow, AttemptThrows, hostVars, Contract!vars, ContractPhase, Seeking
    <2> QED  BY <2>1, <2>2, ExchangeSide
  <1> QED  BY <1>1, <1>2, CycleInvariant, PTL DEF CycleSpec, ContractSpec, Contract!Spec
=============================================================================
