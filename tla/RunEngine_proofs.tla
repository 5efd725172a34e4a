-------------------------- MODULE RunEngine_proofs --------------------------
(***************************************************************************)
(* Theorems about RunEngine, for any set of runs, servers, terminals, any  *)
(* number of tests and cases and any number of deaths and exceptions; and  *)
(* about the two restrictions of it that MCRunEngine names: one server     *)
(* alone, with deaths and exceptions, and servers without exceptions.      *)
(***************************************************************************)
EXTENDS MCRunEngine, TLAPS

\* Where the executor's locations lie.
LEMMA Locations ==
    /\ Location = Holding \cup {"idle", "down"}
    /\ "idle" \notin Holding /\ "down" \notin Holding
    /\ {"claimed", "starting", "store", "pass_test", "fail_test", "write_metrics", "complete",
        "stopping", "failing"} \subseteq Holding
    /\ Guarded \subseteq Holding /\ Finishing \subseteq Holding
    /\ InsideTest \subseteq Holding /\ OutsideTest \subseteq Holding
    /\ {"calibrate", "settle", "prepare", "warming", "running", "tests", "case", "aggregate"}
          \subseteq Guarded
BY DEF Location, Holding, InsideTest, OutsideTest, Finishing, Guarded

\* Control passes between two places where the process holds its run.
LEMMA GoKeepsControl ==
    ASSUME ControlOK, NEW p \in Procs, NEW l \in Holding, pc[p] \in Holding, Go(p, l),
           UNCHANGED cur
    PROVE  ControlOK'
BY Locations DEF ControlOK, Go

\* The process lets go of its run.
LEMMA ReleaseKeepsTypes ==
    ASSUME ControlOK, ProgressOK, NEW p \in Procs, NEW l \in {"idle", "down"}, Release(p, l)
    PROVE  ControlOK' /\ ProgressOK'
BY Locations, ConstantsAssumption DEF ControlOK, ProgressOK, Release, Go, Tests, Cases

\* A status column written with a status stays one.
LEMMA SetStatusType ==
    ASSUME StoredOK, NEW r \in Runs, NEW s \in RunStatus, SetStatus(r, s)
    PROVE  status' \in [Runs -> RunStatus \cup {"absent"}]
BY DEF StoredOK, SetStatus

LEMMA CancelPendingTestsType ==
    ASSUME NEW rows \in [Tests -> TestStatus \cup {"absent"}]
    PROVE  CancelPendingTests(rows) \in [Tests -> TestStatus \cup {"absent"}]
BY DEF CancelPendingTests, TestStatus

LEMMA WriteTerminalType ==
    ASSUME StoredOK, NEW r \in Runs, NEW s \in RunStatus, WriteTerminal(r, s),
           UNCHANGED <<samples, metrics>>
    PROVE  StoredOK'
<1>1. status' \in [Runs -> RunStatus \cup {"absent"}]
  BY SetStatusType DEF WriteTerminal
<1>2. ended' \in [Runs -> BOOLEAN]
  BY DEF StoredOK, WriteTerminal
<1>3. tests' \in [Runs -> [Tests -> TestStatus \cup {"absent"}]]
  <2>1. tests[r] \in [Tests -> TestStatus \cup {"absent"}]
    BY DEF StoredOK
  <2>2. CancelPendingTests(tests[r]) \in [Tests -> TestStatus \cup {"absent"}]
    BY <2>1, CancelPendingTestsType
  <2>q. QED BY <2>2 DEF StoredOK, WriteTerminal
<1>q. QED BY <1>1, <1>2, <1>3 DEF StoredOK

\* On to the next test or out of the loop; on to the next case or out of the test.
LEMMA NextTestType ==
    ASSUME ControlOK, ProgressOK, NEW p \in Procs, pc[p] \in Holding, NextTest(p), UNCHANGED cur
    PROVE  ControlOK' /\ test' \in [Procs -> Tests]
<1>1. test' \in [Procs -> Tests]
  BY ConstantsAssumption DEF ProgressOK, NextTest, Tests
<1>2. ControlOK'
  BY GoKeepsControl, Locations DEF NextTest
<1>q. QED BY <1>1, <1>2

LEMMA NextCaseType ==
    ASSUME ControlOK, ProgressOK, NEW p \in Procs, pc[p] \in Holding, NextCase(p), UNCHANGED cur
    PROVE  ControlOK' /\ case' \in [Procs -> Cases]
<1>1. case' \in [Procs -> Cases]
  BY ConstantsAssumption DEF ProgressOK, NextCase, Cases
<1>2. ControlOK'
  BY GoKeepsControl, Locations DEF NextCase
<1>q. QED BY <1>1, <1>2

\* Requests write the database only.
LEMMA RequestType ==
    ASSUME TypeOK, NEW r \in Runs, Request(r)
    PROVE  TypeOK'
<1>1. StoredOK'
  <2>1. CASE CreateRun(r)
    BY <2>1 DEF CreateRun, SetStatus, RunStatus, TypeOK, StoredOK
  <2>2. CASE CancelRun(r)
    <3>1. status' \in [Runs -> RunStatus \cup {"absent"}]
      BY <2>2 DEF CancelRun, SetStatus, CancellationTarget, RunStatus, TypeOK, StoredOK
    <3>2. CancelPendingTests(tests[r]) \in [Tests -> TestStatus \cup {"absent"}]
      BY CancelPendingTestsType DEF TypeOK, StoredOK
    <3>3. tests' \in [Runs -> [Tests -> TestStatus \cup {"absent"}]]
      BY <2>2, <3>2 DEF CancelRun, TypeOK, StoredOK
    <3>4. ended' \in [Runs -> BOOLEAN]
      BY <2>2 DEF CancelRun, TypeOK, StoredOK
    <3>q. QED BY <2>2, <3>1, <3>3, <3>4 DEF CancelRun, TypeOK, StoredOK
  <2>3. CASE ResumeRun(r)
    BY <2>3 DEF ResumeRun, SetStatus, RunStatus, TypeOK, StoredOK
  <2>q. QED BY <2>1, <2>2, <2>3 DEF Request
<1>2. UNCHANGED <<local, bounds>>
  BY DEF Request, CreateRun, CancelRun, ResumeRun
<1>q. QED
  BY <1>1, <1>2 DEF TypeOK, ControlOK, ProgressOK, BoundsOK, local, bounds

\* What a process that holds a run does keeps the types.
LEMMA ExecuteType ==
    ASSUME TypeOK, NEW p \in Procs, Execute(p)
    PROVE  TypeOK'
<1> USE Locations DEF TypeOK, bounds, stored
<1>bounds. BoundsOK'
  BY DEF Execute, EnterExecuteRun, CheckCancelled, PassPhase, Prepare, Warm, StartTests,
     PassOverTest, EnterTest, SkipStoredCase, Generate, StoreSample, FinishTest, ReadSamples,
     WriteMetrics, FinishCompleted, FinishHandled, BoundsOK
<1>h. pc[p] \in Holding /\ cur[p] \in Runs
  BY DEF Execute, EnterExecuteRun, CheckCancelled, PassPhase, Prepare, Warm, StartTests,
     PassOverTest, EnterTest, SkipStoredCase, Generate, StoreSample, FinishTest, ReadSamples,
     WriteMetrics, FinishCompleted, FinishHandled, At, ControlOK
<1>1. CASE EnterExecuteRun(p)
  BY <1>1, <1>h, <1>bounds, GoKeepsControl DEF EnterExecuteRun, StoredOK, ProgressOK
<1>2. CASE CheckCancelled(p)
  <2>1. CASE StopRequested(status[cur[p]])
    BY <1>2, <2>1, <1>h, <1>bounds, GoKeepsControl DEF CheckCancelled, StoredOK, ProgressOK
  <2>2. CASE ~StopRequested(status[cur[p]])
    BY <1>2, <2>2, <1>bounds DEF CheckCancelled, StoredOK, ProgressOK, ControlOK
  <2>q. QED BY <2>1, <2>2
<1>3. CASE PassPhase(p)
  BY <1>3, <1>h, <1>bounds, GoKeepsControl DEF PassPhase, StoredOK, ProgressOK
<1>4. CASE Prepare(p)
  <2>1. tests' \in [Runs -> [Tests -> TestStatus \cup {"absent"}]]
    BY <1>4, <1>h DEF Prepare, GetOrCreate, TestStatus, StoredOK
  <2>q. QED
    BY <1>4, <2>1, <1>h, <1>bounds, GoKeepsControl DEF Prepare, StoredOK, ProgressOK
<1>5. CASE Warm(p)
  BY <1>5, <1>h, <1>bounds, GoKeepsControl, SetStatusType
  DEF Warm, Transition, StoredOK, ProgressOK, RunStatus
<1>6. CASE StartTests(p)
  BY <1>6, <1>h, <1>bounds, GoKeepsControl, SetStatusType
  DEF StartTests, Transition, StoredOK, ProgressOK, RunStatus
<1>7. CASE PassOverTest(p)
  <2>1. tests' \in [Runs -> [Tests -> TestStatus \cup {"absent"}]]
    BY <1>7, <1>h, SMTT(30) DEF PassOverTest, TestStatus, StoredOK
  <2>q. QED
    BY <1>7, <2>1, <1>h, <1>bounds, NextTestType DEF PassOverTest, StoredOK, ProgressOK
<1>8. CASE EnterTest(p)
  <2>1. tests' \in [Runs -> [Tests -> TestStatus \cup {"absent"}]]
    BY <1>8, <1>h DEF EnterTest, TestStatus, StoredOK
  <2>2. ProgressOK'
    BY <1>8, ConstantsAssumption DEF EnterTest, StoredCases, ProgressOK, Cases
  <2>q. QED
    BY <1>8, <2>1, <2>2, <1>h, <1>bounds, GoKeepsControl DEF EnterTest, StoredOK
<1>9. CASE SkipStoredCase(p)
  BY <1>9, <1>h, <1>bounds, NextCaseType DEF SkipStoredCase, StoredOK, ProgressOK
<1>10. CASE Generate(p)
  BY <1>10, <1>h, <1>bounds, GoKeepsControl DEF Generate, StoredOK, ProgressOK
<1>11. CASE StoreSample(p)
  <2>1. <<test[p], case[p]>> \in Keys
    BY DEF Keys, ProgressOK
  <2>2. CASE <<test[p], case[p]>> \in samples[cur[p]]
    BY <1>11, <2>2, <1>h, <1>bounds, GoKeepsControl DEF StoreSample, StoredOK, ProgressOK
  <2>3. CASE <<test[p], case[p]>> \notin samples[cur[p]]
    <3> DEFINE key == <<test[p], case[p]>>
    <3>k. key \in Keys
      BY <2>1
    <3>s. samples' = [samples EXCEPT ![cur[p]] = @ \cup {key}]
      BY <1>11, <2>3 DEF StoreSample
    <3> HIDE DEF key
    <3>1. samples' \in [Runs -> SUBSET Keys]
      BY <3>k, <3>s DEF StoredOK
    <3>q. QED
      BY <1>11, <2>3, <3>1, <1>h, <1>bounds, NextCaseType DEF StoreSample, StoredOK, ProgressOK
  <2>q. QED BY <2>2, <2>3
<1>12. CASE FinishTest(p)
  <2> DEFINE target == IF pc[p] = "pass_test" THEN "completed" ELSE "failed"
             row == tests[cur[p]][test[p]]
  <2>1. CASE row \in TestStatus /\ LegalTest(row, target)
    <3>1. tests' \in [Runs -> [Tests -> TestStatus \cup {"absent"}]]
      <4>1. target \in TestStatus
        BY DEF TestStatus
      <4>2. tests' = [tests EXCEPT ![cur[p]][test[p]] = target]
        BY <1>12, <2>1 DEF FinishTest
      <4> HIDE DEF target
      <4>q. QED BY <4>1, <4>2 DEF StoredOK
    <3>2. case' \in [Procs -> Cases] /\ already' \in [Procs -> SUBSET Cases]
      BY <1>12, <2>1, ConstantsAssumption DEF FinishTest, ProgressOK, Cases
    <3>q. QED
      BY <1>12, <2>1, <3>1, <3>2, <1>h, <1>bounds, NextTestType
      DEF FinishTest, StoredOK, ProgressOK
  <2>2. CASE ~(row \in TestStatus /\ LegalTest(row, target))
    BY <1>12, <2>2, <1>h, <1>bounds, GoKeepsControl DEF FinishTest, StoredOK, ProgressOK
  <2>q. QED BY <2>1, <2>2
<1>13. CASE ReadSamples(p)
  BY <1>13, <1>h, <1>bounds, GoKeepsControl DEF ReadSamples, StoredOK, ProgressOK
<1>14. CASE WriteMetrics(p)
  BY <1>14, <1>h, <1>bounds, GoKeepsControl DEF WriteMetrics, StoredOK, ProgressOK
<1>15. CASE FinishCompleted(p)
  <2>1. StoredOK'
    BY <1>15, <1>h, WriteTerminalType DEF FinishCompleted, StoredOK, RunStatus
  <2>2. ControlOK' /\ ProgressOK'
    BY <1>15, <1>h, ReleaseKeepsTypes, GoKeepsControl DEF FinishCompleted, ProgressOK
  <2>q. QED BY <2>1, <2>2, <1>bounds
<1>16. CASE FinishHandled(p)
  <2>1. StoredOK'
    BY <1>16, <1>h, WriteTerminalType DEF FinishHandled, StoredOK, RunStatus
  <2>2. ControlOK' /\ ProgressOK'
    BY <1>16, ReleaseKeepsTypes DEF FinishHandled
  <2>q. QED BY <2>1, <2>2, <1>bounds
<1>q. QED
  BY <1>1, <1>2, <1>3, <1>4, <1>5, <1>6, <1>7, <1>8, <1>9, <1>10, <1>11, <1>12, <1>13, <1>14,
     <1>15, <1>16 DEF Execute

\* Faults change the control of one process and count against a bound.
LEMMA FaultType ==
    ASSUME TypeOK, NEW p \in Procs, Fault(p)
    PROVE  TypeOK'
<1> USE Locations, ConstantsAssumption DEF TypeOK, stored
<1>1. BoundsOK'
  BY DEF Fault, StartServerUnrecovered, LeaveRunOnce, TestRaises, RunRaises, HandlerRaises,
     Crash, BoundsOK, bounds
<1>2. StoredOK'
  BY DEF Fault, StartServerUnrecovered, LeaveRunOnce, TestRaises, RunRaises, HandlerRaises,
     Crash, StoredOK
<1>3. CASE StartServerUnrecovered(p)
  BY <1>1, <1>2, <1>3 DEF StartServerUnrecovered, Go, ControlOK, ProgressOK
<1>4. CASE LeaveRunOnce(p)
  BY <1>1, <1>2, <1>4, ReleaseKeepsTypes DEF LeaveRunOnce
<1>5. CASE TestRaises(p)
  BY <1>1, <1>2, <1>5, GoKeepsControl DEF TestRaises, ProgressOK
<1>6. CASE RunRaises(p)
  BY <1>1, <1>2, <1>6, GoKeepsControl DEF RunRaises, ProgressOK
<1>7. CASE HandlerRaises(p)
  BY <1>1, <1>2, <1>7, ReleaseKeepsTypes DEF HandlerRaises
<1>8. CASE Crash(p)
  BY <1>1, <1>2, <1>8, ReleaseKeepsTypes DEF Crash
<1>q. QED BY <1>3, <1>4, <1>5, <1>6, <1>7, <1>8 DEF Fault

\* The typing invariant of the stored state and of every executor.
THEOREM Typing == Spec => []TypeOK
<1>1. Init => TypeOK
  BY ConstantsAssumption, Locations
  DEF Init, TypeOK, StoredOK, ControlOK, ProgressOK, BoundsOK, Tests, Cases
<1>2. TypeOK /\ [Next]_vars => TypeOK'
  <2> SUFFICES ASSUME TypeOK, [Next]_vars PROVE TypeOK'
    OBVIOUS
  <2>1. ASSUME NEW r \in Runs, Request(r) PROVE TypeOK'
    BY <2>1, RequestType
  <2>2. ASSUME NEW p \in Procs, Execute(p) PROVE TypeOK'
    BY <2>2, ExecuteType
  <2>3. ASSUME NEW p \in Procs, Claim(p) PROVE TypeOK'
    BY <2>3, Locations
    DEF Claim, ClaimNextQueued, SetStatus, Go, RunStatus, TypeOK, StoredOK, ControlOK,
        ProgressOK, BoundsOK, bounds
  <2>4. ASSUME NEW p \in Procs, StartServer(p) PROVE TypeOK'
    BY <2>4, Locations
    DEF StartServer, Orphans, Go, RunStatus, TypeOK, StoredOK, ControlOK, ProgressOK, BoundsOK,
        bounds
  <2>5. ASSUME NEW p \in Procs, Fault(p) PROVE TypeOK'
    BY <2>5, FaultType
  <2>6. ASSUME NEW p \in Procs, Interrupt(p) PROVE TypeOK'
    BY <2>6, Locations, GoKeepsControl, ReleaseKeepsTypes
    DEF Interrupt, TypeOK, StoredOK, ProgressOK, BoundsOK, bounds, stored
  <2>7. CASE UNCHANGED vars
    BY <2>7
    DEF vars, stored, local, bounds, TypeOK, StoredOK, ControlOK, ProgressOK, BoundsOK
  <2>q. QED BY <2>1, <2>2, <2>3, <2>4, <2>5, <2>6, <2>7 DEF Next
<1>q. QED BY <1>1, <1>2, PTL DEF Spec
-----------------------------------------------------------------------------
(* The status column implements RunLifecycle.  Recovery interrupts every   *)
(* orphan in one transaction, which is one move of the lifecycle only      *)
(* because at most one run is in the slot, so the two facts are proved     *)
(* together: OneSlot gives the step, the step gives OneSlot.               *)

LEMMA SameVocabulary ==
    /\ Lifecycle!RunStatus = RunStatus
    /\ Lifecycle!ActiveRun = ActiveRun
    /\ \A s, t : Lifecycle!LegalRun(s, t) <=> LegalRun(s, t)
    /\ Lifecycle!Occupied <=> Occupied
    /\ \A r : Lifecycle!Oldest(r) <=> Oldest(r)
BY DEF Lifecycle!RunStatus, RunStatus, Lifecycle!ActiveRun, ActiveRun, Lifecycle!LegalRun,
       LegalRun, Lifecycle!RunTransitions, RunTransitions, Lifecycle!Occupied, Occupied,
       Lifecycle!Oldest, Oldest

\* The table leads into the slot only from inside it, preparing apart.
LEMMA TableKeepsSlot ==
    ASSUME NEW s \in RunStatus, NEW t \in ActiveRun \ {"preparing"}, LegalRun(s, t)
    PROVE  s \in ActiveRun
BY DEF RunStatus, ActiveRun, LegalRun, RunTransitions

\* A step of the lifecycle keeps at most one run in the slot.
LEMMA LifecycleKeepsOneSlot ==
    ASSUME StoredOK, OneSlot, Lifecycle!LifecycleNext
    PROVE  OneSlot'
<1> USE DEF StoredOK, OneSlot, Lifecycle!OneSlot
<1>1. PICK r \in Runs : Lifecycle!Submit(r) \/ Lifecycle!TakeSlot(r) \/ Lifecycle!Move(r)
  BY DEF Lifecycle!LifecycleNext
<1>2. CASE Lifecycle!Submit(r)
  BY <1>2, SameVocabulary DEF Lifecycle!Submit, ActiveRun
<1>3. CASE Lifecycle!TakeSlot(r)
  BY <1>3, SameVocabulary DEF Lifecycle!TakeSlot, Occupied
<1>4. CASE Lifecycle!Move(r)
  <2>1. PICK s \in RunStatus :
          /\ status[r] \in RunStatus
          /\ \/ LegalRun(status[r], s) /\ s # "preparing"
             \/ status[r] = "running" /\ s = "cancelled"
          /\ status' = [status EXCEPT ![r] = s]
    BY <1>4, SameVocabulary DEF Lifecycle!Move
  <2>2. s \in ActiveRun => status[r] \in ActiveRun
    BY <2>1, TableKeepsSlot DEF ActiveRun
  <2>q. QED BY <2>1, <2>2, SameVocabulary
<1>q. QED BY <1>1, <1>2, <1>3, <1>4

\* A status written along the table is a move of the lifecycle.
LEMMA SetStatusIsMove ==
    ASSUME NEW r \in Runs, NEW s \in RunStatus, status[r] \in RunStatus, s # "preparing",
           FinishAllowed(status[r], s), SetStatus(r, s)
    PROVE  Lifecycle!LifecycleNext
<1>1. LegalRun(status[r], s) \/ (status[r] = "running" /\ s = "cancelled")
  BY DEF FinishAllowed
<1>2. Lifecycle!Move(r)
  BY <1>1, SameVocabulary DEF Lifecycle!Move, SetStatus
<1>q. QED BY <1>2 DEF Lifecycle!LifecycleNext

\* Every step of the engine is a step of the lifecycle or leaves the column alone.
LEMMA StepRefines ==
    ASSUME TypeOK, OneSlot, [Next]_vars
    PROVE  [Lifecycle!LifecycleNext]_status
<1> USE DEF TypeOK, stored, local, bounds
<1>1. ASSUME NEW r \in Runs, Request(r) PROVE [Lifecycle!LifecycleNext]_status
  <2>1. CASE CreateRun(r)
    BY <2>1 DEF CreateRun, SetStatus, Lifecycle!Submit, Lifecycle!LifecycleNext
  <2>2. CASE CancelRun(r)
    <3>1. CancellationTarget(status[r]) \in RunStatus \ {"preparing"}
      BY DEF CancellationTarget, RunStatus
    <3>2. status[r] \in RunStatus /\ LegalRun(status[r], CancellationTarget(status[r]))
      BY <2>2 DEF CancelRun, CancellableRun, CancellationTarget, LegalRun, RunTransitions, RunStatus
    <3>3. SetStatus(r, CancellationTarget(status[r]))
      BY <2>2 DEF CancelRun
    <3>q. QED BY <3>1, <3>2, <3>3, SetStatusIsMove DEF FinishAllowed
  <2>3. CASE ResumeRun(r)
    BY <2>3, SetStatusIsMove DEF ResumeRun, FinishAllowed, RunStatus
  <2>q. QED BY <1>1, <2>1, <2>2, <2>3 DEF Request
<1>2. ASSUME NEW p \in Procs, Execute(p) PROVE [Lifecycle!LifecycleNext]_status
  <2>h. pc[p] \in Holding => cur[p] \in Runs
    BY DEF ControlOK
  <2>1. CASE Warm(p) \/ StartTests(p)
    BY <2>1, <2>h, Locations, SetStatusIsMove
    DEF Warm, StartTests, Transition, At, FinishAllowed, RunStatus
  <2>2. CASE FinishCompleted(p)
    <3>1. cur[p] \in Runs /\ (status[cur[p]] \in RunStatus \cup {"absent"})
      BY <2>2, <2>h, Locations DEF FinishCompleted, StoredOK
    <3>2. CASE /\ status[cur[p]] \notin TerminalRun
               /\ FinishAllowed(status[cur[p]], "completed")
      <4>1. SetStatus(cur[p], "completed")
        BY <2>2, <3>2 DEF FinishCompleted, WriteTerminal
      <4>2. status[cur[p]] \in RunStatus
        BY <3>2 DEF FinishAllowed
      <4>q. QED BY <3>1, <3>2, <4>1, <4>2, SetStatusIsMove DEF RunStatus
    <3>3. CASE \/ status[cur[p]] \in TerminalRun
               \/ ~FinishAllowed(status[cur[p]], "completed")
      BY <2>2, <3>3 DEF FinishCompleted
    <3>q. QED BY <3>2, <3>3
  <2>3. CASE FinishHandled(p)
    <3> DEFINE target == IF pc[p] = "stopping" THEN "cancelled" ELSE "failed"
    <3>1. cur[p] \in Runs
      BY <2>3, <2>h, Locations DEF FinishHandled
    <3>2. CASE FinishAllowed(status[cur[p]], target)
      <4>1. SetStatus(cur[p], target)
        BY <2>3, <3>2 DEF FinishHandled, WriteTerminal
      <4>2. status[cur[p]] \in RunStatus /\ target \in RunStatus /\ target # "preparing"
        BY <3>2 DEF FinishAllowed, RunStatus
      <4> HIDE DEF target
      <4>q. QED BY <3>1, <3>2, <4>1, <4>2, SetStatusIsMove
    <3>3. CASE ~FinishAllowed(status[cur[p]], target)
      BY <2>3, <3>3 DEF FinishHandled
    <3>q. QED BY <3>2, <3>3
  <2>4. CASE ~(Warm(p) \/ StartTests(p) \/ FinishCompleted(p) \/ FinishHandled(p))
    BY <1>2, <2>4
    DEF Execute, EnterExecuteRun, CheckCancelled, PassPhase, Prepare, PassOverTest, EnterTest,
        SkipStoredCase, Generate, StoreSample, FinishTest, ReadSamples, WriteMetrics
  <2>q. QED BY <2>1, <2>2, <2>3, <2>4
<1>3. ASSUME NEW p \in Procs, Claim(p) PROVE [Lifecycle!LifecycleNext]_status
  BY <1>3, SameVocabulary
  DEF Claim, ClaimNextQueued, SetStatus, Lifecycle!TakeSlot, Lifecycle!LifecycleNext
<1>4. ASSUME NEW p \in Procs, StartServer(p) PROVE [Lifecycle!LifecycleNext]_status
  <2>1. status' = [r \in Runs |-> IF r \in Orphans THEN "interrupted" ELSE status[r]]
    BY <1>4 DEF StartServer
  <2>2. CASE Orphans = {}
    BY <2>1, <2>2 DEF StoredOK
  <2>3. ASSUME NEW r \in Orphans PROVE Lifecycle!LifecycleNext
    <3>1. r \in Runs /\ status[r] \in ActiveRun /\ Orphans = {r}
      BY <2>3, SameVocabulary DEF Orphans, OneSlot, Lifecycle!OneSlot
    <3>2. SetStatus(r, "interrupted")
      BY <2>1, <3>1 DEF SetStatus, StoredOK
    <3>3. status[r] \in RunStatus /\ LegalRun(status[r], "interrupted")
      BY <3>1 DEF ActiveRun, RunStatus, LegalRun, RunTransitions
    <3>q. QED BY <3>1, <3>2, <3>3, SetStatusIsMove DEF FinishAllowed, RunStatus
  <2>q. QED BY <2>2, <2>3
<1>5. ASSUME NEW p \in Procs, Fault(p) \/ Interrupt(p) PROVE UNCHANGED status
  BY <1>5 DEF Fault, Interrupt, StartServerUnrecovered, LeaveRunOnce, TestRaises, RunRaises,
              HandlerRaises, Crash
<1>6. CASE UNCHANGED vars
  BY <1>6 DEF vars
<1>q. QED BY <1>1, <1>2, <1>3, <1>4, <1>5, <1>6 DEF Next

\* claim_next_queued keeps one run in the slot, whatever the number of schedulers,
\* terminals, recoveries, deaths and exceptions.
THEOREM SlotIsExclusive == Spec => []OneSlot
<1>1. Init => OneSlot
  BY SameVocabulary DEF Init, OneSlot, Lifecycle!OneSlot, ActiveRun
<1>2. TypeOK /\ OneSlot /\ [Next]_vars => OneSlot'
  <2> SUFFICES ASSUME TypeOK, OneSlot, [Next]_vars PROVE OneSlot'
    OBVIOUS
  <2>1. [Lifecycle!LifecycleNext]_status
    BY StepRefines
  <2>2. CASE Lifecycle!LifecycleNext
    BY <2>2, LifecycleKeepsOneSlot DEF TypeOK
  <2>3. CASE UNCHANGED status
    BY <2>3 DEF OneSlot, Lifecycle!OneSlot
  <2>q. QED BY <2>1, <2>2, <2>3
<1>q. QED BY <1>1, <1>2, Typing, PTL DEF Spec

\* The engine implements the lifecycle: every status write of every process, crashes
\* and recoveries included, is one of its moves.
THEOREM Refinement == Spec => RefinesLifecycle
<1>1. Init => Lifecycle!LifecycleInit
  BY DEF Init, Lifecycle!LifecycleInit
<1>2. TypeOK /\ OneSlot /\ [Next]_vars => [Lifecycle!LifecycleNext]_status
  BY StepRefines
<1>q. QED
  BY <1>1, <1>2, Typing, SlotIsExclusive, PTL
  DEF Spec, RefinesLifecycle, Lifecycle!LifecycleSpec
-----------------------------------------------------------------------------
(* Nothing measured is lost.                                               *)

\* Samples are only added and ended tests stay as they are.
KeepsData == \A r \in Runs :
    /\ samples[r] \subseteq samples'[r]
    /\ \A t \in Tests : tests[r][t] \in TerminalTest => tests'[r][t] = tests[r][t]

LEMMA TerminalTests == TerminalTest = {"completed", "failed", "skipped", "cancelled"}
BY DEF TerminalTest, TestTransitions, TestStatus

\* A row written by _cancel_pending_tests had not ended.
LEMMA CancellingKeepsEndedTests ==
    ASSUME NEW rows, NEW t \in Tests, rows[t] \in TerminalTest
    PROVE  CancelPendingTests(rows)[t] = rows[t]
BY TerminalTests DEF CancelPendingTests

\* One row written over a row that had not ended.
LEMMA OneRowKeepsData ==
    ASSUME StoredOK, NEW r \in Runs, NEW t \in Tests, NEW s, tests[r][t] \notin TerminalTest,
           tests' = [tests EXCEPT ![r][t] = s], UNCHANGED samples
    PROVE  KeepsData
BY DEF KeepsData, StoredOK

LEMMA WriteTerminalKeepsData ==
    ASSUME StoredOK, NEW r \in Runs, NEW s, WriteTerminal(r, s), UNCHANGED samples
    PROVE  KeepsData
BY CancellingKeepsEndedTests DEF WriteTerminal, KeepsData, StoredOK

\* The steps of an executor.
LEMMA ExecuteKeepsData ==
    ASSUME TypeOK, NEW p \in Procs, Execute(p)
    PROVE  KeepsData
<1> USE DEF TypeOK, stored
<1>h. cur[p] \in Runs /\ test[p] \in Tests
  BY Locations
  DEF Execute, EnterExecuteRun, CheckCancelled, PassPhase, Prepare, Warm, StartTests,
      PassOverTest, EnterTest, SkipStoredCase, Generate, StoreSample, FinishTest, ReadSamples,
      WriteMetrics, FinishCompleted, FinishHandled, At, ControlOK, ProgressOK
<1>1. CASE Prepare(p)
  BY <1>1, <1>h, TerminalTests DEF Prepare, GetOrCreate, KeepsData, StoredOK
<1>2. CASE PassOverTest(p)
  <2>1. CASE UNCHANGED tests
    BY <1>2, <2>1 DEF PassOverTest, KeepsData
  <2>2. CASE ~UNCHANGED tests
    BY <1>2, <2>2, <1>h, TerminalTests, OneRowKeepsData DEF PassOverTest
  <2>q. QED BY <2>1, <2>2
<1>3. CASE EnterTest(p)
  BY <1>3, <1>h, TerminalTests, OneRowKeepsData DEF EnterTest, HasEnded
<1>4. CASE StoreSample(p)
  BY <1>4, <1>h DEF StoreSample, KeepsData, StoredOK
<1>5. CASE FinishTest(p)
  <2>1. CASE UNCHANGED tests
    BY <1>5, <2>1 DEF FinishTest, KeepsData
  <2>2. CASE ~UNCHANGED tests
    <3>1. PICK s : LegalTest(tests[cur[p]][test[p]], s) /\ tests[cur[p]][test[p]] \in TestStatus
                   /\ tests' = [tests EXCEPT ![cur[p]][test[p]] = s]
      BY <1>5, <2>2 DEF FinishTest
    <3>2. tests[cur[p]][test[p]] \notin TerminalTest
      BY <3>1 DEF LegalTest, TerminalTest
    <3>q. QED BY <1>5, <3>1, <3>2, <1>h, OneRowKeepsData DEF FinishTest
  <2>q. QED BY <2>1, <2>2
<1>6. CASE FinishCompleted(p)
  <2>1. CASE WriteTerminal(cur[p], "completed")
    BY <1>6, <2>1, <1>h, WriteTerminalKeepsData DEF FinishCompleted
  <2>2. CASE ~WriteTerminal(cur[p], "completed")
    BY <1>6, <2>2 DEF FinishCompleted, KeepsData
  <2>q. QED BY <2>1, <2>2
<1>7. CASE FinishHandled(p)
  <2> DEFINE target == IF pc[p] = "stopping" THEN "cancelled" ELSE "failed"
  <2>1. CASE WriteTerminal(cur[p], target)
    BY <1>7, <2>1, <1>h, WriteTerminalKeepsData DEF FinishHandled
  <2>2. CASE ~WriteTerminal(cur[p], target)
    BY <1>7, <2>2 DEF FinishHandled, KeepsData
  <2>q. QED BY <2>1, <2>2
<1>8. CASE UNCHANGED <<tests, samples>>
  BY <1>8 DEF KeepsData
<1>q. QED
  BY <1>1, <1>2, <1>3, <1>4, <1>5, <1>6, <1>7, <1>8
  DEF Execute, EnterExecuteRun, CheckCancelled, PassPhase, Warm, StartTests, SkipStoredCase,
      Generate, ReadSamples, WriteMetrics

\* Cancelling, failing, dying, recovering and resuming, by any number of processes,
\* discard no stored sample and reopen no test that ended.
THEOREM MeasurementIsKept == Spec => NothingMeasuredIsLost
<1>1. TypeOK /\ [Next]_vars => [KeepsData]_vars
  <2> SUFFICES ASSUME TypeOK, [Next]_vars PROVE KeepsData \/ UNCHANGED vars
    OBVIOUS
  <2>1. ASSUME NEW r \in Runs, Request(r) PROVE KeepsData
    <3>1. CASE CancelRun(r)
      BY <3>1, CancellingKeepsEndedTests DEF CancelRun, KeepsData, TypeOK, StoredOK
    <3>2. CASE CreateRun(r) \/ ResumeRun(r)
      BY <3>2 DEF CreateRun, ResumeRun, KeepsData
    <3>q. QED BY <2>1, <3>1, <3>2 DEF Request
  <2>2. ASSUME NEW p \in Procs, Execute(p) PROVE KeepsData
    BY <2>2, ExecuteKeepsData
  <2>3. ASSUME NEW p \in Procs, Claim(p) \/ StartServer(p) \/ Fault(p) \/ Interrupt(p)
        PROVE KeepsData
    BY <2>3
    DEF Claim, ClaimNextQueued, StartServer, Fault, StartServerUnrecovered, LeaveRunOnce,
        TestRaises, RunRaises, HandlerRaises, Crash, Interrupt, KeepsData, stored
  <2>q. QED BY <2>1, <2>2, <2>3 DEF Next
<1>q. QED BY <1>1, Typing, PTL DEF Spec, NothingMeasuredIsLost, KeepsData

-----------------------------------------------------------------------------
(* The inductive invariant of a server alone: what its executor remembers   *)
(* says the same as what is stored of the run it holds.                     *)

\* Past the loop over tests.
PastTests == {"aggregate", "write_metrics", "complete"}
\* Where the run's data is written.
Measuring == {"tests", "case", "store", "pass_test", "fail_test"} \cup PastTests

\* The run held is in the slot, or was cancelled outright under its executor, which
\* can only have happened before it started to measure.
HeldIsLive(p) ==
    /\ pc[p] \in Holding => status[cur[p]] \in ActiveRun \cup {"cancelled"}
    /\ pc[p] \in Measuring => status[cur[p]] \in {"running", "cancelling"}

\* The loop over tests starts at the first and leaves ended tests behind it.
LoopIsOrdered(p) ==
    /\ pc[p] \notin Measuring \cup Finishing => test[p] = 1
    /\ pc[p] \in Measuring =>
         \A t \in Tests : t < test[p] \/ pc[p] \in PastTests => HasEnded(tests[cur[p]][t])

\* The loop over cases leaves stored cases behind it, and of those ahead it knows
\* exactly which are stored.
CasesAreKnown(p) ==
    /\ pc[p] \in {"case", "store"} =>
         \A c \in Cases :
            /\ c < case[p] => <<test[p], c>> \in samples[cur[p]]
            /\ c >= case[p] => (c \in already[p] <=> <<test[p], c>> \in samples[cur[p]])
    /\ pc[p] = "store" => case[p] \notin already[p]
    /\ pc[p] = "pass_test" => {test[p]} \X Cases \subseteq samples[cur[p]]

\* The aggregation still has all the samples there are.
SnapIsWhole(p) ==
    /\ pc[p] = "write_metrics" => snap[p] = samples[cur[p]]
    /\ pc[p] = "complete" => metrics[cur[p]] = samples[cur[p]]

\* Cancelled tests are those of cancelled runs, and a completed test has its samples.
RowsAreTrue ==
    \A r \in Runs, t \in Tests :
        /\ tests[r][t] = "cancelled" => status[r] = "cancelled"
        /\ tests[r][t] = "completed" => {t} \X Cases \subseteq samples[r]

AloneInv(p) ==
    /\ HeldIsLive(p) /\ LoopIsOrdered(p) /\ CasesAreKnown(p) /\ SnapIsWhole(p)
    /\ RowsAreTrue /\ CompletedIsWhole

ClisIdle == \A q \in Clis : pc[q] = "idle"
Alone == shared \/ ((\A p \in Servers : AloneInv(p)) /\ ClisIdle)
-----------------------------------------------------------------------------
LEMMA Vocabulary ==
    /\ Holding = {"claimed", "case", "store", "starting", "write_metrics", "complete",
                  "pass_test", "fail_test", "calibrate", "settle", "prepare", "warming",
                  "running", "tests", "aggregate", "stopping", "failing"}
    /\ Measuring = {"tests", "case", "store", "pass_test", "fail_test", "aggregate",
                    "write_metrics", "complete"}
    /\ TerminalRun = {"completed", "failed", "cancelled"}
BY DEF Holding, InsideTest, OutsideTest, Finishing, Guarded, Measuring, PastTests, TerminalRun,
       RunStatus, RunTransitions

\* A step of the server alone is a request or a step of the server.
LEMMA OnlyTheServerMoves ==
    ASSUME NEW s, Servers = {s}, TypeOK, ClisIdle, ~shared, MCNext
    PROVE  /\ \/ \E r \in Runs : Request(r)
              \/ Execute(s) \/ Claim(s) \/ StartServer(s) \/ Fault(s)
           /\ ClisIdle'
<1>1. ClisIdle'
  BY DEF MCNext, ClisIdle
<1>2. ASSUME NEW p \in Clis,
             Execute(p) \/ Claim(p) \/ StartServer(p) \/ Fault(p) \/ Interrupt(p)
      PROVE  FALSE
  <2>1. pc[p] = "idle" /\ pc'[p] = "idle" /\ p \in Procs /\ p \notin Servers
    BY <1>1, ConstantsAssumption DEF ClisIdle, Procs
  <2>2. ~Execute(p)
    BY <2>1, Locations
    DEF Execute, EnterExecuteRun, CheckCancelled, PassPhase, Prepare, Warm, StartTests,
        PassOverTest, EnterTest, SkipStoredCase, Generate, StoreSample, FinishTest, ReadSamples,
        WriteMetrics, FinishCompleted, FinishHandled, At
  <2>3. ~Claim(p)
    BY <2>1 DEF Claim, ClaimNextQueued, Go, TypeOK, ControlOK
  <2>4. ~StartServer(p) /\ ~Fault(p) /\ ~Interrupt(p)
    BY <2>1, Locations
    DEF StartServer, Fault, StartServerUnrecovered, LeaveRunOnce, TestRaises, RunRaises,
        HandlerRaises, Crash, Interrupt
  <2>q. QED BY <1>2, <2>2, <2>3, <2>4
<1>3. ~Interrupt(s)
  BY ConstantsAssumption DEF Interrupt
<1>q. QED BY <1>1, <1>2, <1>3 DEF MCNext, Next, Procs

\* A request changes the status of one run, and of a run that is held only to
\* cancelling, or to cancelled before it is measured.
LEMMA RequestKeepsAlone ==
    ASSUME TypeOK, NEW s \in Procs, AloneInv(s), NEW r \in Runs, Request(r)
    PROVE  AloneInv(s)'
<1> USE DEF TypeOK
<1>0. UNCHANGED <<local, samples, metrics>> /\ (pc[s] \in Holding => cur[s] \in Runs)
  BY DEF Request, CreateRun, CancelRun, ResumeRun, ControlOK
<1>1. HeldIsLive(s)'
  <2>1. cur[s] \in Runs => status'[cur[s]] = status[cur[s]] \/ cur[s] = r
    BY DEF Request, CreateRun, CancelRun, ResumeRun, SetStatus, StoredOK
  <2>2. CASE pc[s] \in Holding /\ cur[s] = r
    <3>1. status[r] \in ActiveRun \cup {"cancelled"} /\ status \in [Runs -> RunStatus \cup {"absent"}]
      BY <2>2 DEF AloneInv, HeldIsLive, StoredOK
    <3>2. CancelRun(r)
      BY <3>1 DEF Request, CreateRun, ResumeRun, ActiveRun, LegalRun, RunTransitions, RunStatus
    <3>3. status'[r] = CancellationTarget(status[r]) /\ status[r] \in CancellableRun
      BY <3>1, <3>2 DEF CancelRun, SetStatus
    <3>q. QED
      BY <1>0, <2>2, <3>3, Vocabulary
      DEF AloneInv, HeldIsLive, local, CancellationTarget, CancellableRun, ActiveRun
  <2>q. QED BY <1>0, <2>1, <2>2, Vocabulary DEF AloneInv, HeldIsLive, local
<1>2. CasesAreKnown(s)' /\ SnapIsWhole(s)'
  BY <1>0 DEF AloneInv, CasesAreKnown, SnapIsWhole, local
<1>3. ASSUME NEW q \in Runs
      PROVE  /\ status[q] = "cancelled" => status'[q] = "cancelled"
             /\ status'[q] = "completed" => status[q] = "completed"
  BY DEF Request, CreateRun, CancelRun, ResumeRun, SetStatus, CancellableRun, CancellationTarget,
         LegalRun, RunTransitions, RunStatus, StoredOK
<1>4. ASSUME NEW q \in Runs, NEW t \in Tests
      PROVE  /\ tests'[q][t] # tests[q][t] => tests'[q][t] = "cancelled" /\ status'[q] = "cancelled"
             /\ HasEnded(tests[q][t]) => HasEnded(tests'[q][t])
  BY DEF Request, CreateRun, CancelRun, ResumeRun, SetStatus, CancellationTarget,
         CancelPendingTests, HasEnded, StoredOK
<1>5. LoopIsOrdered(s)'
  BY <1>0, <1>4, Vocabulary DEF AloneInv, LoopIsOrdered, local, ControlOK
<1>6. RowsAreTrue'
  BY <1>0, <1>3, <1>4 DEF AloneInv, RowsAreTrue
<1>7. CompletedIsWhole'
  <2> SUFFICES ASSUME NEW q \in Runs, status'[q] = "completed"
               PROVE  /\ \A t \in Tests : tests[q][t] = tests'[q][t]
                      /\ status[q] = "completed"
    BY <1>0 DEF AloneInv, CompletedIsWhole
  <2>q. QED BY <1>3, <1>4
<1>q. QED BY <1>1, <1>2, <1>5, <1>6, <1>7 DEF AloneInv

\* Control passes between two places where nothing is known of the run's data.
LEMMA GoKeepsAlone ==
    ASSUME TypeOK, NEW s \in Procs, AloneInv(s), pc[s] \in Holding,
           NEW l \in Holding, l \in Finishing \/ pc[s] \notin Measuring \cup Finishing,
           l \notin Measuring,
           pc' = [pc EXCEPT ![s] = l], UNCHANGED <<stored, cur, test, case, already, snap>>
    PROVE  AloneInv(s)'
<1>1. pc'[s] = l
  BY DEF TypeOK, ControlOK
<1>2. HeldIsLive(s)'
  BY <1>1 DEF AloneInv, HeldIsLive, stored
<1>3. LoopIsOrdered(s)'
  BY <1>1 DEF AloneInv, LoopIsOrdered
<1>4. CasesAreKnown(s)' /\ SnapIsWhole(s)'
  BY <1>1, Vocabulary DEF CasesAreKnown, SnapIsWhole
<1>5. RowsAreTrue' /\ CompletedIsWhole'
  BY DEF AloneInv, RowsAreTrue, CompletedIsWhole, stored
<1>q. QED BY <1>2, <1>3, <1>4, <1>5 DEF AloneInv

\* The phases before the tests.
LEMMA PhasesKeepAlone ==
    ASSUME TypeOK, NEW s \in Procs, AloneInv(s),
           EnterExecuteRun(s) \/ CheckCancelled(s) \/ PassPhase(s) \/ Prepare(s) \/ Warm(s)
             \/ StartTests(s)
    PROVE  AloneInv(s)'
<1> USE DEF TypeOK
<1>1. CASE EnterExecuteRun(s) \/ PassPhase(s)
  BY <1>1, Vocabulary, GoKeepsAlone DEF EnterExecuteRun, PassPhase, At, Go, Finishing
<1>2. CASE CheckCancelled(s)
  <2>1. CASE StopRequested(status[cur[s]])
    BY <1>2, <2>1, Locations, Vocabulary, GoKeepsAlone DEF CheckCancelled, Go, Finishing
  <2>2. CASE ~StopRequested(status[cur[s]])
    BY <1>2, <2>2 DEF CheckCancelled, AloneInv, HeldIsLive, LoopIsOrdered, CasesAreKnown,
                      SnapIsWhole, RowsAreTrue, CompletedIsWhole, stored
  <2>q. QED BY <2>1, <2>2
<1>3. CASE Prepare(s)
  <2>1. /\ pc'[s] = "warming" /\ pc[s] = "prepare" /\ cur[s] \in Runs
        /\ UNCHANGED <<status, samples, metrics, cur, test, case, already, snap>>
    BY <1>3, Vocabulary DEF Prepare, At, Go, ControlOK
  <2>2. \A r \in Runs, t \in Tests :
           tests'[r][t] # tests[r][t] => tests'[r][t] = "pending" /\ r = cur[s]
    BY <1>3, <2>1 DEF Prepare, GetOrCreate, StoredOK
  <2>3. HeldIsLive(s)' /\ LoopIsOrdered(s)' /\ CasesAreKnown(s)' /\ SnapIsWhole(s)'
    BY <2>1, Vocabulary
    DEF AloneInv, HeldIsLive, LoopIsOrdered, CasesAreKnown, SnapIsWhole, Finishing
  <2>4. RowsAreTrue'
    BY <2>1, <2>2 DEF AloneInv, RowsAreTrue
  <2>5. status[cur[s]] # "completed"
    BY <2>1, Vocabulary DEF AloneInv, HeldIsLive, ActiveRun
  <2>6. CompletedIsWhole'
    BY <2>1, <2>2, <2>5 DEF AloneInv, CompletedIsWhole
  <2>q. QED BY <2>3, <2>4, <2>6 DEF AloneInv
<1>4. ASSUME NEW l \in {"running", "tests"}, NEW target \in {"warming", "running"},
             pc[s] \in {"warming", "running"}, Transition(s, target, l),
             l = "tests" => target = "running",
             UNCHANGED <<ended, tests, samples, metrics, cur, test, case, already, snap>>
      PROVE  AloneInv(s)'
  <2>1. CASE status[cur[s]] \in RunStatus /\ LegalRun(status[cur[s]], target)
    <3>1. /\ pc'[s] = l /\ cur[s] \in Runs /\ status' = [status EXCEPT ![cur[s]] = target]
      BY <1>4, <2>1, Vocabulary DEF Transition, SetStatus, Go, ControlOK
    <3>2. status[cur[s]] \notin {"completed", "cancelled"}
      BY <2>1 DEF LegalRun, RunTransitions
    <3>3. /\ status'[cur[s]] = target
          /\ \A r \in Runs : r # cur[s] => status'[r] = status[r]
      BY <3>1 DEF StoredOK
    <3>4. HeldIsLive(s)' /\ CasesAreKnown(s)' /\ SnapIsWhole(s)'
      BY <1>4, <3>1, <3>3, Vocabulary
      DEF HeldIsLive, CasesAreKnown, SnapIsWhole, ActiveRun
    <3>5. LoopIsOrdered(s)'
      BY <1>4, <3>1, Vocabulary
      DEF AloneInv, LoopIsOrdered, Finishing, PastTests, Tests
    <3>6. RowsAreTrue' /\ CompletedIsWhole'
      BY <1>4, <3>2, <3>3 DEF AloneInv, RowsAreTrue, CompletedIsWhole
    <3>q. QED BY <3>4, <3>5, <3>6 DEF AloneInv
  <2>2. CASE ~(status[cur[s]] \in RunStatus /\ LegalRun(status[cur[s]], target))
    BY <1>4, <2>2, Vocabulary, GoKeepsAlone DEF Transition, Go, Finishing, stored
  <2>q. QED BY <2>1, <2>2
<1>5. CASE Warm(s) \/ StartTests(s)
  BY <1>4, <1>5 DEF Warm, StartTests, At
<1>q. QED BY <1>1, <1>2, <1>3, <1>5

\* While the executor measures, no run but its own changes, and its own is no
\* ended run: what holds of completed and of cancelled runs is left alone.
LEMMA MeasuringTouchesItsOwn ==
    ASSUME TypeOK, NEW s \in Procs, AloneInv(s), pc[s] \in Measuring,
           UNCHANGED status,
           \A q \in Runs : q # cur[s] =>
               tests'[q] = tests[q] /\ samples'[q] = samples[q] /\ metrics'[q] = metrics[q],
           \A t \in Tests :
               /\ tests'[cur[s]][t] = "cancelled" => tests[cur[s]][t] = "cancelled"
               /\ tests'[cur[s]][t] = "completed" => {t} \X Cases \subseteq samples'[cur[s]]
    PROVE  RowsAreTrue' /\ CompletedIsWhole'
<1>1. status[cur[s]] # "completed"
  BY DEF AloneInv, HeldIsLive
<1>2. RowsAreTrue'
  BY DEF AloneInv, RowsAreTrue
<1>3. CompletedIsWhole'
  BY <1>1 DEF AloneInv, CompletedIsWhole
<1>q. QED BY <1>2, <1>3

\* The next test, or the end of the loop, once the test at hand has ended.
LEMMA NextTestKeepsOrder ==
    ASSUME TypeOK, NEW s \in Procs, AloneInv(s), pc[s] \in Measuring, NextTest(s),
           UNCHANGED <<status, samples, metrics, cur>>,
           \A t \in Tests : HasEnded(tests[cur[s]][t]) => HasEnded(tests'[cur[s]][t]),
           HasEnded(tests'[cur[s]][test[s]])
    PROVE  HeldIsLive(s)' /\ LoopIsOrdered(s)' /\ CasesAreKnown(s)' /\ SnapIsWhole(s)'
<1> USE DEF TypeOK
<1>1. /\ pc'[s] = IF test[s] < LastTest THEN "tests" ELSE "aggregate"
      /\ test'[s] = IF test[s] < LastTest THEN test[s] + 1 ELSE test[s]
      /\ test[s] \in Tests
  BY DEF NextTest, Go, ControlOK, ProgressOK
<1>2. HeldIsLive(s)' /\ CasesAreKnown(s)' /\ SnapIsWhole(s)'
  BY <1>1, Vocabulary DEF AloneInv, HeldIsLive, CasesAreKnown, SnapIsWhole
<1>3. \A t \in Tests : t < test[s] => HasEnded(tests[cur[s]][t])
  BY DEF AloneInv, LoopIsOrdered
<1>4. \A t \in Tests : t <= test[s] => HasEnded(tests'[cur[s]][t])
  BY <1>1, <1>3 DEF Tests
<1>5. LoopIsOrdered(s)'
  BY <1>1, <1>4, Vocabulary, ConstantsAssumption DEF LoopIsOrdered, Tests, PastTests
<1>q. QED BY <1>2, <1>5

\* The loop over the cases of one test.
LEMMA NextCaseKeepsCases ==
    ASSUME TypeOK, NEW s \in Procs, AloneInv(s), pc[s] \in {"case", "store"}, NextCase(s),
           UNCHANGED <<status, tests, metrics, cur, test, already>>,
           samples'[cur[s]] = samples[cur[s]] \cup {<<test[s], case[s]>>},
           \A q \in Runs : q # cur[s] => samples'[q] = samples[q]
    PROVE  AloneInv(s)'
<1> USE DEF TypeOK
<1>1. /\ pc'[s] = IF case[s] < LastCase THEN "case" ELSE "pass_test"
      /\ case'[s] = IF case[s] < LastCase THEN case[s] + 1 ELSE case[s]
      /\ case[s] \in Cases /\ test[s] \in Tests /\ cur[s] \in Runs
  BY Vocabulary DEF NextCase, Go, ControlOK, ProgressOK
<1>2. HeldIsLive(s)' /\ SnapIsWhole(s)'
  BY <1>1, Vocabulary DEF AloneInv, HeldIsLive, SnapIsWhole
<1>3. LoopIsOrdered(s)'
  BY <1>1, Vocabulary DEF AloneInv, LoopIsOrdered, PastTests
<1>4. /\ \A c \in Cases : c <= case[s] => <<test[s], c>> \in samples'[cur[s]]
      /\ \A c \in Cases : c > case[s] =>
            (c \in already[s] <=> <<test[s], c>> \in samples'[cur[s]])
  BY <1>1 DEF AloneInv, CasesAreKnown, Cases
<1>5. CasesAreKnown(s)'
  <2>1. CASE case[s] < LastCase
    BY <1>1, <1>4, <2>1, ConstantsAssumption DEF CasesAreKnown, Cases
  <2>2. CASE ~(case[s] < LastCase)
    BY <1>1, <1>4, <2>2, ConstantsAssumption DEF CasesAreKnown, Cases
  <2>q. QED BY <2>1, <2>2
<1>6. RowsAreTrue' /\ CompletedIsWhole'
  BY <1>1, Vocabulary, MeasuringTouchesItsOwn DEF AloneInv, RowsAreTrue
<1>q. QED BY <1>2, <1>3, <1>5, <1>6 DEF AloneInv

\* The steps inside the loop over tests.
LEMMA TestsKeepAlone ==
    ASSUME TypeOK, NEW s \in Procs, AloneInv(s),
           PassOverTest(s) \/ EnterTest(s) \/ SkipStoredCase(s) \/ Generate(s) \/ StoreSample(s)
             \/ FinishTest(s)
    PROVE  AloneInv(s)'
<1> USE DEF TypeOK
<1>h. pc[s] \in Measuring /\ cur[s] \in Runs /\ test[s] \in Tests /\ case[s] \in Cases
  BY Vocabulary
  DEF PassOverTest, EnterTest, SkipStoredCase, Generate, StoreSample, FinishTest, At, ControlOK,
      ProgressOK
<1>1. CASE PassOverTest(s)
  <2>1. /\ \A t \in Tests : tests'[cur[s]][t] # tests[cur[s]][t] => tests'[cur[s]][t] = "skipped"
        /\ HasEnded(tests'[cur[s]][test[s]])
        /\ \A q \in Runs : q # cur[s] => tests'[q] = tests[q]
    <3>1. CASE HasEnded(tests[cur[s]][test[s]]) /\ UNCHANGED tests
      BY <3>1
    <3>2. CASE tests' = [tests EXCEPT ![cur[s]][test[s]] = "skipped"]
      <4>1. tests \in [Runs -> [Tests -> TestStatus \cup {"absent"}]]
        BY DEF StoredOK
      <4>q. QED BY <1>h, <3>2, <4>1 DEF HasEnded
    <3>q. QED BY <1>1, <3>1, <3>2 DEF PassOverTest
  <2>2. \A t \in Tests : HasEnded(tests[cur[s]][t]) => HasEnded(tests'[cur[s]][t])
    BY <2>1 DEF HasEnded
  <2>3. HeldIsLive(s)' /\ LoopIsOrdered(s)' /\ CasesAreKnown(s)' /\ SnapIsWhole(s)'
    BY <1>1, <1>h, <2>1, <2>2, NextTestKeepsOrder DEF PassOverTest
  <2>4. RowsAreTrue' /\ CompletedIsWhole'
    BY <1>1, <1>h, <2>1, MeasuringTouchesItsOwn DEF PassOverTest, AloneInv, RowsAreTrue
  <2>q. QED BY <2>3, <2>4 DEF AloneInv
<1>2. CASE EnterTest(s)
  <2>1. /\ pc'[s] = "case" /\ pc[s] = "tests"
        /\ case'[s] = 1 /\ already'[s] = StoredCases(cur[s], test[s])
        /\ UNCHANGED <<status, samples, metrics, cur, test>>
    BY <1>2 DEF EnterTest, At, Go, ControlOK, ProgressOK
  <2>2. /\ \A t \in Tests : tests'[cur[s]][t] # tests[cur[s]][t] =>
               t = test[s] /\ tests'[cur[s]][t] = "running" /\ ~HasEnded(tests[cur[s]][t])
        /\ \A q \in Runs : q # cur[s] => tests'[q] = tests[q]
    BY <1>2, <1>h DEF EnterTest, StoredOK
  <2>3. HeldIsLive(s)' /\ SnapIsWhole(s)'
    BY <1>h, <2>1, Vocabulary DEF AloneInv, HeldIsLive, SnapIsWhole
  <2>4. LoopIsOrdered(s)'
    BY <1>h, <2>1, <2>2, Vocabulary DEF AloneInv, LoopIsOrdered, PastTests
  <2>5. CasesAreKnown(s)'
    BY <2>1 DEF CasesAreKnown, StoredCases, Cases
  <2>6. RowsAreTrue' /\ CompletedIsWhole'
    BY <1>h, <2>1, <2>2, MeasuringTouchesItsOwn DEF AloneInv, RowsAreTrue
  <2>q. QED BY <2>3, <2>4, <2>5, <2>6 DEF AloneInv
<1>3. CASE SkipStoredCase(s)
  <2>1. <<test[s], case[s]>> \in samples[cur[s]]
    BY <1>3, <1>h DEF SkipStoredCase, At, AloneInv, CasesAreKnown, Cases
  <2>q. QED BY <1>3, <2>1, NextCaseKeepsCases DEF SkipStoredCase, At, stored
<1>4. CASE Generate(s)
  <2>1. pc'[s] = "store" /\ pc[s] = "case" /\ case[s] \notin already[s]
    BY <1>4 DEF Generate, At, Go, ControlOK
  <2>2. UNCHANGED <<stored, cur, test, case, already, snap>>
    BY <1>4 DEF Generate
  <2>q. QED
    BY <2>1, <2>2, Vocabulary
    DEF AloneInv, HeldIsLive, LoopIsOrdered, PastTests, CasesAreKnown, SnapIsWhole,
        RowsAreTrue, CompletedIsWhole, stored
<1>5. CASE StoreSample(s)
  <2>1. <<test[s], case[s]>> \notin samples[cur[s]]
    BY <1>5, <1>h DEF StoreSample, AloneInv, CasesAreKnown, Cases
  <2> DEFINE key == <<test[s], case[s]>>
  <2>2. samples' = [samples EXCEPT ![cur[s]] = @ \cup {key}] /\ NextCase(s)
    BY <1>5, <2>1 DEF StoreSample
  <2>3. /\ samples'[cur[s]] = samples[cur[s]] \cup {key}
        /\ \A q \in Runs : q # cur[s] => samples'[q] = samples[q]
    <3> HIDE DEF key
    <3>q. QED BY <1>h, <2>2 DEF StoredOK
  <2>q. QED BY <1>5, <2>2, <2>3, NextCaseKeepsCases DEF StoreSample
<1>6. CASE FinishTest(s)
  <2> DEFINE target == IF pc[s] = "pass_test" THEN "completed" ELSE "failed"
             row == tests[cur[s]][test[s]]
  <2>1. CASE row \in TestStatus /\ LegalTest(row, target)
    <3>1. /\ tests' = [tests EXCEPT ![cur[s]][test[s]] = target] /\ NextTest(s)
          /\ UNCHANGED <<status, samples, metrics, cur>>
      BY <1>6, <2>1 DEF FinishTest
    <3>2. /\ tests'[cur[s]][test[s]] = target
          /\ \A t \in Tests : t # test[s] => tests'[cur[s]][t] = tests[cur[s]][t]
          /\ \A q \in Runs : q # cur[s] => tests'[q] = tests[q]
      <4> HIDE DEF target
      <4>q. QED BY <1>h, <3>1 DEF StoredOK
    <3>3. HeldIsLive(s)' /\ LoopIsOrdered(s)' /\ CasesAreKnown(s)' /\ SnapIsWhole(s)'
      BY <1>h, <3>1, <3>2, NextTestKeepsOrder DEF HasEnded
    <3>4. target = "completed" => {test[s]} \X Cases \subseteq samples[cur[s]]
      BY <1>6 DEF FinishTest, AloneInv, CasesAreKnown
    <3>5. RowsAreTrue' /\ CompletedIsWhole'
      BY <1>h, <3>1, <3>2, <3>4, MeasuringTouchesItsOwn DEF AloneInv, RowsAreTrue
    <3>q. QED BY <3>3, <3>5 DEF AloneInv
  <2>2. CASE ~(row \in TestStatus /\ LegalTest(row, target))
    BY <1>6, <1>h, <2>2, Vocabulary, GoKeepsAlone DEF FinishTest, Go, Finishing, stored
  <2>q. QED BY <2>1, <2>2
<1>q. QED BY <1>1, <1>2, <1>3, <1>4, <1>5, <1>6

\* The run's row is given a terminal status and the executor lets go of it.
LEMMA LettingGoKeepsAlone ==
    ASSUME TypeOK, NEW s \in Procs, AloneInv(s), NEW l \in {"idle", "down"}, Release(s, l),
           NEW r \in Runs, NEW target \in {"completed", "failed", "cancelled"},
           \/ UNCHANGED <<status, ended, tests>>
           \/ /\ WriteTerminal(r, target)
              /\ status[r] \notin {"completed", "cancelled"}
              /\ target = "completed" =>
                   /\ \A t \in Tests : HasEnded(tests[r][t])
                   /\ metrics[r] = samples[r],
           UNCHANGED <<samples, metrics>>
    PROVE  AloneInv(s)'
<1> USE DEF TypeOK
<1>1. pc'[s] = l /\ test'[s] = 1
  BY DEF Release, Go, ControlOK, ProgressOK
<1>2. HeldIsLive(s)' /\ LoopIsOrdered(s)' /\ CasesAreKnown(s)' /\ SnapIsWhole(s)'
  BY <1>1, Vocabulary, Locations DEF HeldIsLive, LoopIsOrdered, CasesAreKnown, SnapIsWhole
<1>3. CASE UNCHANGED <<status, ended, tests>>
  BY <1>2, <1>3 DEF AloneInv, RowsAreTrue, CompletedIsWhole
<1>4. CASE /\ WriteTerminal(r, target)
           /\ status[r] \notin {"completed", "cancelled"}
           /\ target = "completed" =>
                /\ \A t \in Tests : HasEnded(tests[r][t])
                /\ metrics[r] = samples[r]
  <2>1. /\ status'[r] = target
        /\ \A q \in Runs : q # r => status'[q] = status[q] /\ tests'[q] = tests[q]
        /\ target # "cancelled" => tests' = tests
    BY <1>4 DEF WriteTerminal, SetStatus, StoredOK
  <2>2. \A t \in Tests : tests'[r][t] # tests[r][t] =>
           tests'[r][t] = "cancelled" /\ target = "cancelled"
    BY <1>4 DEF WriteTerminal, CancelPendingTests, StoredOK
  <2>3. RowsAreTrue'
    BY <1>4, <2>1, <2>2 DEF AloneInv, RowsAreTrue
  <2>4. CompletedIsWhole'
    BY <1>4, <2>1, <2>2 DEF AloneInv, RowsAreTrue, CompletedIsWhole, HasEnded
  <2>q. QED BY <1>2, <2>3, <2>4 DEF AloneInv
<1>q. QED BY <1>3, <1>4

\* The aggregation and the ends of execute_run.
LEMMA EndingKeepsAlone ==
    ASSUME TypeOK, NEW s \in Procs, AloneInv(s),
           ReadSamples(s) \/ WriteMetrics(s) \/ FinishCompleted(s) \/ FinishHandled(s)
    PROVE  AloneInv(s)'
<1> USE DEF TypeOK
<1>h. pc[s] \in Holding /\ cur[s] \in Runs
  BY Vocabulary DEF ReadSamples, WriteMetrics, FinishCompleted, FinishHandled, At, Finishing,
                    ControlOK
<1>1. CASE ReadSamples(s)
  <2>1. /\ pc[s] = "aggregate" /\ pc'[s] = "write_metrics" /\ snap'[s] = samples[cur[s]]
        /\ UNCHANGED <<stored, cur, test, case, already>>
    BY <1>1 DEF ReadSamples, At, Go, ControlOK, ProgressOK
  <2>q. QED
    BY <2>1, Vocabulary
    DEF AloneInv, HeldIsLive, LoopIsOrdered, PastTests, CasesAreKnown, SnapIsWhole,
        RowsAreTrue, CompletedIsWhole, stored
<1>2. CASE WriteMetrics(s)
  <2>1. /\ pc[s] = "write_metrics" /\ pc'[s] = "complete" /\ metrics'[cur[s]] = snap[s]
        /\ \A q \in Runs : q # cur[s] => metrics'[q] = metrics[q]
        /\ UNCHANGED <<status, tests, samples, cur, test, case, already, snap>>
    BY <1>2, <1>h DEF WriteMetrics, Go, ControlOK, StoredOK
  <2>2. HeldIsLive(s)' /\ LoopIsOrdered(s)' /\ CasesAreKnown(s)' /\ SnapIsWhole(s)'
    BY <2>1, Vocabulary
    DEF AloneInv, HeldIsLive, LoopIsOrdered, PastTests, CasesAreKnown, SnapIsWhole
  <2>3. RowsAreTrue' /\ CompletedIsWhole'
    BY <1>h, <2>1, Vocabulary, MeasuringTouchesItsOwn DEF AloneInv, RowsAreTrue
  <2>q. QED BY <2>2, <2>3 DEF AloneInv
<1>3. CASE FinishCompleted(s)
  <2>1. CASE status[cur[s]] \in TerminalRun
    BY <1>3, <1>h, <2>1, LettingGoKeepsAlone DEF FinishCompleted
  <2>2. CASE status[cur[s]] \notin TerminalRun /\ FinishAllowed(status[cur[s]], "completed")
    <3>1. WriteTerminal(cur[s], "completed") /\ Release(s, "idle") /\ pc[s] = "complete"
          /\ UNCHANGED <<samples, metrics>>
      BY <1>3, <2>2 DEF FinishCompleted
    <3>2. (\A t \in Tests : HasEnded(tests[cur[s]][t])) /\ metrics[cur[s]] = samples[cur[s]]
      BY <3>1, Vocabulary DEF AloneInv, LoopIsOrdered, PastTests, SnapIsWhole
    <3>q. QED BY <1>h, <2>2, <3>1, <3>2, Vocabulary, LettingGoKeepsAlone
  <2>3. CASE status[cur[s]] \notin TerminalRun /\ ~FinishAllowed(status[cur[s]], "completed")
    BY <1>3, <1>h, <2>3, Vocabulary, GoKeepsAlone DEF FinishCompleted, Go, Finishing, stored
  <2>q. QED BY <2>1, <2>2, <2>3
<1>4. CASE FinishHandled(s)
  <2> DEFINE target == IF pc[s] = "stopping" THEN "cancelled" ELSE "failed"
  <2>1. FinishAllowed(status[cur[s]], target) => status[cur[s]] \notin {"completed", "cancelled"}
    BY DEF FinishAllowed, LegalRun, RunTransitions
  <2>2. /\ target \in {"failed", "cancelled"} /\ Release(s, "idle") /\ UNCHANGED <<samples, metrics>>
        /\ IF FinishAllowed(status[cur[s]], target)
           THEN WriteTerminal(cur[s], target) ELSE UNCHANGED <<status, ended, tests>>
    BY <1>4 DEF FinishHandled
  <2> HIDE DEF target
  <2>q. QED BY <1>h, <2>1, <2>2, LettingGoKeepsAlone
<1>q. QED BY <1>1, <1>2, <1>3, <1>4

\* The scheduler of the one server, and what may go wrong in it.
LEMMA SchedulerKeepsAlone ==
    ASSUME TypeOK, NEW s \in Procs, AloneInv(s), Claim(s) \/ StartServer(s) \/ Fault(s)
    PROVE  AloneInv(s)'
<1> USE DEF TypeOK
<1>1. CASE Claim(s)
  <2>1. PICK r \in Runs : ClaimNextQueued(s, r)
    BY <1>1 DEF Claim
  <2>2. /\ pc[s] = "idle" /\ pc'[s] = "claimed" /\ cur'[s] = r
        /\ status[r] = "queued" /\ status'[r] = "preparing"
        /\ \A q \in Runs : q # r => status'[q] = status[q]
        /\ UNCHANGED <<tests, samples, metrics, test, case, already, snap>>
    BY <2>1 DEF ClaimNextQueued, Oldest, SetStatus, Go, ControlOK, StoredOK
  <2>3. HeldIsLive(s)' /\ LoopIsOrdered(s)' /\ CasesAreKnown(s)' /\ SnapIsWhole(s)'
    BY <2>2, Vocabulary
    DEF AloneInv, HeldIsLive, LoopIsOrdered, CasesAreKnown, SnapIsWhole, ActiveRun, Finishing
  <2>4. RowsAreTrue' /\ CompletedIsWhole'
    BY <2>2 DEF AloneInv, RowsAreTrue, CompletedIsWhole
  <2>q. QED BY <2>3, <2>4 DEF AloneInv
<1>2. CASE StartServer(s)
  <2>1. /\ pc[s] = "down" /\ pc'[s] = "idle"
        /\ \A q \in Runs : /\ status[q] \in {"cancelled", "completed"} => status'[q] = status[q]
                           /\ status'[q] = "completed" => status[q] = "completed"
        /\ UNCHANGED <<tests, samples, metrics, cur, test, case, already, snap>>
    BY <1>2 DEF StartServer, Orphans, ActiveRun, Go, ControlOK, StoredOK
  <2>2. HeldIsLive(s)' /\ LoopIsOrdered(s)' /\ CasesAreKnown(s)' /\ SnapIsWhole(s)'
    BY <2>1, Vocabulary
    DEF AloneInv, HeldIsLive, LoopIsOrdered, CasesAreKnown, SnapIsWhole, Finishing
  <2>3. RowsAreTrue' /\ CompletedIsWhole'
    BY <2>1 DEF AloneInv, RowsAreTrue, CompletedIsWhole
  <2>q. QED BY <2>2, <2>3 DEF AloneInv
<1>3. CASE StartServerUnrecovered(s)
  <2>1. pc[s] = "down" /\ pc'[s] = "idle" /\ UNCHANGED <<stored, cur, test, case, already, snap>>
    BY <1>3 DEF StartServerUnrecovered, Go, ControlOK
  <2>q. QED
    BY <2>1, Vocabulary
    DEF AloneInv, HeldIsLive, LoopIsOrdered, CasesAreKnown, SnapIsWhole, Finishing,
        RowsAreTrue, CompletedIsWhole, stored
<1>4. CASE LeaveRunOnce(s) \/ HandlerRaises(s) \/ Crash(s)
  <2>1. PICK l \in {"idle", "down"} : Release(s, l)
    BY <1>4 DEF LeaveRunOnce, HandlerRaises, Crash
  <2>2. UNCHANGED stored
    BY <1>4 DEF LeaveRunOnce, HandlerRaises, Crash
  <2>3. pc'[s] = l /\ test'[s] = 1
    BY <2>1 DEF Release, Go, ControlOK, ProgressOK
  <2>q. QED
    BY <2>2, <2>3, Vocabulary, Locations
    DEF AloneInv, HeldIsLive, LoopIsOrdered, CasesAreKnown, SnapIsWhole, RowsAreTrue,
        CompletedIsWhole, stored
<1>5. CASE TestRaises(s)
  <2>1. /\ pc[s] \in {"case", "store"} /\ pc'[s] = "fail_test"
        /\ UNCHANGED <<stored, cur, test, case, already, snap>>
    BY <1>5 DEF TestRaises, InsideTest, Go, ControlOK
  <2>q. QED
    BY <2>1, Vocabulary
    DEF AloneInv, HeldIsLive, LoopIsOrdered, PastTests, CasesAreKnown, SnapIsWhole, RowsAreTrue,
        CompletedIsWhole, stored
<1>6. CASE RunRaises(s)
  BY <1>6, Locations, Vocabulary, GoKeepsAlone DEF RunRaises, Go, Finishing
<1>q. QED BY <1>1, <1>2, <1>3, <1>4, <1>5, <1>6 DEF Fault

\* Every behaviour of the restricted specification is one of the engine.
LEMMA RestrictionTyping == MCSpec => []TypeOK
<1>1. MCInit => Init
  BY DEF MCInit
<1>2. [MCNext]_<<shared, vars>> => [Next]_vars
  BY DEF MCNext
<1>q. QED BY <1>1, <1>2, Typing, PTL DEF MCSpec, Spec

\* One server alone keeps what its executor remembers true of what is stored.
LEMMA AloneIsInvariant ==
    ASSUME NEW s, Servers = {s}
    PROVE  MCSpec => [](shared \/ (AloneInv(s) /\ ClisIdle))
<1>s. s \in Procs /\ s \in Servers
  BY DEF Procs
<1>1. MCInit => shared \/ (AloneInv(s) /\ ClisIdle)
  BY <1>s, Vocabulary, ConstantsAssumption
  DEF MCInit, Init, AloneInv, HeldIsLive, LoopIsOrdered, CasesAreKnown, SnapIsWhole, RowsAreTrue,
      CompletedIsWhole, ClisIdle, Finishing, Procs
<1>2. TypeOK /\ (shared \/ (AloneInv(s) /\ ClisIdle)) /\ [MCNext]_<<shared, vars>>
        => (shared \/ (AloneInv(s) /\ ClisIdle))'
  <2> SUFFICES ASSUME TypeOK, ~shared, AloneInv(s), ClisIdle, MCNext
               PROVE  AloneInv(s)' /\ ClisIdle'
    <3>1. MCNext => UNCHANGED shared
      BY DEF MCNext
    <3>2. UNCHANGED <<shared, vars>> /\ AloneInv(s) /\ ClisIdle => AloneInv(s)' /\ ClisIdle'
      BY DEF AloneInv, HeldIsLive, LoopIsOrdered, CasesAreKnown, SnapIsWhole, RowsAreTrue,
             CompletedIsWhole, ClisIdle, vars, stored, local
    <3>q. QED BY <3>1, <3>2
  <2>1. /\ \/ \E r \in Runs : Request(r)
           \/ Execute(s) \/ Claim(s) \/ StartServer(s) \/ Fault(s)
        /\ ClisIdle'
    BY OnlyTheServerMoves
  <2>q. QED
    BY <1>s, <2>1, RequestKeepsAlone, PhasesKeepAlone, TestsKeepAlone, EndingKeepsAlone,
       SchedulerKeepsAlone DEF Execute
<1>q. QED BY <1>1, <1>2, RestrictionTyping, PTL DEF MCSpec

\* Of one server, whatever is cancelled, resumed, dies, is recovered or raises: a run
\* that completed has an ended test in every row, every sample of a completed test
\* and metrics of all of them, and no call is made for a sample already stored.
THEOREM MeasurementExact ==
    ASSUME NEW s, Servers = {s}
    PROVE  MCSpec => []MeasurementIsExact
<1>1. TypeOK /\ (shared \/ (AloneInv(s) /\ ClisIdle)) => MeasurementIsExact
  <2> SUFFICES ASSUME TypeOK, AloneInv(s), ClisIdle PROVE CompletedIsWhole /\ NothingMeasuredTwice
    BY DEF MeasurementIsExact
  <2>1. \A p \in Procs : pc[p] = "store" => p = s
    BY DEF Procs, ClisIdle
  <2>2. pc[s] = "store" => <<test[s], case[s]>> \notin samples[cur[s]]
    BY DEF AloneInv, CasesAreKnown, TypeOK, ProgressOK, Procs, Cases
  <2>q. QED BY <2>1, <2>2 DEF AloneInv, NothingMeasuredTwice
<1>q. QED BY <1>1, AloneIsInvariant, RestrictionTyping, PTL

\* Of one server: a run that has ended keeps its samples and its metrics, although a
\* cancel may end it while its executor is on its way to the next check.
THEOREM EndedDataIsKept ==
    ASSUME NEW s, Servers = {s}
    PROVE  MCSpec => ServedRunKeepsItsData
<1>s. s \in Procs
  BY DEF Procs
<1>1. TypeOK /\ (shared \/ (AloneInv(s) /\ ClisIdle)) /\ [MCNext]_<<shared, vars>>
        => [shared \/ EndedIsLeftAlone]_vars
  <2> SUFFICES ASSUME TypeOK, ~shared, AloneInv(s), ClisIdle, MCNext PROVE EndedIsLeftAlone
    OBVIOUS
  <2>1. CASE StoreSample(s) \/ WriteMetrics(s)
    <3>1. cur[s] \in Runs /\ status[cur[s]] \notin TerminalRun
      BY <1>s, <2>1, Vocabulary
      DEF StoreSample, WriteMetrics, AloneInv, HeldIsLive, TypeOK, ControlOK
    <3>2. \A q \in Runs : q # cur[s] => samples'[q] = samples[q] /\ metrics'[q] = metrics[q]
      BY <2>1 DEF StoreSample, WriteMetrics, TypeOK, StoredOK
    <3>q. QED BY <3>1, <3>2 DEF EndedIsLeftAlone
  <2>2. CASE UNCHANGED <<samples, metrics>>
    BY <2>2 DEF EndedIsLeftAlone
  <2>3. ASSUME ~StoreSample(s), ~WriteMetrics(s) PROVE UNCHANGED <<samples, metrics>>
    BY <2>3, OnlyTheServerMoves
    DEF Request, CreateRun, CancelRun, ResumeRun, Execute, EnterExecuteRun, CheckCancelled,
        PassPhase, Prepare, Warm, StartTests, PassOverTest, EnterTest, SkipStoredCase, Generate,
        FinishTest, ReadSamples, FinishCompleted, FinishHandled, Claim, ClaimNextQueued,
        StartServer, Fault, StartServerUnrecovered, LeaveRunOnce, TestRaises, RunRaises,
        HandlerRaises, Crash, stored
  <2>q. QED BY <2>1, <2>2, <2>3
<1>q. QED BY <1>1, AloneIsInvariant, RestrictionTyping, PTL DEF MCSpec, ServedRunKeepsItsData
-----------------------------------------------------------------------------
(* Nothing but a late cancel strands the slot.                              *)

\* An executor that keeps its run holds what it held, and so do the others.
LEMMA KeepingHolds ==
    ASSUME TypeOK, OnlyLateCancelStrands, NEW p \in Procs,
           pc[p] \in Holding, pc'[p] \in Holding,
           \A q \in Procs : q # p => pc'[q] = pc[q],
           \A r \in Runs : r # cur[p] => status'[r] = status[r],
           UNCHANGED cur
    PROVE  OnlyLateCancelStrands'
BY Locations DEF OnlyLateCancelStrands, Holds, Procs

\* An executor lets go of a run that a late cancel holds, or that left the slot, or
\* dies as a server.
LEMMA LettingGoStrandsNothing ==
    ASSUME TypeOK, OnlyLateCancelStrands, NEW p \in Procs, NEW l \in {"idle", "down"},
           pc[p] # "down", Release(p, l),
           (l = "down" /\ p \in Servers)
             \/ (pc[p] \in Holding => status'[cur[p]] \notin ActiveRun \ {"cancelling"}),
           \A r \in Runs : r # cur[p] => status'[r] = status[r]
    PROVE  OnlyLateCancelStrands'
<1>1. /\ pc'[p] = l
      /\ \A q \in Procs : q # p => pc'[q] = pc[q] /\ cur'[q] = cur[q]
  BY DEF Release, Go, TypeOK, ControlOK
<1>2. CASE l = "down" /\ p \in Servers
  BY <1>1, <1>2 DEF OnlyLateCancelStrands
<1>3. CASE pc[p] \in Holding => status'[cur[p]] \notin ActiveRun \ {"cancelling"}
  <2> SUFFICES ASSUME NEW r \in Runs, status'[r] \in ActiveRun \ {"cancelling"}
               PROVE  \/ \E q \in Procs : Holds(q, r)'
                      \/ \E q \in Servers : pc'[q] = "down"
    BY DEF OnlyLateCancelStrands
  <2>1. ~(pc[p] \in Holding /\ cur[p] = r)
    BY <1>3
  <2>2. status[r] \in ActiveRun \ {"cancelling"}
    <3>1. pc[p] \notin Holding => cur[p] \notin Runs
      BY DEF TypeOK, ControlOK
    <3>q. QED BY <2>1, <3>1
  <2>3. CASE \E q \in Procs : Holds(q, r)
    BY <1>1, <2>1, <2>3 DEF Holds
  <2>4. CASE \E q \in Servers : pc[q] = "down"
    BY <1>1, <2>4 DEF Procs
  <2>q. QED BY <2>2, <2>3, <2>4 DEF OnlyLateCancelStrands
<1>q. QED BY <1>2, <1>3

LEMMA ExecuteStrandsNothing ==
    ASSUME TypeOK, OnlyLateCancelStrands, NEW p \in Procs, Execute(p)
    PROVE  OnlyLateCancelStrands'
<1> USE DEF TypeOK
<1>h. pc[p] \in Holding /\ cur[p] \in Runs
  BY Locations
  DEF Execute, EnterExecuteRun, CheckCancelled, PassPhase, Prepare, Warm, StartTests,
      PassOverTest, EnterTest, SkipStoredCase, Generate, StoreSample, FinishTest, ReadSamples,
      WriteMetrics, FinishCompleted, FinishHandled, At, ControlOK
<1>1. CASE FinishCompleted(p) /\ Release(p, "idle")
  <2>1. \/ status[cur[p]] \in TerminalRun /\ UNCHANGED status
        \/ SetStatus(cur[p], "completed")
    BY <1>1 DEF FinishCompleted, WriteTerminal, Release, Go, ControlOK
  <2>2. /\ status'[cur[p]] \notin ActiveRun
        /\ \A r \in Runs : r # cur[p] => status'[r] = status[r]
    BY <1>h, <2>1, Vocabulary DEF SetStatus, StoredOK, ActiveRun
  <2>q. QED BY <1>1, <1>h, <2>2, LettingGoStrandsNothing, Locations
<1>2. CASE FinishHandled(p)
  <2> DEFINE target == IF pc[p] = "stopping" THEN "cancelled" ELSE "failed"
  <2>1. CASE FinishAllowed(status[cur[p]], target)
    <3>1. SetStatus(cur[p], target) /\ target \in {"failed", "cancelled"}
      BY <1>2, <2>1 DEF FinishHandled, WriteTerminal
    <3>2. /\ status'[cur[p]] \notin ActiveRun
          /\ \A r \in Runs : r # cur[p] => status'[r] = status[r]
      BY <1>h, <3>1 DEF SetStatus, StoredOK, ActiveRun
    <3>q. QED BY <1>2, <1>h, <3>2, LettingGoStrandsNothing, Locations DEF FinishHandled
  <2>2. CASE ~FinishAllowed(status[cur[p]], target)
    <3>1. status[cur[p]] \notin ActiveRun \ {"cancelling"}
      BY <2>2 DEF FinishAllowed, LegalRun, RunTransitions, RunStatus, ActiveRun
    <3>2. UNCHANGED status
      BY <1>2, <2>2 DEF FinishHandled
    <3>q. QED BY <1>2, <1>h, <3>1, <3>2, LettingGoStrandsNothing, Locations DEF FinishHandled
  <2>q. QED BY <2>1, <2>2
<1>3. CASE ~FinishHandled(p) /\ ~(FinishCompleted(p) /\ Release(p, "idle"))
  <2>1. \E l \in Holding : pc' = [pc EXCEPT ![p] = l]
    <3>1. CASE CheckCancelled(p)
      BY <3>1, <1>h, Locations DEF CheckCancelled, Go, ControlOK
    <3>2. CASE ~CheckCancelled(p)
      BY <1>3, <1>h, <3>2, Locations
      DEF Execute, EnterExecuteRun, PassPhase, Prepare, Warm, StartTests, Transition, PassOverTest,
          EnterTest, SkipStoredCase, Generate, StoreSample, FinishTest, ReadSamples, WriteMetrics,
          FinishCompleted, NextTest, NextCase, Go, At
    <3>q. QED BY <3>1, <3>2
  <2>2. UNCHANGED cur
    BY <1>3
    DEF Execute, EnterExecuteRun, CheckCancelled, PassPhase, Prepare, Warm, StartTests,
        PassOverTest, EnterTest, SkipStoredCase, Generate, StoreSample, FinishTest, ReadSamples,
        WriteMetrics, FinishCompleted
  <2>3. \A r \in Runs : r # cur[p] => status'[r] = status[r]
    BY <1>3, <1>h
    DEF Execute, EnterExecuteRun, CheckCancelled, PassPhase, Prepare, Warm, StartTests, Transition,
        SetStatus, PassOverTest, EnterTest, SkipStoredCase, Generate, StoreSample, FinishTest,
        ReadSamples, WriteMetrics, FinishCompleted, WriteTerminal, StoredOK, stored
  <2>q. QED BY <1>h, <2>1, <2>2, <2>3, KeepingHolds DEF ControlOK
<1>q. QED BY <1>1, <1>2, <1>3

\* With no exception raised and nothing typed into a terminal, a run stays in the slot
\* only while a server executes it, until a server that is down is started again, or
\* because a cancel was accepted too late; of any number of servers.
THEOREM SlotIsNotLost ==
    ASSUME MaxFaults = 0
    PROVE  MCFairSpec => []OnlyLateCancelStrands
<1> DEFINE Quiet == ~shared /\ ClisIdle
<1>1. MCFairInit => Quiet /\ OnlyLateCancelStrands
  BY ConstantsAssumption
  DEF MCFairInit, Init, ClisIdle, Procs, OnlyLateCancelStrands, ActiveRun
<1>2. TypeOK /\ Quiet /\ OnlyLateCancelStrands /\ [MCNext]_<<shared, vars>>
        => Quiet' /\ OnlyLateCancelStrands'
  <2> SUFFICES ASSUME TypeOK, Quiet, OnlyLateCancelStrands, [MCNext]_<<shared, vars>>
               PROVE  Quiet' /\ OnlyLateCancelStrands'
    OBVIOUS
  <2>1. Quiet'
    BY DEF MCNext, ClisIdle, vars, local
  <2>2. ASSUME NEW r \in Runs, Request(r) PROVE OnlyLateCancelStrands'
    <3>1. UNCHANGED <<pc, cur>>
      BY <2>2 DEF Request, CreateRun, CancelRun, ResumeRun, local
    <3>2. \A q \in Runs : status'[q] \in ActiveRun \ {"cancelling"} => status'[q] = status[q]
      BY <2>2 DEF Request, CreateRun, CancelRun, ResumeRun, SetStatus, CancellationTarget,
                  ActiveRun, TypeOK, StoredOK
    <3>q. QED BY <3>1, <3>2 DEF OnlyLateCancelStrands, Holds
  <2>3. ASSUME NEW p \in Procs, Claim(p) PROVE OnlyLateCancelStrands'
    <3>1. PICK r \in Runs : ClaimNextQueued(p, r)
      BY <2>3 DEF Claim
    <3>2. /\ pc[p] = "idle" /\ pc'[p] = "claimed" /\ cur'[p] = r
          /\ \A q \in Procs : q # p => pc'[q] = pc[q] /\ cur'[q] = cur[q]
          /\ \A q \in Runs : q # r => status'[q] = status[q]
      BY <3>1 DEF ClaimNextQueued, SetStatus, Go, TypeOK, ControlOK, StoredOK
    <3>q. QED BY <3>2, Locations DEF OnlyLateCancelStrands, Holds, Procs
  <2>4. ASSUME NEW p \in Procs, StartServer(p) PROVE OnlyLateCancelStrands'
    BY <2>4 DEF StartServer, Orphans, OnlyLateCancelStrands, ActiveRun
  <2>5. ASSUME NEW p \in Procs, Fault(p) PROVE OnlyLateCancelStrands'
    <3>1. Crash(p)
      BY <2>5, ConstantsAssumption
      DEF Fault, StartServerUnrecovered, LeaveRunOnce, TestRaises, RunRaises, HandlerRaises,
          TypeOK, BoundsOK
    <3>2. p \in Servers /\ pc[p] # "down"
      BY <3>1, Locations DEF Crash, Procs, ClisIdle
    <3>q. QED BY <3>1, <3>2, LettingGoStrandsNothing DEF Crash, stored
  <2>6. ASSUME NEW p \in Procs, Interrupt(p) PROVE FALSE
    BY <2>6, Locations DEF Interrupt, ClisIdle, Finishing
  <2>7. CASE UNCHANGED <<shared, vars>>
    BY <2>1, <2>7 DEF OnlyLateCancelStrands, Holds, vars, stored, local
  <2>8. ASSUME NEW p \in Procs, Execute(p) PROVE OnlyLateCancelStrands'
    BY <2>8, ExecuteStrandsNothing
  <2>9. Next => OnlyLateCancelStrands'
    BY <2>2, <2>3, <2>4, <2>5, <2>6, <2>8 DEF Next
  <2>q. QED
    BY <2>1, <2>7, <2>9 DEF MCNext
<1>3. MCFairSpec => MCSpec
  <2>1. MCFairInit => MCInit
    BY DEF MCFairInit, MCInit
  <2>q. QED BY <2>1, PTL DEF MCFairSpec, MCSpec
<1>q. QED BY <1>1, <1>2, <1>3, RestrictionTyping, PTL DEF MCFairSpec
=============================================================================
