----------------------------- MODULE RunEngine -----------------------------
(***************************************************************************)
(* The run engine: the database-backed queue, the scheduler that claims    *)
(* from it, the executor that takes a claimed run to a terminal status,    *)
(* and the request handlers that cancel and resume.  One action per        *)
(* database transaction (SQLite's BEGIN IMMEDIATE makes each atomic), so    *)
(* every interleaving of request threads and executors is here; what a     *)
(* process remembers between two transactions is a variable of its own and *)
(* is lost when it dies.                                                   *)
(*                                                                         *)
(* Servers recover orphans when they start and keep polling.  Clis are     *)
(* `freeweight run start` invocations: no recovery, one claim, exit.       *)
(* Events are left to RunEvents, the rounds of follow-up cases to          *)
(* ContextFit, the judging phase is left out.                              *)
(***************************************************************************)
EXTENDS RunState, Naturals, FiniteSets

CONSTANTS
    Runs,        \* run ids; their order is the order of created_at
    NoRun,       \* what a process holds when it holds no run
    Servers,     \* processes running the server with its scheduler thread
    Clis,        \* terminals in which `freeweight run start` may be typed
    LastTest,    \* the suite's tests are 1..LastTest, in execution order
    LastCase,    \* the cases of each test are 1..LastCase, in execution order
    MaxCrashes,  \* how many times a process may die
    MaxFaults    \* how many machinery exceptions may be raised

ASSUME ConstantsAssumption ==
    /\ Runs \subseteq Nat /\ NoRun \notin Runs
    /\ Servers \cap Clis = {}
    /\ LastTest \in Nat \ {0} /\ LastCase \in Nat \ {0}
    /\ MaxCrashes \in Nat /\ MaxFaults \in Nat

VARIABLES
    \* The database.
    status,      \* runs.status, "absent" before the run is created
    ended,       \* runs.completed_at is set
    tests,       \* run_tests.status of each test, "absent" before _prepare
    samples,     \* the stored (test, case) samples of each run
    metrics,     \* the samples the run's metric_values were computed from
    \* One executor per process.
    pc,          \* where it is
    cur,         \* the run it holds, NoRun when it holds none
    ready,       \* the cancellation check before this phase has passed
    test,        \* the test it is at
    case,        \* the case it is at inside that test
    already,     \* existing_keys as read when the test was entered
    snap,        \* the samples read by _aggregate_run
    \* Bounds.
    crashes, faults

stored == <<status, ended, tests, samples, metrics>>
local  == <<pc, cur, ready, test, case, already, snap>>
bounds == <<crashes, faults>>
vars   == <<stored, local, bounds>>

Procs == Servers \cup Clis
Tests == 1..LastTest
Cases == 1..LastCase
Keys  == Tests \X Cases

\* Phases entered through _check_cancelled.
Guarded == {"calibrate", "settle", "prepare", "warming", "running", "tests",
            "case", "aggregate"}
\* Phases whose exceptions the test's own handler contains.
InsideTest == {"case", "store"}
\* Phases whose exceptions reach execute_run's handler.
OutsideTest == {"starting", "write_metrics", "complete", "pass_test", "fail_test"}
               \cup (Guarded \ InsideTest)
\* The three handlers of execute_run.
Finishing == {"stopping", "failing"}
\* Where a process holds a run.
Holding  == {"claimed"} \cup InsideTest \cup OutsideTest \cup Finishing
Location == Holding \cup {"idle", "down"}

StoredOK ==
    /\ status \in [Runs -> RunStatus \cup {"absent"}]
    /\ ended \in [Runs -> BOOLEAN]
    /\ tests \in [Runs -> [Tests -> TestStatus \cup {"absent"}]]
    /\ samples \in [Runs -> SUBSET Keys]
    /\ metrics \in [Runs -> SUBSET Keys]

ControlOK ==
    /\ pc \in [Procs -> Location]
    /\ cur \in [Procs -> Runs \cup {NoRun}]
    /\ ready \in [Procs -> BOOLEAN]
    /\ \A p \in Procs : cur[p] \in Runs <=> pc[p] \in Holding

ProgressOK ==
    /\ test \in [Procs -> Tests]
    /\ case \in [Procs -> Cases]
    /\ already \in [Procs -> SUBSET Cases]
    /\ snap \in [Procs -> SUBSET Keys]

BoundsOK == crashes \in 0..MaxCrashes /\ faults \in 0..MaxFaults

TypeOK == StoredOK /\ ControlOK /\ ProgressOK /\ BoundsOK

Init ==
    /\ status = [r \in Runs |-> "absent"]
    /\ ended = [r \in Runs |-> FALSE]
    /\ tests = [r \in Runs |-> [t \in Tests |-> "absent"]]
    /\ samples = [r \in Runs |-> {}]
    /\ metrics = [r \in Runs |-> {}]
    /\ pc = [p \in Procs |-> IF p \in Servers THEN "down" ELSE "idle"]
    /\ cur = [p \in Procs |-> NoRun]
    /\ ready = [p \in Procs |-> FALSE]
    /\ test = [p \in Procs |-> 1]
    /\ case = [p \in Procs |-> 1]
    /\ already = [p \in Procs |-> {}]
    /\ snap = [p \in Procs |-> {}]
    /\ crashes = 0
    /\ faults = 0
-----------------------------------------------------------------------------
(* Helpers.  A definition whose name ends in Bug is a faulty variant of the *)
(* one after it: a plausible slip that the properties below must notice.   *)

OccupiedBug == \E r \in Runs : status[r] \in ActiveRun \ {"cancelling"}

Occupied == \E r \in Runs : status[r] \in ActiveRun

Oldest(r) == /\ status[r] = "queued"
             /\ \A q \in Runs : status[q] = "queued" => r <= q

OrphansBug == {r \in Runs : status[r] \in ActiveRun \ {"warming"}}

Orphans == {r \in Runs : status[r] \in ActiveRun}

\* Control passes to phase l; the check in front of it has yet to run.
Go(p, l) == /\ pc' = [pc EXCEPT ![p] = l]
            /\ ready' = [ready EXCEPT ![p] = FALSE]

\* The executor is at phase l with the check, if there is one, behind it.
At(p, l) == pc[p] = l /\ (l \in Guarded => ready[p])

\* execute_run has returned or raised: everything it held is gone.
Release(p, l) ==
    /\ Go(p, l)
    /\ cur' = [cur EXCEPT ![p] = NoRun]
    /\ test' = [test EXCEPT ![p] = 1]
    /\ case' = [case EXCEPT ![p] = 1]
    /\ already' = [already EXCEPT ![p] = {}]
    /\ snap' = [snap EXCEPT ![p] = {}]

\* _cancel_pending_tests: the rows that exist and are not terminal.
CancelPendingTests(rows) ==
    [t \in Tests |-> IF rows[t] \in {"pending", "running"} THEN "cancelled" ELSE rows[t]]

SetStatus(r, s) == status' = [status EXCEPT ![r] = s]
-----------------------------------------------------------------------------
(* Requests.                                                               *)

\* create_run inserts the row; created_at grows with the id.
CreateRun(r) ==
    /\ status[r] = "absent"
    /\ \A q \in Runs : q < r => status[q] # "absent"
    /\ SetStatus(r, "queued")
    /\ UNCHANGED <<ended, tests, samples, metrics, local, bounds>>

\* A cancel of a run already cancelling is answered without a write.
CancelRun(r) ==
    /\ status[r] \in CancellableRun
    /\ LET target == CancellationTarget(status[r])
       IN  /\ SetStatus(r, target)
           /\ IF target = "cancelled"
              THEN /\ ended' = [ended EXCEPT ![r] = TRUE]
                   /\ tests' = [tests EXCEPT ![r] = CancelPendingTests(tests[r])]
              ELSE UNCHANGED <<ended, tests>>
    /\ UNCHANGED <<samples, metrics, local, bounds>>

\* completed_at is passed as None, which leaves the column alone.
ResumeRun(r) ==
    /\ status[r] \in RunStatus
    /\ LegalRun(status[r], "queued")
    /\ SetStatus(r, "queued")
    /\ UNCHANGED <<ended, tests, samples, metrics, local, bounds>>
-----------------------------------------------------------------------------
(* The scheduler.                                                          *)

\* recover: every run in an orphan status is interrupted, then the loop starts.
StartServer(p) ==
    /\ pc[p] = "down"
    /\ status' = [r \in Runs |-> IF r \in Orphans THEN "interrupted" ELSE status[r]]
    /\ ended' = [r \in Runs |-> r \in Orphans \/ ended[r]]
    /\ Go(p, "idle")
    /\ UNCHANGED <<tests, samples, metrics, cur, test, case, already, snap, bounds>>

\* start swallows a recovery that raised and starts the loop all the same.
StartServerUnrecovered(p) ==
    /\ pc[p] = "down"
    /\ faults < MaxFaults
    /\ faults' = faults + 1
    /\ Go(p, "idle")
    /\ UNCHANGED <<stored, cur, test, case, already, snap, crashes>>

\* claim_next_queued: nothing in flight anywhere, and the oldest queued run.
ClaimNextQueued(p, r) ==
    /\ pc[p] = "idle"
    /\ ~Occupied
    /\ Oldest(r)
    /\ SetStatus(r, "preparing")
    /\ cur' = [cur EXCEPT ![p] = r]
    /\ Go(p, "claimed")
    /\ UNCHANGED <<ended, tests, samples, metrics, test, case, already, snap, bounds>>

\* run_once builds the provider, registry and settings of this run.
EnterExecuteRun(p) ==
    /\ pc[p] = "claimed"
    /\ Go(p, "starting")
    /\ UNCHANGED <<stored, cur, test, case, already, snap, bounds>>

\* Only a SuiteError falls back; another exception leaves run_once, which the
\* loop logs, before execute_run's handlers are in force.
LeaveRunOnce(p) ==
    /\ pc[p] = "claimed"
    /\ faults < MaxFaults
    /\ faults' = faults + 1
    /\ Release(p, "idle")
    /\ UNCHANGED <<stored, crashes>>

\* The process dies, or is stopped while a run is in flight.
Crash(p) ==
    /\ pc[p] \in Holding \/ (p \in Servers /\ pc[p] = "idle")
    /\ crashes < MaxCrashes
    /\ crashes' = crashes + 1
    /\ Release(p, IF p \in Servers THEN "down" ELSE "idle")
    /\ UNCHANGED <<stored, faults>>
-----------------------------------------------------------------------------
(* The executor.  Each phase works on the run its process holds.           *)

StopRequestedBug(s) == s = "cancelled"

StopRequested(s) == s \in {"cancelling", "cancelled"}

\* _check_cancelled: a fresh read, and a requested stop unwinds the run.
CheckCancelled(p) ==
    /\ pc[p] \in Guarded /\ ~ready[p]
    /\ IF StopRequested(status[cur[p]])
       THEN Go(p, "stopping")
       ELSE /\ ready' = [ready EXCEPT ![p] = TRUE]
            /\ UNCHANGED pc
    /\ UNCHANGED <<stored, cur, test, case, already, snap, bounds>>

\* The phases that write nothing the model keeps: reading the context and
\* publishing run.started, measuring the sampling overhead, waiting for idle.
PassPhase(p) ==
    /\ \E step \in {<<"starting", "calibrate">>, <<"calibrate", "settle">>,
                    <<"settle", "prepare">>} :
           At(p, step[1]) /\ Go(p, step[2])
    /\ UNCHANGED <<stored, cur, test, case, already, snap, bounds>>

GetOrCreateBug(row) == "pending"

GetOrCreate(row) == IF row = "absent" THEN "pending" ELSE row

\* _prepare: a row per test; the rows found are left as they are.
Prepare(p) ==
    /\ At(p, "prepare")
    /\ tests' = [tests EXCEPT ![cur[p]] =
                    [t \in Tests |-> GetOrCreate(tests[cur[p]][t])]]
    /\ Go(p, "warming")
    /\ UNCHANGED <<status, ended, samples, metrics, cur, test, case, already, snap, bounds>>

\* _transition inside the executor: an illegal move is one more exception.
Transition(p, target, next) ==
    IF status[cur[p]] \in RunStatus /\ LegalRun(status[cur[p]], target)
    THEN SetStatus(cur[p], target) /\ Go(p, next)
    ELSE UNCHANGED status /\ Go(p, "failing")

\* The warm-up generations follow with no check in between and write nothing.
Warm(p) ==
    /\ At(p, "warming")
    /\ Transition(p, "warming", "running")
    /\ UNCHANGED <<ended, tests, samples, metrics, cur, test, case, already, snap, bounds>>

StartTests(p) ==
    /\ At(p, "running")
    /\ Transition(p, "running", "tests")
    /\ UNCHANGED <<ended, tests, samples, metrics, cur, test, case, already, snap, bounds>>

NextTestBug(p) ==
    IF test[p] <= LastTest
    THEN test' = [test EXCEPT ![p] = @ + 1] /\ Go(p, "tests")
    ELSE UNCHANGED test /\ Go(p, "aggregate")

\* On to the next test, or out of the loop over tests.
NextTest(p) ==
    IF test[p] < LastTest
    THEN test' = [test EXCEPT ![p] = @ + 1] /\ Go(p, "tests")
    ELSE UNCHANGED test /\ Go(p, "aggregate")

HasEnded(row) == row \in {"completed", "failed", "skipped", "cancelled"}

\* The first transaction of _execute_test on a test that has nothing to run: it
\* is terminal, or pending with a capability the provider does not declare.
PassOverTest(p) ==
    /\ At(p, "tests")
    /\ LET row == tests[cur[p]][test[p]]
       IN  \/ HasEnded(row) /\ UNCHANGED tests
           \/ row = "pending" /\ tests' = [tests EXCEPT ![cur[p]][test[p]] = "skipped"]
    /\ NextTest(p)
    /\ UNCHANGED <<status, ended, samples, metrics, cur, case, already, snap, bounds>>

StoredCasesBug(r, t) == {}

\* existing_keys of one test.
StoredCases(r, t) == {c \in Cases : <<t, c>> \in samples[r]}

\* The same transaction otherwise: a resumed test is already running, and the
\* samples it has are read once, here.
EnterTest(p) ==
    /\ At(p, "tests")
    /\ ~HasEnded(tests[cur[p]][test[p]])
    /\ tests' = [tests EXCEPT ![cur[p]][test[p]] = "running"]
    /\ already' = [already EXCEPT ![p] = StoredCases(cur[p], test[p])]
    /\ case' = [case EXCEPT ![p] = 1]
    /\ Go(p, "case")
    /\ UNCHANGED <<status, ended, samples, metrics, cur, test, snap, bounds>>

NextCase(p) ==
    IF case[p] < LastCase
    THEN case' = [case EXCEPT ![p] = @ + 1] /\ Go(p, "case")
    ELSE UNCHANGED case /\ Go(p, "pass_test")

\* A case answered before the interruption is not asked again.
SkipStoredCase(p) ==
    /\ At(p, "case") /\ case[p] \in already[p]
    /\ NextCase(p)
    /\ UNCHANGED <<stored, cur, test, already, snap, bounds>>

\* The provider call and the scoring: long, and outside any transaction.
Generate(p) ==
    /\ At(p, "case") /\ case[p] \notin already[p]
    /\ Go(p, "store")
    /\ UNCHANGED <<stored, cur, test, case, already, snap, bounds>>

\* The insert, refused by the unique key when another executor stored it first.
StoreSample(p) ==
    /\ pc[p] = "store"
    /\ LET key == <<test[p], case[p]>>
       IN  IF key \in samples[cur[p]]
           THEN Go(p, "fail_test") /\ UNCHANGED <<samples, case>>
           ELSE /\ samples' = [samples EXCEPT ![cur[p]] = @ \cup {key}]
                /\ NextCase(p)
    /\ UNCHANGED <<status, ended, tests, metrics, cur, test, already, snap, bounds>>

\* An exception inside the test fails the test and never the run.
TestRaises(p) ==
    /\ pc[p] \in InsideTest
    /\ faults < MaxFaults
    /\ faults' = faults + 1
    /\ Go(p, "fail_test")
    /\ UNCHANGED <<stored, cur, test, case, already, snap, crashes>>

\* The last transaction of _execute_test.
FinishTest(p) ==
    /\ pc[p] \in {"pass_test", "fail_test"}
    /\ LET target == IF pc[p] = "pass_test" THEN "completed" ELSE "failed"
           row == tests[cur[p]][test[p]]
       IN  IF row \in TestStatus /\ LegalTest(row, target)
           THEN /\ tests' = [tests EXCEPT ![cur[p]][test[p]] = target]
                /\ case' = [case EXCEPT ![p] = 1]
                /\ already' = [already EXCEPT ![p] = {}]
                /\ NextTest(p)
           ELSE Go(p, "failing") /\ UNCHANGED <<tests, test, case, already>>
    /\ UNCHANGED <<status, ended, samples, metrics, cur, snap, bounds>>

\* _aggregate_run reads the samples in one transaction ...
ReadSamples(p) ==
    /\ At(p, "aggregate")
    /\ snap' = [snap EXCEPT ![p] = samples[cur[p]]]
    /\ Go(p, "write_metrics")
    /\ UNCHANGED <<stored, cur, test, case, already, bounds>>

\* ... and replaces the run's metric values in another.
WriteMetrics(p) ==
    /\ pc[p] = "write_metrics"
    /\ metrics' = [metrics EXCEPT ![cur[p]] = snap[p]]
    /\ Go(p, "complete")
    /\ UNCHANGED <<status, ended, tests, samples, cur, test, case, already, snap, bounds>>

\* _finish: what it writes when it moves the run, and what it does otherwise.
\* running -> cancelled passes through cancelling in the same transaction.
FinishAllowed(current, target) ==
    \/ current \in RunStatus /\ LegalRun(current, target)
    \/ current = "running" /\ target = "cancelled"

WriteTerminal(r, target) ==
    /\ SetStatus(r, target)
    /\ ended' = [ended EXCEPT ![r] = TRUE]
    /\ IF target = "cancelled"
       THEN tests' = [tests EXCEPT ![r] = CancelPendingTests(tests[r])]
       ELSE UNCHANGED tests

\* _finish(COMPLETED): an illegal move raises into execute_run's handler.
FinishCompleted(p) ==
    /\ pc[p] = "complete"
    /\ IF status[cur[p]] \in TerminalRun
       THEN Release(p, "idle") /\ UNCHANGED <<status, ended, tests>>
       ELSE IF FinishAllowed(status[cur[p]], "completed")
            THEN WriteTerminal(cur[p], "completed") /\ Release(p, "idle")
            ELSE /\ Go(p, "failing")
                 /\ UNCHANGED <<status, ended, tests, cur, test, case, already, snap>>
    /\ UNCHANGED <<samples, metrics, bounds>>

\* _finish inside a handler: an illegal move raises out of execute_run.  The
\* scheduler's loop logs it and a terminal prints it; the row stays as it was.
FinishHandled(p) ==
    /\ pc[p] \in Finishing
    /\ LET target == IF pc[p] = "stopping" THEN "cancelled" ELSE "failed"
       IN  IF FinishAllowed(status[cur[p]], target)
           THEN WriteTerminal(cur[p], target)
           ELSE UNCHANGED <<status, ended, tests>>
    /\ Release(p, "idle")
    /\ UNCHANGED <<samples, metrics, bounds>>

\* Any exception outside a test fails the run.
RunRaises(p) ==
    /\ pc[p] \in OutsideTest
    /\ faults < MaxFaults
    /\ faults' = faults + 1
    /\ Go(p, "failing")
    /\ UNCHANGED <<stored, cur, test, case, already, snap, crashes>>

\* An exception inside a handler leaves execute_run.
HandlerRaises(p) ==
    /\ pc[p] \in Finishing
    /\ faults < MaxFaults
    /\ faults' = faults + 1
    /\ Release(p, "idle")
    /\ UNCHANGED <<stored, crashes>>

\* Ctrl-C reaches the main thread, which executes runs only in a terminal.  Its
\* handler is in force only between the two ends of execute_run.
Interrupt(p) ==
    /\ p \in Clis
    /\ \/ /\ pc[p] \in InsideTest \cup OutsideTest
          /\ Go(p, "stopping")
          /\ UNCHANGED <<cur, test, case, already, snap>>
       \/ /\ pc[p] \in {"claimed"} \cup Finishing
          /\ Release(p, "idle")
    /\ UNCHANGED <<stored, bounds>>
-----------------------------------------------------------------------------
\* What a process does of its own accord once it holds a run.
Execute(p) ==
    \/ EnterExecuteRun(p) \/ CheckCancelled(p) \/ PassPhase(p) \/ Prepare(p)
    \/ Warm(p) \/ StartTests(p) \/ PassOverTest(p) \/ EnterTest(p)
    \/ SkipStoredCase(p) \/ Generate(p) \/ StoreSample(p) \/ FinishTest(p)
    \/ ReadSamples(p) \/ WriteMetrics(p) \/ FinishCompleted(p) \/ FinishHandled(p)

Claim(p) == \E r \in Runs : ClaimNextQueued(p, r)

Fault(p) == \/ StartServerUnrecovered(p) \/ LeaveRunOnce(p) \/ TestRaises(p)
            \/ RunRaises(p) \/ HandlerRaises(p) \/ Crash(p)

Request(r) == CreateRun(r) \/ CancelRun(r) \/ ResumeRun(r)

Next == \/ \E r \in Runs : Request(r)
        \/ \E p \in Procs : Execute(p) \/ Claim(p) \/ StartServer(p) \/ Fault(p) \/ Interrupt(p)

Spec == Init /\ [][Next]_vars

\* The scheduler thread runs, its loop polls, and a stopped server is started
\* again.  Nobody has to type a command, cancel or resume anything.
Fairness == \A p \in Servers : WF_vars(Execute(p)) /\ WF_vars(Claim(p)) /\ WF_vars(StartServer(p))

FairSpec == Spec /\ Fairness
-----------------------------------------------------------------------------
(* Safety.                                                                 *)

\* Process p is executing run r.
Holds(p, r) == pc[p] \in Holding /\ cur[p] = r

\* The stored status column implements RunLifecycle: whatever requests, claims,
\* recoveries and executors of any number of processes do, every write is a move
\* of the table and the slot is entered only when free, by the oldest in the queue.
Lifecycle == INSTANCE RunLifecycle WITH Runs <- Runs, status <- status
RefinesLifecycle == Lifecycle!LifecycleSpec

\* At most one run is in a status that occupies the execution slot, with any
\* number of schedulers polling (claim_next_queued).
OneSlot == Lifecycle!OneSlot

\* A completed run is complete: every test reached an end of its own, a test that
\* completed has a sample of every case, and the metric values were computed from
\* all the samples there are, however often the run was interrupted and resumed.
CompletedIsWhole ==
    \A r \in Runs : status[r] = "completed" =>
        /\ \A t \in Tests : tests[r][t] \in {"completed", "failed", "skipped"}
        /\ \A t \in Tests : tests[r][t] = "completed" => {t} \X Cases \subseteq samples[r]
        /\ metrics[r] = samples[r]

\* A sample that is stored is never measured again: a resumed run pays only for
\* what it lost, and no provider call ends in a refused insert.
NothingMeasuredTwice ==
    \A p \in Procs : pc[p] = "store" => <<test[p], case[p]>> \notin samples[cur[p]]

\* Nothing is added to, or recomputed of, a run that has ended.
EndedIsLeftAlone ==
    \A r \in Runs : status[r] \in TerminalRun => samples'[r] = samples[r] /\ metrics'[r] = metrics[r]

\* A terminal run keeps its measurement: no executor still on its way to its next
\* check stores a sample or rewrites the metrics of a run that has ended.
EndedRunKeepsItsData == [][EndedIsLeftAlone]_vars

\* Cancelling, failing, dying and resuming discard nothing: samples are only added
\* and a test that ended keeps the status it ended with.
NothingMeasuredIsLost ==
    [][\A r \in Runs :
          /\ samples[r] \subseteq samples'[r]
          /\ \A t \in Tests : tests[r][t] \in TerminalTest => tests'[r][t] = tests[r][t]]_vars

\* With no machinery exception, the slot is only ever left occupied by nobody by a
\* cancel that was accepted too late; otherwise it is held, or a start frees it.
OnlyLateCancelStrands ==
    \A r \in Runs : status[r] \in ActiveRun \ {"cancelling"} =>
        \/ \E p \in Procs : Holds(p, r)
        \/ \E p \in Servers : pc[p] = "down"

\* Two terminals never execute the same run, and at most one of the runs being
\* executed is one that still occupies the slot.
OneHolderOfSlot ==
    \A p, q \in Procs : pc[p] \in Holding /\ pc[q] \in Holding /\ p # q =>
        /\ cur[p] # cur[q]
        /\ ~(status[cur[p]] \in ActiveRun /\ status[cur[q]] \in ActiveRun)
-----------------------------------------------------------------------------
(* Liveness.                                                               *)

\* A cancelling run that no process is executing.
Stranded(r) == status[r] = "cancelling" /\ ~ \E p \in Procs : Holds(p, r)

\* The queue drains: a queued run is claimed or cancelled, unless a late cancel
\* stranded a run in the slot.
QueueDrains ==
    \A r \in Runs :
        status[r] = "queued" ~> (status[r] # "queued" \/ \E q \in Runs : Stranded(q))

\* The executor of r has a cancellation check ahead of it.
CheckAhead(r) ==
    \E p \in Procs :
        /\ Holds(p, r)
        /\ \/ pc[p] \in {"claimed", "starting", "store", "pass_test", "fail_test"}
           \/ pc[p] \in Guarded /\ ~(pc[p] = "aggregate" /\ ready[p])

\* A cancel accepted with a check still ahead of the executor ends the run, unless
\* the process dies first and recovery interrupts it.
CancelIsHonoured ==
    \A r \in Runs : (status[r] = "cancelling" /\ CheckAhead(r))
                       ~> status[r] \in {"cancelled", "interrupted"}
-----------------------------------------------------------------------------
(* What the repository says of the program and the code does not do.  Two  *)
(* are refuted by runs, the others with the constants the README gives.    *)

\* cancel_run: the request/boundary protocol is what keeps a run from being stuck
\* in cancelling forever.
NoRunStuckCancelling == \A r \in Runs : status[r] = "cancelling" ~> status[r] # "cancelling"

\* _cancel_pending_tests: every non-terminal test of a cancelled run is cancelled,
\* asked only of a run whose executor has let go of it.
CancelledRunHasNoOpenTest ==
    \A r \in Runs : status[r] = "cancelled" /\ ~ (\E p \in Procs : Holds(p, r)) =>
        \A t \in Tests : tests[r][t] \notin {"pending", "running"}

\* mark_orphans_interrupted: a run found in an orphan status at startup was left
\* by a process that died.
RecoveryTakesOnlyTheDead ==
    [][\A r \in Runs : status[r] \in ActiveRun /\ status'[r] = "interrupted" =>
          ~ \E p \in Procs : Holds(p, r)]_vars

\* claim_next_queued: one GPU workload at a time, whatever is typed into a terminal.
OneWorkloadAtATime ==
    \A p, q \in Procs : pc[p] \in Holding /\ pc[q] \in Holding => p = q

\* mark_orphans_interrupted: resuming clears completed_at.
ResumingClearsCompletedAt == \A r \in Runs : status[r] = "queued" => ~ended[r]

\* SchedulerLoop.start: after a recovery that failed, the queue is picked up again
\* without a restart.
QueueSurvivesFailedRecovery ==
    \A r \in Runs : status[r] = "queued" ~> status[r] # "queued"
=============================================================================
