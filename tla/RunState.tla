------------------------------ MODULE RunState ------------------------------
(***************************************************************************)
(* The status vocabularies of runs and of the tests inside a run, and the  *)
(* tables that say which moves are legal (domain/run_state.py).  Constant  *)
(* operators only: every module that keeps a status extends this one.      *)
(***************************************************************************)

RunStatus == {"queued", "preparing", "warming", "running", "cancelling",
              "completed", "failed", "cancelled", "interrupted"}

TestStatus == {"pending", "running", "completed", "failed", "skipped", "cancelled"}

\* The table as the code writes it, the queued -> interrupted entry included.
RunTransitions ==
    [queued      |-> {"preparing", "cancelled", "interrupted"},
     preparing   |-> {"warming", "failed", "cancelled", "interrupted"},
     warming     |-> {"running", "failed", "cancelled", "interrupted"},
     running     |-> {"completed", "failed", "cancelling", "interrupted"},
     cancelling  |-> {"cancelled", "interrupted"},
     interrupted |-> {"queued"},
     completed   |-> {},
     failed      |-> {},
     cancelled   |-> {}]

TestTransitions ==
    [pending   |-> {"running", "skipped", "cancelled"},
     running   |-> {"completed", "failed", "cancelled"},
     completed |-> {},
     failed    |-> {},
     skipped   |-> {},
     cancelled |-> {}]

\* Derived from the tables, never restated beside them.
TerminalRun  == {s \in RunStatus : RunTransitions[s] = {}}
TerminalTest == {s \in TestStatus : TestTransitions[s] = {}}

LegalRun(from, to)  == to \in RunTransitions[from]
LegalTest(from, to) == to \in TestTransitions[from]

\* Faulty: an interrupted run accepts a cancel.
CancellableRunBug == {"queued", "preparing", "warming", "running", "interrupted"}

CancellableRun == {"queued", "preparing", "warming", "running"}

\* Faulty: a running run is cancelled outright, under its executor.
CancellationTargetBug(s) == "cancelled"

\* Where an accepted cancel request sends a run (defined on CancellableRun).
CancellationTarget(s) == IF s = "running" THEN "cancelling" ELSE "cancelled"

\* The statuses that occupy the one execution slot (_ORPHAN_STATUSES).
ActiveRun == {"preparing", "warming", "running", "cancelling"}
=============================================================================
