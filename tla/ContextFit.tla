----------------------------- MODULE ContextFit -----------------------------
(***************************************************************************)
(* How the executor runs a test that chooses its next cases from its       *)
(* answers, on the one suite that does: native.context_fit climbs a ladder *)
(* of context sizes and then halves the gap between the largest that       *)
(* served and the smallest refused above it (services/runs.py              *)
(* _execute_test and _case_outcomes, benchmarks/context_fit/benchmark.py). *)
(* Each case is measured several times; the process may die between any    *)
(* two samples and the test is then entered again.                         *)
(*                                                                         *)
(* Sizes are in an arbitrary unit of which Step is REFINE_STEP_TOKENS.     *)
(* Shuffling the ladder's order is left out.                               *)
(***************************************************************************)
EXTENDS Integers, Sequences, FiniteSets, FiniteSetsExt

CONSTANTS
    Ladder,      \* the rungs, ascending
    Step,        \* REFINE_STEP_TOKENS
    Reps,        \* measured_repetitions
    Trained,     \* the advertised maximum contexts a model may have
    MaxCrashes,  \* deaths or interruptions of the executor
    MaxFaults    \* exceptions inside the test

ASSUME FitAssumption ==
    /\ Ladder \in Seq(Nat \ {0}) /\ Ladder # <<>>
    /\ \A i, j \in DOMAIN Ladder : i < j => Ladder[i] < Ladder[j]
    /\ Step \in Nat \ {0} /\ Reps \in Nat \ {0}
    /\ Trained \subseteq Nat /\ MaxCrashes \in Nat /\ MaxFaults \in Nat

VARIABLES
    row,       \* run_tests.status
    total,     \* run_tests.total_cases
    counted,   \* run_tests.completed_cases
    samples,   \* samples of the test, [rung, ordinal, rep, status]
    pc,        \* where _execute_test is
    todo,      \* the cases left in this round, the current one first
    rep,       \* the repetition it is at
    already,   \* existing_keys as read when the test was entered
    finished,  \* finished_cases
    trained,   \* the model's advertised maximum
    crashes, faults

stored == <<row, total, counted, samples>>
local  == <<pc, todo, rep, already, finished>>
vars   == <<stored, local, trained, crashes, faults>>

Rungs == {Ladder[i] : i \in DOMAIN Ladder}
Top   == Ladder[Len(Ladder)]
SampleStatus == {"completed", "failed", "skipped"}
Case  == [rung : 1..Top, ordinal : Nat]

TypeOK ==
    /\ row \in {"pending", "running", "completed", "failed", "cancelled"}
    /\ total \in Nat /\ counted \in Nat /\ finished \in Nat
    /\ samples \subseteq [rung : 1..Top, ordinal : Nat, rep : 1..Reps, status : SampleStatus]
    /\ pc \in {"away", "case", "ask", "end", "raised"}
    /\ todo \in Seq(Case)
    /\ rep \in 1..Reps
    /\ already \subseteq [rung : 1..Top, ordinal : Nat, rep : 1..Reps]
    /\ trained \in Trained
    /\ crashes \in 0..MaxCrashes /\ faults \in 0..MaxFaults
    /\ pc = "case" => todo # <<>> /\ row = "running"

LadderCases == [i \in DOMAIN Ladder |-> [rung |-> Ladder[i], ordinal |-> i - 1]]

Init ==
    /\ row = "pending" /\ total = Len(Ladder) /\ counted = 0
    /\ samples = {}
    /\ pc = "away" /\ todo = <<>> /\ rep = 1 /\ already = {} /\ finished = 0
    /\ trained \in Trained
    /\ crashes = 0 /\ faults = 0
-----------------------------------------------------------------------------
(* What the test reads back of its samples.                                *)

Key(s) == [rung |-> s.rung, ordinal |-> s.ordinal, rep |-> s.rep]

\* existing_keys
StoredKeys == {Key(s) : s \in samples}

\* UNIQUE (run_test_id, case_id, ordinal, repetition)
IsTaken(key) == \E s \in samples : Key(s) = key

\* _case_outcomes: the rungs with a stored sample, and how each went.  A skip
\* counts only when the rung has nothing else.
Tried  == {s.rung : s \in samples}
Sent(r) == {s \in samples : s.rung = r /\ s.status # "skipped"}
Served  == {r \in Tried : Sent(r) # {} /\ \A s \in Sent(r) : s.status = "completed"}
Refused == {r \in Tried : \E s \in Sent(r) : s.status # "completed"}

\* The largest rung served and the smallest refused above it, when there are both.
Low  == Max(Served)
High == Min({r \in Refused : r > Low})
Bracketed == Served # {} /\ \E r \in Refused : r > Low

Middle == Low + ((High - Low) \div (2 * Step)) * Step

\* Faulty: stops one step early.
WorthHalvingBug == Bracketed /\ High - Low > 2 * Step /\ Middle > Low

WorthHalving == Bracketed /\ High - Low > Step /\ Middle > Low

\* next_cases, less the cases that have an outcome.
NextCases ==
    IF WorthHalving /\ Middle \notin Tried
    THEN <<[rung |-> Middle, ordinal |-> Cardinality(Tried)]>>
    ELSE <<>>
-----------------------------------------------------------------------------
(* _execute_test.                                                          *)

\* A pending test or a running one found by a resumed run starts over with the
\* ladder; finished_cases starts over with it.
EnterTest ==
    /\ pc = "away" /\ row \in {"pending", "running"}
    /\ row' = "running"
    /\ already' = StoredKeys
    /\ todo' = LadderCases /\ rep' = 1 /\ finished' = 0
    /\ pc' = "case"
    /\ UNCHANGED <<total, counted, samples, trained, crashes, faults>>

Current == [rung |-> Head(todo).rung, ordinal |-> Head(todo).ordinal, rep |-> rep]

\* On to the next repetition, or past the case.
NextRepetition ==
    IF rep < Reps
    THEN rep' = rep + 1 /\ UNCHANGED <<todo, finished, counted, pc>>
    ELSE /\ rep' = 1
         /\ todo' = Tail(todo)
         /\ finished' = finished + 1
         /\ counted' = finished'
         /\ pc' = IF Tail(todo) = <<>> THEN "ask" ELSE "case"

\* Faulty: a case that has any sample is done.
SkipStoredBug ==
    /\ pc = "case" /\ \E key \in already : key.rung = Current.rung
    /\ NextRepetition
    /\ UNCHANGED <<row, total, samples, already, trained, crashes, faults>>

SkipStored ==
    /\ pc = "case" /\ Current \in already
    /\ NextRepetition
    /\ UNCHANGED <<row, total, samples, already, trained, crashes, faults>>

\* A rung past the trained context is stored as skipped and never sent; any
\* other is served or refused as the card decides at that moment.
PossibleStatus == IF Current.rung > trained THEN {"skipped"} ELSE {"completed", "failed"}

StoreSample ==
    /\ pc = "case" /\ Current \notin already
    /\ ~IsTaken(Current)
    /\ \E s \in PossibleStatus :
          samples' = samples \cup {[rung |-> Current.rung, ordinal |-> Current.ordinal,
                                    rep |-> rep, status |-> s]}
    /\ NextRepetition
    /\ UNCHANGED <<row, total, already, trained, crashes, faults>>

\* UNIQUE (run_test_id, case_id, ordinal, repetition) refuses the insert, or the
\* test's own code raises: contained, and the test fails.
TestRaises ==
    /\ \/ /\ pc = "case" /\ Current \notin already /\ IsTaken(Current)
          /\ UNCHANGED faults
       \/ /\ pc \in {"case", "ask"}
          /\ faults < MaxFaults /\ faults' = faults + 1
    /\ pc' = "raised"
    /\ UNCHANGED <<stored, todo, rep, already, finished, trained, crashes>>

\* A round is over: the test is asked for more until it has nothing new.
AskNextCases ==
    /\ pc = "ask"
    /\ IF NextCases = <<>>
       THEN pc' = "end" /\ UNCHANGED <<total, todo>>
       ELSE /\ total' = Cardinality(Tried) + Len(NextCases)
            /\ todo' = NextCases
            /\ pc' = "case"
    /\ UNCHANGED <<row, counted, samples, rep, already, finished, trained, crashes, faults>>

FinishTest ==
    /\ pc \in {"end", "raised"}
    /\ row' = IF pc = "end" THEN "completed" ELSE "failed"
    /\ pc' = "away"
    /\ UNCHANGED <<total, counted, samples, todo, rep, already, finished, trained, crashes, faults>>

\* A stop met by _check_cancelled, on entering a case and before each sample that
\* is not stored: the row is cancelled with the run.
StopTest ==
    /\ pc = "case" /\ (rep = 1 \/ Current \notin already)
    /\ row' = "cancelled"
    /\ pc' = "away"
    /\ UNCHANGED <<total, counted, samples, todo, rep, already, finished, trained, crashes, faults>>

\* The process dies; the resumed run enters the test again.
Crash ==
    /\ pc # "away"
    /\ crashes < MaxCrashes /\ crashes' = crashes + 1
    /\ pc' = "away"
    /\ UNCHANGED <<stored, todo, rep, already, finished, trained, faults>>

Next ==
    \/ EnterTest \/ SkipStored \/ StoreSample \/ TestRaises
    \/ AskNextCases \/ FinishTest \/ StopTest \/ Crash

Spec == Init /\ [][Next]_vars
-----------------------------------------------------------------------------
\* A test that met no exception of its own never fails, however often it was
\* interrupted: what a resumed test asks for is what is not stored.
ResumeNeverCollides == row = "failed" \/ pc = "raised" => faults > 0

\* The search ends with the boundary within one step where its bracket is a whole number
\* of steps, as on the shipped ladder, and within two where a configured ceiling tops the
\* ladder off the steps, whatever the card answered and wherever it was interrupted
\* (next_cases).
FitIsTight ==
    row = "completed" /\ Bracketed =>
        High - Low < 2 * Step /\ ((High - Low) % Step = 0 => High - Low = Step)

\* Each follow-up is a launch of a server, and it halves the gap: there are never
\* more than halvings of one gap of the ladder down to a step, interrupted or not
\* (next_cases, _case_outcomes).
Doublings(n) ==
    LET gap[i \in 0..n] == IF i = 0 THEN Step ELSE 2 * gap[i - 1]
    IN  gap[n]
FewLaunches ==
    LET launched == Tried \ Rungs
    IN  launched # {} =>
            \E i \in 1..(Len(Ladder) - 1) :
                Doublings(Cardinality(launched) - 1) < Ladder[i + 1] - Ladder[i]

\* A finished test's case total is the number of cases it has samples of, although
\* the total is written before the follow-up is measured and a death between the
\* two forgets what was asked (set_total_cases).
TotalIsTrue == row = "completed" => total = Cardinality(Tried)

\* The rungs of which some repetition has no sample.
Short == {r \in Tried : \E q \in 1..Reps : \A s \in samples : s.rung = r => s.rep # q}

\* A finished test has every repetition of every rung of its ladder.  What a death can
\* leave short for good is a follow-up, at most one for each death: the resumed test
\* takes its answer as given and asks beyond it (_execute_test, _case_outcomes).
OnlyFollowUpsAreShort ==
    row = "completed" => Short \cap Rungs = {} /\ Cardinality(Short) <= crashes

\* However often a test was interrupted, it never asks for what it has, it goes on
\* with every repetition of its ladder that it has not, the only repetitions it drops
\* are those of a follow-up that a death cut off, and its total says how many cases it
\* came to (_execute_test, existing_keys, set_total_cases).
ResumeIsExact == ResumeNeverCollides /\ OnlyFollowUpsAreShort /\ TotalIsTrue

\* However the card answers and wherever it is interrupted, the search ends when its
\* bracket cannot be halved on steps any more, and launches no more servers than
\* halvings of one gap (next_cases, _case_outcomes).
SearchIsTight == FitIsTight /\ FewLaunches
-----------------------------------------------------------------------------
(* What the docstrings say, and the code does not do.                      *)

\* existing_keys: no case is measured twice and none is silently skipped, of a
\* test continued after an interruption.  A follow-up that a death cut off is.
EveryCaseIsWhole ==
    row = "completed" =>
        \A r \in Tried : {s.rep : s \in {t \in samples : t.rung = r}} = 1..Reps

\* detail.html: completed_cases / total_cases of a finished test agree.
CompletedCountsAll == row = "completed" => counted = total
=============================================================================
