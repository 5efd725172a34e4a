----------------------------- MODULE MCStorage -----------------------------
(***************************************************************************)
(* Instances of Storage for TLC: two runs of one model, of which only the  *)
(* first is large enough to be backed up unless both have all their rows.  *)
(* A behaviour is about two operators at once, or about one operator and   *)
(* the builds that the database is put under.                              *)
(***************************************************************************)
EXTENDS Storage

CONSTANTS s1, s2
VARIABLE focus

TwoRuns == 1..2
OneModel == [r \in TwoRuns |-> "m"]
TwoOperators == Permutations({s1, s2})
TwoBatches == {{"run_tests"}, {"samples", "criterion_scores", "judge_verdicts", "metric_values"}}

Deleting == {s \in Sessions : page[s] # NoPage \/ job[s] # Idle}

MCInit == Init /\ focus \in {"operators", "builds"}
MCNext ==
    /\ Next /\ UNCHANGED focus
    /\ focus = "operators" => revision' \in {0, HeadRevision}
    /\ focus = "builds" => Cardinality(Deleting') <= 1
MCSpec == MCInit /\ [][MCNext]_<<focus, vars>>
=============================================================================
