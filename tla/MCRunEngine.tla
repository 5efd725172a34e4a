---------------------------- MODULE MCRunEngine ----------------------------
(***************************************************************************)
(* Instances of RunEngine for TLC.  Run ids are 1..n because their order   *)
(* is the order of the queue; two runs are the fewest that make one wait   *)
(* for the other.                                                          *)
(*                                                                         *)
(* MCSpec has two kinds of behaviour: a server alone, with deaths and an   *)
(* exception, and a server beside a terminal that may be interrupted, or   *)
(* killed before the server starts, of a provider that declares what the   *)
(* first test needs only.  Two executors can hold one run only in the      *)
(* second (README).                                                        *)
(***************************************************************************)
EXTENDS RunEngine

VARIABLE shared  \* a terminal joins in

OneRun  == 1..1
TwoRuns == 1..2

MCInit == Init /\ shared \in BOOLEAN

MCNext ==
    /\ Next /\ UNCHANGED shared
    /\ IF shared
       THEN /\ crashes' <= 1 /\ faults' = 0
            /\ crashes' > crashes => \A p \in Servers : pc[p] = "down"
            /\ \A r \in Runs, t \in Tests : t > 1 => tests'[r][t] # "running"
       ELSE \A p \in Clis : pc'[p] = "idle"

MCSpec == MCInit /\ [][MCNext]_<<shared, vars>>

\* The first kind only, under the fairness of RunEngine.
MCFairInit == Init /\ shared = FALSE
MCFairSpec == MCFairInit /\ [][MCNext]_<<shared, vars>> /\ Fairness
-----------------------------------------------------------------------------
\* Of a server alone: a run that completes has measured everything once, and its
\* metrics are of all of it, however often it was interrupted and resumed.
MeasurementIsExact == shared \/ (CompletedIsWhole /\ NothingMeasuredTwice)

\* Of a server alone: a run that has ended keeps its data, although its executor
\* may still be on its way to the next check.
ServedRunKeepsItsData == [][shared \/ EndedIsLeftAlone]_vars
=============================================================================
