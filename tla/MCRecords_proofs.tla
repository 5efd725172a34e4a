-------------------------- MODULE MCRecords_proofs --------------------------
(***************************************************************************)
(* Theorems about what MCRecords checks, for any cases, rubrics, graders   *)
(* and attempts, any samples, jurors and calibrations.                     *)
(***************************************************************************)
EXTENDS MCRecords, NaturalLemmas, FiniteSetTheorems, TLAPS

-----------------------------------------------------------------------------
(***************************************************************************)
(* The judged run.  A sample's rows are some of its outcomes until a       *)
(* person grades them, and all of them make its score; once a jury has had *)
(* its phase no case of the suite it was bound to waits for it.            *)
(***************************************************************************)
IsFunction(f) == f = [x \in DOMAIN f |-> f[x]]

SampleSound(s) ==
    /\ sample[s].status \in {"absent", "awaiting"} => sample[s].score = Unmeasured /\ rows[s] = <<>>
    /\ DOMAIN rows[s] \subseteq DOMAIN sample[s].outcomes /\ IsFunction(rows[s])
    /\ sample[s].status = "completed" /\ DOMAIN rows[s] = DOMAIN sample[s].outcomes =>
           sample[s].score = G!CompositeScore(rows[s])

NoneWaits == \A s \in CasesOf[run.rubric] : sample[s].status # "awaiting"
Judging ==
    /\ {"status", "phase", "tested", "jury", "rubric", "gone"} \subseteq DOMAIN run
    /\ run.jury /\ (run.status = "completed" \/ run.phase \in {"aggregate", "finish"}) => NoneWaits

Shapes ==
    /\ DOMAIN sample = Cases /\ DOMAIN rows = Cases
    /\ \A s \in Cases : {"status", "outcomes", "score"} \subseteq DOMAIN sample[s]

GoalRunInv == Shapes /\ Judging /\ \A s \in Cases : SampleSound(s)

LEMMA EmptyFunction ==
    /\ DOMAIN <<>> = {} /\ \A f : IsFunction(f) /\ DOMAIN f = {} => f = <<>>
    /\ IsFunction(<<>>)
BY DEF IsFunction

LEMMA GoalRunInit == G!Init => GoalRunInv
<1> SUFFICES ASSUME G!Init PROVE GoalRunInv
  OBVIOUS
<1>1. sample = [s \in Cases |-> G!Absent] /\ rows = [s \in Cases |-> <<>>]
  BY DEF G!Init
<1>2. Shapes
  BY <1>1 DEF Shapes, G!Absent
<1>3. Judging
  BY DEF G!Init, Judging
<1>4. ASSUME NEW s \in Cases PROVE SampleSound(s)
  <2>1. sample[s] = [status |-> "absent", outcomes |-> <<>>, score |-> Unmeasured] /\ rows[s] = <<>>
    BY <1>1 DEF G!Absent, G!Unmeasured, Unmeasured
  <2>q. QED BY <2>1, EmptyFunction DEF SampleSound
<1>q. QED BY <1>2, <1>3, <1>4 DEF GoalRunInv

\* Scored at once or by the jury: the rows are those of the criteria that are known.
LEMMA CombinedIsSound ==
    ASSUME NEW s \in Cases, NEW o, IsFunction(o),
           sample'[s] = G!Combined(o), rows'[s] = G!CriterionRows(o)
    PROVE  SampleSound(s)'
<1>1. /\ sample'[s].outcomes = o /\ sample'[s].score = G!CompositeScore(o)
      /\ sample'[s].status \in {"failed", "completed"}
  BY DEF G!Combined
<1>2. rows'[s] = [k \in DOMAIN o \cap run.known |-> o[k]]
  BY DEF G!CriterionRows
<1>3. IsFunction(rows'[s]) /\ DOMAIN rows'[s] \subseteq DOMAIN o
  BY <1>2 DEF IsFunction
<1>4. DOMAIN rows'[s] = DOMAIN o => rows'[s] = o
  BY <1>2 DEF IsFunction
<1>q. QED BY <1>1, <1>3, <1>4 DEF SampleSound

LEMMA OutcomesAreFunctions ==
    /\ \A v, o : o \in G!Generated(v) => IsFunction(o)
    /\ \A s, judged : IsFunction(G!FinishDeferred(s, judged))
<1>1. ASSUME NEW v, NEW o \in G!Generated(v) PROVE IsFunction(o)
  <2> DEFINE values == {G!Skipped} \cup UNION {G!RuleOutcomes(k) : k \in G!Criteria(v)}
  <2>1. o \in [G!Criteria(v) -> values]
    BY DEF G!Generated
  <2> HIDE DEF values
  <2>q. QED BY <2>1 DEF IsFunction
<1>2. ASSUME NEW s, NEW judged PROVE IsFunction(G!FinishDeferred(s, judged))
  BY DEF G!FinishDeferred, IsFunction
<1>q. QED BY <1>1, <1>2

\* A step about one sample changes no other.
LEMMA OneSample ==
    ASSUME GoalRunInv, NEW s \in Cases, NEW x, NEW y,
           sample' = [sample EXCEPT ![s] = x],
           rows' = [rows EXCEPT ![s] = y] \/ (rows' = rows /\ y = rows[s]),
           {"status", "outcomes", "score"} \subseteq DOMAIN x
    PROVE  /\ Shapes' /\ sample'[s] = x /\ rows'[s] = y
           /\ SampleSound(s)' => \A q \in Cases : SampleSound(q)'
<1>1. sample'[s] = x /\ rows'[s] = y /\ \A q \in Cases \ {s} : sample'[q] = sample[q] /\ rows'[q] = rows[q]
  BY DEF GoalRunInv, Shapes
<1>2. Shapes'
  BY <1>1 DEF GoalRunInv, Shapes
<1>3. ASSUME NEW q \in Cases \ {s} PROVE SampleSound(q)'
  BY <1>1 DEF GoalRunInv, SampleSound
<1>q. QED BY <1>1, <1>2, <1>3

\* A sample that fails, in its generation or before its jury, keeps what it had.
LEMMA FailedIsSound ==
    ASSUME GoalRunInv, NEW s \in Cases,
           sample' = [sample EXCEPT ![s].status = "failed"], UNCHANGED rows
    PROVE  Shapes' /\ sample'[s].status = "failed" /\ \A q \in Cases : SampleSound(q)'
<1> DEFINE failed == [sample[s] EXCEPT !.status = "failed"]
<1>1. {"status", "outcomes", "score"} \subseteq DOMAIN failed /\ failed.status = "failed"
      /\ failed.outcomes = sample[s].outcomes
  BY DEF GoalRunInv, Shapes
<1>2. sample' = [sample EXCEPT ![s] = failed] /\ rows' = rows
  OBVIOUS
<1> HIDE DEF failed
<1>3. Shapes' /\ sample'[s] = failed /\ rows'[s] = rows[s]
      /\ (SampleSound(s)' => \A q \in Cases : SampleSound(q)')
  BY <1>1, <1>2, OneSample
<1>4. SampleSound(s)'
  BY <1>1, <1>3 DEF SampleSound, GoalRunInv
<1>q. QED BY <1>1, <1>3, <1>4

LEMMA GoalRunStep == GoalRunInv /\ [G!Next]_goalRun => GoalRunInv'
<1> SUFFICES ASSUME GoalRunInv, [G!Next]_goalRun PROVE GoalRunInv'
  OBVIOUS
<1>1. Shapes /\ Judging /\ \A s \in Cases : SampleSound(s)
  BY DEF GoalRunInv
<1>2. ASSUME UNCHANGED <<sample, rows>>
      PROVE  Shapes' /\ (\A s \in Cases : SampleSound(s)')
             /\ (run'.rubric = run.rubric /\ NoneWaits => NoneWaits')
  BY <1>1, <1>2 DEF Shapes, SampleSound, NoneWaits
<1>3. CASE G!Attempt
  BY <1>1, <1>2, <1>3 DEF G!Attempt, Judging, GoalRunInv
<1>4. ASSUME NEW s \in Cases, G!RunOneCase(s) PROVE GoalRunInv'
  <2>1. \/ \E o \in G!Generated(run.rubric) :
              IF run.jury
              THEN /\ sample' = [sample EXCEPT ![s] = [status |-> "awaiting", outcomes |-> o, score |-> Unmeasured]]
                   /\ UNCHANGED rows
              ELSE /\ sample' = [sample EXCEPT ![s] = G!Combined(o)]
                   /\ rows' = [rows EXCEPT ![s] = G!CriterionRows(o)]
        \/ sample' = [sample EXCEPT ![s].status = "failed"] /\ UNCHANGED rows
    BY <1>4 DEF G!RunOneCase, G!Unmeasured, Unmeasured
  <2>2. Judging'
    BY <1>1, <1>4 DEF G!RunOneCase, G!ToGenerate, G!Generating, Judging
  <2>f. CASE sample' = [sample EXCEPT ![s].status = "failed"] /\ UNCHANGED rows
    BY <2>2, <2>f, FailedIsSound DEF GoalRunInv
  <2>g. ASSUME NEW o \in G!Generated(run.rubric),
               IF run.jury
               THEN /\ sample' = [sample EXCEPT ![s] = [status |-> "awaiting", outcomes |-> o, score |-> Unmeasured]]
                    /\ UNCHANGED rows
               ELSE /\ sample' = [sample EXCEPT ![s] = G!Combined(o)]
                    /\ rows' = [rows EXCEPT ![s] = G!CriterionRows(o)]
        PROVE  GoalRunInv'
    <3>3. CASE run.jury
      <4> DEFINE waits == [status |-> "awaiting", outcomes |-> o, score |-> Unmeasured]
      <4>1. sample' = [sample EXCEPT ![s] = waits] /\ rows' = rows
        BY <2>g, <3>3
      <4>2. rows[s] = <<>>
        BY <1>1, <1>4 DEF SampleSound, G!RunOneCase, G!ToGenerate, G!Absent
      <4>3. Shapes' /\ sample'[s] = waits /\ rows'[s] = <<>>
            /\ (SampleSound(s)' => \A q \in Cases : SampleSound(q)')
        BY <4>1, <4>2, OneSample
      <4>4. SampleSound(s)'
        BY <4>3, EmptyFunction DEF SampleSound
      <4>q. QED BY <2>2, <4>3, <4>4 DEF GoalRunInv
    <3>4. CASE ~ run.jury
      <4>1. IsFunction(o)
        BY OutcomesAreFunctions
      <4>2. {"status", "outcomes", "score"} \subseteq DOMAIN G!Combined(o)
        BY DEF G!Combined
      <4>3. sample' = [sample EXCEPT ![s] = G!Combined(o)] /\ rows' = [rows EXCEPT ![s] = G!CriterionRows(o)]
        BY <2>g, <3>4
      <4>4. Shapes' /\ sample'[s] = G!Combined(o) /\ rows'[s] = G!CriterionRows(o)
            /\ (SampleSound(s)' => \A q \in Cases : SampleSound(q)')
        BY <4>2, <4>3, OneSample
      <4>5. SampleSound(s)'
        BY <4>1, <4>4, CombinedIsSound
      <4>q. QED BY <2>2, <4>4, <4>5 DEF GoalRunInv
    <3>q. QED BY <3>3, <3>4
  <2>q. QED BY <2>1, <2>f, <2>g
<1>5. CASE G!GenerationEnds
  <2>1. Judging'
    BY <1>1, <1>2, <1>5 DEF G!GenerationEnds, G!AfterTest, Judging
  <2>q. QED BY <1>2, <1>5, <2>1 DEF G!GenerationEnds, GoalRunInv
<1>15. ASSUME NEW s \in Cases, G!TestFails(s) PROVE GoalRunInv'
  <2>1. Judging'
    BY <1>1, <1>2, <1>15 DEF G!TestFails, G!ToGenerate, G!Generating, G!AfterTest, Judging
  <2>q. QED BY <1>2, <1>15, <2>1 DEF G!TestFails, GoalRunInv
<1>16. ASSUME NEW s \in Cases, G!JudgingFails(s) PROVE GoalRunInv'
  <2>1. Judging'
    BY <1>1, <1>2, <1>16 DEF G!JudgingFails, Judging
  <2>q. QED BY <1>2, <1>16, <2>1 DEF G!JudgingFails, GoalRunInv
<1>6. ASSUME NEW s \in Cases, G!JudgePending(s) PROVE GoalRunInv'
  <2>1. Judging'
    BY <1>1, <1>6 DEF G!JudgePending, Judging
  <2>2. CASE \E o : /\ IsFunction(o) /\ sample' = [sample EXCEPT ![s] = G!Combined(o)]
                    /\ rows' = [rows EXCEPT ![s] = G!CriterionRows(o)]
    <3>1. PICK o : /\ IsFunction(o) /\ sample' = [sample EXCEPT ![s] = G!Combined(o)]
                   /\ rows' = [rows EXCEPT ![s] = G!CriterionRows(o)]
      BY <2>2
    <3>2. {"status", "outcomes", "score"} \subseteq DOMAIN G!Combined(o)
      BY DEF G!Combined
    <3>3. Shapes' /\ sample'[s] = G!Combined(o) /\ rows'[s] = G!CriterionRows(o)
          /\ (SampleSound(s)' => \A q \in Cases : SampleSound(q)')
      BY <3>1, <3>2, OneSample
    <3>4. SampleSound(s)'
      BY <3>1, <3>3, CombinedIsSound
    <3>q. QED BY <2>1, <3>3, <3>4 DEF GoalRunInv
  <2>3. CASE sample' = [sample EXCEPT ![s].status = "failed"] /\ UNCHANGED rows
    BY <2>1, <2>3, FailedIsSound DEF GoalRunInv
  <2>4. ASSUME NEW judged PROVE IsFunction(G!JudgedOutcomes(s, judged))
    BY OutcomesAreFunctions DEF G!JudgedOutcomes
  <2>q. QED BY <1>6, <2>2, <2>3, <2>4 DEF G!JudgePending
<1>7. CASE G!JudgingEnds
  <2>1. Judging'
    BY <1>1, <1>2, <1>7 DEF G!JudgingEnds, G!ToJudge, Judging, NoneWaits
  <2>q. QED BY <1>2, <1>7, <2>1 DEF G!JudgingEnds, GoalRunInv
<1>8. CASE G!AggregateRun
  <2>1. Judging'
    BY <1>1, <1>2, <1>8 DEF G!AggregateRun, Judging
  <2>q. QED BY <1>2, <1>8, <2>1 DEF G!AggregateRun, GoalRunInv
<1>9. CASE G!Finish
  <2>1. Judging'
    BY <1>1, <1>2, <1>9 DEF G!Finish, Judging
  <2>q. QED BY <1>2, <1>9, <2>1 DEF G!Finish, GoalRunInv
<1>10. CASE G!RefreshEvidence
  <2>1. Judging'
    BY <1>1, <1>2, <1>10 DEF G!RefreshEvidence, Judging
  <2>q. QED BY <1>2, <1>10, <2>1 DEF G!RefreshEvidence, GoalRunInv
<1>11. CASE G!Interrupt
  <2>1. Judging'
    BY <1>1, <1>2, <1>11 DEF G!Interrupt, Judging
  <2>q. QED BY <1>2, <1>11, <2>1 DEF G!Interrupt, GoalRunInv
<1>12. CASE G!SyncGoal
  <2>1. sample' = sample /\ (\E gone : run' = [run EXCEPT !.gone = gone])
        /\ rows' = [s \in Cases |-> [k \in DOMAIN rows[s] \cap G!Criteria(pack) |-> rows[s][k]]]
    BY <1>12 DEF G!SyncGoal
  <2>2. ASSUME NEW s \in Cases PROVE SampleSound(s)'
    <3>1. rows'[s] = [k \in DOMAIN rows[s] \cap G!Criteria(pack) |-> rows[s][k]]
      BY <2>1
    <3>2. IsFunction(rows'[s]) /\ DOMAIN rows'[s] \subseteq DOMAIN rows[s]
      BY <3>1 DEF IsFunction
    <3>3. DOMAIN rows'[s] = DOMAIN rows[s] => rows'[s] = rows[s]
      BY <1>1, <3>1 DEF SampleSound, IsFunction
    <3>4. rows[s] = <<>> => rows'[s] = <<>>
      BY <3>2, EmptyFunction
    <3>5. sample'[s] = sample[s] /\ SampleSound(s)
      BY <1>1, <2>1
    <3>q. QED BY <3>2, <3>3, <3>4, <3>5 DEF SampleSound
  <2>3. Shapes' /\ Judging'
    BY <1>1, <2>1 DEF Shapes, Judging, NoneWaits
  <2>q. QED BY <2>2, <2>3 DEF GoalRunInv
<1>13. ASSUME NEW g \in Graders, NEW s \in Cases, NEW k, G!RecordRunGrades(g, s, k) PROVE GoalRunInv'
  <2>1. PICK grades : /\ DOMAIN grades = DOMAIN rows[s] /\ IsFunction(grades)
                      /\ rows' = [rows EXCEPT ![s] = grades]
                      /\ sample' = [sample EXCEPT ![s].score = G!CompositeScore(grades)]
    <3>1. PICK value : rows' = [rows EXCEPT ![s] = [rows[s] EXCEPT ![k] = value]]
                       /\ sample' = [sample EXCEPT ![s].score = G!CompositeScore([rows[s] EXCEPT ![k] = value])]
      BY <1>13 DEF G!RecordRunGrades
    <3>2. IsFunction([rows[s] EXCEPT ![k] = value]) /\ DOMAIN [rows[s] EXCEPT ![k] = value] = DOMAIN rows[s]
      BY DEF IsFunction
    <3>q. QED BY <3>1, <3>2
  <2>2. run' = run /\ sample[s].status = "completed"
    BY <1>13 DEF G!RecordRunGrades, G!GradeableSamples
  <2> DEFINE graded == [sample[s] EXCEPT !.score = G!CompositeScore(grades)]
  <2>3. {"status", "outcomes", "score"} \subseteq DOMAIN graded /\ graded.status = "completed"
        /\ graded.outcomes = sample[s].outcomes /\ graded.score = G!CompositeScore(grades)
    BY <1>1, <2>2 DEF Shapes
  <2>4. sample' = [sample EXCEPT ![s] = graded]
    BY <2>1
  <2> HIDE DEF graded
  <2>5. Shapes' /\ sample'[s] = graded /\ rows'[s] = grades
        /\ (SampleSound(s)' => \A q \in Cases : SampleSound(q)')
    BY <2>1, <2>3, <2>4, OneSample
  <2>6. SampleSound(s)'
    BY <1>1, <2>1, <2>3, <2>5 DEF SampleSound
  <2>7. Judging'
    <3>1. \A q : sample'[q].status = sample[q].status
      BY <1>1, <2>2, <2>3, <2>4 DEF Shapes
    <3>q. QED BY <1>1, <2>2, <3>1 DEF Judging, NoneWaits
  <2>q. QED BY <2>5, <2>6, <2>7 DEF GoalRunInv
<1>14. CASE UNCHANGED <<run, sample, rows>>
  BY <1>1, <1>2, <1>14 DEF Judging, GoalRunInv
<1>q. QED
  BY <1>3, <1>4, <1>5, <1>6, <1>7, <1>8, <1>9, <1>10, <1>11, <1>12, <1>13, <1>14, <1>15, <1>16
     DEF G!Next, G!Execute, G!Grade, G!EditPack, G!ReadScores, G!ReaggregateRun, G!RecomputeForRun, goalRun

LEMMA GoalRunInvariant == MCSpec => []GoalRunInv
<1>1. MCInit => GoalRunInv
  BY GoalRunInit DEF MCInit
<1>2. GoalRunInv /\ [MCNext]_<<moving, vars, goalRun, juryVars, evidenceVars>> => GoalRunInv'
  <2>1. [MCNext]_<<moving, vars, goalRun, juryVars, evidenceVars>> => [G!Next]_goalRun
    BY DEF MCNext
  <2>q. QED BY <2>1, GoalRunStep
<1>q. QED BY <1>1, <1>2, PTL DEF MCSpec

\* A judged sample counts for nothing until the jury has answered, and its score is that
\* of its rows from then on; a completed run that had a jury leaves no sample of the suite it
\* was bound to waiting (_run_one_case, _judge_pending, record_run_grades, sync).
THEOREM GradesAreThose == MCSpec => []GradesAreKept
<1>1. GoalRunInv => GradesAreKept
  BY DEF GoalRunInv, Judging, NoneWaits, SampleSound, GradesAreKept, G!WaitingIsUnscored, G!ScoreFollowsRows, G!ToJudge,
         Unmeasured, G!Unmeasured
<1>q. QED BY <1>1, GoalRunInvariant, PTL

\* Of a completed run only human criteria change (record_run_grades).
THEOREM PeopleGradeTheirs == MCSpec => GradesTouchHumanRowsOnly
<1> DEFINE Theirs == run.status = "completed" /\ stored' = stored =>
               \A s \in Cases : \A k \in DOMAIN rows[s] :
                   rows'[s][k] # rows[s][k] => G!Rung(G!Measured, k) = "human"
<1>1. GoalRunInv /\ [G!Next]_goalRun => Theirs
  <2> SUFFICES ASSUME GoalRunInv, [G!Next]_goalRun, run.status = "completed", stored' = stored,
                      NEW s \in Cases, NEW k \in DOMAIN rows[s], rows'[s][k] # rows[s][k]
               PROVE  G!Rung(G!Measured, k) = "human"
    OBVIOUS
  <2>0. PICK g \in Graders, q \in Cases : \E c : G!RecordRunGrades(g, q, c)
    BY DEF G!Next, G!Execute, G!Attempt, G!RunOneCase, G!TestFails, G!GenerationEnds, G!JudgePending, G!JudgingFails,
           G!JudgingEnds, G!ToGenerate, G!Generating,
           G!AggregateRun, G!Finish, G!RefreshEvidence, G!Interrupt, G!EditPack, G!SyncGoal, G!Grade,
           G!ReadScores, G!ReaggregateRun, G!RecomputeForRun, goalRun
  <2>1. PICK c : G!RecordRunGrades(g, q, c)
    BY <2>0
  <2>2. PICK value : rows' = [rows EXCEPT ![q] = [rows[q] EXCEPT ![c] = value]]
    BY <2>1 DEF G!RecordRunGrades
  <2>3. s = q /\ k = c
    BY <2>2 DEF GoalRunInv, Shapes
  <2>4. c \in G!OfRung(G!Measured, "human")
    BY <2>1 DEF G!RecordRunGrades, G!Gradeable, G!HumanCriteria
  <2>q. QED BY <2>3, <2>4 DEF G!OfRung
<1>2. [MCNext]_<<moving, vars, goalRun, juryVars, evidenceVars>> => [G!Next]_goalRun
  BY DEF MCNext
<1>3. GoalRunInv /\ [MCNext]_<<moving, vars, goalRun, juryVars, evidenceVars>> => [Theirs]_goalRun
  BY <1>1, <1>2
<1>q. QED BY <1>3, GoalRunInvariant, PTL DEF MCSpec, GradesTouchHumanRowsOnly, G!GradesTouchHumanRowsOnly, goalRun, G!vars

-----------------------------------------------------------------------------
(***************************************************************************)
(* The operators of a calibration.                                         *)
(***************************************************************************)
LEMMA SequenceOfSet ==
    ASSUME NEW S, IsFiniteSet(S)
    PROVE  SetToSeq(S) \in [1..Cardinality(S) -> S] /\ Cardinality(S) \in Nat
<1> DEFINE n == Cardinality(S)
<1>1. n \in Nat /\ ExistsBijection(1..n, S)
  BY FS_CardinalityType
<1> HIDE DEF n
<1>2. PICK f : f \in Bijection(1..n, S)
  BY <1>1 DEF ExistsBijection
<1>3. f \in [1..n -> S] /\ IsInjective(f)
  BY <1>2 DEF Bijection, Injection, IsInjective
<1>4. SetToSeq(S) = CHOOSE h \in [1..n -> S] : IsInjective(h)
  BY DEF SetToSeq, n
<1>5. SetToSeq(S) \in [1..n -> S]
  BY <1>3, <1>4
<1>q. QED BY <1>1, <1>5 DEF n

LEMMA SubsetOfSize ==
    ASSUME NEW S, IsFiniteSet(S), NEW n \in Nat, n <= Cardinality(S)
    PROVE  \E T \in SUBSET S : Cardinality(T) = n
<1> DEFINE m == Cardinality(S)
<1>1. m \in Nat /\ ExistsBijection(1..m, S)
  BY FS_CardinalityType
<1> HIDE DEF m
<1>2. PICK f : f \in Bijection(1..m, S)
  BY <1>1 DEF ExistsBijection
<1>3. f \in [1..m -> S] /\ \A i, j \in 1..m : f[i] = f[j] => i = j
  BY <1>2 DEF Bijection, Injection, IsInjective
<1>4. 1..n \subseteq 1..m
  BY <1>1 DEF m
<1> DEFINE T == {f[i] : i \in 1..n}
           g == [i \in 1..n |-> f[i]]
<1>5. g \in Bijection(1..n, T)
  BY <1>3, <1>4 DEF Bijection, Injection, Surjection, IsInjective
<1>6. T \subseteq S
  BY <1>3, <1>4
<1> DEFINE I == 1..n
<1>7. IsFiniteSet(I) /\ Cardinality(I) = n
  <2>1. \A k \in Int : IsFiniteSet(1..k) /\ Cardinality(1..k) = IF 1 > k THEN 0 ELSE k - 1 + 1
    BY FS_Interval
  <2>q. QED BY <2>1
<1>8. ExistsBijection(I, T)
  BY <1>5 DEF ExistsBijection
<1>9. Cardinality(T) = n
  <2> HIDE DEF I, T, g
  <2>q. QED BY <1>7, <1>8, FS_Bijection
<1>q. QED BY <1>6, <1>9

LEMMA MaxMinOfTwo ==
    ASSUME NEW a \in Int, NEW b \in Int
    PROVE  /\ Max({a, b}) \in {a, b} /\ Max({a, b}) >= a /\ Max({a, b}) >= b
           /\ Min({a, b}) \in {a, b} /\ Min({a, b}) <= a /\ Min({a, b}) <= b
<1>1. \E x \in {a, b} : \A y \in {a, b} : x >= y
  OBVIOUS
<1>2. \E x \in {a, b} : \A y \in {a, b} : x <= y
  OBVIOUS
<1>q. QED BY <1>1, <1>2 DEF Max, Min

\* Of a stratum no more is held out than it has.
LEMMA WantedFits ==
    ASSUME NEW size \in Nat \ {0}, NEW fraction \in 1..99
    PROVE  Wanted(size, fraction) \in 0..size
<1> DEFINE n == size * fraction
           low == n \div 100
<1>1. n \in Nat
  OBVIOUS
<1>2. low \in Nat /\ (size = 1 => low = 0) /\ Round(n, 100) \in {low, low + 1}
  <2> HIDE DEF n
  <2>1. low \in Nat
    BY <1>1
  <2>2. Round(n, 100) \in {low, low + 1}
    BY <1>1 DEF Round
  <2>3. size = 1 => n = fraction
    BY DEF n
  <2>q. QED BY <2>1, <2>2, <2>3
<1> DEFINE round == Round(n, 100)
<1>3. CASE size = 1
  BY <1>2, <1>3 DEF Wanted
<1>4. CASE size # 1
  <2> HIDE DEF n, low
  <2>1. round \in Int /\ size - 1 \in Int /\ size - 1 >= 1
    BY <1>2, <1>4
  <2>2. Min({round, size - 1}) \in Int /\ Min({round, size - 1}) <= size - 1
    BY <2>1, MaxMinOfTwo, ZenonT(40)
  <2>3. Max({1, Min({round, size - 1})}) \in 1..(size - 1)
    <3> DEFINE lesser == Min({round, size - 1})
    <3> HIDE DEF lesser, round
    <3>1. lesser \in Int /\ lesser <= size - 1
      BY <2>2 DEF lesser
    <3>2. Max({1, lesser}) \in {1, lesser} /\ Max({1, lesser}) >= 1
      BY <3>1, MaxMinOfTwo
    <3>3. Max({1, lesser}) \in 1..(size - 1)
      BY <2>1, <3>1, <3>2
    <3>q. QED BY <3>3 DEF lesser
  <2>4. Wanted(size, fraction) = Max({1, Min({round, size - 1})})
    BY <1>4 DEF Wanted, n
  <2>q. QED BY <2>3, <2>4
<1>q. QED BY <1>3, <1>4

\* What is held out was graded.
LEMMA PartitionIsOfGraded ==
    ASSUME NEW graded, IsFiniteSet(DOMAIN graded), NEW fraction \in 1..99
    PROVE  PartitionSamples(graded, fraction) \subseteq DOMAIN graded
<1> DEFINE stratum(g) == {s \in DOMAIN graded : graded[s] = g}
           held(g) == ShuffledPrefix(stratum(g), Wanted(Cardinality(stratum(g)), fraction))
<1>1. ASSUME NEW s \in DOMAIN graded PROVE held(graded[s]) \subseteq DOMAIN graded
  <2> DEFINE S == stratum(graded[s])
             n == Wanted(Cardinality(S), fraction)
  <2>1. IsFiniteSet(S) /\ s \in S
    BY FS_Subset
  <2> HIDE DEF S
  <2>2. Cardinality(S) \in Nat \ {0}
    BY <2>1, FS_CardinalityType, FS_EmptySet
  <2>3. n \in 0..Cardinality(S)
    BY <2>2, WantedFits
  <2> HIDE DEF n
  <2>4. kSubset(n, S) # {}
    BY <2>1, <2>2, <2>3, SubsetOfSize DEF kSubset
  <2>5. ShuffledPrefix(S, n) \subseteq S
    BY <2>4 DEF ShuffledPrefix, kSubset
  <2>q. QED BY <2>5 DEF S, n
<1> HIDE DEF held
<1>2. PartitionSamples(graded, fraction) = UNION {held(g) : g \in {graded[s] : s \in DOMAIN graded}}
  BY DEF PartitionSamples, held
<1>q. QED BY <1>1, <1>2

\* Agreement is claimed of two pairs or more.
LEMMA KappaNeedsTwo ==
    ASSUME NEW pairs, NEW points, Len(pairs) < 2
    PROVE  CohensKappaWeighted(pairs, points) = Unmeasured
BY DEF CohensKappaWeighted

\* What is measured of a criterion is of the samples counted, and of no other.
LEMMA MeasuredIs ==
    ASSUME NEW author, NEW answers, IsFiniteSet(DOMAIN answers),
           NEW k \in DOMAIN MeasureAgreement(author, answers)
    PROVE  LET m == MeasureAgreement(author, answers)[k]
           IN  /\ k \in Judged /\ m.agreed.n \in Nat
               /\ m.agreed.kappa # Unmeasured => m.agreed.n >= 2
               /\ m.agreed.n + Cardinality(DOMAIN m.excluded) = Cardinality(DOMAIN answers)
<1> DEFINE S == Counted(author, answers, k)
           n == Cardinality(S)
           both == SetToSeq(S)
           pairs == [i \in DOMAIN both |-> [author |-> author[both[i]][k], jury |-> answers[both[i]][k]]]
           m == MeasureAgreement(author, answers)[k]
<1>1. S \subseteq DOMAIN answers /\ IsFiniteSet(S)
  BY FS_Subset DEF Counted
<1> HIDE DEF S
<1>2. n \in Nat /\ DOMAIN both = 1..n
  BY <1>1, SequenceOfSet
<1>3. Len(pairs) = n
  <2> HIDE DEF both, n
  <2>1. pairs \in [1..n -> {pairs[i] : i \in 1..n}]
    BY <1>2
  <2> HIDE DEF pairs
  <2>q. QED BY <1>2, <2>1
<1>4. k \in Judged
  BY DEF MeasureAgreement
<1>5. m = [agreed |-> AgreementOf(pairs, Points), excluded |-> ExcludedSamples(author, answers, k)]
  BY DEF MeasureAgreement, S
<1>6. m.agreed.n = n /\ m.agreed.kappa = CohensKappaWeighted(pairs, Points)
  <2> HIDE DEF pairs, m, n
  <2>q. QED BY <1>3, <1>5 DEF AgreementOf
<1>7. DOMAIN m.excluded = DOMAIN answers \ S
  <2> HIDE DEF pairs, m
  <2>q. QED BY <1>5 DEF ExcludedSamples, S
<1>8. m.agreed.kappa # Unmeasured => n >= 2
  <2> HIDE DEF pairs, m, n
  <2>q. QED BY <1>2, <1>3, <1>6, KappaNeedsTwo
<1>9. Cardinality(DOMAIN answers \ S) = Cardinality(DOMAIN answers) - n
  <2>1. DOMAIN answers \cap S = S
    BY <1>1
  <2>q. QED BY <2>1, FS_Difference
<1>10. Cardinality(DOMAIN answers) \in Nat
  BY FS_CardinalityType
<1> HIDE DEF m, n
<1>11. m.agreed.n + Cardinality(DOMAIN m.excluded) = Cardinality(DOMAIN answers)
  BY <1>2, <1>6, <1>7, <1>9, <1>10
<1>q. QED BY <1>2, <1>4, <1>6, <1>8, <1>11 DEF m

\* A verdict that passes rests on a coefficient at the gate, and so on a measured one.
LEMMA PassNeedsAgreement ==
    ASSUME NEW weights, NEW kappa, DOMAIN kappa # {}, NEW held, NEW graded, NEW minSamples, NEW target,
           NEW minAgreement \in 0..100,
           Passed(VerdictFor(weights, kappa, held, graded, minSamples, minAgreement, target))
    PROVE  /\ VerdictFor(weights, kappa, held, graded, minSamples, minAgreement, target).kappa >= minAgreement
           /\ \E k \in DOMAIN kappa : kappa[k] # Unmeasured
<1> DEFINE weighted == WeightedMean(kappa, weights)
           factor == JudgeValidityFactor(weights, kappa, held, target)
           v == VerdictFor(weights, kappa, held, graded, minSamples, minAgreement, target)
<1> HIDE DEF weighted, factor
<1>1. v = IF graded < minSamples THEN [state |-> "insufficient", kappa |-> Unmeasured, factor |-> factor]
          ELSE [state |-> IF weighted >= minAgreement THEN "calibrated" ELSE "uncalibrated",
                kappa |-> weighted, factor |-> factor]
  BY DEF VerdictFor, weighted, factor
<1>2. Passed(v)
  OBVIOUS
<1> HIDE DEF v
<1>3. weighted >= minAgreement /\ v.kappa = weighted
  BY <1>1, <1>2 DEF Passed
<1>4. (\A k \in DOMAIN kappa : kappa[k] = Unmeasured) => weighted = Unmeasured
  BY DEF weighted, WeightedMean
<1>5. ~ (Unmeasured >= minAgreement)
  BY DEF Unmeasured
<1>q. QED BY <1>3, <1>4, <1>5 DEF v

-----------------------------------------------------------------------------
(***************************************************************************)
(* The invariant of calibration: the two halves of a split are parts of    *)
(* what was graded when it was made, and the jury has been shown only the  *)
(* one and is asked only about the other.                                  *)
(***************************************************************************)
WorkSound(w) ==
    /\ {"at", "rubric", "author", "holdout", "left", "shown", "jury"} \subseteq DOMAIN work[w]
    /\ work[w].shown \cap work[w].holdout = {}
    /\ work[w].at # "idle" => IsFiniteSet(work[w].holdout)
    /\ work[w].at = "judge" => DOMAIN work[w].jury = work[w].holdout

CalibrationInv ==
    /\ DOMAIN work = Workers /\ DOMAIN grade = Samples /\ IsFiniteSet(GradedOf(grade))
    /\ \A w \in Workers : WorkSound(w)
    /\ ReportsAreEarned

LEMMA CalibrationInit == Init => CalibrationInv
<1> SUFFICES ASSUME Init PROVE CalibrationInv
  OBVIOUS
<1>1. GradedOf(grade) = {}
  BY DEF Init, GradedOf
<1>2. \A w \in Workers : WorkSound(w)
  BY DEF Init, WorkSound, Idle
<1>3. ReportsAreEarned
  BY DEF Init, ReportsAreEarned, JuryNeverSawItsHoldout, PassIsEarned, LatestOutcome, NoReport
<1>q. QED BY <1>1, <1>2, <1>3, FS_EmptySet DEF Init, CalibrationInv

\* The report that a calibration stores.
LEMMA PersistIsEarned ==
    ASSUME NEW w \in Workers, WorkSound(w), Persist(w)
    PROVE  ReportsAreEarned'
<1> DEFINE author == work[w].author
           answers == work[w].jury
           measured == MeasureAgreement(author, answers)
           kappa == [k \in Judged |-> IF k \in DOMAIN measured THEN measured[k].agreed.kappa ELSE Unmeasured]
           held == [k \in Judged |-> IF k \in DOMAIN measured THEN measured[k].agreed.n ELSE 0]
           verdict == VerdictFor(Weights, kappa, held, Cardinality(GradedOf(author)), MinSamples,
                                 MinAgreement, Target)
           outcomeOf == Outcome(w)
<1>1. DOMAIN answers = work[w].holdout /\ IsFiniteSet(work[w].holdout)
      /\ work[w].shown \cap work[w].holdout = {}
  BY DEF WorkSound, Persist
<1> HIDE DEF answers, author, measured
<1>2. outcomeOf = [rubric |-> work[w].rubric, passed |-> Passed(verdict), factor |-> verdict.factor,
                   kappa |-> verdict.kappa, criteria |-> measured,
                   holdout |-> work[w].holdout, shown |-> work[w].shown]
  BY DEF Outcome, measured, author, answers
<1>3. report' = outcomeOf
  BY DEF Persist
<1> HIDE DEF verdict, outcomeOf
<1>4. JuryNeverSawItsHoldout'
  BY <1>1, <1>2, <1>3 DEF JuryNeverSawItsHoldout
<1>5. ASSUME NEW k \in DOMAIN measured
      PROVE  /\ k \in Judged /\ (measured[k].agreed.kappa # Unmeasured => measured[k].agreed.n >= 2)
             /\ measured[k].agreed.n + Cardinality(DOMAIN measured[k].excluded) = Cardinality(work[w].holdout)
  BY <1>1, MeasuredIs DEF measured
<1>6. ASSUME Judged # {}, Passed(verdict)
      PROVE  verdict.kappa >= MinAgreement /\ \E k \in DOMAIN measured : measured[k].agreed.n >= 2
  <2>1. DOMAIN kappa = Judged /\ MinAgreement \in 0..100
    BY CalibrationAssumption
  <2> HIDE DEF kappa, held
  <2>2. verdict.kappa >= MinAgreement /\ \E k \in DOMAIN kappa : kappa[k] # Unmeasured
    BY <1>6, <2>1, PassNeedsAgreement DEF verdict
  <2>3. PICK k \in Judged : kappa[k] # Unmeasured
    BY <2>1, <2>2
  <2>4. k \in DOMAIN measured /\ measured[k].agreed.kappa # Unmeasured
    BY <2>3 DEF kappa
  <2>q. QED BY <1>5, <2>2, <2>4
<1>7. ASSUME NEW o \in LatestOutcome'
      PROVE  /\ o.state = "calibrated" => /\ o.kappa >= MinAgreement
                                          /\ \E k \in DOMAIN o.criteria : o.criteria[k].agreed.n >= 2
             /\ \A k \in DOMAIN o.criteria :
                    o.criteria[k].agreed.n + Cardinality(DOMAIN o.criteria[k].excluded) = o.judged
  <2>1. /\ o.kappa = verdict.kappa /\ o.criteria = measured /\ o.judged = Cardinality(work[w].holdout)
        /\ o.state = "calibrated" => Judged # {} /\ Passed(verdict)
    BY <1>2, <1>3 DEF LatestOutcome
  <2>q. QED BY <1>5, <1>6, <2>1
<1>q. QED BY <1>4, <1>7 DEF ReportsAreEarned, PassIsEarned

LEMMA HoldoutIsFinite ==
    ASSUME NEW grades, IsFiniteSet(GradedOf(grades))
    PROVE  IsFiniteSet(Holdout(grades))
<1> DEFINE graded == [s \in GradedOf(grades) |-> RepresentativeGrade(grades[s])]
<1>1. DOMAIN graded = GradedOf(grades) /\ Fraction \in 1..99 /\ Holdout(grades) = PartitionSamples(graded, Fraction)
  BY CalibrationAssumption DEF Holdout
<1> HIDE DEF graded
<1>2. Holdout(grades) \subseteq GradedOf(grades)
  BY <1>1, PartitionIsOfGraded
<1>q. QED BY <1>2, FS_Subset

LEMMA CalibrationStep == CalibrationInv /\ [Next]_vars => CalibrationInv'
<1> SUFFICES ASSUME CalibrationInv, [Next]_vars PROVE CalibrationInv'
  OBVIOUS
<1>1. /\ DOMAIN work = Workers /\ DOMAIN grade = Samples /\ IsFiniteSet(GradedOf(grade))
      /\ \A w \in Workers : WorkSound(w)
      /\ ReportsAreEarned
  BY DEF CalibrationInv
<1>2. UNCHANGED report => ReportsAreEarned'
  BY <1>1 DEF ReportsAreEarned, JuryNeverSawItsHoldout, PassIsEarned, LatestOutcome
<1>3. ASSUME UNCHANGED <<grade, report>>, NEW w \in Workers, NEW x, work' = [work EXCEPT ![w] = x],
             WorkSound(w)'
      PROVE  CalibrationInv'
  <2>1. ASSUME NEW q \in Workers \ {w} PROVE WorkSound(q)'
    <3>1. work'[q] = work[q]
      BY <1>1, <1>3
    <3>q. QED BY <1>1, <3>1 DEF WorkSound
  <2>2. DOMAIN work' = Workers
    BY <1>1, <1>3
  <2>q. QED BY <1>1, <1>2, <1>3, <2>1, <2>2 DEF CalibrationInv
<1>4. ASSUME UNCHANGED <<grade, report, work>> PROVE CalibrationInv'
  BY <1>1, <1>2, <1>4 DEF CalibrationInv, WorkSound
<1>5. ASSUME NEW s \in Samples, NEW k \in Judged, RecordGrade(s, k) PROVE CalibrationInv'
  <2>1. PICK value : grade' = [grade EXCEPT ![s][k] = value]
    BY <1>5 DEF RecordGrade
  <2>2. GradedOf(grade') \subseteq GradedOf(grade) \cup {s}
    BY <1>1, <2>1 DEF GradedOf
  <2>3. IsFiniteSet(GradedOf(grade'))
    BY <1>1, <2>2, FS_AddElement, FS_Subset
  <2>4. UNCHANGED <<report, work>> /\ DOMAIN grade' = Samples
    BY <1>1, <1>5, <2>1 DEF RecordGrade
  <2>5. GradedOf(grade)' = GradedOf(grade')
    BY DEF GradedOf, Ungraded
  <2>q. QED BY <1>1, <1>2, <2>3, <2>4, <2>5 DEF CalibrationInv, WorkSound
<1>6. ASSUME NEW w \in Workers, BeginCalibration(w) PROVE CalibrationInv'
  <2> DEFINE x == [Idle EXCEPT !.at = "split", !.rubric = rubric, !.author = grade, !.holdout = Holdout(grade)]
  <2>1. work' = [work EXCEPT ![w] = x] /\ UNCHANGED <<grade, report>>
    BY <1>6 DEF BeginCalibration
  <2>2. /\ {"at", "rubric", "author", "holdout", "left", "shown", "jury"} \subseteq DOMAIN x
        /\ x.at = "split" /\ x.shown = {} /\ x.holdout = Holdout(grade)
    BY DEF Idle
  <2> HIDE DEF x
  <2>3. work'[w] = x
    BY <1>1, <2>1
  <2>4. WorkSound(w)'
    BY <1>1, <2>2, <2>3, HoldoutIsFinite DEF WorkSound
  <2>q. QED BY <1>3, <2>1, <2>4
<1>7. ASSUME NEW w \in Workers, RecordPartition(w) PROVE CalibrationInv'
  <2> DEFINE answers == [s \in work[w].holdout |-> Ungraded]
             x == [work[w] EXCEPT !.at = "judge", !.left = work[w].holdout, !.jury = answers]
  <2>1. work' = [work EXCEPT ![w] = x] /\ UNCHANGED <<grade, report>>
    BY <1>7 DEF RecordPartition
  <2>2. WorkSound(w) /\ work[w].at = "split"
    BY <1>1, <1>7 DEF RecordPartition
  <2>3. DOMAIN answers = work[w].holdout
    OBVIOUS
  <2> HIDE DEF answers
  <2>4. /\ DOMAIN x = DOMAIN work[w] /\ x.at = "judge" /\ x.shown = work[w].shown
        /\ x.holdout = work[w].holdout /\ x.jury = answers
    BY <2>2 DEF WorkSound
  <2> HIDE DEF x
  <2>5. work'[w] = x
    BY <1>1, <2>1
  <2>6. WorkSound(w)'
    BY <2>2, <2>3, <2>4, <2>5 DEF WorkSound
  <2>q. QED BY <1>3, <2>1, <2>6
<1>8. ASSUME NEW w \in Workers, JudgeSample(w) PROVE CalibrationInv'
  <2>1. PICK given : work' = [work EXCEPT ![w].jury[Min(work[w].left)] = given,
                                          ![w].left = @ \ {Min(work[w].left)},
                                          ![w].shown = @ \cup Exemplars(w)]
    BY <1>8 DEF JudgeSample
  <2> DEFINE answers == [work[w].jury EXCEPT ![Min(work[w].left)] = given]
             left == work[w].left \ {Min(work[w].left)}
             x == [work[w] EXCEPT !.jury = answers, !.left = left, !.shown = work[w].shown \cup Exemplars(w)]
  <2>2. work' = [work EXCEPT ![w] = x] /\ UNCHANGED <<grade, report>>
    BY <1>8, <2>1 DEF JudgeSample
  <2>3. WorkSound(w) /\ work[w].at = "judge"
    BY <1>1, <1>8 DEF JudgeSample
  <2>4. DOMAIN answers = work[w].holdout
    BY <2>3 DEF WorkSound
  <2>5. Exemplars(w) \cap work[w].holdout = {}
    BY DEF Exemplars
  <2> HIDE DEF answers, left
  <2>6. /\ DOMAIN x = DOMAIN work[w] /\ x.at = "judge" /\ x.shown = work[w].shown \cup Exemplars(w)
        /\ x.holdout = work[w].holdout /\ x.jury = answers
    BY <2>3 DEF WorkSound
  <2> HIDE DEF x
  <2>7. work'[w] = x
    BY <1>1, <2>2
  <2>8. WorkSound(w)'
    BY <2>3, <2>4, <2>5, <2>6, <2>7 DEF WorkSound
  <2>q. QED BY <1>3, <2>2, <2>8
<1>9. ASSUME NEW w \in Workers, Persist(w) \/ CalibrationFails(w) PROVE CalibrationInv'
  <2>1. work' = [work EXCEPT ![w] = Idle] /\ UNCHANGED grade
    BY <1>9 DEF Persist, CalibrationFails
  <2>2. ASSUME NEW q \in Workers PROVE WorkSound(q)'
    <3>1. work'[q] = work[q] \/ work'[q] = Idle
      BY <1>1, <2>1
    <3>q. QED BY <1>1, <3>1 DEF WorkSound, Idle
  <2>3. ReportsAreEarned'
    BY <1>1, <1>2, <1>9, PersistIsEarned DEF CalibrationFails
  <2>q. QED BY <1>1, <2>1, <2>2, <2>3 DEF CalibrationInv
<1>q. QED
  BY <1>4, <1>5, <1>6, <1>7, <1>8, <1>9
     DEF Next, Author, AddSample, EditRubric, Calibrate, vars

\* A calibration that passed earned it, whoever calibrated at once: its jury was shown none
\* of the samples it was measured on, and it was measured on two at the gate or above it;
\* none of them is dropped silently (run_calibration, measure_agreement, verdict_for).
THEOREM ReportIsEarned == MCSpec => []ReportsAreEarned
<1>1. MCInit => CalibrationInv
  BY CalibrationInit DEF MCInit
<1>2. CalibrationInv /\ [MCNext]_<<moving, vars, goalRun, juryVars, evidenceVars>> => CalibrationInv'
  <2>1. [MCNext]_<<moving, vars, goalRun, juryVars, evidenceVars>> => [Next]_vars
    BY DEF MCNext
  <2>q. QED BY <2>1, CalibrationStep
<1>3. CalibrationInv => ReportsAreEarned
  BY DEF CalibrationInv
<1>q. QED BY <1>1, <1>2, <1>3, PTL DEF MCSpec

-----------------------------------------------------------------------------
(***************************************************************************)
(* The jury's operators.  Those of the instance that come from the library *)
(* are the library's.                                                      *)
(***************************************************************************)
LEMMA JurySum == ASSUME NEW f PROVE J!SumFunction(f) = SumFunction(f)
BY DEF SumFunction, SumFunctionOnSet, FoldFunctionOnSet, MapThenFoldSet,
       J!SumFunction, J!SumFunctionOnSet, J!FoldFunctionOnSet, J!MapThenFoldSet

LEMMA JuryProduct == ASSUME NEW S PROVE J!ProductSet(S) = ProductSet(S)
BY DEF ProductSet, FoldSet, MapThenFoldSet, J!ProductSet, J!FoldSet, J!MapThenFoldSet

LEMMA JuryCardinality == ASSUME NEW S PROVE J!Cardinality(S) = Cardinality(S)
BY DEF Cardinality, J!Cardinality

LEMMA Places ==
    ASSUME NEW n \in Int
    PROVE  IsFiniteSet(1..n) /\ Cardinality(1..n) = IF n < 1 THEN 0 ELSE n
<1>1. \A a, b \in Int : IsFiniteSet(a..b) /\ Cardinality(a..b) = IF a > b THEN 0 ELSE b - a + 1
  BY FS_Interval
<1>q. QED BY <1>1

\* The k-th lowest grade is a grade that someone gave.
LEMMA LowestIsGiven ==
    ASSUME NEW grades, IsFiniteSet(DOMAIN grades), \A i \in DOMAIN grades : grades[i] \in Int,
           NEW k \in Nat, 1 <= k, k <= Cardinality(DOMAIN grades)
    PROVE  \E i \in DOMAIN grades : J!Lowest(grades, k) = grades[i]
<1> DEFINE D == DOMAIN grades
           R == {grades[i] : i \in D}
           UpTo(g) == {i \in D : grades[i] <= g}
           C == {g \in R : Cardinality(UpTo(g)) >= k}
<1>1. Cardinality(D) \in Nat /\ D # {}
  BY FS_CardinalityType, FS_EmptySet
<1>2. IsFiniteSet(R) /\ R # {} /\ R \subseteq Int
  <2> DEFINE g == [i \in D |-> grades[i]]
  <2>1. g \in Surjection(D, R)
    BY DEF Surjection
  <2>2. R # {} /\ R \subseteq Int
    BY <1>1
  <2> HIDE DEF g, D, R
  <2>3. IsFiniteSet(D)
    BY DEF D
  <2>q. QED BY <2>1, <2>2, <2>3, FS_Surjection
<1>3. Max(R) \in R /\ \A x \in R : Max(R) >= x
  <2> HIDE DEF R
  <2>q. QED BY <1>2, Extremes
<1>4. UpTo(Max(R)) = D
  BY <1>3
<1>5. Max(R) \in C
  BY <1>3, <1>4
<1>6. IsFiniteSet(C) /\ C # {} /\ C \subseteq Int
  <2>1. C \subseteq R
    OBVIOUS
  <2> HIDE DEF C, R
  <2>q. QED BY <1>2, <1>5, <2>1, FS_Subset
<1>7. Min(C) \in C
  <2> HIDE DEF C
  <2>q. QED BY <1>6, Extremes
<1>8. J!Lowest(grades, k) = Min(C)
  BY JuryCardinality DEF J!Lowest, J!Min, Min, J!Range
<1>q. QED BY <1>7, <1>8

\* A median lies between the lowest and the highest grade.
LEMMA MedianBetween ==
    ASSUME NEW grades, IsFiniteSet(DOMAIN grades), DOMAIN grades # {},
           \A i \in DOMAIN grades : grades[i] \in Int, NEW low \in Int, NEW high \in Int,
           \A i \in DOMAIN grades : low <= grades[i] /\ grades[i] <= high
    PROVE  J!TwiceMedian(grades) \in Int /\ 2 * low <= J!TwiceMedian(grades) /\ J!TwiceMedian(grades) <= 2 * high
<1> DEFINE n == Cardinality(DOMAIN grades)
<1>1. n \in Nat /\ n >= 1
  BY FS_CardinalityType, FS_EmptySet
<1> HIDE DEF n
<1>2. (n + 1) \div 2 \in Nat /\ 1 <= (n + 1) \div 2 /\ (n + 1) \div 2 <= n
  BY <1>1
<1>3. n \div 2 + 1 \in Nat /\ 1 <= n \div 2 + 1 /\ n \div 2 + 1 <= n
  BY <1>1
<1>4. PICK i \in DOMAIN grades : J!Lowest(grades, (n + 1) \div 2) = grades[i]
  BY <1>2, LowestIsGiven DEF n
<1>5. PICK j \in DOMAIN grades : J!Lowest(grades, n \div 2 + 1) = grades[j]
  BY <1>3, LowestIsGiven DEF n
<1>6. J!TwiceMedian(grades) = grades[i] + grades[j]
  BY <1>4, <1>5, JuryCardinality DEF J!TwiceMedian, n
<1>q. QED BY <1>6

\* A coefficient of agreement is at most whole.
LEMMA AlphaIsAtMostWhole ==
    ASSUME NEW units, NEW jurors, IsFiniteSet(DOMAIN units), IsFiniteSet(jurors),
           \A i \in DOMAIN units : \A j \in jurors : units[i][j] \in Int,
           J!KrippendorffAlpha(units, jurors) # J!Unmeasured
    PROVE  J!KrippendorffAlpha(units, jurors) <= 100
<1> DEFINE given(i) == {j \in jurors : units[i][j] # 0}
           used == {i \in DOMAIN units : Cardinality(given(i)) >= 2}
           ratings == UNION {{<<i, j>> : j \in given(i)} : i \in used}
           scale == J!ProductSet(1 .. Cardinality(jurors) - 1)
           gave(r) == units[r[1]][r[2]]
           squares(R) == [p \in R \X R |-> J!Square(gave(p[1]) - gave(p[2]))]
           apart(R) == J!SumFunction(squares(R))
           pairs == [i \in used |-> (scale \div (Cardinality(given(i)) - 1)) * apart({<<i, j>> : j \in given(i)})]
           within == J!SumFunction(pairs)
           overall == apart(ratings)
<1>1. /\ used # {} /\ overall # 0
      /\ J!KrippendorffAlpha(units, jurors)
            = 100 - ((100 * within * (Cardinality(ratings) - 1)) \div (overall * scale))
  BY JuryCardinality DEF J!KrippendorffAlpha, J!SumOver
<1>2. scale \in Nat \ {0}
  <2> DEFINE S == 1 .. Cardinality(jurors) - 1
  <2>1. IsFiniteSet(S) /\ S \subseteq Nat \ {0}
    <3>1. Cardinality(jurors) - 1 \in Int
      BY FS_CardinalityType
    <3>q. QED BY <3>1, Places
  <2> HIDE DEF S
  <2>2. ProductSet(S) \in Nat \ {0}
    BY <2>1, ProductIsPositive
  <2>q. QED BY <2>2, JuryProduct DEF S
<1>3. ASSUME NEW R, R \subseteq (DOMAIN units) \X jurors
      PROVE  IsFiniteSet(R) /\ apart(R) \in Nat
  <2>1. IsFiniteSet((DOMAIN units) \X jurors)
    BY FS_Product
  <2>2. IsFiniteSet(R)
    BY <1>3, <2>1, FS_Subset
  <2> DEFINE P == R \X R
             s == [p \in P |-> J!Square(gave(p[1]) - gave(p[2]))]
  <2>3. IsFiniteSet(P)
    BY <2>2, FS_Product
  <2>4. s \in [P -> Nat]
    <3>1. ASSUME NEW p \in P PROVE J!Square(gave(p[1]) - gave(p[2])) \in Nat
      <4>1. gave(p[1]) \in Int /\ gave(p[2]) \in Int
        BY <1>3
      <4>2. \A a, b \in Int : J!Square(a - b) \in Nat
        <5>1. \A a, b \in Int : a - b \in Int
          OBVIOUS
        <5>2. \A c \in Int : c * c \in Nat
          OBVIOUS
        <5>q. QED BY <5>1, <5>2 DEF J!Square
      <4> HIDE DEF gave
      <4>q. QED BY <4>1, <4>2
    <3>q. QED BY <3>1
  <2>5. SumFunction(s) \in Nat
    <3> HIDE DEF s, P
    <3>q. QED BY <2>3, <2>4, SumCovers
  <2>q. QED BY <2>2, <2>5, JurySum
<1>4. ASSUME NEW i \in used PROVE {<<i, j>> : j \in given(i)} \subseteq (DOMAIN units) \X jurors
  OBVIOUS
<1>5. ratings \subseteq (DOMAIN units) \X jurors
  BY <1>4
<1>6. overall \in Nat \ {0} /\ IsFiniteSet(ratings)
  <2> HIDE DEF ratings, apart
  <2>q. QED BY <1>1, <1>3, <1>5
<1>7. Cardinality(ratings) \in Nat /\ Cardinality(ratings) >= 1
  <2>1. ratings # {}
    <3>1. PICK i \in used : TRUE
      BY <1>1
    <3>2. given(i) # {}
      BY <3>1, FS_EmptySet
    <3>3. PICK j \in given(i) : TRUE
      BY <3>2
    <3>4. <<i, j>> \in ratings
      <4> HIDE DEF used, given
      <4>1. <<i, j>> \in {<<i, x>> : x \in given(i)}
        BY <3>3
      <4>q. QED BY <3>1, <4>1
    <3>q. QED BY <3>4
  <2> HIDE DEF ratings
  <2>q. QED BY <1>6, <2>1, FS_CardinalityType, FS_EmptySet
<1>8. within \in Nat
  <2>1. ASSUME NEW i \in used PROVE pairs[i] \in Nat
    <3> DEFINE c == Cardinality(given(i)) - 1
               a == apart({<<i, j>> : j \in given(i)})
    <3>1. c \in Nat /\ c >= 1
      <4>1. IsFiniteSet(given(i))
        BY FS_Subset
      <4>2. Cardinality(given(i)) \in Nat /\ Cardinality(given(i)) >= 2
        <5>1. Cardinality(given(i)) >= 2
          OBVIOUS
        <5> HIDE DEF given
        <5>q. QED BY <4>1, <5>1, FS_CardinalityType
      <4> HIDE DEF given
      <4>q. QED BY <4>2
    <3>2. a \in Nat
      <4> HIDE DEF apart
      <4>q. QED BY <1>3, <1>4
    <3>3. pairs[i] = (scale \div c) * a
      OBVIOUS
    <3> HIDE DEF pairs, a, c, scale
    <3>4. scale \div c \in Nat
      BY <1>2, <3>1
    <3>5. \A x, y \in Nat : x * y \in Nat
      OBVIOUS
    <3>q. QED BY <3>2, <3>3, <3>4, <3>5
  <2>2. IsFiniteSet(used) /\ pairs \in [used -> Nat]
    <3>1. IsFiniteSet(used)
      BY FS_Subset
    <3>2. pairs = [i \in used |-> pairs[i]]
      OBVIOUS
    <3>3. \A i \in used : pairs[i] \in Nat
      BY <2>1
    <3> HIDE DEF pairs, used
    <3>q. QED BY <3>1, <3>2, <3>3
  <2>3. SumFunction(pairs) \in Nat
    <3> HIDE DEF pairs, used
    <3>q. QED BY <2>2, SumCovers
  <2>q. QED BY <2>3, JurySum
<1> DEFINE m == Cardinality(ratings) - 1
           d == overall * scale
           x == 100 * within * m
<1>9. d \in Nat /\ d > 0
  <2> HIDE DEF overall, scale
  <2>1. \A a, b \in Nat : a * b \in Nat /\ (a > 0 /\ b > 0 => a * b > 0)
    OBVIOUS
  <2>q. QED BY <1>2, <1>6, <2>1
<1>10. x \in Nat
  <2> HIDE DEF within, ratings
  <2>1. m \in Nat
    BY <1>7
  <2>2. \A a, b \in Nat : 100 * a * b \in Nat
    OBVIOUS
  <2> HIDE DEF m
  <2>q. QED BY <1>8, <2>1, <2>2
<1>11. J!KrippendorffAlpha(units, jurors) = 100 - (x \div d)
  BY <1>1
<1> HIDE DEF x, d
<1>12. x \div d \in Nat
  BY <1>9, <1>10
<1>q. QED BY <1>11, <1>12

\* A place of the poll is a repetition of one juror.
LEMMA PlacesOfAPoll ==
    ASSUME NEW R \in Nat \ {0}, NEW P \in Nat, NEW j \in 1..P, NEW r \in 1..R
    PROVE  (j - 1) * R + r \in 1 .. P * R /\ ((((j - 1) * R + r) - 1) \div R) + 1 = j
<1> DEFINE a == j - 1
           b == r - 1
<1>1. a \in Nat /\ b \in 0 .. R - 1 /\ a + 1 <= P
  OBVIOUS
<1>2. (j - 1) * R + r = a * R + b + 1
  OBVIOUS
<1> HIDE DEF a, b
<1>3. a * R + b \in Nat /\ (a * R + b) \div R = a
  <2>1. a * R \in Nat
    BY <1>1
  <2>2. \A q \in Int : q > a => q * R >= a * R + R
    BY <1>1
  <2>3. \A q \in Int : q < a => q * R + R <= a * R
    BY <1>1
  <2> DEFINE q == (a * R + b) \div R
  <2>4. q \in Int /\ q * R <= a * R + b /\ a * R + b < q * R + R
    BY <1>1, <2>1
  <2> HIDE DEF q
  <2>5. q = a
    BY <1>1, <2>1, <2>2, <2>3, <2>4
  <2>q. QED BY <1>1, <2>1, <2>5 DEF q
<1>4. a * R + b + 1 <= P * R /\ P * R \in Int
  <2>1. a * R + R <= P * R /\ P * R \in Int
    BY <1>1
  <2>2. a * R \in Int
    BY <1>1
  <2>q. QED BY <1>1, <2>1, <2>2
<1>5. j = a + 1
  BY DEF a
<1>q. QED BY <1>1, <1>2, <1>3, <1>4, <1>5

-----------------------------------------------------------------------------
(***************************************************************************)
(* The invariant of the jury: whoever was polled could be polled, every    *)
(* verdict that is no refusal says something, and an outcome is that of    *)
(* all the verdicts.                                                       *)
(***************************************************************************)
Verdicts == IF mode = "pairwise" THEN UNION {J!PairwiseVerdicts(n) : n \in Int} ELSE J!AbsoluteVerdicts

JuryInv ==
    /\ listed \subseteq Models /\ settings.requested \in Requests /\ mode \in {"absolute", "pairwise"}
    /\ IsFiniteSet(DOMAIN jury.resolved) /\ J!JurorsAreEligible
    /\ verdicts \in Seq(Verdicts)
    /\ outcome # J!NoOutcome => jury # J!NoJury /\ Len(verdicts) = J!Polls /\ J!RefusalsNeverCount

LEMMA ConsideredAreFew ==
    ASSUME listed \subseteq Models, settings.requested \in Requests
    PROVE  IsFiniteSet(DOMAIN J!Considered)
<1>1. IsFiniteSet(listed) /\ Cardinality(listed) \in Int
  BY JuryAssumption, FS_Subset, FS_CardinalityType
<1>2. DOMAIN J!ListedInOrder = 1 .. Cardinality(listed)
  BY JuryCardinality DEF J!ListedInOrder
<1>3. IsFiniteSet(DOMAIN J!ListedInOrder)
  BY <1>1, <1>2, Places
<1>q. QED BY <1>3, JuryAssumption DEF J!Considered

LEMMA BuildIsSound == ASSUME JuryInv, J!BuildJury PROVE JuryInv'
<1> DEFINE assembly == J!AssembleJury
           jurors == assembly.jurors
           chosen == {i \in J!EligibleJurors :
                         J!Cardinality({k \in J!EligibleJurors : k <= i}) <= settings.size}
<1>1. /\ jurors = [i \in chosen |-> J!Considered[i]]
      /\ assembly.reduced = (J!Cardinality(chosen) < settings.size)
  BY DEF J!AssembleJury
<1>2. ASSUME NEW i \in chosen
      PROVE  i \in DOMAIN J!Considered /\ jurors[i] \in listed /\ (settings.refuseSelf => jurors[i] # Candidate)
  BY <1>1, <1>2 DEF J!EligibleJurors, J!Reasons
<1> HIDE DEF assembly
<1>3. PICK lost : jury' = [jurors |-> jurors, reduced |-> assembly.reduced, refused |-> assembly.refused,
                          resolved |-> [i \in {k \in DOMAIN jurors : jurors[k] \notin lost} |-> jurors[i]]]
  BY DEF J!BuildJury, assembly
<1>4. /\ jury'.jurors = jurors /\ jury'.reduced = assembly.reduced
      /\ DOMAIN jury'.resolved \subseteq DOMAIN jurors
      /\ \A i \in DOMAIN jury'.resolved : jury'.resolved[i] = jurors[i]
  BY <1>3
<1>5. DOMAIN jurors = chosen
  BY <1>1
<1> HIDE DEF jurors, chosen
<1>6. IsFiniteSet(DOMAIN jury'.resolved)
  BY <1>2, <1>4, <1>5, ConsideredAreFew, FS_Subset DEF JuryInv
<1>7. /\ UNCHANGED <<listed, settings, mode, bias, verdicts, outcome>> /\ outcome = J!NoOutcome
  BY DEF J!BuildJury
<1>8. J!JurorsAreEligible'
  <2>1. settings.refuseSelf => Candidate \notin {jury'.resolved[i] : i \in DOMAIN jury'.resolved}
    BY <1>2, <1>4, <1>5
  <2>2. {jury'.jurors[i] : i \in DOMAIN jury'.jurors} \subseteq listed
    BY <1>2, <1>4, <1>5
  <2>3. J!Cardinality(DOMAIN jury'.jurors) < settings.size => jury'.reduced
    BY <1>1, <1>4, <1>5
  <2>q. QED BY <1>7, <2>1, <2>2, <2>3 DEF J!JurorsAreEligible, J!Range
<1>q. QED BY <1>6, <1>7, <1>8 DEF JuryInv, Verdicts, J!PairwiseVerdicts, J!NoOutcome

\* Whoever does not refuse says something.
LEMMA VerdictsSaySomething ==
    ASSUME NEW v \in Verdicts
    PROVE  v.grade \in Int /\ (v.refusal = "none" => IF mode = "pairwise" THEN v.choice # "none" ELSE v.grade # 0)
<1>1. ASSUME NEW r \in J!Refusals
      PROVE  J!Refused(r).grade \in Int /\ J!Refused(r).refusal # "none"
  BY DEF J!Refusals, J!Refused
<1>2. "protocol_error" \in J!Refusals
  BY DEF J!Refusals
<1>3. CASE mode = "pairwise"
  <2>1. PICK n \in Int : v \in J!PairwiseVerdicts(n)
    BY <1>3 DEF Verdicts
  <2>2. CASE \E r \in J!Refusals : v = J!Refused(r)
    BY <1>1, <2>2
  <2>3. CASE \E p : v = [grade |-> 0, choice |-> J!ParseChoice(p, n), refusal |-> "none"]
    <3>1. PICK p : v = [grade |-> 0, choice |-> J!ParseChoice(p, n), refusal |-> "none"]
      BY <2>3
    <3>2. J!ParseChoice(p, n) # "none"
      BY DEF J!ParseChoice
    <3> HIDE DEF J!ParseChoice
    <3>q. QED BY <1>3, <3>1, <3>2
  <2>q. QED BY <1>2, <2>1, <2>2, <2>3 DEF J!PairwiseVerdicts
<1>4. CASE mode # "pairwise"
  <2>1. v \in J!AbsoluteVerdicts
    BY <1>4 DEF Verdicts
  <2>2. CASE \E r \in J!Refusals : v = J!Refused(r)
    BY <1>1, <2>2
  <2>3. CASE \E g \in 1..Points : v = [grade |-> g, choice |-> "none", refusal |-> "none"]
    BY <1>4, <2>3
  <2>q. QED BY <2>1, <2>2, <2>3 DEF J!AbsoluteVerdicts
<1>q. QED BY <1>3, <1>4

LEMMA PollsAreNatural ==
    ASSUME JuryInv
    PROVE  J!Polled \in Nat /\ J!Polls = J!Polled * Repetitions /\ J!Polls \in Nat
<1>1. J!Polled \in Nat
  BY JuryCardinality, FS_CardinalityType DEF JuryInv, J!Polled
<1>q. QED BY <1>1, JuryAssumption DEF J!Polls

LEMMA PollIsSound == ASSUME JuryInv, J!Poll PROVE JuryInv'
<1>1. PICK v \in Verdicts : verdicts' = Append(verdicts, v)
  <2>1. J!Repetition(Len(verdicts) + 1) \in Int
    BY JuryAssumption DEF J!Repetition, JuryInv
  <2>q. QED BY <2>1 DEF J!Poll, Verdicts
<1>2. verdicts' \in Seq(Verdicts)
  BY <1>1 DEF JuryInv
<1>3. UNCHANGED <<listed, settings, mode, bias, jury, outcome>>
  BY DEF J!Poll
<1>4. Verdicts' = Verdicts /\ (J!JurorsAreEligible)' = J!JurorsAreEligible
  BY <1>3 DEF Verdicts, J!JurorsAreEligible, J!NoJury, J!PairwiseVerdicts
<1>5. outcome = J!NoOutcome
  <2>1. Len(verdicts) \in Nat /\ Len(verdicts) + 1 <= J!Polls
    BY DEF J!Poll, JuryInv
  <2>q. QED BY <2>1, PollsAreNatural DEF JuryInv
<1>q. QED BY <1>2, <1>3, <1>4, <1>5 DEF JuryInv, J!NoOutcome

\* An agreement that was measured is one of two jurors who graded.
LEMMA AgreementIsOfTwo ==
    ASSUME JuryInv, Len(verdicts) = J!Polls, mode # "pairwise", J!AlphaAcrossJurors # J!Unmeasured,
           NEW graders, IsFiniteSet(graders),
           \A k \in DOMAIN verdicts : verdicts[k].refusal = "none" => J!Ordinal(k) \in graders
    PROVE  Cardinality(graders) >= 2 /\ J!AlphaAcrossJurors <= 100
<1> DEFINE place(j, r) == (j - 1) * Repetitions + r
           gradeAt(r, j) == IF J!Usable(verdicts[place(j, r)]) THEN verdicts[place(j, r)].grade ELSE 0
           grades == [r \in 1 .. Repetitions |-> [j \in 1 .. J!Polled |-> gradeAt(r, j)]]
           units == {r \in DOMAIN grades : \E j \in DOMAIN grades[r] : grades[r][j] # 0}
           jurors == {j \in 1 .. J!Polled : \E r \in units : grades[r][j] # 0}
           table == [r \in units |-> grades[r]]
<1>1. /\ Cardinality(jurors) >= 2 \/ ~(Cardinality(jurors) < 2)
      /\ J!AlphaAcrossJurors = J!KrippendorffAlpha(table, jurors)
  BY JuryCardinality DEF J!AlphaAcrossJurors
<1>2. /\ J!Polled \in Nat /\ Repetitions \in Nat \ {0} /\ DOMAIN verdicts = 1 .. J!Polled * Repetitions
  BY PollsAreNatural, JuryAssumption DEF JuryInv
<1>3. ASSUME NEW j \in 1 .. J!Polled, NEW r \in 1 .. Repetitions
      PROVE  /\ place(j, r) \in DOMAIN verdicts /\ J!Ordinal(place(j, r)) = j /\ gradeAt(r, j) \in Int
             /\ gradeAt(r, j) # 0 => verdicts[place(j, r)].refusal = "none"
  <2>1. place(j, r) \in DOMAIN verdicts /\ J!Ordinal(place(j, r)) = j
    BY <1>2, PlacesOfAPoll DEF J!Ordinal
  <2> HIDE DEF place
  <2>2. verdicts[place(j, r)] \in Verdicts
    BY <2>1 DEF JuryInv
  <2>q. QED BY <2>1, <2>2, VerdictsSaySomething DEF J!Usable
<1> HIDE DEF place, gradeAt
<1>4. jurors \subseteq graders
  <2>1. ASSUME NEW j \in jurors PROVE j \in graders
    <3>1. PICK r \in 1 .. Repetitions : gradeAt(r, j) # 0
      OBVIOUS
    <3>q. QED BY <1>3, <3>1
  <2>q. QED BY <2>1
<1>5. IsFiniteSet(jurors) /\ IsFiniteSet(DOMAIN table)
  <2>1. IsFiniteSet(1 .. J!Polled) /\ IsFiniteSet(1 .. Repetitions)
    BY <1>2, Places
  <2>q. QED BY <2>1, FS_Subset
<1>6. \A i \in DOMAIN table : \A j \in jurors : table[i][j] \in Int
  BY <1>3
<1> HIDE DEF jurors, table
<1>7. J!KrippendorffAlpha(table, jurors) <= 100
  BY <1>1, <1>5, <1>6, AlphaIsAtMostWhole
<1>8. Cardinality(graders) >= 2
  <2>1. Cardinality(jurors) \in Nat /\ Cardinality(graders) \in Nat /\ Cardinality(jurors) <= Cardinality(graders)
    BY <1>4, <1>5, FS_Subset, FS_CardinalityType
  <2>q. QED BY <1>1, <2>1
<1>q. QED BY <1>1, <1>7, <1>8

LEMMA CombineIsSound == ASSUME JuryInv, J!Combine PROVE JuryInv'
<1> DEFINE answered == {k \in DOMAIN verdicts : verdicts[k].refusal = "none"}
           given == {verdicts[i].grade : i \in answered}
           graders == {J!Ordinal(i) : i \in answered}
           usable == {i \in DOMAIN verdicts : J!Usable(verdicts[i])}
           grades == [i \in usable |-> verdicts[i].grade]
<1>1. /\ outcome' = J!CombineVerdicts /\ Len(verdicts) = J!Polls /\ jury # J!NoJury
      /\ UNCHANGED <<listed, settings, mode, bias, jury, verdicts>>
  BY DEF J!Combine
<1>2. Len(verdicts) \in Nat /\ DOMAIN verdicts = 1 .. Len(verdicts) /\ \A i \in DOMAIN verdicts : verdicts[i] \in Verdicts
  BY DEF JuryInv
<1>3. usable = answered
  BY <1>2, VerdictsSaySomething DEF J!Usable
<1>4. \A i \in answered : verdicts[i].grade \in Int
  BY <1>2, VerdictsSaySomething
<1>5. IsFiniteSet(answered)
  <2>1. IsFiniteSet(1 .. Len(verdicts))
    BY <1>2, Places
  <2>q. QED BY <1>2, <2>1, FS_Subset
<1>6. ASSUME NEW f, DOMAIN f = answered PROVE IsFiniteSet({f[i] : i \in answered})
  <2> DEFINE R == {f[i] : i \in answered}
             g == [i \in answered |-> f[i]]
  <2>1. g \in Surjection(answered, R)
    BY DEF Surjection
  <2> HIDE DEF g, R, answered
  <2>2. IsFiniteSet(R)
    BY <1>5, <2>1, FS_Surjection
  <2>q. QED BY <2>2 DEF R
<1>7. IsFiniteSet(given) /\ IsFiniteSet(graders)
  <2> DEFINE f == [i \in answered |-> verdicts[i].grade]
             o == [i \in answered |-> J!Ordinal(i)]
  <2>1. IsFiniteSet({f[i] : i \in answered}) /\ IsFiniteSet({o[i] : i \in answered})
    <3>1. DOMAIN f = answered /\ DOMAIN o = answered
      OBVIOUS
    <3> HIDE DEF f, o, answered
    <3>q. QED BY <1>6, <3>1
  <2>2. given = {f[i] : i \in answered} /\ graders = {o[i] : i \in answered}
    OBVIOUS
  <2>q. QED BY <2>1, <2>2
<1>8. given # {} <=> answered # {}
  OBVIOUS
<1> DEFINE fair(out) ==
              /\ out.status = "scored" <=> given # {}
              /\ out.median # J!Unmeasured => 2 * Min(given) <= out.median /\ out.median <= 2 * Max(given)
              /\ out.alpha # J!Unmeasured => Cardinality(graders) >= 2 /\ out.alpha <= 100
<1>9. fair(J!CombineVerdicts)
  <2>1. CASE usable = {}
    <3>1. J!CombineVerdicts = J!Skipped
      BY <2>1 DEF J!CombineVerdicts
    <3>2. J!Skipped.status = "skipped" /\ J!Skipped.median = J!Unmeasured /\ J!Skipped.alpha = J!Unmeasured
      BY DEF J!Skipped, J!NoOutcome
    <3> HIDE DEF answered, given, graders
    <3>q. QED BY <1>3, <1>8, <2>1, <3>1, <3>2
  <2>2. CASE usable # {} /\ mode = "pairwise"
    <3>1. /\ J!CombineVerdicts.status = "scored" /\ J!CombineVerdicts.median = J!Unmeasured
          /\ J!CombineVerdicts.alpha = J!Unmeasured
      BY <2>2 DEF J!CombineVerdicts, J!Skipped, J!NoOutcome
    <3> HIDE DEF answered, given, graders
    <3>q. QED BY <1>3, <1>8, <2>2, <3>1
  <2>3. CASE usable # {} /\ mode # "pairwise"
    <3>1. /\ J!CombineVerdicts.status = "scored" /\ J!CombineVerdicts.median = J!TwiceMedian(grades)
          /\ J!CombineVerdicts.alpha = J!AlphaAcrossJurors
      BY <2>3 DEF J!CombineVerdicts
    <3>2. J!AlphaAcrossJurors # J!Unmeasured => Cardinality(graders) >= 2 /\ J!AlphaAcrossJurors <= 100
      <4>1. \A k \in DOMAIN verdicts : verdicts[k].refusal = "none" => J!Ordinal(k) \in graders
        OBVIOUS
      <4> HIDE DEF graders
      <4>q. QED BY <1>1, <1>7, <2>3, <4>1, AgreementIsOfTwo
    <3>3. 2 * Min(given) <= J!TwiceMedian(grades) /\ J!TwiceMedian(grades) <= 2 * Max(given)
      <4>1. given \subseteq Int /\ given # {} /\ \A i \in answered : verdicts[i].grade \in given
        BY <1>3, <1>4, <2>3
      <4>2. DOMAIN grades = answered /\ \A i \in answered : grades[i] = verdicts[i].grade
        BY <1>3
      <4> HIDE DEF given, grades
      <4>3. /\ Min(given) \in Int /\ Max(given) \in Int
            /\ \A x \in given : Min(given) <= x /\ x <= Max(given)
        BY <1>7, <4>1, Extremes
      <4>4. \A i \in DOMAIN grades : grades[i] \in Int /\ Min(given) <= grades[i] /\ grades[i] <= Max(given)
        BY <4>1, <4>2, <4>3
      <4>5. IsFiniteSet(DOMAIN grades) /\ DOMAIN grades # {}
        BY <1>3, <1>5, <2>3, <4>2
      <4>q. QED BY <4>3, <4>4, <4>5, MedianBetween
    <3>4. given # {}
      BY <1>3, <1>8, <2>3
    <3> HIDE DEF given, graders, grades
    <3>q. QED BY <3>1, <3>2, <3>3, <3>4
  <2>q. QED BY <2>1, <2>2, <2>3
<1>10. fair(outcome')
  BY <1>1, <1>9
<1>11. J!RefusalsNeverCount'
  BY <1>1, <1>10, JuryCardinality
     DEF J!RefusalsNeverCount, J!Min, J!Max, Min, Max, J!Ordinal, J!Unmeasured
<1>12. Verdicts' = Verdicts /\ (J!JurorsAreEligible)' = J!JurorsAreEligible /\ (J!Polls)' = J!Polls
  BY <1>1 DEF Verdicts, J!JurorsAreEligible, J!NoJury, J!PairwiseVerdicts, J!Polls, J!Polled
<1>q. QED BY <1>1, <1>11, <1>12 DEF JuryInv, J!NoJury

LEMMA JuryInit == J!Init => JuryInv
<1> SUFFICES ASSUME J!Init PROVE JuryInv
  OBVIOUS
<1>1. /\ listed \subseteq Models /\ settings.requested \in Requests /\ mode \in {"absolute", "pairwise"}
      /\ jury = J!NoJury /\ verdicts = <<>> /\ outcome = J!NoOutcome
  BY DEF J!Init
<1>2. IsFiniteSet(DOMAIN jury.resolved)
  <2>1. DOMAIN <<>> = {}
    OBVIOUS
  <2>q. QED BY <1>1, <2>1, FS_EmptySet DEF J!NoJury
<1>q. QED BY <1>1, <1>2 DEF JuryInv, J!JurorsAreEligible

LEMMA JuryStep == JuryInv /\ [J!Next]_juryVars => JuryInv'
<1> SUFFICES ASSUME JuryInv, [J!Next]_juryVars PROVE JuryInv'
  OBVIOUS
<1>1. CASE UNCHANGED juryVars
  BY <1>1 DEF juryVars, JuryInv, Verdicts, J!PairwiseVerdicts, J!JurorsAreEligible, J!RefusalsNeverCount,
              J!Polls, J!Polled, J!NoJury, J!NoOutcome, J!Ordinal
<1>q. QED BY <1>1, BuildIsSound, PollIsSound, CombineIsSound DEF J!Next

\* Whatever the provider lists, a goal asks for and the jurors answer: no juror is one that the
\* settings refuse, a short jury says so, and refusals neither score an outcome, nor move its
\* median, nor make an agreement of it (assemble_jury, combine_verdicts).
THEOREM JuryIsHonest == MCSpec => []JuriesAreHonest
<1>1. MCInit => JuryInv
  BY JuryInit DEF MCInit
<1>2. JuryInv /\ [MCNext]_<<moving, vars, goalRun, juryVars, evidenceVars>> => JuryInv'
  <2>1. [MCNext]_<<moving, vars, goalRun, juryVars, evidenceVars>> => [J!Next]_juryVars
    BY DEF MCNext
  <2>q. QED BY <2>1, JuryStep
<1>3. JuryInv => JuriesAreHonest
  BY DEF JuryInv, JuriesAreHonest, J!RefusalsNeverCount
<1>q. QED BY <1>1, <1>2, <1>3, PTL DEF MCSpec

-----------------------------------------------------------------------------
(***************************************************************************)
(* The figures of a record.  The operators of the instance that come from  *)
(* the library are the library's.                                          *)
(***************************************************************************)
\* The instance's sums are the library's.
LEMMA EvidenceSum == ASSUME NEW f PROVE E!SumFunction(f) = SumFunction(f)
BY DEF SumFunction, SumFunctionOnSet, FoldFunctionOnSet, MapThenFoldSet,
       E!SumFunction, E!SumFunctionOnSet, E!FoldFunctionOnSet, E!MapThenFoldSet

\* So are its extremes.
LEMMA EvidenceExtremes == ASSUME NEW S PROVE E!Min(S) = Min(S) /\ E!Max(S) = Max(S)
BY DEF Min, Max, E!Min, E!Max

\* The lower and the higher of two integers.
LEMMA MinMaxOfTwo ==
    ASSUME NEW a \in Int, NEW b \in Int
    PROVE  /\ E!Min({a, b}) = (IF a <= b THEN a ELSE b)
           /\ E!Max({a, b}) = (IF a >= b THEN a ELSE b)
<1> DEFINE S == {a, b}
<1>1. S # {} /\ S \subseteq Int /\ a \in S /\ b \in S /\ \A x \in S : x = a \/ x = b
  OBVIOUS
<1>0. IsFiniteSet(S)
  <2>1. S = ({} \cup {a}) \cup {b}
    OBVIOUS
  <2>2. IsFiniteSet({} \cup {a})
    BY FS_EmptySet, FS_AddElement
  <2> HIDE DEF S
  <2>q. QED BY <2>1, <2>2, FS_AddElement
<1> HIDE DEF S
<1>2. /\ Min(S) \in S /\ \A x \in S : Min(S) <= x
      /\ Max(S) \in S /\ \A x \in S : Max(S) >= x
  BY <1>0, <1>1, Extremes
<1>3. /\ Min(S) = (IF a <= b THEN a ELSE b)
      /\ Max(S) = (IF a >= b THEN a ELSE b)
  <2> DEFINE least == Min(S)
             most == Max(S)
  <2>1. /\ least \in {a, b} /\ least <= a /\ least <= b
        /\ most \in {a, b} /\ most >= a /\ most >= b
    BY <1>1, <1>2
  <2> HIDE DEF least, most
  <2>2. least = (IF a <= b THEN a ELSE b) /\ most = (IF a >= b THEN a ELSE b)
    BY <2>1
  <2>q. QED BY <2>2 DEF least, most
<1>q. QED BY <1>3, EvidenceExtremes DEF S

\* What is clamped lies between the bounds.
LEMMA ClampIsBetween ==
    ASSUME NEW n \in Int, NEW low \in Int, NEW high \in Int, low <= high
    PROVE  E!Clamp(n, low, high) \in Int /\ low <= E!Clamp(n, low, high) /\ E!Clamp(n, low, high) <= high
<1> DEFINE x == E!Min({high, n})
<1>1. x \in Int /\ x <= high
  BY MinMaxOfTwo
<1> HIDE DEF x
<1>2. E!Max({low, x}) = (IF low >= x THEN low ELSE x)
  BY <1>1, MinMaxOfTwo
<1>q. QED BY <1>1, <1>2 DEF E!Clamp, x

\* A quotient lies where its bounds say.
LEMMA QuotientIsBetween ==
    ASSUME NEW n \in Int, NEW d \in Nat \ {0}, NEW low \in Int, NEW high \in Int,
           low * d <= n, n <= high * d
    PROVE  n \div d \in Int /\ low <= n \div d /\ n \div d <= high
<1> DEFINE q == n \div d
<1>1. q \in Int /\ q * d <= n /\ n < q * d + d
  OBVIOUS
<1> HIDE DEF q
<1>2. q < low => q * d + d <= low * d
  <2> SUFFICES ASSUME q < low PROVE q * d + d <= low * d
    OBVIOUS
  <2>1. low - q - 1 \in Nat /\ d \in Nat
    BY <1>1
  <2>2. (low - q - 1) * d >= 0
    BY <2>1
  <2>3. (low - q - 1) * d = low * d - q * d - d
    BY <1>1
  <2>q. QED BY <1>1, <2>2, <2>3
<1>3. q > high => high * d + d <= q * d
  <2> SUFFICES ASSUME q > high PROVE high * d + d <= q * d
    OBVIOUS
  <2>1. q - high - 1 \in Nat /\ d \in Nat
    BY <1>1
  <2>2. (q - high - 1) * d >= 0
    BY <2>1
  <2>3. (q - high - 1) * d = q * d - high * d - d
    BY <1>1
  <2>q. QED BY <1>1, <2>2, <2>3
<1>4. low * d \in Int /\ high * d \in Int /\ q * d \in Int
  BY <1>1
<1>5. low <= q /\ q <= high
  BY <1>1, <1>2, <1>3, <1>4
<1>q. QED BY <1>1, <1>5 DEF q

\* A weighted mean of values under positive weights lies between the lowest and the highest.
LEMMA MeanIsBetween ==
    ASSUME NEW S, IsFiniteSet(S), S # {}, NEW w \in [S -> Nat \ {0}], NEW f \in [S -> Int],
           NEW low \in Int, NEW high \in Int, \A x \in S : low <= f[x] /\ f[x] <= high
    PROVE  LET mean == SumFunction([x \in S |-> w[x] * f[x]]) \div SumFunction([x \in S |-> w[x]])
           IN  mean \in Int /\ low <= mean /\ mean <= high
<1> DEFINE g == [x \in S |-> w[x] * f[x]]
           h == [x \in S |-> w[x]]
<1>1. g \in [S -> Int] /\ h \in [S -> Int] /\ h \in [S -> Nat]
  OBVIOUS
<1>2. Weighs(S, g, h, low, high)
  <2>1. \A a \in Nat \ {0} : \A v \in Int : low <= v /\ v <= high => low * a <= a * v /\ a * v <= high * a
    <3> SUFFICES ASSUME NEW a \in Nat \ {0}, NEW v \in Int, low <= v, v <= high
                 PROVE  low * a <= a * v /\ a * v <= high * a
      OBVIOUS
    <3>1. (v - low) * a >= 0 /\ (high - v) * a >= 0
      OBVIOUS
    <3>2. (v - low) * a = a * v - low * a /\ (high - v) * a = high * a - a * v
      OBVIOUS
    <3>3. low * a \in Int /\ high * a \in Int /\ a * v \in Int
      OBVIOUS
    <3>q. QED BY <3>1, <3>2, <3>3
  <2>2. \A x \in S : low * h[x] <= g[x] /\ g[x] <= high * h[x]
    BY <2>1
  <2>q. QED BY <2>2 DEF Weighs
<1> HIDE DEF g
<1>3. SumFunction(h) \in Nat \ {0}
  <2>1. PICK x \in S : TRUE
    OBVIOUS
  <2>2. h[x] \in Nat \ {0}
    OBVIOUS
  <2> HIDE DEF h
  <2>3. SumFunction(h) \in Nat /\ h[x] <= SumFunction(h)
    BY <1>1, SumCovers
  <2>q. QED BY <2>2, <2>3
<1> HIDE DEF h
<1>4. /\ SumFunction(g) \in Int
      /\ low * SumFunction(h) <= SumFunction(g) /\ SumFunction(g) <= high * SumFunction(h)
  BY <1>1, <1>2, SumBetween
<1> DEFINE mean == SumFunction(g) \div SumFunction(h)
<1>5. mean \in Int /\ low <= mean /\ mean <= high
  BY <1>3, <1>4, QuotientIsBetween
<1>q. QED BY <1>5 DEF g, h

\* Every factor is a share: that of the number of samples.
LEMMA SampleShare ==
    ASSUME NEW n \in Nat, NEW target \in Nat \ {0}
    PROVE  E!SampleFactor(n, target) \in 0..100
<1>1. CASE n >= target
  BY <1>1 DEF E!SampleFactor, E!Root
<1>2. CASE n < target
  <2> DEFINE S == {p \in 0..99 : p * p * target <= 10000 * n}
             IsRoot(p) == p * p * target <= 10000 * n /\ (p + 1) * (p + 1) * target > 10000 * n
  <2>1. S \in SUBSET (0..99) /\ 0 \in S
    OBVIOUS
  <2>2. PICK p \in S : \A y \in S : p >= y
    <3> HIDE DEF S
    <3>q. QED BY <2>1, GreatestNumber
  <2>3. p \in 0..99 /\ p * p * target <= 10000 * n
    BY <2>2
  <2>4. (p + 1) * (p + 1) * target > 10000 * n
    <3>1. CASE p = 99
      BY <1>2, <3>1
    <3>2. CASE p # 99
      <4>1. p + 1 \in 0..99 /\ ~(p + 1 \in S)
        BY <2>2, <2>3, <3>2
      <4>2. \A x \in 0..99 : x * x * target \in Int
        OBVIOUS
      <4>q. QED BY <4>1, <4>2
    <3>q. QED BY <3>1, <3>2
  <2>5. \E q \in 0..99 : IsRoot(q)
    BY <2>3, <2>4
  <2>6. (CHOOSE q \in 0..99 : IsRoot(q)) \in 0..99
    <3> HIDE DEF IsRoot
    <3>q. QED BY <2>5
  <2>7. E!SampleFactor(n, target) = CHOOSE q \in 0..99 : IsRoot(q)
    BY <1>2 DEF E!SampleFactor, E!Root
  <2>q. QED BY <2>6, <2>7
<1>q. QED BY <1>1, <1>2

\* That of their dispersion.
LEMMA ConsistencyShare ==
    ASSUME NEW dispersion \in Nat \cup {Unmeasured}
    PROVE  E!ConsistencyFactor(dispersion) \in 0..100
<1>1. CASE dispersion = Unmeasured
  BY <1>1 DEF E!ConsistencyFactor, Unmeasured, E!Unmeasured
<1>2. CASE dispersion \in Nat
  <2>1. E!Min({50, dispersion}) = IF 50 <= dispersion THEN 50 ELSE dispersion
    BY <1>2, MinMaxOfTwo
  <2>q. QED BY <1>2, <2>1 DEF E!ConsistencyFactor, E!Unmeasured
<1>q. QED BY <1>1, <1>2

\* That of their age.
LEMMA FreshnessShare ==
    ASSUME NEW measuredAt \in Int, NEW time \in Int, NEW halfLife \in Nat \ {0}, NEW floor \in 0..100
    PROVE  E!FreshnessFactor(measuredAt, time, halfLife, floor) \in 0..100
<1> DEFINE age == E!Max({0, time - measuredAt})
           n == age \div halfLife
           half == E!Halved(n)
<1>1. age \in Nat
  <2>1. age = IF 0 >= time - measuredAt THEN 0 ELSE time - measuredAt
    BY MinMaxOfTwo
  <2>q. QED BY <2>1
<1> HIDE DEF age
<1>2. n \in Nat
  BY <1>1
<1> HIDE DEF n
<1>3. half \in 0..100
  <2>1. CASE n > 6
    BY <2>1 DEF E!Halved
  <2>2. CASE n \in 0..6
    <3>1. n = 0 \/ n = 1 \/ n = 2 \/ n = 3 \/ n = 4 \/ n = 5 \/ n = 6
      BY <2>2
    <3>q. QED BY <3>1 DEF E!Halved
  <2>q. QED BY <1>2, <2>1, <2>2
<1> HIDE DEF half
<1>4. E!Max({floor, half}) = IF floor >= half THEN floor ELSE half
  BY <1>3, MinMaxOfTwo
<1>q. QED BY <1>3, <1>4 DEF E!FreshnessFactor, age, n, half

\* Those of the policy, whatever the target of the settings.
LEMMA PolicyShares ==
    ASSUME NEW target, NEW drift, NEW kind \in {"quality", "performance"}, NEW nameOnly
    PROVE  LET p == [E!ConfidencePolicy EXCEPT !.target = target]
           IN  /\ p.target = target /\ p.floor \in 0..100 /\ p.halfLife[kind] \in Nat \ {0}
               /\ E!EnvironmentFactor(drift, kind, p) \in 0..100
               /\ E!IdentityFactor(nameOnly, p) \in 0..100
<1> DEFINE p == [E!ConfidencePolicy EXCEPT !.target = target]
<1>1. /\ p.target = target /\ p.floor = 30 /\ p.halfLife = [quality |-> 3, performance |-> 1]
      /\ p.nameOnly = 60 /\ p.performanceDrift = 70 /\ p.qualityDrift = 50
  BY DEF E!ConfidencePolicy
<1> HIDE DEF p
<1>2. p.halfLife[kind] \in Nat \ {0}
  BY <1>1
<1>3. E!Min({70, 50}) = 50
  <2>1. \A a, b \in Int : E!Min({a, b}) = IF a <= b THEN a ELSE b
    BY MinMaxOfTwo
  <2>q. QED BY <2>1
<1>4. E!EnvironmentFactor(drift, kind, p) \in 0..100
  BY <1>1, <1>3 DEF E!EnvironmentFactor
<1>5. E!IdentityFactor(nameOnly, p) \in 0..100
  BY <1>1 DEF E!IdentityFactor
<1>q. QED BY <1>1, <1>2, <1>4, <1>5 DEF p

\* One share of another exceeds neither.
LEMMA ScaledIsLess ==
    ASSUME NEW p \in 0..100, NEW f \in 0..100
    PROVE  E!Scaled(p, f) \in 0..100 /\ E!Scaled(p, f) <= p /\ E!Scaled(p, f) <= f
<1>1. p * f \in Nat /\ p * f <= 100 * p /\ p * f <= 100 * f
  <2>1. (100 - f) * p >= 0 /\ (100 - p) * f >= 0 /\ p * f >= 0
    OBVIOUS
  <2>2. (100 - f) * p = 100 * p - p * f /\ (100 - p) * f = 100 * f - p * f /\ p * f \in Int
    OBVIOUS
  <2>q. QED BY <2>1, <2>2
<1> DEFINE x == p * f
<1> HIDE DEF x
<1>2. x \in Nat /\ x <= 100 * p /\ x <= 100 * f
  BY <1>1 DEF x
<1>3. x \div 100 \in Nat /\ x \div 100 <= p /\ x \div 100 <= f
  BY <1>2
<1>q. QED BY <1>3 DEF E!Scaled, x

\* The factors of a record.
Shares(f) ==
    /\ DOMAIN f = {"sample", "consistency", "freshness", "environment", "identity", "judge"}
    /\ \A x \in DOMAIN f : f[x] \in 0..100

\* So the product of the factors of a record exceeds none of them.
LEMMA ProductIsLeast ==
    ASSUME NEW f, Shares(f)
    PROVE  E!Product(f) \in 0..100 /\ \A x \in DOMAIN f : E!Product(f) <= f[x]
<1>1. /\ f.sample \in 0..100 /\ f.consistency \in 0..100 /\ f.freshness \in 0..100
      /\ f.environment \in 0..100 /\ f.identity \in 0..100 /\ f.judge \in 0..100
  BY DEF Shares
<1> DEFINE p2 == E!Scaled(f.sample, f.consistency)
           p3 == E!Scaled(p2, f.freshness)
           p4 == E!Scaled(p3, f.environment)
           p5 == E!Scaled(p4, f.identity)
           p6 == E!Scaled(p5, f.judge)
<1>2. p2 \in 0..100 /\ p2 <= f.sample /\ p2 <= f.consistency
  BY <1>1, ScaledIsLess
<1> HIDE DEF p2
<1>3. p3 \in 0..100 /\ p3 <= p2 /\ p3 <= f.freshness
  BY <1>1, <1>2, ScaledIsLess
<1> HIDE DEF p3
<1>4. p4 \in 0..100 /\ p4 <= p3 /\ p4 <= f.environment
  BY <1>1, <1>3, ScaledIsLess
<1> HIDE DEF p4
<1>5. p5 \in 0..100 /\ p5 <= p4 /\ p5 <= f.identity
  BY <1>1, <1>4, ScaledIsLess
<1> HIDE DEF p5
<1>6. p6 \in 0..100 /\ p6 <= p5 /\ p6 <= f.judge
  BY <1>1, <1>5, ScaledIsLess
<1> HIDE DEF p6
<1>7. E!Product(f) = p6
  BY DEF E!Product, p6, p5, p4, p3, p2
<1>8. /\ p6 <= f.sample /\ p6 <= f.consistency /\ p6 <= f.freshness
      /\ p6 <= f.environment /\ p6 <= f.identity /\ p6 <= f.judge
  BY <1>1, <1>2, <1>3, <1>4, <1>5, <1>6, SMTT(30)
<1>q. QED BY <1>6, <1>7, <1>8 DEF Shares

\* What lies between two integers is finite.
LEMMA BetweenIsFinite ==
    ASSUME NEW a \in Int, NEW b \in Int, NEW S, \A x \in S : x \in Int /\ a <= x /\ x <= b
    PROVE  IsFiniteSet(S)
<1>1. IsFiniteSet(a..b)
  BY FS_Interval
<1>2. S \subseteq a..b
  OBVIOUS
<1>q. QED BY <1>1, <1>2, FS_Subset

\* The confidence of some factors is between the floor and the weakest of them.
ConfidenceIsBetween(trust) ==
    LET weakest == E!Min({trust.factors[f] : f \in DOMAIN trust.factors})
    IN  5 <= trust.confidence /\ trust.confidence <= E!Max({5, weakest})

LEMMA ConfidenceOfShares ==
    ASSUME NEW trust, Shares(trust.factors), trust.confidence = E!Clamp(E!Product(trust.factors), 5, 100)
    PROVE  ConfidenceIsBetween(trust)
<1> DEFINE f == trust.factors
           W == {f[x] : x \in DOMAIN f}
           P == E!Product(f)
<1>1. P \in 0..100 /\ \A x \in DOMAIN f : P <= f[x]
  BY ProductIsLeast
<1>2. IsFiniteSet(W) /\ W # {} /\ W \subseteq Int
  <2>1. W \subseteq 0..100 /\ "sample" \in DOMAIN f
    BY DEF Shares
  <2>3. f["sample"] \in W
    BY <2>1
  <2>4. W \subseteq Int
    BY <2>1
  <2> HIDE DEF W
  <2>5. IsFiniteSet(W)
    <3>1. \A x \in W : x \in Int /\ 0 <= x /\ x <= 100
      BY <2>1
    <3>q. QED BY <3>1, BetweenIsFinite
  <2>q. QED BY <2>3, <2>4, <2>5
<1>3. Min(W) \in W
  <2> HIDE DEF W
  <2>q. QED BY <1>2, Extremes
<1>4. P <= Min(W) /\ Min(W) \in Int
  BY <1>1, <1>2, <1>3
<1> DEFINE weakest == Min(W)
<1> HIDE DEF W, P, weakest
<1>5. weakest \in Int /\ P \in 0..100 /\ P <= weakest
  BY <1>1, <1>4 DEF weakest
<1>6. E!Min({100, P}) = P /\ E!Max({5, P}) = (IF 5 >= P THEN 5 ELSE P)
      /\ E!Max({5, weakest}) = IF 5 >= weakest THEN 5 ELSE weakest
  <2>1. \A a, b \in Int : /\ E!Min({a, b}) = IF a <= b THEN a ELSE b
                          /\ E!Max({a, b}) = IF a >= b THEN a ELSE b
    BY MinMaxOfTwo
  <2>2. (IF 100 <= P THEN 100 ELSE P) = P
    BY <1>5
  <2>q. QED BY <1>5, <2>1, <2>2
<1>7. trust.confidence = E!Max({5, P})
  BY <1>6 DEF E!Clamp, P
<1>8. 5 <= trust.confidence /\ trust.confidence <= E!Max({5, weakest})
  BY <1>5, <1>6, <1>7
<1>q. QED BY <1>8, EvidenceExtremes DEF ConfidenceIsBetween, weakest, W

\* So is what the code computes, for whatever facts, time, environment and target.
LEMMA ConfidenceIs ==
    ASSUME NEW facts, NEW time \in Int, NEW current, NEW target \in Nat \ {0},
           facts.samples \in Nat, facts.dispersion \in Nat \cup {Unmeasured}, facts.at \in Int,
           facts.kind \in {"quality", "performance"}, facts.validity \in 0..100
    PROVE  ConfidenceIsBetween(E!ComputeConfidence(facts, time, current,
                                                   [E!ConfidencePolicy EXCEPT !.target = target]))
<1> DEFINE p == [E!ConfidencePolicy EXCEPT !.target = target]
           fresh == E!FreshnessFactor(facts.at, time, p.halfLife[facts.kind], p.floor)
           drift == E!DetectDrift(facts.env, current, facts.kind)
           sampled == E!SampleFactor(facts.samples, p.target)
           consistency == E!ConsistencyFactor(facts.dispersion)
           environment == E!EnvironmentFactor(drift, facts.kind, p)
           identity == E!IdentityFactor(facts.nameOnly, p)
           factors == [sample |-> sampled, consistency |-> consistency, freshness |-> fresh,
                       environment |-> environment, identity |-> identity, judge |-> facts.validity]
           trust == E!ComputeConfidence(facts, time, current, p)
<1>1. /\ p.target = target /\ p.floor \in 0..100 /\ p.halfLife[facts.kind] \in Nat \ {0}
      /\ environment \in 0..100 /\ identity \in 0..100
  <2> HIDE DEF drift
  <2>q. QED BY PolicyShares
<1>2. trust.factors = factors /\ trust.confidence = E!Clamp(E!Product(factors), 5, 100)
  BY DEF E!ComputeConfidence
<1> HIDE DEF p, trust
<1>3. fresh \in 0..100 /\ sampled \in 0..100 /\ consistency \in 0..100
  BY <1>1, SampleShare, ConsistencyShare, FreshnessShare
<1> HIDE DEF fresh, drift, sampled, consistency, environment, identity
<1>4. Shares(factors)
  BY <1>1, <1>3 DEF Shares
<1> HIDE DEF factors
<1>q. QED BY <1>2, <1>4, ConfidenceOfShares DEF trust, p

-----------------------------------------------------------------------------
(***************************************************************************)
(* What is read of the runs.                                               *)
(***************************************************************************)
\* A completed run.
Ran == {[subject |-> o.subject, suite |-> o.suite, version |-> o.version, env |-> o.env,
         metric |-> o.metric, at |-> t] : o \in Offers, t \in Int}

\* What the completed runs hold.
LEMMA RunsAre ==
    ASSUME runs \in Seq(Ran)
    PROVE  /\ Len(runs) \in Nat /\ DOMAIN runs = 1 .. Len(runs) /\ IsFiniteSet(DOMAIN runs)
           /\ \A i \in DOMAIN runs : /\ runs[i].metric.value \in Int /\ runs[i].metric.samples \in Nat
                                     /\ runs[i].metric.dispersion \in Nat \cup {Unmeasured}
                                     /\ runs[i].at \in Int
<1>1. Len(runs) \in Nat /\ DOMAIN runs = 1 .. Len(runs)
  OBVIOUS
<1>2. IsFiniteSet(DOMAIN runs)
  <2>1. IsFiniteSet(1 .. Len(runs))
    BY <1>1, Places
  <2>q. QED BY <1>1, <2>1
<1>3. ASSUME NEW i \in DOMAIN runs
      PROVE  /\ runs[i].metric.value \in Int /\ runs[i].metric.samples \in Nat
             /\ runs[i].metric.dispersion \in Nat \cup {Unmeasured} /\ runs[i].at \in Int
  <2>1. runs[i] \in Ran
    OBVIOUS
  <2>2. PICK o \in Offers, t \in Int : runs[i].metric = o.metric /\ runs[i].at = t
    BY <2>1 DEF Ran
  <2>q. QED BY <2>2, EvidenceAssumption
<1>q. QED BY <1>1, <1>2, <1>3

\* A mean of integers under positive weights is one, of naturals a natural.
LEMMA MeanIsWhole ==
    ASSUME NEW S, IsFiniteSet(S), S # {}, NEW w, w \in [S -> Nat \ {0}], NEW f, f \in [S -> Int]
    PROVE  LET mean == SumFunction([x \in S |-> w[x] * f[x]]) \div SumFunction([x \in S |-> w[x]])
           IN  mean \in Int /\ (f \in [S -> Nat] => mean \in Nat)
<1> DEFINE g == [x \in S |-> w[x] * f[x]]
           h == [x \in S |-> w[x]]
<1>1. g \in [S -> Int] /\ h \in [S -> Nat] /\ (f \in [S -> Nat] => g \in [S -> Nat])
  <2>1. \A a \in Nat \ {0} : (\A v \in Int : a * v \in Int) /\ (\A v \in Nat : a * v \in Nat)
    OBVIOUS
  <2>2. ASSUME NEW x \in S PROVE g[x] \in Int /\ h[x] \in Nat /\ (f[x] \in Nat => g[x] \in Nat)
    BY <2>1
  <2>q. QED BY <2>2
<1>2. \A x \in S : h[x] \in Nat \ {0}
  OBVIOUS
<1> HIDE DEF g, h
<1>3. SumFunction(h) \in Nat \ {0}
  <2>1. PICK x \in S : TRUE
    OBVIOUS
  <2>2. SumFunction(h) \in Nat /\ h[x] <= SumFunction(h)
    BY <1>1, SumCovers
  <2>q. QED BY <1>2, <2>2
<1>4. SumFunction(g) \in Int /\ (f \in [S -> Nat] => SumFunction(g) \in Nat)
  BY <1>1, SumIsInteger, SumCovers
<1> DEFINE a == SumFunction(g)
           b == SumFunction(h)
<1> HIDE DEF a, b
<1>5. a \in Int /\ b \in Nat \ {0} /\ (f \in [S -> Nat] => a \in Nat)
  BY <1>3, <1>4 DEF a, b
<1>6. a \div b \in Int /\ (a \in Nat => a \div b \in Nat)
  BY <1>5
<1>q. QED BY <1>5, <1>6 DEF a, b, g, h

\* Merging any of the runs gives figures again: their weights are never zero.
LEMMA MergedMetric ==
    ASSUME runs \in Seq(Ran), NEW chosen, chosen \subseteq DOMAIN runs
    PROVE  LET m == E!MergeMetrics(chosen)
           IN  m.value \in Int /\ m.samples \in Nat /\ m.dispersion \in Nat \cup {Unmeasured}
<1> DEFINE supported == {i \in chosen : runs[i].metric.value # Unmeasured}
           spread == {i \in supported : runs[i].metric.dispersion # Unmeasured}
           w(S) == [i \in S |-> E!Max({1, runs[i].metric.samples})]
           values == [i \in supported |-> runs[i].metric.value]
           dispersions == [i \in spread |-> runs[i].metric.dispersion]
           m == E!MergeMetrics(chosen)
<1>1. IsFiniteSet(supported) /\ IsFiniteSet(spread) /\ supported \subseteq DOMAIN runs /\ spread \subseteq DOMAIN runs
  BY RunsAre, FS_Subset
<1>2. ASSUME NEW S, S \subseteq DOMAIN runs PROVE w(S) \in [S -> Nat \ {0}]
  <2>1. ASSUME NEW i \in S PROVE E!Max({1, runs[i].metric.samples}) \in Nat \ {0}
    <3>1. runs[i].metric.samples \in Nat
      BY <1>2, RunsAre
    <3>2. \A a, b \in Int : E!Max({a, b}) = IF a >= b THEN a ELSE b
      BY MinMaxOfTwo
    <3>3. \A b \in Int : E!Max({1, b}) = IF 1 >= b THEN 1 ELSE b
      BY <3>2
    <3>q. QED BY <3>1, <3>3
  <2>q. QED BY <2>1
<1>3. values \in [supported -> Int] /\ dispersions \in [spread -> Nat] /\ dispersions \in [spread -> Int]
  BY <1>1, RunsAre
<1> DEFINE weight(i) == E!Max({1, runs[i].metric.samples})
           gv == [i \in supported |-> weight(i) * runs[i].metric.value]
           hv == [i \in supported |-> weight(i)]
           gd == [i \in spread |-> weight(i) * runs[i].metric.dispersion]
           hd == [i \in spread |-> weight(i)]
<1>4. /\ m.value = (IF supported = {} THEN Unmeasured ELSE E!SumFunction(gv) \div E!SumFunction(hv))
      /\ m.samples = E!SumFunction(hv)
      /\ m.dispersion = IF spread = {} THEN Unmeasured ELSE E!SumFunction(gd) \div E!SumFunction(hd)
  BY DEF E!MergeMetrics, E!SumOver, E!Unmeasured, Unmeasured
<1>5. \A i \in supported : i \in DOMAIN runs /\ weight(i) \in Nat /\ values[i] \in Int
  BY <1>2, <1>3
<1>6. gv = [i \in supported |-> w(supported)[i] * values[i]] /\ hv = [i \in supported |-> w(supported)[i]]
  OBVIOUS
<1>7. gd = [i \in spread |-> w(spread)[i] * dispersions[i]] /\ hd = [i \in spread |-> w(spread)[i]]
  OBVIOUS
<1>8. w(supported) \in [supported -> Nat \ {0}] /\ w(spread) \in [spread -> Nat \ {0}]
  BY <1>1, <1>2
<1>9. hv \in [supported -> Nat]
  BY <1>8, <1>6
<1> HIDE DEF gv, hv, gd, hd, w, values, dispersions, supported, spread, m
<1>10. m.value \in Int
  <2>1. CASE supported = {}
    BY <1>4, <2>1 DEF Unmeasured
  <2>2. CASE supported # {}
    <3>1. SumFunction(gv) \div SumFunction(hv) \in Int
      BY <1>1, <1>3, <1>6, <1>8, <2>2, MeanIsWhole
    <3>q. QED BY <1>4, <2>2, <3>1, EvidenceSum
  <2>q. QED BY <2>1, <2>2
<1>11. m.samples \in Nat
  <2>1. SumFunction(hv) \in Nat
    BY <1>1, <1>9, SumCovers
  <2>q. QED BY <1>4, <2>1, EvidenceSum
<1>12. m.dispersion \in Nat \cup {Unmeasured}
  <2>1. CASE spread = {}
    BY <1>4, <2>1
  <2>2. CASE spread # {}
    <3>1. SumFunction(gd) \div SumFunction(hd) \in Nat
      BY <1>1, <1>3, <1>7, <1>8, <2>2, MeanIsWhole
    <3>q. QED BY <1>4, <2>2, <3>1, EvidenceSum
  <2>q. QED BY <2>1, <2>2
<1>q. QED BY <1>10, <1>11, <1>12 DEF m

\* What one suite measured of a subject.
MeasurementOf(m, subject) ==
    /\ m.runs \subseteq DOMAIN runs
    /\ \A i \in m.runs : runs[i].subject = subject /\ runs[i].version = m.version
    /\ m.newest \in Int /\ m.at \in Int
    /\ m.metric.value \in Int /\ m.metric.samples \in Nat /\ m.metric.dispersion \in Nat \cup {Unmeasured}

\* A subject is read as measurements of its own runs, one to a suite.
LEMMA SubjectIsRead ==
    ASSUME runs \in Seq(Ran), NEW subject
    PROVE  /\ IsFiniteSet(E!ReadSubject(subject))
           /\ \A m \in E!ReadSubject(subject) : MeasurementOf(m, subject)
           /\ \A m, n \in E!ReadSubject(subject) : m.suite = n.suite => m = n
<1> DEFINE own == {i \in DOMAIN runs : runs[i].subject = subject}
           newest(suite) == E!Max({i \in own : runs[i].suite = suite})
           chosen(suite) == {i \in own : runs[i].suite = suite
                                         /\ E!PartitionKey(i) = E!PartitionKey(newest(suite))}
           suites == {runs[i].suite : i \in own}
           read == [s \in suites |->
                      [suite |-> s, runs |-> chosen(s), version |-> runs[newest(s)].version,
                       at |-> runs[newest(s)].at, newest |-> newest(s), metric |-> E!MergeMetrics(chosen(s))]]
<1>1. E!ReadSubject(subject) = {read[s] : s \in suites}
  BY DEF E!ReadSubject
<1>2. IsFiniteSet(own) /\ own \subseteq DOMAIN runs /\ own \subseteq Int
  BY RunsAre, FS_Subset
<1>3. IsFiniteSet(suites)
  <2> DEFINE f == [i \in own |-> runs[i].suite]
  <2>1. suites = {f[i] : i \in own} /\ DOMAIN f = own
    OBVIOUS
  <2> HIDE DEF f, own, suites
  <2>q. QED BY <1>2, <2>1, FiniteImage
<1>4. ASSUME NEW s \in suites PROVE newest(s) \in own /\ runs[newest(s)].suite = s
  <2> DEFINE S == {i \in own : runs[i].suite = s}
  <2>1. IsFiniteSet(S) /\ S # {} /\ S \subseteq Int
    BY <1>2, FS_Subset
  <2> HIDE DEF S
  <2>2. E!Max(S) \in S
    BY <2>1, Extremes, EvidenceExtremes
  <2>q. QED BY <2>2 DEF S
<1>5. ASSUME NEW s \in suites PROVE MeasurementOf(read[s], subject)
  <2>1. /\ read[s].runs = chosen(s) /\ read[s].version = runs[newest(s)].version
        /\ read[s].at = runs[newest(s)].at /\ read[s].newest = newest(s)
        /\ read[s].metric = E!MergeMetrics(chosen(s))
    OBVIOUS
  <2>2. chosen(s) \subseteq DOMAIN runs
        /\ \A i \in chosen(s) : runs[i].subject = subject /\ runs[i].version = runs[newest(s)].version
    BY DEF E!PartitionKey
  <2>3. newest(s) \in DOMAIN runs /\ newest(s) \in Int
    BY <1>2, <1>4
  <2> HIDE DEF read, newest, chosen
  <2>4. runs[newest(s)].at \in Int
    BY <2>3, RunsAre
  <2>5. LET m == E!MergeMetrics(chosen(s))
        IN  m.value \in Int /\ m.samples \in Nat /\ m.dispersion \in Nat \cup {Unmeasured}
    BY <2>2, MergedMetric
  <2>q. QED BY <2>1, <2>2, <2>3, <2>4, <2>5 DEF MeasurementOf
<1>6. DOMAIN read = suites /\ \A s \in suites : read[s].suite = s
  OBVIOUS
<1> HIDE DEF read, suites
<1>7. IsFiniteSet({read[s] : s \in suites})
  BY <1>3, <1>6, FiniteImage
<1>q. QED BY <1>1, <1>5, <1>6, <1>7

-----------------------------------------------------------------------------
(***************************************************************************)
(* What contributes to a record, and what the record is then.              *)
(***************************************************************************)
\* What a judged goal contributed has its report.
CalibratedPart(p) ==
    p.rubric # 0 /\ Goals[p.suite][p.rubric].judged # {} =>
        \E k \in DOMAIN reports :
            /\ reports[k].goal = p.suite /\ reports[k].version = p.of.version
            /\ reports[k].passed /\ reports[k].factor = p.validity

\* A part of a subject's record.
PartSound(p, subject) ==
    /\ p.weight \in Nat \ {0} /\ p.value \in Int /\ p.validity \in 0..100
    /\ MeasurementOf(p.of, subject) /\ CalibratedPart(p)

\* The fields of a part.
LEMMA PartIs ==
    ASSUME NEW m, NEW weight, NEW value, NEW validity, NEW under
    PROVE  LET p == E!Part(m, weight, value, validity, under)
           IN  /\ p.of = m /\ p.suite = m.suite /\ p.weight = weight /\ p.value = value
               /\ p.validity = validity /\ p.rubric = under
BY DEF E!Part

\* What is clamped to a share is one.
LEMMA ShareIsShare == ASSUME NEW n \in Int PROVE E!Clamp(n, 0, 100) \in 0..100 /\ E!Clamp(n, 5, 100) \in 0..100
<1>1. \A low, high \in Int : low <= high => /\ E!Clamp(n, low, high) \in Int /\ low <= E!Clamp(n, low, high)
                                            /\ E!Clamp(n, low, high) <= high
  BY ClampIsBetween
<1>2. ASSUME NEW low \in Int, NEW high \in Int, low \in {0, 5}, high = 100
      PROVE  E!Clamp(n, low, high) \in 0..100
  <2> DEFINE x == E!Clamp(n, low, high)
  <2>1. low <= high /\ low >= 0
    BY <1>2
  <2>2. x \in Int /\ low <= x /\ x <= high
    BY <1>1, <2>1
  <2> HIDE DEF x
  <2>3. x \in 0..100
    BY <1>2, <2>1, <2>2
  <2>q. QED BY <2>3 DEF x
<1>3. 0 \in Int /\ 5 \in Int /\ 100 \in Int /\ 0 \in {0, 5} /\ 5 \in {0, 5}
  OBVIOUS
<1>q. QED BY <1>2, <1>3, Zenon

\* A goal's report is one that was stored for it.
GoalSound(g) ==
    /\ goals[g].rubric # 0 => goals[g].rubric \in DOMAIN Goals[g]
    /\ goals[g].report # E!NoReport =>
           \E k \in DOMAIN reports : reports[k] = goals[g].report /\ reports[k].goal = g
GoalsSound ==
    /\ reports \in Seq(Calibrations) /\ goals = [g \in DOMAIN Goals |-> goals[g]]
    /\ \A g \in DOMAIN Goals : GoalSound(g)

\* The factor of a goal that emits is that of the report that passed for its rubric.
LEMMA FactorIsOfTheReport ==
    ASSUME GoalsSound, NEW m, E!Emits(m)
    PROVE  /\ m.suite \in DOMAIN Goals /\ goals[m.suite].rubric # 0 /\ E!Factor(m.suite) \in 0..100
           /\ Goals[m.suite][goals[m.suite].rubric].judged # {} =>
                  \E k \in DOMAIN reports :
                      /\ reports[k].goal = m.suite /\ reports[k].version = m.version
                      /\ reports[k].passed /\ reports[k].factor = E!Factor(m.suite)
<1>1. m.suite \in DOMAIN Goals /\ goals[m.suite].rubric # 0 /\ E!Gate(m) = "open"
  BY DEF E!Emits
<1>2. E!IsJudged(m.suite) <=> Goals[m.suite][goals[m.suite].rubric].judged # {}
  BY DEF E!IsJudged, E!Rubric
<1>3. CASE E!IsJudged(m.suite)
  <2> DEFINE held == goals[m.suite].report
  <2>1. held # E!NoReport /\ held.version = m.version /\ held.passed
    BY <1>1, <1>3 DEF E!Gate
  <2>2. PICK k \in DOMAIN reports : reports[k] = held /\ reports[k].goal = m.suite
    BY <1>1, <2>1 DEF GoalsSound, GoalSound
  <2>3. E!Factor(m.suite) = held.factor
    BY <1>3 DEF E!Factor
  <2>4. reports[k] \in Calibrations
    BY DEF GoalsSound
  <2> HIDE DEF held
  <2>5. E!Factor(m.suite) \in 0..100
    BY <2>2, <2>3, <2>4, EvidenceAssumption
  <2>q. QED BY <1>1, <2>1, <2>2, <2>3, <2>5
<1>4. CASE ~ E!IsJudged(m.suite)
  BY <1>1, <1>2, <1>4 DEF E!Factor
<1>q. QED BY <1>3, <1>4

\* What a goal that emits contributes.
LEMMA GoalPartIsSound ==
    ASSUME GoalsSound, NEW subject, NEW m, MeasurementOf(m, subject), E!Emits(m), NEW weight \in Nat \ {0}
    PROVE  PartSound(E!GoalPart(m, weight), subject)
<1> DEFINE p == E!GoalPart(m, weight)
<1>1. /\ p.of = m /\ p.suite = m.suite /\ p.weight = weight /\ p.value = E!Clamp(m.metric.value, 0, 100)
      /\ p.validity = E!Factor(m.suite) /\ p.rubric = goals[m.suite].rubric
  BY PartIs DEF E!GoalPart
<1> HIDE DEF p
<1>2. E!Clamp(m.metric.value, 0, 100) \in 0..100
  BY ShareIsShare DEF MeasurementOf
<1>3. CalibratedPart(p) /\ p.validity \in 0..100
  BY <1>1, FactorIsOfTheReport DEF CalibratedPart
<1>4. PartSound(p, subject)
  BY <1>1, <1>2, <1>3 DEF PartSound
<1>q. QED BY <1>4 DEF p

\* What a valid source makes of a metric is a number.
LEMMA NormalizedIsInteger ==
    ASSUME NEW value \in Int, NEW s, s.full \in Int, s.zero \in Int, s.full >= 0, s.zero >= 0, NEW ratio, NEW higher
    PROVE  E!NormalizeValue(value, ratio, higher, s) \in Int
<1>1. \A n \in Int : E!Clamp(n, 0, 100) \in Int
  BY ShareIsShare
<1>2. \A d \in Nat \ {0} : E!Percent(value, d) \in Int
  <2>1. 100 * value \in Int
    OBVIOUS
  <2>2. \A n \in Int : \A d \in Nat \ {0} : n \div d \in Int
    OBVIOUS
  <2>q. QED BY <2>1, <2>2 DEF E!Percent
<1>3. E!Unmeasured \in Int
  BY DEF E!Unmeasured
<1>4. CASE s.full # 0
  <2>1. s.full \in Nat \ {0}
    BY <1>4
  <2>2. E!NormalizeValue(value, ratio, higher, s) = E!Clamp(E!Percent(value, s.full), 0, 100)
    BY <1>4 DEF E!NormalizeValue
  <2>q. QED BY <1>1, <1>2, <2>1, <2>2
<1>5. CASE s.full = 0 /\ s.zero # 0
  <2>1. s.zero \in Nat \ {0}
    BY <1>5
  <2>2. E!NormalizeValue(value, ratio, higher, s) = E!Clamp(100 - E!Percent(value, s.zero), 0, 100)
    BY <1>5 DEF E!NormalizeValue
  <2>3. 100 - E!Percent(value, s.zero) \in Int
    BY <1>2, <2>1
  <2>q. QED BY <1>1, <2>2, <2>3
<1>6. CASE s.full = 0 /\ s.zero = 0
  <2>1. E!Clamp(value, 0, 100) \in Int /\ 100 - E!Clamp(value, 0, 100) \in Int
    BY <1>1
  <2>q. QED BY <1>3, <1>6, <2>1 DEF E!NormalizeValue
<1>q. QED BY <1>4, <1>5, <1>6

\* The sources that the parser accepted.
LEMMA SourcesAreValid ==
    ASSUME NEW c \in DOMAIN Sources
    PROVE  /\ IsFiniteSet(Sources[c])
           /\ \A s \in Sources[c] : /\ s.weight \in Nat \ {0} /\ s.full \in Int /\ s.zero \in Int
                                    /\ s.full >= 0 /\ s.zero >= 0
<1>1. ASSUME NEW s \in Sources[c]
      PROVE  /\ s.weight \in Nat \ {0} /\ s.full \in Int /\ s.zero \in Int
             /\ s.full >= 0 /\ s.zero >= 0
  <2>1. E!ValidSource(s)
    BY EvidenceAssumption DEF E!ParseMapping
  <2>2. s.weight \in Int /\ s.full \in Int /\ s.zero \in Int
    BY EvidenceAssumption
  <2>3. s.weight > 0 /\ s.full >= 0 /\ s.zero >= 0
    BY <2>1 DEF E!ValidSource
  <2>q. QED BY <2>2, <2>3
<1>q. QED BY <1>1, EvidenceAssumption

\* All that contributes to a capability.
LEMMA PartsAreSound ==
    ASSUME runs \in Seq(Ran), GoalsSound, NEW subject, NEW c
    PROVE  LET measured == E!ReadSubject(subject)
               parts == E!FromGoals(c, measured) \cup E!FromSources(c, measured)
           IN  IsFiniteSet(parts) /\ \A p \in parts : PartSound(p, subject)
<1> DEFINE measured == E!ReadSubject(subject)
           emitting == {q \in measured : E!Emits(q) /\ E!Rubric(q.suite).contributesTo = c}
           goalPart == [m \in emitting |-> E!GoalPart(m, GoalWeight)]
           sources == IF c \in DOMAIN Sources THEN Sources[c] ELSE {}
           norm(m, s) == E!NormalizeValue(m.metric.value, s.ratio, s.higherIsBetter, s)
           mapped == {q \in measured \X sources :
                         /\ q[1].suite = q[2].suite /\ q[1].metric.value # E!Unmeasured
                         /\ norm(q[1], q[2]) # E!Unmeasured}
           sourcePart == [p \in mapped |-> E!Part(p[1], p[2].weight, norm(p[1], p[2]), 100, 0)]
<1>1. E!FromGoals(c, measured) = {goalPart[m] : m \in emitting} /\ DOMAIN goalPart = emitting
  BY DEF E!FromGoals
<1>2. E!FromSources(c, measured) = {sourcePart[p] : p \in mapped} /\ DOMAIN sourcePart = mapped
  BY DEF E!FromSources
<1>3. IsFiniteSet(measured) /\ \A m \in measured : MeasurementOf(m, subject)
  BY SubjectIsRead
<1>4. IsFiniteSet(sources)
  BY SourcesAreValid, FS_EmptySet
<1>5. IsFiniteSet(emitting) /\ IsFiniteSet(mapped)
  <2>1. IsFiniteSet(measured \X sources)
    BY <1>3, <1>4, FS_Product
  <2>2. emitting \subseteq measured /\ mapped \subseteq measured \X sources
    OBVIOUS
  <2> HIDE DEF measured, sources, emitting, mapped
  <2>q. QED BY <1>3, <2>1, <2>2, FS_Subset
<1>6. ASSUME NEW m \in emitting PROVE PartSound(goalPart[m], subject)
  <2>1. MeasurementOf(m, subject) /\ E!Emits(m) /\ GoalWeight \in Nat \ {0}
    BY <1>3, EvidenceAssumption
  <2>q. QED BY <2>1, GoalPartIsSound
<1>7. ASSUME NEW q \in mapped PROVE PartSound(sourcePart[q], subject)
  <2>1. q[1] \in measured /\ q[2] \in sources /\ q[1].suite = q[2].suite
    OBVIOUS
  <2>2. /\ q[2].weight \in Nat \ {0} /\ q[2].full \in Int /\ q[2].zero \in Int
        /\ q[2].full >= 0 /\ q[2].zero >= 0
    BY <2>1, SourcesAreValid
  <2>3. MeasurementOf(q[1], subject) /\ norm(q[1], q[2]) \in Int
    <3>1. MeasurementOf(q[1], subject)
      BY <1>3, <2>1
    <3>2. q[1].metric.value \in Int
      BY <3>1 DEF MeasurementOf
    <3>q. QED BY <2>2, <3>1, <3>2, NormalizedIsInteger
  <2>4. sourcePart[q] = E!Part(q[1], q[2].weight, norm(q[1], q[2]), 100, 0)
    OBVIOUS
  <2> DEFINE p == sourcePart[q]
  <2>5. /\ p.of = q[1] /\ p.suite = q[1].suite /\ p.weight = q[2].weight /\ p.value = norm(q[1], q[2])
        /\ p.validity = 100 /\ p.rubric = 0
    BY <2>4, PartIs, SMTT(30)
  <2> HIDE DEF p, norm
  <2>6. PartSound(p, subject)
    BY <2>1, <2>2, <2>3, <2>5 DEF PartSound, CalibratedPart
  <2>q. QED BY <2>6 DEF p
<1> HIDE DEF goalPart, sourcePart, emitting, mapped
<1>8. IsFiniteSet(E!FromGoals(c, measured)) /\ IsFiniteSet(E!FromSources(c, measured))
  BY <1>1, <1>2, <1>5, FiniteImage
<1> HIDE DEF measured
<1>9. IsFiniteSet(E!FromGoals(c, measured) \cup E!FromSources(c, measured))
  BY <1>8, FS_Union
<1>10. \A p \in E!FromGoals(c, measured) \cup E!FromSources(c, measured) : PartSound(p, subject)
  BY <1>1, <1>2, <1>6, <1>7
<1>q. QED BY <1>9, <1>10 DEF measured

-----------------------------------------------------------------------------
(***************************************************************************)
(* One record, and those of a subject.                                     *)
(***************************************************************************)
\* A record's figures lie where they should.
FiguresBetween(e) ==
    LET values == {p.value : p \in e.parts}
    IN  /\ E!Min(values) <= e.score /\ e.score <= E!Max(values)
        /\ ConfidenceIsBetween(e.trust)

\* A record of one subject's measurements.
RecordSound(e) ==
    /\ \A p \in e.parts : MeasurementOf(p.of, e.subject) /\ CalibratedPart(p)
    /\ FiguresBetween(e)

\* The score of some parts.
LEMMA ScoreIsBetween ==
    ASSUME NEW subject, NEW parts, IsFiniteSet(parts), parts # {}, \A p \in parts : PartSound(p, subject)
    PROVE  LET values == {p.value : p \in parts}
           IN  E!Min(values) <= E!WeightedScore(parts) /\ E!WeightedScore(parts) <= E!Max(values)
<1> DEFINE w == [p \in parts |-> p.weight]
           f == [p \in parts |-> p.value]
           values == {p.value : p \in parts}
<1>1. w \in [parts -> Nat \ {0}] /\ f \in [parts -> Int]
  BY DEF PartSound
<1>2. IsFiniteSet(values) /\ values # {} /\ values \subseteq Int
  <2>1. values = {f[p] : p \in parts} /\ DOMAIN f = parts
    OBVIOUS
  <2>2. values # {} /\ values \subseteq Int
    BY DEF PartSound
  <2> HIDE DEF values, f
  <2>3. IsFiniteSet(values)
    BY <2>1, FiniteImage
  <2>q. QED BY <2>2, <2>3
<1>3. \A p \in parts : f[p] \in values
  OBVIOUS
<1>4. /\ Min(values) \in Int /\ Max(values) \in Int
      /\ \A p \in parts : Min(values) <= f[p] /\ f[p] <= Max(values)
  <2> HIDE DEF values, f
  <2>1. /\ Min(values) \in values /\ \A x \in values : Min(values) <= x
        /\ Max(values) \in values /\ \A x \in values : Max(values) >= x
    BY <1>2, Extremes
  <2>2. \A p \in parts : f[p] \in Int
    BY <1>1
  <2>q. QED BY <1>2, <1>3, <2>1, <2>2
<1> DEFINE mean == SumFunction([p \in parts |-> w[p] * f[p]]) \div SumFunction([p \in parts |-> w[p]])
<1>5. Min(values) <= mean /\ mean <= Max(values)
  <2> DEFINE low == Min(values)
             high == Max(values)
  <2>1. low \in Int /\ high \in Int /\ \A p \in parts : low <= f[p] /\ f[p] <= high
    BY <1>4
  <2> HIDE DEF w, f, low, high
  <2>2. low <= mean /\ mean <= high
    BY <1>1, <2>1, MeanIsBetween
  <2>q. QED BY <2>2 DEF low, high
<1>6. E!WeightedScore(parts) = mean
  <2> DEFINE g == [p \in parts |-> p.weight * p.value]
  <2>1. E!WeightedScore(parts) = E!SumFunction(g) \div E!SumFunction(w)
    BY DEF E!WeightedScore, E!SumOver
  <2>2. g = [p \in parts |-> w[p] * f[p]] /\ w = [p \in parts |-> w[p]]
    OBVIOUS
  <2> HIDE DEF g, w, f
  <2>q. QED BY <2>1, <2>2, EvidenceSum
<1>q. QED BY <1>5, <1>6, EvidenceExtremes

\* Its newest measurement is one of them.
LEMMA NewestIsOne ==
    ASSUME NEW subject, NEW parts, IsFiniteSet(parts), parts # {}, \A p \in parts : PartSound(p, subject)
    PROVE  (CHOOSE m \in {p.of : p \in parts} : \A p \in parts : p.of.newest <= m.newest) \in {p.of : p \in parts}
<1> DEFINE f == [p \in parts |-> p.of.newest]
           S == {f[p] : p \in parts}
<1>1. IsFiniteSet(S)
  BY FiniteImage
<1>2. S # {} /\ S \subseteq Int /\ \A p \in parts : p.of.newest \in S
  BY DEF PartSound, MeasurementOf
<1>3. PICK q \in parts : Max(S) = q.of.newest /\ \A x \in S : Max(S) >= x
  <2>1. Max(S) \in S /\ \A x \in S : Max(S) >= x
    <3> HIDE DEF S
    <3>q. QED BY <1>1, <1>2, Extremes
  <2>q. QED BY <2>1
<1> HIDE DEF S
<1>4. \A p \in parts : p.of.newest <= q.of.newest
  <2>1. \A p \in parts : p.of.newest \in Int
    BY DEF PartSound, MeasurementOf
  <2>q. QED BY <1>2, <1>3, <2>1
<1>q. QED BY <1>4

\* The parts of one record.
PartsSound(parts, subject) ==
    IsFiniteSet(parts) /\ parts # {} /\ \A p \in parts : PartSound(p, subject)

\* A record of a subject and a capability under the policy.
RecordOf(e, subject, capability) ==
    e.subject = subject /\ e.capability = capability /\ e.policy = policy.version /\ RecordSound(e)

\* A record of such parts.
LEMMA RecordIsSound ==
    ASSUME policy \in Policies, now \in Int,
           NEW subject, NEW capability, NEW parts, NEW goal, NEW validity \in 0..100,
           NEW kind \in {"quality", "performance"},
           PartsSound(parts, subject)
    PROVE  RecordOf(E!Record(subject, capability, parts, goal, validity, kind), subject, capability)
<1>0. IsFiniteSet(parts) /\ parts # {} /\ \A p \in parts : PartSound(p, subject)
  BY DEF PartsSound
<1> DEFINE newest == CHOOSE m \in {p.of : p \in parts} : \A p \in parts : p.of.newest <= m.newest
           spread == {p \in parts : p.of.metric.dispersion # E!Unmeasured}
           samples == [p \in parts |-> p.of.metric.samples]
           gd == [p \in spread |-> p.weight * p.of.metric.dispersion]
           hd == [p \in spread |-> p.weight]
           measuredOn == E!SumFunction(samples)
           dispersion == IF spread = {} THEN E!Unmeasured ELSE E!SumFunction(gd) \div E!SumFunction(hd)
           facts == [samples |-> measuredOn, dispersion |-> dispersion,
                     at |-> newest.at, kind |-> kind, env |-> E!Environment(newest.newest),
                     nameOnly |-> subject \in NameOnly, validity |-> validity]
           trust == E!ComputeConfidence(facts, now, E!CurrentEnvironment,
                                        [E!ConfidencePolicy EXCEPT !.target = policy.target])
           e == E!Record(subject, capability, parts, goal, validity, kind)
<1>1. /\ e.subject = subject /\ e.capability = capability /\ e.policy = policy.version
      /\ e.parts = parts /\ e.score = E!WeightedScore(parts) /\ e.trust = trust
  BY DEF E!Record, E!SumOver
<1>2. measuredOn \in Nat
  <2>1. samples \in [parts -> Nat]
    BY <1>0 DEF PartSound, MeasurementOf
  <2> HIDE DEF samples
  <2>2. SumFunction(samples) \in Nat
    BY <1>0, <2>1, SumCovers
  <2>q. QED BY <2>2, EvidenceSum
<1>3. dispersion \in Nat \cup {Unmeasured}
  <2> DEFINE w == [p \in spread |-> p.weight]
             f == [p \in spread |-> p.of.metric.dispersion]
  <2>1. IsFiniteSet(spread)
    BY <1>0, FS_Subset
  <2>2. w \in [spread -> Nat \ {0}] /\ f \in [spread -> Nat] /\ f \in [spread -> Int]
    BY <1>0 DEF PartSound, MeasurementOf, E!Unmeasured, Unmeasured
  <2>3. gd = [p \in spread |-> w[p] * f[p]] /\ hd = [p \in spread |-> w[p]]
    OBVIOUS
  <2>4. CASE spread = {}
    BY <2>4 DEF E!Unmeasured, Unmeasured
  <2>5. CASE spread # {}
    <3> HIDE DEF spread, w, f, gd, hd
    <3>1. SumFunction(gd) \div SumFunction(hd) \in Nat
      BY <2>1, <2>2, <2>3, <2>5, MeanIsWhole
    <3>q. QED BY <2>5, <3>1, EvidenceSum
  <2>q. QED BY <2>4, <2>5
<1>4. newest.at \in Int
  <2>1. newest \in {p.of : p \in parts}
    BY <1>0, NewestIsOne
  <2> HIDE DEF newest
  <2>q. QED BY <1>0, <2>1 DEF PartSound, MeasurementOf
<1> HIDE DEF newest, measuredOn, dispersion, e
<1>5. /\ facts.samples \in Nat /\ facts.dispersion \in Nat \cup {Unmeasured} /\ facts.at \in Int
      /\ facts.kind \in {"quality", "performance"} /\ facts.validity \in 0..100
  BY <1>2, <1>3, <1>4
<1>6. policy.target \in Nat \ {0}
  BY EvidenceAssumption
<1> HIDE DEF facts
<1>7. ConfidenceIsBetween(trust)
  BY <1>5, <1>6, ConfidenceIs
<1> HIDE DEF trust
<1>8. FiguresBetween(e)
  BY <1>0, <1>1, <1>7, ScoreIsBetween DEF FiguresBetween
<1>9. RecordSound(e)
  BY <1>0, <1>1, <1>8 DEF RecordSound, PartSound
<1>q. QED BY <1>1, <1>9 DEF e, RecordOf

\* One record to a subject, a capability and a policy.
OneEach(records) ==
    \A e, f \in records :
        e.subject = f.subject /\ e.capability = f.capability /\ e.policy = f.policy => e = f

\* The validity of a capability's record is a share.
LEMMA ValidityIsShare ==
    ASSUME NEW subject, NEW S, IsFiniteSet(S), S # {}, \A p \in S : PartSound(p, subject)
    PROVE  E!Clamp(E!SumOver(S, LAMBDA p : p.weight * p.validity) \div E!SumOver(S, LAMBDA p : p.weight), 5, 100)
               \in 0..100
<1> DEFINE w == [p \in S |-> p.weight]
           f == [p \in S |-> p.validity]
           g == [p \in S |-> p.weight * p.validity]
           mean == E!SumFunction(g) \div E!SumFunction(w)
<1>1. E!SumOver(S, LAMBDA p : p.weight * p.validity) \div E!SumOver(S, LAMBDA p : p.weight) = mean
  BY DEF E!SumOver
<1>2. w \in [S -> Nat \ {0}] /\ f \in [S -> Int]
  <2>1. \A p \in S : p.weight \in Nat \ {0} /\ p.validity \in Int
    BY DEF PartSound
  <2>q. QED BY <2>1
<1>3. g = [p \in S |-> w[p] * f[p]] /\ w = [p \in S |-> w[p]]
  OBVIOUS
<1>4. mean \in Int
  <2> HIDE DEF w, f, g
  <2>1. SumFunction(g) \div SumFunction(w) \in Int
    BY <1>2, <1>3, MeanIsWhole
  <2>q. QED BY <2>1, EvidenceSum
<1> HIDE DEF mean
<1>q. QED BY <1>1, <1>4, ShareIsShare

\* A subject's records are sound, and there is one to a capability.
LEMMA RecordsAreSound ==
    ASSUME runs \in Seq(Ran), GoalsSound, policy \in Policies, now \in Int, NEW subject
    PROVE  /\ \A e \in E!RecordsFor(subject) : RecordSound(e) /\ e.subject = subject /\ e.policy = policy.version
           /\ OneEach(E!RecordsFor(subject))
<1> DEFINE measured == E!ReadSubject(subject)
           ofGoal(m) == E!Record(subject, m.suite, {E!GoalPart(m, 1)}, m.suite, E!Factor(m.suite), "quality")
           named == DOMAIN Sources \cup {E!Rubric(m.suite).contributesTo : m \in {q \in measured : E!Emits(q)}}
           contributing(c) == E!FromGoals(c, measured) \cup E!FromSources(c, measured)
           shareOf(c) == E!SumOver(contributing(c), LAMBDA p : p.weight * p.validity)
                              \div E!SumOver(contributing(c), LAMBDA p : p.weight)
           ofCapability(c) == E!Record(subject, c, contributing(c), "none", E!Clamp(shareOf(c), 5, 100),
                                       E!KindOf(c, contributing(c)))
<1>1. /\ \A e \in E!GoalRecords(subject, measured) :
             \E m \in measured : E!Emits(m) /\ e = ofGoal(m)
      /\ \A e \in E!CapabilityRecords(subject, measured) :
             \E c \in named : contributing(c) # {} /\ e = ofCapability(c)
      /\ E!RecordsFor(subject) = E!GoalRecords(subject, measured) \cup E!CapabilityRecords(subject, measured)
  BY DEF E!GoalRecords, E!CapabilityRecords, E!RecordsFor
<1>2. /\ \A m \in measured : MeasurementOf(m, subject)
      /\ \A m, n \in measured : m.suite = n.suite => m = n
  BY SubjectIsRead
<1>3. \A c : IsFiniteSet(contributing(c)) /\ \A p \in contributing(c) : PartSound(p, subject)
  BY PartsAreSound
<1>4. ASSUME NEW m \in measured, E!Emits(m)
      PROVE  /\ ofGoal(m).subject = subject /\ ofGoal(m).capability = m.suite
             /\ ofGoal(m).policy = policy.version /\ RecordSound(ofGoal(m)) /\ m.suite \in DOMAIN Goals
  <2> DEFINE one == E!GoalPart(m, 1)
             factor == E!Factor(m.suite)
  <2>1. PartSound(one, subject)
    <3>1. \A weight \in Nat \ {0} : PartSound(E!GoalPart(m, weight), subject)
      BY <1>2, <1>4, GoalPartIsSound
    <3>q. QED BY <3>1
  <2>2. factor \in 0..100
    BY <1>4, FactorIsOfTheReport
  <2>3. IsFiniteSet({one})
    <3> HIDE DEF one
    <3>1. IsFiniteSet({} \cup {one})
      BY FS_EmptySet, FS_AddElement
    <3>2. {one} = {} \cup {one}
      OBVIOUS
    <3>q. QED BY <3>1, <3>2
  <2>4. m.suite \in DOMAIN Goals
    BY <1>4 DEF E!Emits
  <2> DEFINE e == E!Record(subject, m.suite, {one}, m.suite, factor, "quality")
  <2>5. /\ e.subject = subject /\ e.capability = m.suite /\ e.policy = policy.version /\ RecordSound(e)
    <3>1. {one} # {} /\ \A p \in {one} : PartSound(p, subject)
      BY <2>1
    <3> DEFINE only == {one}
    <3>2. IsFiniteSet(only) /\ only # {} /\ \A p \in only : PartSound(p, subject)
      BY <2>3, <3>1
    <3> HIDE DEF one, factor, only
    <3>3. RecordOf(E!Record(subject, m.suite, only, m.suite, factor, "quality"), subject, m.suite)
      BY <2>2, <3>2, RecordIsSound DEF PartsSound
    <3>q. QED BY <3>3 DEF only, RecordOf
  <2>q. QED BY <2>4, <2>5
<1>5. ASSUME NEW c \in named, contributing(c) # {}
      PROVE  /\ ofCapability(c).subject = subject /\ ofCapability(c).capability = c
             /\ ofCapability(c).policy = policy.version /\ RecordSound(ofCapability(c)) /\ c \notin DOMAIN Goals
  <2> DEFINE S == contributing(c)
             kind == E!KindOf(c, S)
             share == E!Clamp(shareOf(c), 5, 100)
  <2>1. IsFiniteSet(S) /\ S # {} /\ \A p \in S : PartSound(p, subject)
    BY <1>3, <1>5
  <2>2. share = E!Clamp(E!SumOver(S, LAMBDA p : p.weight * p.validity) \div E!SumOver(S, LAMBDA p : p.weight), 5, 100)
    OBVIOUS
  <2>3. share \in 0..100
    <3> HIDE DEF S, share
    <3>q. QED BY <2>1, <2>2, ValidityIsShare
  <2>4. kind \in {"quality", "performance"}
    BY DEF E!KindOf
  <2>5. c \notin DOMAIN Goals
    <3>1. CASE c \in DOMAIN Sources
      BY <3>1, EvidenceAssumption
    <3>2. CASE \E m \in measured : E!Emits(m) /\ c = E!Rubric(m.suite).contributesTo
      <4>1. PICK m \in measured : E!Emits(m) /\ c = E!Rubric(m.suite).contributesTo
        BY <3>2
      <4>2. m.suite \in DOMAIN Goals /\ goals[m.suite].rubric \in DOMAIN Goals[m.suite]
        BY <4>1, FactorIsOfTheReport DEF GoalsSound, GoalSound
      <4>q. QED BY <4>1, <4>2, EvidenceAssumption DEF E!Rubric
    <3>q. QED BY <3>1, <3>2
  <2>6. ofCapability(c) = E!Record(subject, c, S, "none", share, kind)
    OBVIOUS
  <2> HIDE DEF S, share, kind, ofCapability, shareOf, contributing, measured, named, ofGoal
  <2>7. RecordOf(E!Record(subject, c, S, "none", share, kind), subject, c)
    <3>1. PartsSound(S, subject)
      BY <2>1 DEF PartsSound
    <3>q. QED BY <2>3, <2>4, <3>1, RecordIsSound
  <2>q. QED BY <2>5, <2>6, <2>7 DEF RecordOf
<1> HIDE DEF measured, ofGoal, ofCapability, named, contributing
<1>6. ASSUME NEW e \in E!RecordsFor(subject)
      PROVE  \/ \E m \in measured : E!Emits(m) /\ e = ofGoal(m)
             \/ \E c \in named : contributing(c) # {} /\ e = ofCapability(c)
  BY <1>1
<1>7. \A e \in E!RecordsFor(subject) : RecordSound(e) /\ e.subject = subject /\ e.policy = policy.version
  BY <1>4, <1>5, <1>6
<1>8. OneEach(E!RecordsFor(subject))
  <2> SUFFICES ASSUME NEW e \in E!RecordsFor(subject), NEW f \in E!RecordsFor(subject),
                      e.capability = f.capability
               PROVE  e = f
    BY DEF OneEach
  <2>1. CASE \E m \in measured : E!Emits(m) /\ e = ofGoal(m)
    <3>1. PICK m \in measured : E!Emits(m) /\ e = ofGoal(m)
      BY <2>1
    <3>2. e.capability = m.suite /\ m.suite \in DOMAIN Goals
      BY <1>4, <3>1
    <3>3. PICK n \in measured : E!Emits(n) /\ f = ofGoal(n)
      BY <1>5, <1>6, <3>2
    <3>4. f.capability = n.suite
      BY <1>4, <3>3
    <3>q. QED BY <1>2, <3>1, <3>2, <3>3, <3>4
  <2>2. CASE \E c \in named : contributing(c) # {} /\ e = ofCapability(c)
    <3>1. PICK c \in named : contributing(c) # {} /\ e = ofCapability(c)
      BY <2>2
    <3>2. e.capability = c /\ c \notin DOMAIN Goals
      BY <1>5, <3>1
    <3>3. PICK d \in named : contributing(d) # {} /\ f = ofCapability(d)
      BY <1>4, <1>6, <3>2
    <3>4. f.capability = d
      BY <1>5, <3>3
    <3>q. QED BY <3>1, <3>2, <3>3, <3>4
  <2>q. QED BY <1>6, <2>1, <2>2
<1>q. QED BY <1>7, <1>8

-----------------------------------------------------------------------------
(***************************************************************************)
(* The invariant: what is stored and what is about to be are records that  *)
(* are sound, one to a subject, a capability and a policy, and a           *)
(* recomputation only holds records that it will replace.                  *)
(***************************************************************************)
BatchSound(batch) ==
    /\ \A e \in batch.records : RecordSound(e) /\ E!Replaced(e, batch)
    /\ OneEach(batch.records)

EvidenceInv ==
    /\ runs \in Seq(Ran) /\ GoalsSound
    /\ policy \in Policies /\ now \in Int
    /\ \A e \in evidence : RecordSound(e)
    /\ OneEach(evidence)
    /\ pending = [r \in Recomputers |-> pending[r]]
    /\ \A r \in Recomputers : BatchSound(pending[r])

\* What is recorded stays so as runs complete and reports are stored.
Grows == /\ \A i \in DOMAIN runs : i \in DOMAIN runs' /\ runs'[i] = runs[i]
         /\ \A i \in DOMAIN reports : i \in DOMAIN reports' /\ reports'[i] = reports[i]

\* What is sound stays sound then.
LEMMA SoundForGood ==
    ASSUME Grows
    PROVE  /\ \A e : RecordSound(e) => RecordSound(e)'
           /\ \A batch : BatchSound(batch) => BatchSound(batch)'
<1>1. ASSUME NEW e, RecordSound(e) PROVE RecordSound(e)'
  <2>1. FiguresBetween(e)'
    BY <1>1 DEF RecordSound, FiguresBetween, ConfidenceIsBetween
  <2>2. ASSUME NEW p \in e.parts PROVE MeasurementOf(p.of, e.subject)' /\ CalibratedPart(p)'
    <3>1. MeasurementOf(p.of, e.subject) /\ CalibratedPart(p)
      BY <1>1, <2>2 DEF RecordSound
    <3>2. MeasurementOf(p.of, e.subject)'
      BY <3>1 DEF MeasurementOf, Grows
    <3>3. CalibratedPart(p)'
      BY <3>1 DEF CalibratedPart, Grows
    <3>q. QED BY <3>2, <3>3
  <2>q. QED BY <2>1, <2>2 DEF RecordSound
<1>2. ASSUME NEW batch, BatchSound(batch) PROVE BatchSound(batch)'
  BY <1>1, <1>2 DEF BatchSound, OneEach, E!Replaced
<1>q. QED BY <1>1, <1>2

\* What a recomputation computes, for whatever scope.
LEMMA BatchIsSound ==
    ASSUME EvidenceInv, NEW scope
    PROVE  BatchSound([scope |-> scope, policy |-> policy.version,
                      records |-> UNION {E!RecordsFor(s) : s \in IF scope = "all" THEN E!Subjects ELSE {scope}}])
<1> DEFINE subjects == IF scope = "all" THEN E!Subjects ELSE {scope}
           records == UNION {E!RecordsFor(s) : s \in subjects}
           batch == [scope |-> scope, policy |-> policy.version, records |-> records]
<1>1. ASSUME NEW s
      PROVE  /\ \A e \in E!RecordsFor(s) : RecordSound(e) /\ e.subject = s /\ e.policy = policy.version
             /\ OneEach(E!RecordsFor(s))
  BY RecordsAreSound DEF EvidenceInv
<1>2. \A e \in records : \E s \in subjects : e \in E!RecordsFor(s)
  OBVIOUS
<1>3. \A e \in records : RecordSound(e) /\ e.policy = policy.version /\ (scope = "all" \/ e.subject = scope)
  BY <1>1, <1>2
<1>4. OneEach(records)
  <2> HIDE DEF records
  <2> SUFFICES ASSUME NEW e \in records, NEW f \in records, e.subject = f.subject,
                      e.capability = f.capability, e.policy = f.policy
               PROVE  e = f
    BY DEF OneEach
  <2>1. PICK s \in subjects : e \in E!RecordsFor(s)
    BY <1>2
  <2>2. PICK t \in subjects : f \in E!RecordsFor(t)
    BY <1>2
  <2>3. s = e.subject /\ t = f.subject
    BY <1>1, <2>1, <2>2
  <2>q. QED BY <1>1, <2>1, <2>2, <2>3 DEF OneEach
<1>5. batch.records = records /\ batch.scope = scope /\ batch.policy = policy.version
  OBVIOUS
<1>6. BatchSound(batch)
  <2> HIDE DEF records, batch
  <2>q. QED BY <1>3, <1>4, <1>5 DEF BatchSound, E!Replaced
<1>q. QED BY <1>6

\* Every step keeps the invariant.
LEMMA EvidenceStep ==
    ASSUME EvidenceInv, [E!Next]_evidenceVars
    PROVE  EvidenceInv'
<1> USE DEF evidenceVars
<1>1. ASSUME UNCHANGED <<reports, goals>> PROVE GoalsSound => GoalsSound'
  BY <1>1 DEF GoalsSound, GoalSound, E!NoReport
<1>2. CASE E!CompleteRun
  <2> USE DEF E!CompleteRun
  <2>1. PICK o \in Offers :
           runs' = Append(runs, [subject |-> o.subject, suite |-> o.suite, version |-> o.version,
                                 env |-> o.env, metric |-> o.metric, at |-> now])
    BY <1>2
  <2>2. runs \in Seq(Ran) /\ now \in Int
    BY DEF EvidenceInv
  <2>3. [subject |-> o.subject, suite |-> o.suite, version |-> o.version,
         env |-> o.env, metric |-> o.metric, at |-> now] \in Ran
    BY <2>2 DEF Ran
  <2>4. runs' \in Seq(Ran) /\ \A i \in DOMAIN runs : i \in DOMAIN runs' /\ runs'[i] = runs[i]
    BY <2>1, <2>2, <2>3
  <2>5. Grows
    BY <1>2, <2>4 DEF Grows
  <2>q. QED BY <1>2, <1>1, <2>4, <2>5, SoundForGood DEF EvidenceInv, OneEach
<1>3. ASSUME NEW g \in DOMAIN Goals, NEW new, goals' = [goals EXCEPT ![g] = new], UNCHANGED evidence,
             UNCHANGED <<runs, policy, now, pending>>, reports' \in Seq(Calibrations), Grows,
             new.rubric # 0 => new.rubric \in DOMAIN Goals[g],
             new.report # E!NoReport => \E k \in DOMAIN reports' : reports'[k] = new.report /\ reports'[k].goal = g
      PROVE  EvidenceInv'
  <2>1. /\ goals' = [h \in DOMAIN Goals |-> goals'[h]]
        /\ \A h \in DOMAIN Goals : goals'[h] = IF h = g THEN new ELSE goals[h]
    BY <1>3 DEF EvidenceInv, GoalsSound
  <2>2. ASSUME NEW h \in DOMAIN Goals PROVE GoalSound(h)'
    <3>1. CASE h = g
      BY <1>3, <2>1, <3>1 DEF GoalSound, E!NoReport
    <3>2. CASE h # g
      <4>1. GoalSound(h) /\ goals'[h] = goals[h]
        BY <2>1, <3>2 DEF EvidenceInv, GoalsSound
      <4>q. QED BY <1>3, <4>1 DEF GoalSound, Grows, E!NoReport
    <3>q. QED BY <3>1, <3>2
  <2>3. GoalsSound'
    BY <1>3, <2>1, <2>2 DEF GoalsSound
  <2>q. QED BY <1>3, <2>3, SoundForGood DEF EvidenceInv, OneEach
<1>4. ASSUME UNCHANGED <<runs, reports>> PROVE Grows
  BY <1>4 DEF Grows
<1>5. CASE E!StoreReport
  <2> USE DEF E!StoreReport
  <2>1. PICK c \in Calibrations :
           /\ goals[c.goal].rubric # 0 /\ reports' = Append(reports, c)
           /\ goals' = [goals EXCEPT ![c.goal] =
                           [rubric |-> @.rubric, report |-> c, figures |-> c.measured]]
    BY <1>5
  <2> DEFINE new == [rubric |-> goals[c.goal].rubric, report |-> c, figures |-> c.measured]
  <2>2. c.goal \in DOMAIN Goals /\ goals' = [goals EXCEPT ![c.goal] = new]
    BY <2>1, EvidenceAssumption
  <2>3. reports \in Seq(Calibrations)
    BY DEF EvidenceInv, GoalsSound
  <2>4. /\ reports' \in Seq(Calibrations) /\ Len(reports) + 1 \in DOMAIN reports'
        /\ reports'[Len(reports) + 1] = c
        /\ \A i \in DOMAIN reports : i \in DOMAIN reports' /\ reports'[i] = reports[i]
    BY <2>1, <2>3
  <2>5. Grows
    BY <1>5, <2>4 DEF Grows
  <2>6. new.rubric = goals[c.goal].rubric /\ new.report = c
    OBVIOUS
  <2>7. GoalSound(c.goal)
    BY <2>2 DEF EvidenceInv, GoalsSound
  <2> HIDE DEF new
  <2>8. \E k \in DOMAIN reports' : reports'[k] = new.report /\ reports'[k].goal = c.goal
    BY <2>4, <2>6
  <2>9. new.rubric # 0 => new.rubric \in DOMAIN Goals[c.goal]
    BY <2>6, <2>7 DEF GoalSound
  <2>10. UNCHANGED <<runs, policy, now, pending>> /\ UNCHANGED evidence
    BY <1>5
  <2> HIDE DEF E!StoreReport
  <2>q. QED BY <1>3, <2>2, <2>4, <2>5, <2>8, <2>9, <2>10
<1>6. ASSUME NEW g \in DOMAIN Goals, E!SyncGoal(g) PROVE EvidenceInv'
  <2> USE DEF E!SyncGoal
  <2>1. PICK v \in DOMAIN Goals[g] :
           goals' = [goals EXCEPT ![g] =
                        [rubric |-> v, report |-> @.report, figures |-> @.figures \cap Goals[g][v].keys]]
    BY <1>6
  <2> DEFINE new == [rubric |-> v, report |-> goals[g].report, figures |-> goals[g].figures \cap Goals[g][v].keys]
  <2>2. goals' = [goals EXCEPT ![g] = new] /\ new.rubric = v /\ new.report = goals[g].report
    BY <2>1
  <2> HIDE DEF new
  <2>3. Grows /\ reports' \in Seq(Calibrations) /\ GoalSound(g)
    BY <1>4, <1>6 DEF EvidenceInv, GoalsSound
  <2>q. QED BY <1>3, <1>6, <2>2, <2>3 DEF GoalSound
<1>7. ASSUME NEW g \in DOMAIN Goals, E!DeleteGoal(g) PROVE EvidenceInv'
  <2> DEFINE new == [rubric |-> 0, report |-> E!NoReport, figures |-> {}]
  <2>1. goals' = [goals EXCEPT ![g] = new] /\ new.rubric = 0 /\ new.report = E!NoReport
    BY <1>7 DEF E!DeleteGoal
  <2> HIDE DEF new
  <2>2. Grows /\ reports' \in Seq(Calibrations)
    BY <1>4, <1>7 DEF EvidenceInv, GoalsSound, E!DeleteGoal
  <2>q. QED BY <1>3, <1>7, <2>1, <2>2 DEF E!DeleteGoal
<1>8. CASE E!ChangeSettings
  <2>1. Grows
    BY <1>4, <1>8 DEF E!ChangeSettings
  <2>q. QED BY <1>8, <1>1, <2>1, SoundForGood DEF E!ChangeSettings, EvidenceInv, OneEach
<1>9. CASE E!Tick
  <2>1. Grows
    BY <1>4, <1>9 DEF E!Tick
  <2>q. QED BY <1>9, <1>1, <2>1, SoundForGood DEF E!Tick, EvidenceInv, OneEach
<1>10. ASSUME NEW r \in Recomputers, NEW batch, BatchSound(batch),
             pending' = [pending EXCEPT ![r] = batch], UNCHANGED <<runs, reports, goals, policy, now, evidence>>
      PROVE  EvidenceInv'
  <2>1. Grows
    BY <1>4, <1>10 DEF Grows
  <2>2. /\ pending' = [q \in Recomputers |-> pending'[q]]
        /\ \A q \in Recomputers : pending'[q] = IF q = r THEN batch ELSE pending[q]
    BY <1>10 DEF EvidenceInv
  <2>3. \A q \in Recomputers : BatchSound(pending'[q])
    BY <1>10, <2>2 DEF EvidenceInv
  <2>4. \A q \in Recomputers : BatchSound(pending[q])'
    BY <2>1, <2>3, SoundForGood
  <2>q. QED BY <1>10, <1>1, <2>1, <2>2, <2>4, SoundForGood DEF EvidenceInv, OneEach
<1>11. ASSUME NEW r \in Recomputers, NEW scope, E!RecomputeEvidence(r, scope) PROVE EvidenceInv'
  <2>1. PICK batch : BatchSound(batch) /\ pending' = [pending EXCEPT ![r] = batch]
    BY <1>11, BatchIsSound DEF E!RecomputeEvidence
  <2>q. QED BY <1>10, <1>11, <2>1 DEF E!RecomputeEvidence
<1>12. BatchSound(E!NoWork)
  BY DEF BatchSound, OneEach, E!NoWork
<1>13. ASSUME NEW r \in Recomputers, E!RefreshFails(r) PROVE EvidenceInv'
  BY <1>10, <1>12, <1>13 DEF E!RefreshFails
<1>14. ASSUME NEW r \in Recomputers, E!Write(r) PROVE EvidenceInv'
  <2> USE DEF E!Write
  <2>1. Grows
    BY <1>4, <1>14
  <2>2. /\ pending' = [q \in Recomputers |-> pending'[q]]
        /\ \A q \in Recomputers : pending'[q] = IF q = r THEN E!NoWork ELSE pending[q]
    BY <1>14 DEF EvidenceInv
  <2>3. \A q \in Recomputers : BatchSound(pending[q])'
    BY <1>12, <2>1, <2>2, SoundForGood DEF EvidenceInv
  <2>4. BatchSound(pending[r]) /\ OneEach(evidence) /\ \A e \in evidence : RecordSound(e)
    BY DEF EvidenceInv
  <2>5. \A e \in evidence' : RecordSound(e)'
    BY <1>14, <2>1, <2>4, SoundForGood DEF BatchSound
  <2>6. OneEach(evidence)'
    <3> SUFFICES ASSUME NEW e \in evidence', NEW f \in evidence', e.subject = f.subject,
                        e.capability = f.capability, e.policy = f.policy
                 PROVE  e = f
      BY DEF OneEach
    <3>1. \A d \in evidence' : (d \in evidence /\ ~ E!Replaced(d, pending[r])) \/ d \in pending[r].records
      BY <1>14
    <3>2. E!Replaced(e, pending[r]) <=> E!Replaced(f, pending[r])
      BY DEF E!Replaced
    <3>3. \A d \in pending[r].records : E!Replaced(d, pending[r])
      BY <2>4 DEF BatchSound
    <3>4. CASE E!Replaced(e, pending[r])
      BY <2>4, <3>1, <3>2, <3>4 DEF BatchSound, OneEach
    <3>5. CASE ~ E!Replaced(e, pending[r])
      BY <2>4, <3>1, <3>2, <3>3, <3>5 DEF OneEach
    <3>q. QED BY <3>4, <3>5
  <2>q. QED BY <1>14, <1>1, <2>2, <2>3, <2>5, <2>6 DEF EvidenceInv
<1>15. CASE UNCHANGED evidenceVars
  <2>1. Grows
    BY <1>4, <1>15
  <2>q. QED BY <1>15, <1>1, <2>1, SoundForGood DEF EvidenceInv, OneEach
<1>16. ASSUME NEW r \in Recomputers, E!Recompute(r) PROVE EvidenceInv'
  BY <1>11, <1>13, <1>14, <1>16 DEF E!Recompute, E!RecomputeForRun
<1>q. QED BY <1>2, <1>8, <1>9, <1>15, <1>16, <1>5, <1>6, <1>7 DEF E!Next

\* It holds at first.
LEMMA EvidenceStart == MCInit => EvidenceInv
<1> SUFFICES ASSUME MCInit PROVE EvidenceInv
  OBVIOUS
<1>1. /\ runs = <<>> /\ reports = <<>> /\ policy \in Policies /\ now = 0 /\ evidence = {}
      /\ pending = [r \in Recomputers |-> E!NoWork]
  BY DEF MCInit, E!Init
<1>2. runs \in Seq(Ran) /\ reports \in Seq(Calibrations)
  BY <1>1
<1>3. BatchSound(E!NoWork)
  BY DEF BatchSound, OneEach, E!NoWork
<1>4. pending = [r \in Recomputers |-> pending[r]] /\ \A r \in Recomputers : BatchSound(pending[r])
  BY <1>1, <1>3
<1>5. GoalsSound
  <2>1. PICK first \in [DOMAIN Goals -> UNION {DOMAIN Goals[g] : g \in DOMAIN Goals}] :
           /\ \A g \in DOMAIN Goals : first[g] \in DOMAIN Goals[g]
           /\ goals = [g \in DOMAIN Goals |-> [rubric |-> first[g], report |-> E!NoReport, figures |-> {}]]
    BY DEF MCInit, E!Init
  <2>2. \A g \in DOMAIN Goals : goals[g].rubric \in DOMAIN Goals[g] /\ goals[g].report = E!NoReport
    BY <2>1
  <2>3. goals = [g \in DOMAIN Goals |-> goals[g]]
    BY <2>1
  <2>q. QED BY <1>2, <2>2, <2>3 DEF GoalsSound, GoalSound
<1>q. QED BY <1>1, <1>2, <1>4, <1>5 DEF EvidenceInv, OneEach

\* And it says what is checked.
LEMMA EvidenceIsWhole == EvidenceInv => EvidenceIsSound
<1> SUFFICES ASSUME EvidenceInv PROVE EvidenceIsSound
  OBVIOUS
<1>1. E!RecordsAreWhole
  <2>1. \A e \in evidence : \A p \in e.parts : MeasurementOf(p.of, e.subject)
    BY DEF EvidenceInv, RecordSound
  <2>q. QED BY <2>1 DEF EvidenceInv, OneEach, E!RecordsAreWhole, MeasurementOf
<1>2. E!JudgedIsCalibrated
  BY DEF EvidenceInv, RecordSound, CalibratedPart, E!JudgedIsCalibrated
<1>3. E!FiguresAreBounded
  BY DEF EvidenceInv, RecordSound, FiguresBetween, ConfidenceIsBetween, E!FiguresAreBounded
<1>q. QED BY <1>1, <1>2, <1>3 DEF EvidenceIsSound

\* However recomputations overlap with each other and with runs that complete, calibrations
\* that are stored, settings that change and time that passes, the stored records are whole,
\* rest on reports that passed, and keep their figures within bounds (services/evidence.py).
THEOREM EvidenceStaysSound == MCSpec => []EvidenceIsSound
<1>1. EvidenceInv /\ [MCNext]_<<moving, vars, goalRun, juryVars, evidenceVars>> => EvidenceInv'
  <2> SUFFICES ASSUME EvidenceInv, [MCNext]_<<moving, vars, goalRun, juryVars, evidenceVars>>
               PROVE  EvidenceInv'
    OBVIOUS
  <2>1. [E!Next]_evidenceVars
    BY DEF MCNext
  <2>q. QED BY <2>1, EvidenceStep
<1>q. QED BY <1>1, EvidenceStart, EvidenceIsWhole, PTL DEF MCSpec
=============================================================================
