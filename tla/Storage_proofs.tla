--------------------------- MODULE Storage_proofs ---------------------------
(***************************************************************************)
(* Theorems about Storage, for any runs, operators, batches, retention and *)
(* threshold, and any number of backups, restores and installs.            *)
(***************************************************************************)
EXTENDS Storage, FiniteSetTheorems, SequenceTheorems, NaturalLemmas

(***************************************************************************)
(* The statements of a deletion.                                           *)
(***************************************************************************)
OfRuns(rows, t, runs) == {x \in rows : x.table = t /\ x.run \in runs}

\* The first n tables of the plan, the rows that are left after their statements, and
\* the counts.
First(n) == {Statements[i] : i \in 1..n}
LeftAfter(rows, runs, n) == {x \in rows : ~ (x.run \in runs /\ x.table \in First(n))}
CountedAfter(rows, runs, n) ==
    [t \in {u \in First(n) : OfRuns(rows, u, runs) # {}} |-> Cardinality(OfRuns(rows, t, runs))]

\* The tables of a run, and the order the statements name them in: what a table
\* takes with it was named before.
LEMMA DeepestFirst ==
    /\ Len(Statements) = 11 /\ First(0) = {} /\ First(11) = RunTables
    /\ \A n \in 1..11 : /\ Statements[n] \notin First(n - 1)
                        /\ Reaches[Statements[n]] \subseteq First(n - 1)
                        /\ First(n) = First(n - 1) \cup {Statements[n]}
<1>1. Len(Statements) = 11
  BY DEF Statements
<1>2. /\ Statements[1] = "judge_verdicts" /\ Statements[2] = "criterion_scores"
      /\ Statements[3] = "tool_calls" /\ Statements[4] = "samples" /\ Statements[5] = "metric_values"
      /\ Statements[6] = "telemetry_gpu_samples" /\ Statements[7] = "telemetry_samples"
      /\ Statements[8] = "artifacts" /\ Statements[9] = "run_events" /\ Statements[10] = "run_tests"
      /\ Statements[11] = "runs"
  BY DEF Statements
<1>3. \A n \in 1..11 : First(n) = First(n - 1) \cup {Statements[n]}
  BY DEF First
<1>4. First(0) = {}
  BY DEF First
<1>5. /\ First(1) = {"judge_verdicts"}
      /\ First(2) = {"judge_verdicts", "criterion_scores"}
      /\ First(3) = {"judge_verdicts", "criterion_scores", "tool_calls"}
      /\ First(4) = {"judge_verdicts", "criterion_scores", "tool_calls", "samples"}
      /\ First(5) = {"judge_verdicts", "criterion_scores", "tool_calls", "samples", "metric_values"}
      /\ First(6) = {"judge_verdicts", "criterion_scores", "tool_calls", "samples", "metric_values",
                     "telemetry_gpu_samples"}
      /\ First(7) = {"judge_verdicts", "criterion_scores", "tool_calls", "samples", "metric_values",
                     "telemetry_gpu_samples", "telemetry_samples"}
  BY <1>2 DEF First
<1>6. /\ First(8) = First(7) \cup {"artifacts"} /\ First(9) = First(8) \cup {"run_events"}
      /\ First(10) = First(9) \cup {"run_tests"} /\ First(11) = First(10) \cup {"runs"}
  BY <1>2, <1>3
<1>7. First(11) = RunTables
  BY <1>5, <1>6, ReachesAssumption DEF RunTables
<1>8. \A n \in 1..11 : Statements[n] \notin First(n - 1)
  BY <1>2, <1>4, <1>5, <1>6
<1>9. \A n \in 1..11 : Reaches[Statements[n]] \subseteq First(n - 1)
  BY <1>2, <1>4, <1>5, <1>6, ReachesAssumption
<1>q. QED BY <1>1, <1>3, <1>4, <1>7, <1>8, <1>9

\* A statement removes the rows it names and no other.
LEMMA StatementRemovesNamed ==
    ASSUME NEW rows, NEW runs, IsFiniteSet(rows), NEW n \in 1..11
    PROVE  Execute([left |-> LeftAfter(rows, runs, n - 1), counts |-> CountedAfter(rows, runs, n - 1)],
                   Statements[n], runs)
              = [left |-> LeftAfter(rows, runs, n), counts |-> CountedAfter(rows, runs, n)]
<1> DEFINE t == Statements[n]
           before == LeftAfter(rows, runs, n - 1)
           counted == CountedAfter(rows, runs, n - 1)
           named == {x \in before : x.table = t /\ x.run \in runs}
           gone == {x \in before : \E v \in named : x.run = v.run /\ x.table \in Reaches[t] \cup {t}}
<1>1. t \notin First(n - 1) /\ Reaches[t] \subseteq First(n - 1) /\ First(n) = First(n - 1) \cup {t}
  BY DeepestFirst
<1> HIDE DEF t
<1>2. named = OfRuns(rows, t, runs)
  BY <1>1 DEF OfRuns, LeftAfter
<1>3. gone = named
  BY <1>1 DEF LeftAfter
<1>4. before \ named = LeftAfter(rows, runs, n)
  BY <1>1 DEF LeftAfter
<1>5. Cardinality(named) = 0 <=> OfRuns(rows, t, runs) = {}
  <2>1. IsFiniteSet(named)
    BY <1>2, FS_Subset DEF OfRuns
  <2>q. QED BY <1>2, <2>1, FS_EmptySet
<1> DEFINE counts == IF Cardinality(named) = 0 THEN counted
                     ELSE [u \in DOMAIN counted \cup {t} |-> IF u = t THEN Cardinality(named) ELSE counted[u]]
<1>6. counts = CountedAfter(rows, runs, n)
  <2> DEFINE old == {u \in First(n - 1) : OfRuns(rows, u, runs) # {}}
             new == {u \in First(n) : OfRuns(rows, u, runs) # {}}
  <2>1. counted = [u \in old |-> Cardinality(OfRuns(rows, u, runs))]
    BY DEF CountedAfter
  <2>2. CountedAfter(rows, runs, n) = [u \in new |-> Cardinality(OfRuns(rows, u, runs))]
    BY DEF CountedAfter
  <2>3. CASE OfRuns(rows, t, runs) = {}
    <3>1. new = old
      BY <1>1, <2>3
    <3>2. counts = counted
      BY <1>5, <2>3
    <3> HIDE DEF new, old, counts, counted
    <3>q. QED BY <2>1, <2>2, <3>1, <3>2
  <2>4. CASE OfRuns(rows, t, runs) # {}
    <3>1. new = old \cup {t} /\ t \notin old
      BY <1>1, <2>4
    <3>2. counts = [u \in DOMAIN counted \cup {t} |-> IF u = t THEN Cardinality(named) ELSE counted[u]]
      BY <1>5, <2>4
    <3> HIDE DEF new, old, counts, counted, named
    <3>3. DOMAIN counted = old /\ \A u \in old : counted[u] = Cardinality(OfRuns(rows, u, runs))
      BY <2>1
    <3>q. QED BY <1>2, <2>2, <3>1, <3>2, <3>3
  <2>q. QED BY <2>3, <2>4
<1>7. Execute([left |-> before, counts |-> counted], t, runs) = [left |-> before \ gone, counts |-> counts]
  BY DEF Execute, DeleteStatement
<1> HIDE DEF before, counted, gone, named, counts
<1>q. QED BY <1>3, <1>4, <1>6, <1>7 DEF before, counted, t

\* What each statement of a deletion leaves, and has counted.
LEMMA ExecutedIs ==
    ASSUME NEW rows, NEW runs, IsFiniteSet(rows), NEW n \in 0..11
    PROVE  Executed(rows, runs)[n]
              = [left |-> LeftAfter(rows, runs, n), counts |-> CountedAfter(rows, runs, n)]
<1> DEFINE G(i) == [left |-> LeftAfter(rows, runs, i), counts |-> CountedAfter(rows, runs, i)]
           start == [left |-> rows, counts |-> NoCounts]
           g == [i \in 0..11 |-> G(i)]
           bad == {i \in 0..11 : Executed(rows, runs)[i] # G(i)}
<1>1. G(0) = start
  <2>1. LeftAfter(rows, runs, 0) = rows
    BY DeepestFirst DEF LeftAfter
  <2>2. CountedAfter(rows, runs, 0) = NoCounts
    BY DeepestFirst DEF CountedAfter, NoCounts
  <2>q. QED BY <2>1, <2>2
<1>2. \A i \in 1..11 : Execute(G(i - 1), Statements[i], runs) = G(i)
  BY StatementRemovesNamed
<1> HIDE DEF G, start
<1>3. g = [i \in 0..11 |-> IF i = 0 THEN start ELSE Execute(g[i - 1], Statements[i], runs)]
  <2>1. \A i \in 1..11 : g[i - 1] = G(i - 1)
    OBVIOUS
  <2>2. \A i \in 0..11 : G(i) = IF i = 0 THEN start ELSE Execute(g[i - 1], Statements[i], runs)
    <3> HIDE DEF g
    <3>1. \A i \in 0..11 : i # 0 => i \in 1..11
      OBVIOUS
    <3>q. QED BY <1>1, <1>2, <2>1, <3>1, Zenon
  <2> DEFINE other == [i \in 0..11 |-> IF i = 0 THEN start ELSE Execute(g[i - 1], Statements[i], runs)]
  <2>3. g = [i \in 0..11 |-> G(i)]
    OBVIOUS
  <2> HIDE DEF g
  <2>q. QED BY <2>2, <2>3, Zenon
<1> DEFINE f == Executed(rows, runs)
<1>4. f = [i \in 0..11 |-> IF i = 0 THEN start ELSE Execute(f[i - 1], Statements[i], runs)]
  <2>1. f = CHOOSE h : h = [i \in 0..11 |-> IF i = 0 THEN start ELSE Execute(h[i - 1], Statements[i], runs)]
    BY DeepestFirst DEF Executed, start
  <2> HIDE DEF f, g
  <2>q. QED BY <1>3, <2>1, Zenon
<1> HIDE DEF f, g
<1>5. f[0] = start /\ \A i \in 1..11 : f[i] = Execute(f[i - 1], Statements[i], runs)
  BY <1>4
<1>6. bad = {}
  <2> SUFFICES ASSUME bad # {} PROVE FALSE
    OBVIOUS
  <2>1. bad \in SUBSET Nat
    OBVIOUS
  <2>2. PICK k \in bad : \A y \in bad : k <= y
    <3> HIDE DEF bad
    <3>q. QED BY <2>1, LeastNumber
  <2>3. k \in 0..11 /\ f[k] # G(k)
    BY DEF f
  <2>4. k # 0
    BY <1>1, <1>5, <2>3
  <2>5. k - 1 \in 0..11 /\ k - 1 < k /\ k \in 1..11
    BY <2>3, <2>4
  <2>6. f[k - 1] = G(k - 1)
    BY <2>2, <2>5 DEF f
  <2>q. QED BY <1>2, <1>5, <2>3, <2>5, <2>6
<1>q. QED BY <1>6 DEF G

\* A deletion removes the rows of its runs and reports, table by table, how many.
LEMMA DeletionIsExact ==
    ASSUME NEW rows \in SUBSET Rows, NEW runs, IsFiniteSet(rows)
    PROVE  /\ DeleteRows(rows, runs).left = {x \in rows : x.run \notin runs}
           /\ DeleteRows(rows, runs).counts = RemovalCounts(rows \ DeleteRows(rows, runs).left, Runs)
<1> DEFINE left == {x \in rows : x.run \notin runs}
           lost == rows \ left
           some == {u \in RunTables : OfRuns(rows, u, runs) # {}}
<1>1. DeleteRows(rows, runs) = [left |-> LeftAfter(rows, runs, 11), counts |-> CountedAfter(rows, runs, 11)]
  <2>1. 11 \in 0..11
    OBVIOUS
  <2>2. Executed(rows, runs)[11] = [left |-> LeftAfter(rows, runs, 11), counts |-> CountedAfter(rows, runs, 11)]
    BY <2>1, ExecutedIs
  <2>q. QED BY <2>2, DeepestFirst DEF DeleteRows
<1>2. \A x \in rows : x.table \in RunTables /\ x.run \in Runs
  BY DEF Rows, Row
<1>3. LeftAfter(rows, runs, 11) = left
  BY <1>2, DeepestFirst DEF LeftAfter
<1>4. CountedAfter(rows, runs, 11) = [t \in some |-> Cardinality(OfRuns(rows, t, runs))]
  BY DeepestFirst DEF CountedAfter
<1>5. \A t : {x \in lost : x.table = t /\ x.run \in Runs} = OfRuns(rows, t, runs)
  BY <1>2 DEF OfRuns
<1>6. \A t : Cardinality(OfRuns(rows, t, runs)) > 0 <=> OfRuns(rows, t, runs) # {}
  <2> TAKE t
  <2>1. IsFiniteSet(OfRuns(rows, t, runs))
    BY FS_Subset DEF OfRuns
  <2>q. QED BY <2>1, FS_EmptySet, FS_CardinalityType
<1>7. RemovalCounts(lost, Runs) = [t \in some |-> Cardinality(OfRuns(rows, t, runs))]
  <2> HIDE DEF lost
  <2>q. QED BY <1>5, <1>6 DEF RemovalCounts
<1>8. DeleteRows(rows, runs).left = left
  BY <1>1, <1>3
<1>9. DeleteRows(rows, runs).counts = RemovalCounts(lost, Runs)
  BY <1>1, <1>4, <1>7
<1>q. QED BY <1>8, <1>9

-----------------------------------------------------------------------------
(***************************************************************************)
(* Backups.  Those that rotation keeps are of the family or new, and the   *)
(* new one is kept.                                                        *)
(***************************************************************************)
Snapshots == [rows : SUBSET Rows, revision : 0 .. HeadRevision + 1]
Kept == Range(backups) \cup Range(premigration)

LEMMA RotateKeeps ==
    ASSUME NEW family \in Seq(Snapshots), NEW new \in Snapshots
    PROVE  /\ Rotate(family, new) \in Seq(Snapshots)
           /\ new \in Range(Rotate(family, new))
           /\ Range(Rotate(family, new)) \subseteq Range(family) \cup {new}
<1> DEFINE all == Append(family, new)
           n == Len(all)
           last == SubSeq(all, n - Keep + 1, n)
<1>1. /\ all \in Seq(Snapshots) /\ n \in Nat \ {0} /\ DOMAIN all = 1..n /\ all[n] = new
      /\ \A i \in 1..n : all[i] \in Range(family) \cup {new}
  BY AppendProperties DEF Range
<1>2. Keep \in Nat \ {0}
  BY StorageAssumption
<1>3. CASE n > Keep
  <2>1. n - Keep + 1 \in 1..n
    BY <1>1, <1>2, <1>3
  <2>2. /\ last \in Seq(Snapshots) /\ Len(last) = Keep
        /\ \A i \in 1..Keep : last[i] = all[n - Keep + i]
    <3> HIDE DEF n, all
    <3>q. QED BY <1>1, <1>2, <1>3, <2>1
  <2>3. DOMAIN last = 1..Keep
    BY <2>2
  <2>4. last[Keep] = new /\ \A i \in 1..Keep : last[i] \in Range(family) \cup {new}
    <3>1. \A i \in 1..Keep : n - Keep + i \in 1..n /\ n - Keep + Keep = n
      <4> HIDE DEF n
      <4>q. QED BY <1>1, <1>2, <1>3
    <3> HIDE DEF last, all, n
    <3>q. QED BY <1>1, <1>2, <2>2, <3>1
  <2>5. Rotate(family, new) = last
    BY <1>3 DEF Rotate
  <2> HIDE DEF last
  <2>q. QED BY <1>2, <2>2, <2>3, <2>4, <2>5 DEF Range
<1>4. CASE ~ (n > Keep)
  <2>1. Rotate(family, new) = all
    BY <1>4 DEF Rotate
  <2> HIDE DEF n, all
  <2>q. QED BY <1>1, <2>1 DEF Range
<1>q. QED BY <1>3, <1>4

-----------------------------------------------------------------------------
(***************************************************************************)
(* The invariant.  Rows that may be put back are as sound as those that    *)
(* are stored; what a deletion counted is in the database, and once it has *)
(* been backed up, in a backup that is kept.                               *)
(***************************************************************************)
OrphanFree(rows) ==
    \A x \in rows : \A ref \in References[x.table] :
        ref.needed /\ ref.parent \in RunTables => Row(ref.parent, x.run) \in rows
Sound(rows) == rows \subseteq Rows /\ IsFiniteSet(rows) /\ OrphanFree(rows)

IsJob(j) ==
    {"at", "preview", "shown"} \subseteq DOMAIN j /\ {"rows", "backup"} \subseteq DOMAIN j.preview

Typed ==
    /\ executing \in Runs \cup {NoRun}
    /\ revision \in 0 .. HeadRevision + 1
    /\ backups \in Seq(Snapshots) /\ premigration \in Seq(Snapshots)
    /\ DOMAIN job = Sessions /\ \A s \in Sessions : IsJob(job[s])

Stays == Sound(db) /\ \A b \in Kept : Sound(b.rows)

Pending(s) ==
    /\ job[s].preview.rows \subseteq db
    /\ job[s].at = "delete" /\ job[s].preview.backup => job[s].preview.rows \subseteq Backed

IInv == Typed /\ Stays /\ OutcomeIsTrue /\ \A s \in Sessions : Pending(s)

\* The tables of a run, those the executor writes among them, refer to a run's other
\* tables only below the run itself.
LEMMA TablesOfARun ==
    /\ "runs" \in RunTables /\ IsFiniteSet(RunTables) /\ ExecutorWrites \subseteq RunTables
    /\ \A ref \in References["runs"] : ref.parent \notin RunTables
<1>1. RunTables = {"run_tests", "samples", "tool_calls", "criterion_scores", "judge_verdicts", "metric_values",
           "run_events", "artifacts", "telemetry_samples", "telemetry_gpu_samples", "runs"}
  BY ReachesAssumption DEF RunTables
<1>2. IsFiniteSet(RunTables)
  <2> DEFINE numbers == 1..11
  <2>1. RunTables = {Statements[i] : i \in numbers}
    BY DeepestFirst DEF First
  <2>2. IsFiniteSet(numbers)
    <3>1. \A n \in Int : IsFiniteSet(1..n)
      BY FS_Interval
    <3>2. 11 \in Int
      OBVIOUS
    <3>q. QED BY <3>1, <3>2, Zenon
  <2> HIDE DEF numbers
  <2>3. IsFiniteSet({Statements[i] : i \in numbers})
    BY <2>2, FiniteImage
  <2>q. QED BY <2>1, <2>3
<1>3. ExecutorWrites \subseteq RunTables
  BY <1>1 DEF ExecutorWrites, Prepared, SampleRows, TelemetryRows
<1>4. References["runs"] = Run
  BY DEF References
<1>5. \A ref \in Run : ref.parent \in {"machines", "models", "model_descriptors",
                                        "runtime_profiles", "benchmark_suites", "adapters"}
  BY DEF Run, Restricts, MayRestrict
<1>q. QED BY <1>1, <1>2, <1>3, <1>4, <1>5

LEMMA InitInvariant == Init => IInv
<1> SUFFICES ASSUME Init PROVE IInv
  OBVIOUS
<1>1. Typed
  <2>1. IsJob(Idle)
    BY DEF IsJob, Idle, NoPage
  <2>2. backups \in Seq(Snapshots) /\ premigration \in Seq(Snapshots)
    BY DEF Init
  <2>3. revision \in 0 .. HeadRevision + 1
    BY StorageAssumption DEF Init
  <2>q. QED BY <2>1, <2>2, <2>3 DEF Init, Typed
<1>2. Stays
  <2>1. Kept = {}
    BY DEF Init, Kept, Range
  <2>q. QED BY <2>1, FS_EmptySet DEF Init, Stays, Sound, OrphanFree
<1>3. OutcomeIsTrue
  BY DEF Init, OutcomeIsTrue, NothingDeleted
<1>4. ASSUME NEW s \in Sessions PROVE Pending(s)
  BY DEF Init, Pending, Idle, NoPage
<1>q. QED BY <1>1, <1>2, <1>3, <1>4 DEF IInv

\* What a step does to the history of a deletion that is not its own.
LEMMA StillThereIs ==
    ASSUME NEW jobs, \A s \in Sessions : IsJob(jobs[s]), NEW rows, NEW s \in Sessions
    PROVE  LET j == StillThere(jobs, rows)[s]
           IN  /\ IsJob(j) /\ j.at = jobs[s].at /\ j.preview.backup = jobs[s].preview.backup
               /\ j.preview.rows = jobs[s].preview.rows \cap rows
<1> DEFINE old == jobs[s]
           p == old.preview
           j == StillThere(jobs, rows)[s]
<1>1. j = [old EXCEPT !.preview = [p EXCEPT !.rows = p.rows \cap rows]]
  BY DEF StillThere
<1>2. {"at", "preview", "shown"} \subseteq DOMAIN old /\ {"rows", "backup"} \subseteq DOMAIN p
  BY DEF IsJob
<1> HIDE DEF old, j
<1>3. DOMAIN j = DOMAIN old /\ j.at = old.at /\ j.preview = [p EXCEPT !.rows = p.rows \cap rows]
  BY <1>1, <1>2
<1>4. DOMAIN j.preview = DOMAIN p /\ j.preview.backup = p.backup /\ j.preview.rows = p.rows \cap rows
  BY <1>2, <1>3
<1>5. IsJob(j)
  BY <1>2, <1>3, <1>4 DEF IsJob
<1>q. QED BY <1>3, <1>4, <1>5 DEF old, j

LEMMA SnapshotIs ==
    ASSUME Typed, Sound(db)
    PROVE  Snapshot \in Snapshots /\ Snapshot.rows = db
BY DEF Typed, Sound, Snapshot, Snapshots

LEMMA KeptAreSnapshots ==
    ASSUME Typed
    PROVE  Kept \subseteq Snapshots
<1>1. \A family \in Seq(Snapshots) : Range(family) \subseteq Snapshots
  BY DEF Range
<1>2. backups \in Seq(Snapshots) /\ premigration \in Seq(Snapshots)
  BY DEF Typed
<1>q. QED BY <1>1, <1>2 DEF Kept

LEMMA TypedStep ==
    ASSUME Typed, Sound(db), [Next]_vars
    PROVE  Typed'
<1> USE DEF operator, files, IsJob
<1>1. Snapshot \in Snapshots
  BY SnapshotIs
<1>2. \A b \in Kept : b.revision \in 0 .. HeadRevision + 1
  BY KeptAreSnapshots DEF Snapshots
<1>4. CASE SubmitRun
  BY <1>4 DEF Typed, SubmitRun
<1>5. CASE RunEnds
  BY <1>5 DEF Typed, RunEnds
<1>6. CASE \E w \in Batches : ExecutorStores(w)
  BY <1>6 DEF Typed, ExecutorStores
<1>7. ASSUME NEW s \in Sessions, Preview(s) PROVE Typed'
  BY <1>7 DEF Typed, Preview
<1>8. ASSUME NEW s \in Sessions, Confirm(s) PROVE Typed'
  <2> DEFINE fresh == PreviewDeletion(db, page[s].selection)
  <2>1. {"rows", "backup"} \subseteq DOMAIN fresh
    BY DEF PreviewDeletion
  <2>2. {"rows", "backup"} \subseteq DOMAIN Idle.preview /\ {"at", "preview", "shown"} \subseteq DOMAIN Idle
    BY DEF Idle, NoPage
  <2>3. \E j : job' = [job EXCEPT ![s] = j] /\ IsJob(j)
    <3> HIDE DEF fresh
    <3>1. CASE fresh.token # page[s].token \/ fresh.runs = {}
      <4>1. job' = [job EXCEPT ![s] = Idle]
        BY <1>8, <3>1 DEF Confirm, fresh
      <4>q. QED BY <2>2, <4>1
    <3>2. CASE ~ (fresh.token # page[s].token \/ fresh.runs = {})
      <4> DEFINE j == [at |-> IF fresh.backup THEN "backup" ELSE "delete", preview |-> fresh,
                       shown |-> page[s].runs]
      <4>1. job' = [job EXCEPT ![s] = j]
        BY <1>8, <3>2 DEF Confirm, fresh
      <4>2. IsJob(j)
        BY <2>1
      <4>q. QED BY <4>1, <4>2
    <3>q. QED BY <3>1, <3>2
  <2>4. PICK j : job' = [job EXCEPT ![s] = j] /\ IsJob(j)
    BY <2>3
  <2>5. DOMAIN job' = Sessions /\ \A q \in Sessions : IsJob(job'[q])
    BY <2>4 DEF Typed
  <2>6. UNCHANGED <<executing, revision, backups, premigration>>
    BY <1>8 DEF Confirm
  <2>q. QED BY <2>5, <2>6 DEF Typed
<1>9. ASSUME NEW s \in Sessions, BackUpFirst(s) PROVE Typed'
  <2>1. backups' \in Seq(Snapshots)
    BY <1>1, <1>9, RotateKeeps DEF BackUpFirst, Typed
  <2>q. QED BY <1>9, <2>1 DEF Typed, BackUpFirst
<1>10. ASSUME NEW s \in Sessions, BackupFails(s) PROVE Typed'
  BY <1>10 DEF Typed, BackupFails, Idle, NoPage
<1>11. ASSUME NEW s \in Sessions, DeleteResults(s) PROVE Typed'
  <2> DEFINE ended == [job EXCEPT ![s] = Idle]
             left == DeleteRows(db, job[s].preview.runs).left
  <2>1. \A q \in Sessions : IsJob(ended[q])
    BY DEF Typed, Idle, NoPage
  <2>2. job' = StillThere(ended, left)
    BY <1>11 DEF DeleteResults
  <2> HIDE DEF ended, left, IsJob
  <2>3. \A q \in Sessions : IsJob(job'[q])
    BY <2>1, <2>2, StillThereIs
  <2>4. DOMAIN job' = Sessions
    BY <2>2 DEF StillThere
  <2>q. QED BY <1>11, <2>3, <2>4 DEF Typed, DeleteResults
<1>12. CASE StartServer
  <2>1. \/ UNCHANGED <<revision, premigration>>
        \/ revision' = HeadRevision /\ premigration' = premigration
        \/ revision' = HeadRevision /\ premigration' = Rotate(premigration, Snapshot)
    BY <1>12 DEF StartServer, Migrate
  <2>2. HeadRevision \in 0 .. HeadRevision + 1
    BY StorageAssumption
  <2>3. revision' \in 0 .. HeadRevision + 1 /\ premigration' \in Seq(Snapshots)
    BY <1>1, <2>1, <2>2, RotateKeeps DEF Typed
  <2>q. QED BY <1>12, <2>3 DEF Typed, StartServer
<1>13. CASE StopServer
  BY <1>13 DEF Typed, StopServer
<1>14. CASE Upgrade
  <2>1. HeadRevision \in 0 .. HeadRevision + 1
    BY StorageAssumption
  <2>2. revision' \in 0 .. HeadRevision + 1 /\ premigration' \in Seq(Snapshots)
    BY <1>1, <1>14, <2>1, RotateKeeps DEF Typed, Upgrade, Migrate
  <2>q. QED BY <1>14, <2>2 DEF Typed, Upgrade
<1>15. CASE BackupDatabase
  <2>1. backups' \in Seq(Snapshots)
    BY <1>1, <1>15, RotateKeeps DEF BackupDatabase, Typed
  <2>q. QED BY <1>15, <2>1 DEF Typed, BackupDatabase
<1>16. CASE RestoreDatabase
  <2>1. PICK b \in Kept : /\ revision' = b.revision /\ job' = StillThere(job, b.rows)
                          /\ UNCHANGED <<executing, files>>
    BY <1>16 DEF RestoreDatabase, Kept
  <2>2. DOMAIN job' = Sessions
    BY <2>1 DEF StillThere
  <2>3. \A q \in Sessions : IsJob(job'[q])
    <3> HIDE DEF IsJob
    <3>q. QED BY <2>1, StillThereIs DEF Typed
  <2>q. QED BY <1>2, <2>1, <2>2, <2>3 DEF Typed
<1>17. CASE OtherBuildWrites
  <2>1. revision' \in 0 .. HeadRevision + 1
    BY <1>17, StorageAssumption DEF OtherBuildWrites
  <2>q. QED BY <1>17, <2>1 DEF Typed, OtherBuildWrites
<1>18. CASE UNCHANGED vars
  BY <1>18 DEF Typed, vars
<1>q. QED
  BY <1>4, <1>5, <1>6, <1>7, <1>8, <1>9, <1>10, <1>11, <1>12, <1>13, <1>14, <1>15, <1>16, <1>17, <1>18
     DEF Next

\* What is kept after a step was kept before it, or is the database as it was.
LEMMA KeptStep ==
    ASSUME Typed, Sound(db), [Next]_vars
    PROVE  Kept' \subseteq Kept \cup {Snapshot}
<1> DEFINE Grown(family, new) == new = family \/ new = Rotate(family, Snapshot)
<1>1. Grown(backups, backups') /\ Grown(premigration, premigration')
  BY DEF Next, SubmitRun, RunEnds, ExecutorStores, Preview, Confirm, BackUpFirst, BackupFails,
         DeleteResults, StartServer, StopServer, Upgrade, Migrate, BackupDatabase, RestoreDatabase,
         OtherBuildWrites, vars, files
<1>2. \A family \in Seq(Snapshots) : Range(Rotate(family, Snapshot)) \subseteq Range(family) \cup {Snapshot}
  BY SnapshotIs, RotateKeeps
<1>3. backups \in Seq(Snapshots) /\ premigration \in Seq(Snapshots)
  BY DEF Typed
<1>q. QED BY <1>1, <1>2, <1>3 DEF Kept

\* No step leaves a row without a row that it must refer to.
LEMMA StaysStep ==
    ASSUME Typed, Stays, [Next]_vars
    PROVE  Stays'
<1>1. Sound(db) /\ \A b \in Kept : Sound(b.rows)
  BY DEF Stays
<1>2. SUFFICES Sound(db')
  <2>1. Snapshot.rows = db
    BY DEF Snapshot
  <2>2. \A b \in Kept' : Sound(b.rows)
    BY <1>1, <2>1, KeptStep
  <2>q. QED BY <2>2 DEF Stays, Sound, OrphanFree
<1>3. CASE SubmitRun
  <2>1. PICK r \in Runs : db' = db \cup {Row("runs", r)}
    BY <1>3 DEF SubmitRun
  <2>2. IsFiniteSet(db')
    BY <1>1, <2>1, FS_AddElement DEF Sound
  <2>3. OrphanFree(db')
    <3>1. Row("runs", r).table = "runs"
      BY DEF Row
    <3>q. QED BY <1>1, <2>1, <3>1, TablesOfARun DEF Sound, OrphanFree
  <2>4. db' \subseteq Rows
    BY <1>1, <2>1, TablesOfARun DEF Sound, Rows
  <2>q. QED BY <2>2, <2>3, <2>4 DEF Sound
<1>4. ASSUME NEW w \in Batches, ExecutorStores(w) PROVE Sound(db')
  <2> DEFINE new == {Row(t, executing) : t \in w}
  <2>1. db' = db \cup new /\ executing \in Runs
    BY <1>4 DEF ExecutorStores, Typed
  <2>2. w \subseteq RunTables
    BY StorageAssumption, TablesOfARun
  <2>3. IsFiniteSet(new)
    <3>1. IsFiniteSet(w)
      BY <2>2, TablesOfARun, FS_Subset
    <3> DEFINE f == [t \in w |-> Row(t, executing)]
    <3>2. new = {f[t] : t \in w}
      OBVIOUS
    <3> HIDE DEF f, new
    <3>q. QED BY <3>1, <3>2, FiniteImage
  <2>4. IsFiniteSet(db')
    BY <1>1, <2>1, <2>3, FS_Union DEF Sound
  <2>5. ASSUME NEW x \in db', NEW ref \in References[x.table], ref.needed /\ ref.parent \in RunTables
        PROVE  Row(ref.parent, x.run) \in db'
    <3>1. CASE x \in db
      BY <1>1, <2>1, <2>5, <3>1 DEF Sound, OrphanFree
    <3>2. CASE x \in new
      <4>1. PICK t \in w : x.table = t /\ x.run = executing
        BY <3>2 DEF Row
      <4>2. Row(ref.parent, executing) \in db \/ ref.parent \in w
        BY <1>4, <2>5, <4>1 DEF ExecutorStores, Insertable
      <4>q. QED BY <2>1, <4>1, <4>2
    <3>q. QED BY <2>1, <3>1, <3>2
  <2>6. db' \subseteq Rows
    BY <1>1, <2>1, <2>2 DEF Sound, Rows
  <2>q. QED BY <2>4, <2>5, <2>6 DEF Sound, OrphanFree
<1>5. ASSUME NEW s \in Sessions, DeleteResults(s) PROVE Sound(db')
  <2> DEFINE runs == job[s].preview.runs
  <2>1. db' = {x \in db : x.run \notin runs}
    BY <1>1, <1>5, DeletionIsExact DEF DeleteResults, Sound
  <2>2. IsFiniteSet(db')
    BY <1>1, <2>1, FS_Subset DEF Sound
  <2>3. \A t, r : Row(t, r).run = r
    BY DEF Row
  <2> HIDE DEF runs
  <2>q. QED BY <1>1, <2>1, <2>2, <2>3 DEF Sound, OrphanFree
<1>6. CASE RestoreDatabase
  BY <1>1, <1>6 DEF RestoreDatabase, Kept
<1>7. CASE UNCHANGED db
  BY <1>1, <1>7
<1>q. QED
  BY <1>3, <1>4, <1>5, <1>6, <1>7
     DEF Next, RunEnds, Preview, Confirm, BackUpFirst, BackupFails, StartServer, StopServer, Upgrade,
         BackupDatabase, OtherBuildWrites, vars

\* And each deletion says what it removed.
LEMMA OutcomeStep ==
    ASSUME Sound(db), OutcomeIsTrue, [Next]_vars
    PROVE  OutcomeIsTrue'
<1>1. ASSUME NEW s \in Sessions, DeleteResults(s) PROVE OutcomeIsTrue'
  <2> DEFINE done == DeleteRows(db, job[s].preview.runs)
  <2>1. done.counts = RemovalCounts(db \ done.left, Runs)
    BY DeletionIsExact DEF Sound
  <2>2. outcome' = [counts |-> done.counts, vanished |-> RemovalCounts(db \ done.left, Runs)]
    BY <1>1 DEF DeleteResults
  <2> HIDE DEF done
  <2>q. QED BY <2>1, <2>2 DEF OutcomeIsTrue
<1>2. ASSUME NEW s \in Sessions, Confirm(s) PROVE OutcomeIsTrue'
  BY <1>2 DEF Confirm, OutcomeIsTrue, NothingDeleted
<1>3. CASE UNCHANGED outcome
  BY <1>3 DEF OutcomeIsTrue
<1>q. QED
  BY <1>1, <1>2, <1>3
     DEF Next, SubmitRun, RunEnds, ExecutorStores, Preview, BackUpFirst, BackupFails, StartServer,
         StopServer, Upgrade, BackupDatabase, RestoreDatabase, OtherBuildWrites, vars, operator

\* Rotation drops a backup only for a newer one, which holds all that is stored.
LEMMA BackedStep ==
    ASSUME Typed, Sound(db), [Next]_vars
    PROVE  UNCHANGED files \/ db \subseteq Backed'
<1>1. \A family \in Seq(Snapshots) : Snapshot \in Range(Rotate(family, Snapshot))
  BY SnapshotIs, RotateKeeps
<1>2. backups \in Seq(Snapshots) /\ premigration \in Seq(Snapshots)
  BY DEF Typed
<1>3. UNCHANGED files \/ Snapshot \in Kept'
  BY <1>1, <1>2
     DEF Next, SubmitRun, RunEnds, ExecutorStores, Preview, Confirm, BackUpFirst, BackupFails,
         DeleteResults, StartServer, StopServer, Upgrade, Migrate, BackupDatabase, RestoreDatabase,
         OtherBuildWrites, vars, files, Kept
<1>4. CASE Snapshot \in Kept'
  <2>1. Snapshot.rows = db
    BY DEF Snapshot
  <2>2. Snapshot.rows \subseteq Backed'
    BY <1>4 DEF Backed, Kept
  <2>q. QED BY <2>1, <2>2
<1>q. QED BY <1>3, <1>4

\* What a deletion counted is stored until it goes with the deletion, and in a backup
\* that is kept once the deletion has taken its own.
LEMMA PendingStep ==
    ASSUME Typed, Sound(db), [Next]_vars, NEW s \in Sessions, Pending(s)
    PROVE  Pending(s)'
<1> DEFINE old == job[s]
           new == job'[s]
<1>1. IsJob(old) /\ DOMAIN job = Sessions /\ \A q \in Sessions : IsJob(job[q])
  BY DEF Typed
<1>2. old.preview.rows \subseteq db
      /\ (old.at = "delete" /\ old.preview.backup => old.preview.rows \subseteq Backed)
  BY DEF Pending
<1>3. SUFFICES new.preview.rows \subseteq db'
               /\ (new.at = "delete" /\ new.preview.backup => new.preview.rows \subseteq Backed')
  BY DEF Pending
<1>4. UNCHANGED files => Backed' = Backed
  BY DEF files, Backed
<1>5. UNCHANGED files \/ db \subseteq Backed'
  BY BackedStep
<1>6. CASE job'[s] = job[s] /\ db \subseteq db'
  BY <1>2, <1>4, <1>5, <1>6
<1>7. CASE Confirm(s)
  <2> DEFINE fresh == PreviewDeletion(db, page[s].selection)
  <2>1. fresh.rows \subseteq db
    BY DEF PreviewDeletion
  <2> HIDE DEF fresh
  <2>2. new = Idle \/ new = [at |-> IF fresh.backup THEN "backup" ELSE "delete", preview |-> fresh,
                             shown |-> page[s].runs]
    BY <1>1, <1>7 DEF Confirm, fresh
  <2>3. db' = db
    BY <1>7 DEF Confirm
  <2>4. CASE new = Idle
    BY <2>4 DEF Idle, NoPage
  <2>5. CASE new = [at |-> IF fresh.backup THEN "backup" ELSE "delete", preview |-> fresh,
                    shown |-> page[s].runs]
    <3>1. new.preview = fresh /\ ~ (new.at = "delete" /\ fresh.backup)
      BY <2>5
    <3> HIDE DEF new
    <3>q. QED BY <2>1, <2>3, <3>1
  <2>q. QED BY <2>2, <2>4, <2>5
<1>8. CASE BackUpFirst(s)
  <2>1. new = [old EXCEPT !.at = "delete"] /\ db' = db /\ backups' = Rotate(backups, Snapshot)
    BY <1>1, <1>8 DEF BackUpFirst
  <2>2. new.preview = old.preview
    BY <1>1, <2>1 DEF IsJob
  <2>3. Snapshot \in Range(backups')
    BY <2>1, SnapshotIs, RotateKeeps DEF Typed
  <2>4. db \subseteq Backed'
    <3>1. Snapshot.rows \subseteq Backed'
      BY <2>3 DEF Backed
    <3>q. QED BY <3>1 DEF Snapshot
  <2> HIDE DEF old, new
  <2>q. QED BY <1>2, <2>1, <2>2, <2>4
<1>9. CASE BackupFails(s)
  <2>1. new = Idle
    BY <1>1, <1>9 DEF BackupFails
  <2>q. QED BY <2>1 DEF Idle, NoPage
<1>10. ASSUME NEW q \in Sessions, DeleteResults(q)
       PROVE  new.preview.rows \subseteq db'
              /\ (new.at = "delete" /\ new.preview.backup => new.preview.rows \subseteq Backed')
  <2> DEFINE ended == [job EXCEPT ![q] = Idle]
  <2>1. job' = StillThere(ended, db') /\ UNCHANGED files
    BY <1>10 DEF DeleteResults
  <2>2. \A x \in Sessions : IsJob(ended[x])
    BY <1>1 DEF IsJob, Idle, NoPage
  <2>3. ended[s] = Idle \/ ended[s] = old
    BY <1>1
  <2>4. ended[s].at = "delete" => ended[s] = old
    BY <2>3 DEF Idle
  <2> HIDE DEF ended
  <2>5. /\ new.at = ended[s].at /\ new.preview.backup = ended[s].preview.backup
        /\ new.preview.rows = ended[s].preview.rows \cap db'
    BY <2>1, <2>2, StillThereIs
  <2> HIDE DEF old, new
  <2>q. QED BY <1>2, <1>4, <2>1, <2>4, <2>5
<1>11. CASE RestoreDatabase
  <2>1. job' = StillThere(job, db') /\ UNCHANGED files
    BY <1>11 DEF RestoreDatabase
  <2>2. /\ new.at = old.at /\ new.preview.backup = old.preview.backup
        /\ new.preview.rows = old.preview.rows \cap db'
    BY <1>1, <2>1, StillThereIs
  <2> HIDE DEF old, new
  <2>q. QED BY <1>2, <1>4, <2>1, <2>2
<1>12. \/ Confirm(s) \/ BackUpFirst(s) \/ BackupFails(s) \/ RestoreDatabase
       \/ \E q \in Sessions : DeleteResults(q)
       \/ job'[s] = job[s] /\ db \subseteq db'
  BY <1>1
     DEF Next, SubmitRun, RunEnds, ExecutorStores, Preview, Confirm, BackUpFirst, BackupFails,
         StartServer, StopServer, Upgrade, BackupDatabase, OtherBuildWrites, vars, operator
<1>q. QED BY <1>6, <1>7, <1>8, <1>9, <1>10, <1>11, <1>12

LEMMA InvariantHolds == Spec => []IInv
<1>1. IInv /\ [Next]_vars => IInv'
  BY TypedStep, StaysStep, OutcomeStep, PendingStep DEF IInv, Stays
<1>q. QED BY InitInvariant, <1>1, PTL DEF Spec

\* What a deletion reports is what vanished, table by table (delete_results).
THEOREM OutcomeTrue == Spec => []OutcomeIsTrue
<1>1. IInv => OutcomeIsTrue
  BY DEF IInv
<1>q. QED BY InvariantHolds, <1>1, PTL

\* No row outlives a row it must refer to, in any order of inserts, deletions and
\* restores.
THEOREM NoOrphan == Spec => []NoOrphans
<1>1. IInv => NoOrphans
  BY DEF IInv, Stays, Sound, OrphanFree, NoOrphans
<1>q. QED BY InvariantHolds, <1>1, PTL

\* A large deletion removes only what is in a backup that is kept when it does, and a
\* migration is beside one (delete_results, ensure_ready).
THEOREM NothingLost == Spec => NothingIsLostUnsaved
<1>1. IInv => LargeLossIsBackedUp
  BY DEF IInv, Pending, LargeLossIsBackedUp
<1>2. IInv /\ [Next]_vars => MigrationIsBackedUp
  <2> SUFFICES ASSUME IInv, [Next]_vars, revision \notin {0, HeadRevision}, revision' = HeadRevision
               PROVE  \/ Snapshot \in Range(premigration') /\ db' = db
                      \/ Snapshot' \in Kept
    BY DEF MigrationIsBackedUp, Kept
  <2>1. Typed /\ Sound(db)
    BY DEF IInv, Stays
  <2>2. HeadRevision \in Nat \ {0}
    BY StorageAssumption
  <2>3. CASE (StartServer \/ Upgrade) /\ Migrate
    <3>1. premigration' = Rotate(premigration, Snapshot) /\ db' = db
      BY <2>3 DEF StartServer, Upgrade, Migrate
    <3>q. QED BY <2>1, <3>1, SnapshotIs, RotateKeeps DEF Typed
  <2>4. CASE RestoreDatabase
    <3>1. PICK b \in Kept : db' = b.rows /\ revision' = b.revision
      BY <2>4 DEF RestoreDatabase, Kept
    <3>2. b = [rows |-> b.rows, revision |-> b.revision]
      BY <2>1, KeptAreSnapshots DEF Snapshots
    <3>3. Snapshot' = [rows |-> db', revision |-> revision']
      BY DEF Snapshot
    <3>q. QED BY <3>1, <3>2, <3>3
  <2>5. CASE OtherBuildWrites
    BY <2>2, <2>5 DEF OtherBuildWrites
  <2>q. QED
    BY <2>3, <2>4, <2>5
       DEF Next, SubmitRun, RunEnds, ExecutorStores, Preview, Confirm, BackUpFirst, BackupFails,
           DeleteResults, StartServer, StopServer, Upgrade, BackupDatabase, vars
<1>q. QED BY InvariantHolds, <1>1, <1>2, PTL DEF Spec, NothingIsLostUnsaved
=============================================================================
