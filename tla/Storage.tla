------------------------------- MODULE Storage -------------------------------
\* Deletion, backup, restore and migration (services/database_admin.py,
\* services/database.py, web/routes/database.py) beside a running executor.
\* A row stands for the rows of one table that belong to one run, so that counts
\* by table differ between runs as far as the executor has got with each.
EXTENDS Schema, Sequences, SequencesExt

CONSTANTS
    Runs,          \* run ids; a greater one was created later
    Sessions,      \* browser tabs and terminals of the operator
    Scopes,        \* the scopes of deletion the operator uses
    ModelOf,       \* the model each run measured
    Threshold,     \* AUTO_BACKUP_ROW_THRESHOLD, in rows of the model
    Keep,          \* storage.backup_retention
    HeadRevision,          \* the newest revision this build knows; 0 is an empty file
    AutoMigrate,   \* storage.auto_migrate
    Batches,       \* the transactions in which the executor stores its rows
    MaxOutside     \* bound: backups, restores and installs by the operator

\* What the executor and its telemetry thread insert, a batch in one transaction.
Prepared == {"run_tests"}
SampleRows == {"samples", "tool_calls", "criterion_scores", "judge_verdicts"}
TelemetryRows == {"telemetry_samples", "telemetry_gpu_samples"}
ExecutorWrites ==
    Prepared \cup SampleRows \cup TelemetryRows \cup {"metric_values", "run_events"}

ASSUME StorageAssumption ==
    /\ \A w \in Batches : w \subseteq ExecutorWrites
    /\ Runs \subseteq Nat /\ Keep \in Nat \ {0} /\ HeadRevision \in Nat \ {0}
    /\ Threshold \in Nat /\ AutoMigrate \in BOOLEAN /\ MaxOutside \in Nat

VARIABLES
    db,         \* the rows of runs that are stored
    ever,       \* the runs that were ever submitted: an id is not used again
    executing,  \* the run an executor works on, or NoRun
    revision,   \* the revision of the database file
    serving,    \* whether a server of this build is up
    backups,    \* default-path backups, oldest first
    premigration, \* backups taken by migrations, oldest first
    page,       \* what each session was shown and may confirm
    job,        \* where each session's deletion is
    outcome,    \* what the last deletion reported, and what really vanished
    outside

vars == <<db, ever, executing, revision, serving, backups, premigration, page, job,
          outcome, outside>>

NoRun == 0

-----------------------------------------------------------------------------
\* What a deletion covers

\* A plan that forgets a table added since.
StatementsBug == <<"criterion_scores", "tool_calls", "samples", "metric_values",
      "telemetry_gpu_samples", "telemetry_samples", "artifacts", "run_events",
      "run_tests", "runs">>

\* The statements of delete_results, in the order they are issued.
Statements ==
    <<"judge_verdicts", "criterion_scores", "tool_calls", "samples", "metric_values",
      "telemetry_gpu_samples", "telemetry_samples", "artifacts", "run_events",
      "run_tests", "runs">>

\* The tables whose rows go with a run.
RunTables == Reaches["runs"] \cup {"runs"}

Preserved ==
    {"machines", "models", "model_descriptors", "runtime_profiles", "benchmark_suites",
     "benchmark_tests", "goals", "goal_criteria", "goal_tasks", "calibration_samples",
     "calibration_grades", "calibration_reports"}

Row(t, r) == [table |-> t, run |-> r]
Rows == {Row(t, r) : t \in RunTables, r \in Runs}
Stored(rows) == {r \in Runs : Row("runs", r) \in rows}

AllSelections ==
    {[scope |-> "run", of |-> r] : r \in Runs}
    \cup {[scope |-> "model", of |-> m] : m \in Range([r \in Runs |-> ModelOf[r]])}
    \cup {[scope |-> "before", of |-> r] : r \in Runs}
    \cup {[scope |-> "all", of |-> 0]}

MatchingRuns(rows, sel) ==
    {r \in Stored(rows) :
        \/ sel.scope = "all"
        \/ sel.scope = "run" /\ r = sel.of
        \/ sel.scope = "model" /\ ModelOf[r] = sel.of
        \/ sel.scope = "before" /\ r < sel.of}

Selections == {sel \in AllSelections : sel.scope \in Scopes}

\* Counts per table; a table that would lose nothing is left out.
RemovalCounts(rows, runs) ==
    LET count(t) == Cardinality({x \in rows : x.table = t /\ x.run \in runs})
    IN  [t \in {u \in RunTables : count(u) > 0} |-> count(t)]

TotalRows(counts) == FoldSet(LAMBDA t, n : n + counts[t], 0, DOMAIN counts)

PreviewToken(sel, counts) == [selection |-> sel, counts |-> counts]

PreviewDeletion(rows, sel) ==
    LET runs == MatchingRuns(rows, sel)
        counts == RemovalCounts(rows, runs)
    IN  [selection |-> sel, runs |-> runs, counts |-> counts,
         rows |-> {x \in rows : x.run \in runs}, \* history: what was counted
         token |-> PreviewToken(sel, counts), backup |-> TotalRows(counts) >= Threshold]

NoCounts == [t \in {} |-> 0]
NoPage ==
    [selection |-> <<>>, runs |-> {}, counts |-> NoCounts, rows |-> {}, token |-> <<>>, backup |-> FALSE]
Idle == [at |-> "idle", preview |-> NoPage, shown |-> {}]
NothingDeleted == [counts |-> NoCounts, vanished |-> NoCounts]

\* History: of the rows a deletion counted, those that were there ever since.
StillThere(jobs, rows) == [s \in Sessions |-> [jobs[s] EXCEPT !.preview.rows = @ \cap rows]]

\* One DELETE: the rows it names, the rows the database removes with them, and the
\* number it reports, which is of the rows it names.
DeleteStatement(rows, t, runs) ==
    LET named == {x \in rows : x.table = t /\ x.run \in runs}
        gone == {x \in rows : \E v \in named : x.run = v.run /\ x.table \in Reaches[t] \cup {t}}
    IN  [left |-> rows \ gone, count |-> Cardinality(named)]

\* What one statement leaves, and the counts with its own.
Execute(done, t, runs) ==
    LET step == DeleteStatement(done.left, t, runs)
    IN  [left |-> step.left,
         counts |-> IF step.count = 0 THEN done.counts
                    ELSE [u \in DOMAIN done.counts \cup {t} |->
                             IF u = t THEN step.count ELSE done.counts[u]]]

\* The statements of one deletion, deepest table first, in one transaction: what is
\* left after the first n of them.
Executed(rows, runs) ==
    LET done[n \in 0..Len(Statements)] ==
            IF n = 0 THEN [left |-> rows, counts |-> NoCounts]
            ELSE Execute(done[n - 1], Statements[n], runs)
    IN  done

DeleteRows(rows, runs) == Executed(rows, runs)[Len(Statements)]

-----------------------------------------------------------------------------
Init ==
    /\ db = {} /\ ever = {} /\ executing = NoRun
    /\ revision \in {0, HeadRevision} /\ serving = FALSE
    /\ backups = <<>> /\ premigration = <<>>
    /\ page = [s \in Sessions |-> NoPage]
    /\ job = [s \in Sessions |-> Idle]
    /\ outcome = NothingDeleted
    /\ outside = 0

operator == <<page, job, outcome>>
files == <<backups, premigration>>

SubmitRun ==
    \E r \in Runs \ ever :
        /\ serving /\ \A q \in Runs \ ever : r <= q
        /\ ever' = ever \cup {r}
        /\ db' = db \cup {Row("runs", r)}
        /\ executing' = IF executing = NoRun THEN r ELSE executing
        /\ UNCHANGED <<revision, serving, files, operator, outside>>

\* Foreign keys left unenforced.
InsertableBug(tables, r) == TRUE

\* The rows a new row must refer to are stored, or go in with it.
Insertable(tables, r) ==
    \A t \in tables : \A ref \in References[t] :
        ref.needed /\ ref.parent \in RunTables
            => Row(ref.parent, r) \in db \/ ref.parent \in tables

\* A transaction that cannot insert stores nothing; the executor goes on or ends.
ExecutorStores(tables) ==
    /\ serving /\ executing # NoRun
    /\ Insertable(tables, executing)
    /\ db' = db \cup {Row(t, executing) : t \in tables}
    /\ UNCHANGED <<ever, executing, revision, serving, files, operator, outside>>

RunEnds ==
    /\ executing # NoRun
    /\ executing' = NoRun
    /\ UNCHANGED <<db, ever, revision, serving, files, operator, outside>>

-----------------------------------------------------------------------------
\* Deleting: a preview, a confirmation, then three steps of one request.

Preview(s) ==
    \E sel \in Selections :
        /\ job[s].at = "idle" /\ revision # 0
        /\ page' = [page EXCEPT ![s] = PreviewDeletion(db, sel)]
        /\ UNCHANGED <<db, ever, executing, revision, serving, files, job, outcome, outside>>

\* The form asks for a typed word before anything is read; then the selection is
\* previewed again and its token compared with the one the page carried.
Confirm(s) ==
    LET fresh == PreviewDeletion(db, page[s].selection)
    IN  /\ job[s].at = "idle" /\ page[s] # NoPage /\ revision # 0
        /\ job' = [job EXCEPT ![s] =
               IF fresh.token # page[s].token \/ fresh.runs = {} THEN Idle
               ELSE [at |-> IF fresh.backup THEN "backup" ELSE "delete",
                     preview |-> fresh, shown |-> page[s].runs]]
        /\ page' = [page EXCEPT ![s] = NoPage]
        /\ outcome' = NothingDeleted
        /\ UNCHANGED <<db, ever, executing, revision, serving, files, outside>>

\* The newest Keep of a family of backups stay.
Rotate(family, new) ==
    LET all == Append(family, new)
    IN  IF Len(all) > Keep THEN SubSeq(all, Len(all) - Keep + 1, Len(all)) ELSE all

Snapshot == [rows |-> db, revision |-> revision]

BackUpFirst(s) ==
    /\ job[s].at = "backup"
    /\ backups' = Rotate(backups, Snapshot)
    /\ job' = [job EXCEPT ![s].at = "delete"]
    /\ UNCHANGED <<db, ever, executing, revision, serving, premigration, page, outcome, outside>>

\* A failed backup that is only logged.
BackupFailsBug(s) ==
    /\ job[s].at = "backup"
    /\ job' = [job EXCEPT ![s].at = "delete"]
    /\ UNCHANGED <<db, ever, executing, revision, serving, files, page, outcome, outside>>

BackupFails(s) ==
    /\ job[s].at = "backup"
    /\ job' = [job EXCEPT ![s] = Idle]
    /\ UNCHANGED <<db, ever, executing, revision, serving, files, page, outcome, outside>>

DeleteResults(s) ==
    LET done == DeleteRows(db, job[s].preview.runs)
    IN  /\ job[s].at = "delete"
        /\ db' = done.left
        /\ outcome' = [counts |-> done.counts,
                       vanished |-> RemovalCounts(db \ done.left, Runs)]
        /\ job' = StillThere([job EXCEPT ![s] = Idle], done.left)
        /\ UNCHANGED <<ever, executing, revision, serving, files, page, outside>>

-----------------------------------------------------------------------------
\* The database file and the revision of its schema

Known == 1 .. HeadRevision

\* ensure_ready: start, migrate and start, or refuse.
EnsureReady ==
    IF revision = HeadRevision THEN "start"
    ELSE IF revision = 0 THEN "create"
    ELSE IF revision \notin Known THEN "schema ahead"
    ELSE IF AutoMigrate THEN "migrate" ELSE "migration required"

Migrate ==
    /\ revision' = HeadRevision
    /\ premigration' = IF revision = 0 THEN premigration ELSE Rotate(premigration, Snapshot)

StartServer ==
    /\ ~serving
    /\ \/ EnsureReady = "start" /\ UNCHANGED <<revision, premigration>>
       \/ EnsureReady \in {"create", "migrate"} /\ Migrate
    /\ serving' = TRUE
    /\ UNCHANGED <<db, ever, executing, backups, operator, outside>>

StopServer ==
    /\ serving
    /\ serving' = FALSE /\ executing' = NoRun
    /\ UNCHANGED <<db, ever, revision, files, operator, outside>>

\* freeweight db upgrade
Upgrade ==
    /\ revision \in 0 .. HeadRevision - 1 /\ outside < MaxOutside
    /\ Migrate
    /\ outside' = outside + 1
    /\ UNCHANGED <<db, ever, executing, serving, backups, operator>>

\* freeweight db backup, and the button
BackupDatabase ==
    /\ outside < MaxOutside
    /\ backups' = Rotate(backups, Snapshot)
    /\ outside' = outside + 1
    /\ UNCHANGED <<db, ever, executing, revision, serving, premigration, operator>>

\* freeweight db restore: the file is replaced, whoever has it open. A backup of a
\* revision this build does not know is refused.
RestoreDatabase ==
    \E b \in Range(backups) \cup Range(premigration) :
        /\ outside < MaxOutside /\ b.revision \in Known
        /\ db' = b.rows /\ revision' = b.revision
        /\ job' = StillThere(job, b.rows)
        /\ outside' = outside + 1
        /\ UNCHANGED <<ever, executing, serving, files, page, outcome>>

\* A newer build was installed, started once, and removed again; or an older build's
\* file was put in place.
OtherBuildWrites ==
    /\ ~serving /\ outside < MaxOutside
    /\ revision' \in {HeadRevision + 1, HeadRevision - 1} \ {0, revision}
    /\ revision # 0 /\ revision <= HeadRevision
    /\ outside' = outside + 1
    /\ UNCHANGED <<db, ever, executing, serving, files, operator>>

Next ==
    \/ SubmitRun \/ RunEnds \/ \E w \in Batches : ExecutorStores(w)
    \/ \E s \in Sessions :
           Preview(s) \/ Confirm(s) \/ BackUpFirst(s) \/ BackupFails(s) \/ DeleteResults(s)
    \/ StartServer \/ StopServer \/ Upgrade \/ BackupDatabase \/ RestoreDatabase
    \/ OtherBuildWrites

Spec == Init /\ [][Next]_vars

-----------------------------------------------------------------------------
\* Properties

\* Rows belong to runs that were submitted, a file without a schema holds none, and
\* no family of backups outgrows what is kept.
TypeOK ==
    /\ db \subseteq Rows /\ ever \subseteq Runs /\ executing \in ever \cup {NoRun}
    /\ \A x \in db : x.run \in ever
    /\ revision \in 0 .. HeadRevision + 1 /\ (revision = 0 => db = {})
    /\ Len(backups) <= Keep /\ Len(premigration) <= Keep
    /\ \A b \in Range(backups \o premigration) : b.rows \subseteq Rows
    /\ \A s \in Sessions : job[s].at \in {"idle", "backup", "delete"}

\* What a deletion reports, table by table, is what vanished from the database, the
\* rows the database removed on its own included (delete_results, "deepest first").
OutcomeIsTrue == outcome.counts = outcome.vanished

\* No row outlives a row it must refer to, whatever an executor stores while its run
\* is deleted or the file is replaced under it.
NoOrphans ==
    \A x \in db : \A ref \in References[x.table] :
        ref.needed /\ ref.parent \in RunTables => Row(ref.parent, x.run) \in db

Backed == UNION {b.rows : b \in Range(backups) \cup Range(premigration)}

\* A large deletion removes only rows in a kept backup, of those it counted and that
\* were there ever since.
LargeLossIsBackedUp ==
    \A s \in Sessions :
        job[s].at = "delete" /\ job'[s].at = "idle" /\ job[s].preview.backup
            => (db \ db') \cap job[s].preview.rows \subseteq Backed

\* A file that gets to the newest revision was migrated beside a backup of it as it
\* was, at its own revision, or is a backup put back.
MigrationIsBackedUp ==
    revision \notin {0, HeadRevision} /\ revision' = HeadRevision
        => \/ Snapshot \in Range(premigration') /\ db' = db
           \/ Snapshot' \in Range(backups) \cup Range(premigration)

\* What a large deletion or a migration changes is in a backup that is kept at that
\* moment, whoever else backs up, prunes or restores; only rows stored since the
\* deletion's backup may be lost for good (delete_results, ensure_ready).
NothingIsLostUnsaved == [][LargeLossIsBackedUp /\ MigrationIsBackedUp]_vars

\* _preview_token, of a run the operator was not shown: the token is there "so a run
\* that finished between the preview and the confirmation invalidates the token
\* rather than being swept up silently".
OnlyShownRunsAreDeleted ==
    [][\A s \in Sessions :
           job[s].at = "delete" /\ job'[s].at = "idle"
               => Stored(db) \ Stored(db') \subseteq job[s].shown]_vars

=============================================================================
