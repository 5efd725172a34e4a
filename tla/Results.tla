------------------------------ MODULE Results -------------------------------
(***************************************************************************)
(* The readers of stored results while runs are still being written:       *)
(* the paged metric query, the streamed export and the dashboard           *)
(* (services/results.py, services/export.py), each a few transactions long *)
(* with writers between them.  The writers are the least that disturbs     *)
(* them: a run is created, completed, aggregated again or deleted.         *)
(***************************************************************************)
EXTENDS Comparison

CONSTANTS RunIds,      \* run ids, in the order of their text
          Subjects,    \* what a run may measure: a record of the fields of a subject
          MetricRows,  \* sets of [key, test, value] a run may be aggregated to
          MetricKeys,  \* metric keys, in the order of their text
          SuiteTests,  \* the tests of each suite
          VramMetric,  \* the metric that the dashboard plots quality against
          PageLimit,   \* rows of a page (ResultsQuery.limit)
          MaxLimit,    \* MAX_RESULTS_LIMIT
          MaxRuns,     \* MAX_EXPORT_RUNS
          MaxTime, MaxRewrites  \* bounds of the clock and of the aggregations

ASSUME LimitsArePositive == {PageLimit, MaxLimit, MaxRuns} \subseteq Nat \ {0}
\* Text has an order of its own, and an aggregation writes finitely many rows, one at
\* least for every metric that its suite declares.
ASSUME ResultsAssumption ==
    /\ RunIds \subseteq Nat /\ MaxTime \in Nat
    /\ MetricKeys \in Seq(STRING) /\ \A i, j \in DOMAIN MetricKeys : MetricKeys[i] = MetricKeys[j] => i = j
    /\ \A rows \in MetricRows : rows # {} /\ IsFiniteSet(rows) /\ {row.key : row \in rows} \subseteq Range(MetricKeys)

VARIABLES
    stored,    \* runs by id: [subject, created, status]
    values,    \* metric_values: set of [id, run, key, test, value]
    clock,     \* the instant of the next run
    rewrites,  \* aggregations so far: an id is its row's aggregation and place in it
    page,      \* a client that pages through the metric query
    export,    \* a streamed export
    dash       \* a dashboard being assembled

resultVars == <<stored, values, clock, rewrites, page, export, dash>>

RunLevel == "run"
Headline == "headline"
Row(id, run, row) == [id |-> id, run |-> run, key |-> row.key, test |-> row.test, value |-> row.value]
NoCursor == [created |-> MaxTime + 1, run |-> 0, key |-> "", id |-> <<0, 0>>]

ResultsInit ==
    /\ stored = <<>> /\ values = {} /\ clock = 1 /\ rewrites = 0
    /\ page = [phase |-> "idle", cursor |-> NoCursor, shown |-> <<>>, throughout |-> {}]
    /\ export = [phase |-> "idle", runs |-> <<>>, written |-> <<>>, snapshot |-> {}, held |-> {}]
    /\ dash = [phase |-> "idle", rows |-> <<>>, full |-> {}, cut |-> FALSE, matrix |-> <<>>,
               cards |-> <<>>, heatmap |-> <<>>, panel |-> <<>>, scatter |-> {}]

-----------------------------------------------------------------------------
\* Writers.
CreateRun(run, subject, later) ==
    /\ run \in RunIds \ DOMAIN stored
    /\ clock + later \in 1..MaxTime
    /\ clock' = clock + later
    /\ stored' = [r \in DOMAIN stored \cup {run} |->
                     IF r = run THEN [subject |-> subject, created |-> clock', status |-> "running"]
                                ELSE stored[r]]
    /\ UNCHANGED <<values, rewrites, page, export, dash>>

\* A client's page keeps track of the rows that were there all the while.
StillThere(rows) == [page EXCEPT !.throughout = @ \cap {v.id : v \in rows}]

\* Aggregates are replaced whole: the old rows go, the new ones have new ids.
ReplaceForRun(run, rows) ==
    LET kept == {v \in values : v.run # run}
        new == SetToSeq(rows)
    IN /\ values' = kept \cup {Row(<<rewrites, i>>, run, new[i]) : i \in DOMAIN new}
       /\ page' = StillThere(values')
       /\ rewrites' = rewrites + 1

Aggregate(run, rows) ==
    /\ run \in DOMAIN stored
    /\ rewrites < MaxRewrites
    /\ ReplaceForRun(run, rows)
    /\ stored' = [stored EXCEPT ![run].status = "completed"]
    /\ UNCHANGED <<clock, export, dash>>

DeleteRun(run) ==
    /\ run \in DOMAIN stored
    /\ stored' = [r \in DOMAIN stored \ {run} |-> stored[r]]
    /\ values' = {v \in values : v.run # run}
    /\ page' = StillThere(values')
    /\ UNCHANGED <<clock, rewrites, export, dash>>

-----------------------------------------------------------------------------
\* The metric query: rows of completed runs, newest run first, then by key and id.
KeyIndex(key) == IF key = "" THEN 0 ELSE CHOOSE i \in DOMAIN MetricKeys : MetricKeys[i] = key
IdAfter(id, other) == id[1] > other[1] \/ (id[1] = other[1] /\ id[2] > other[2])
SortKey(v) == [created |-> stored[v.run].created, run |-> v.run, key |-> v.key, id |-> v.id]
After(k, c) ==
    \/ k.created < c.created
    \/ k.created = c.created /\ k.run < c.run
    \/ k.created = c.created /\ k.run = c.run /\ KeyIndex(k.key) > KeyIndex(c.key)
    \/ k.created = c.created /\ k.run = c.run /\ k.key = c.key /\ IdAfter(k.id, c.id)

BaseStatement == {v \in values : stored[v.run].status = "completed"}

ClampedLimit(limit) == Max({1, Min({limit, MaxLimit})})

\* The page after a cursor, in order, and whether one row more was there.
QueryResults(cursor, limit) ==
    LET matching == {v \in BaseStatement : After(SortKey(v), cursor)}
        Before(v) == {w \in matching : After(SortKey(v), SortKey(w))}
        ordered == 
            [i \in 1..Cardinality(matching) |-> CHOOSE v \in matching : Cardinality(Before(v)) = i - 1]
        size == ClampedLimit(limit)
    IN [rows |-> SubSeq(ordered, 1, Min({size, Len(ordered)})), more |-> Len(ordered) > size]

OpenPage ==
    /\ page.phase = "idle"
    /\ page' = [phase |-> "paging", cursor |-> NoCursor, shown |-> <<>>,
                throughout |-> {v.id : v \in BaseStatement}]
    /\ UNCHANGED <<stored, values, clock, rewrites, export, dash>>

NextPageBug ==
    /\ page.phase = "paging"
    /\ LET read == QueryResults(page.cursor, PageLimit)
       IN page' = [page EXCEPT !.shown = @ \o [i \in DOMAIN read.rows |-> read.rows[i].id],
                               !.cursor = IF read.more
                                          THEN [SortKey(Last(read.rows)) EXCEPT !.key = Last(MetricKeys), !.id = <<MaxRewrites + 1, 0>>]
                                          ELSE @,
                               !.phase = IF read.more THEN @ ELSE "done"]
    /\ UNCHANGED <<stored, values, clock, rewrites, export, dash>>

NextPage ==
    /\ page.phase = "paging"
    /\ LET read == QueryResults(page.cursor, PageLimit)
       IN page' = [page EXCEPT !.shown = @ \o [i \in DOMAIN read.rows |-> read.rows[i].id],
                               !.cursor = IF read.more THEN SortKey(Last(read.rows)) ELSE @,
                               !.phase = IF read.more THEN @ ELSE "done"]
    /\ UNCHANGED <<stored, values, clock, rewrites, export, dash>>

-----------------------------------------------------------------------------
\* The export: the runs are resolved in one transaction and written in another.
Windowed(since, until) == {r \in DOMAIN stored : stored[r].created >= since /\ stored[r].created < until}

\* A suite, or everything, within a window, newest first, ties in any order.
ResolveRunIds(suite, since, until) ==
    {ids \in SetToSeqs({r \in Windowed(since, until) : suite \in {Unreported, stored[r].subject.suite}}) :
        \A i, j \in DOMAIN ids : i < j => stored[ids[i]].created >= stored[ids[j]].created}

BeginExport(suite, since, until) ==
    /\ export.phase = "idle"
    /\ since < until
    /\ \E ids \in ResolveRunIds(suite, since, until) :
           export' = [export EXCEPT !.phase = IF ids = <<>> \/ Len(ids) > MaxRuns THEN "refused" ELSE "head",
                                    !.runs = ids]
    /\ UNCHANGED <<stored, values, clock, rewrites, page, dash>>

\* The second transaction: its first read fixes what the rest of them see.
OpenSnapshot ==
    /\ export.phase = "head"
    /\ export' = [export EXCEPT !.phase = "writing", !.snapshot = values, !.held = DOMAIN stored]
    /\ UNCHANGED <<stored, values, clock, rewrites, page, dash>>

Bundle(run) == [run |-> run, metrics |-> {v \in export.snapshot : v.run = run}]

\* A run that is gone stops the document where it stands.
WriteRunBug ==
    /\ export.phase = "writing"
    /\ Len(export.written) < Len(export.runs)
    /\ LET run == export.runs[Len(export.written) + 1]
       IN export' = [export EXCEPT !.written = Append(@, [run |-> run, metrics |-> {v \in values : v.run = run}])]
    /\ UNCHANGED <<stored, values, clock, rewrites, page, dash>>

WriteRun ==
    /\ export.phase = "writing"
    /\ Len(export.written) < Len(export.runs)
    /\ LET run == export.runs[Len(export.written) + 1]
       IN export' = IF run \in export.held
                    THEN [export EXCEPT !.written = Append(@, Bundle(run))]
                    ELSE [export EXCEPT !.phase = "torn"]
    /\ UNCHANGED <<stored, values, clock, rewrites, page, dash>>

WriteTail ==
    /\ export.phase = "writing"
    /\ Len(export.written) = Len(export.runs)
    /\ export' = [export EXCEPT !.phase = "done"]
    /\ UNCHANGED <<stored, values, clock, rewrites, page, dash>>

-----------------------------------------------------------------------------
\* The dashboard: one page of rows, of which those of the newest run of every
\* model and suite keep their places, and then the matrix of those runs' tests.
\* A row is joined with the model and the suite of its run.
Joined(v) ==
    [id |-> v.id, run |-> v.run, key |-> v.key, test |-> v.test, value |-> v.value,
     model |-> stored[v.run].subject.identity, suite |-> stored[v.run].subject.suite]
Pair(run) == <<stored[run].subject.identity, stored[run].subject.suite>>
Newer(a, b) ==
    \/ stored[a].created > stored[b].created
    \/ stored[a].created = stored[b].created /\ a > b
Newest(runs) == {r \in runs : \A s \in runs \ {r} : Pair(r) = Pair(s) => Newer(r, s)}

LatestRows(limit) ==
    LET read == QueryResults(NoCursor, limit).rows
        keep == Newest({v.run : v \in ToSet(read)})
    IN [i \in {j \in DOMAIN read : read[j].run \in keep} |-> Joined(read[i])]

LatestCompletedRun(pair) ==
    Newest({r \in DOMAIN stored : stored[r].status = "completed" /\ Pair(r) = pair})

\* The rows that the latest completed runs hold.
RowsOfLatest ==
    {v.id : v \in {w \in values : \E r \in DOMAIN stored : w.run \in LatestCompletedRun(Pair(r))}}

ReadRows ==
    /\ dash.phase = "idle"
    /\ dash' = [dash EXCEPT !.phase = "rows", !.rows = LatestRows(MaxLimit), !.full = RowsOfLatest,
                            !.cut = QueryResults(NoCursor, MaxLimit).more]
    /\ UNCHANGED <<stored, values, clock, rewrites, page, export>>

\* The tests of the runs that the rows came from, the newer run's over the older's.
TestsMatrix(rows) ==
    LET runs == {v.run : v \in Range(rows)} \cap DOMAIN stored
        RunsOf(c) == {r \in runs : stored[r].subject.identity = c[1] /\ c[2] \in SuiteTests[stored[r].subject.suite]}
        cells == {c \in {stored[r].subject.identity : r \in runs} \X UNION Range(SuiteTests) : RunsOf(c) # {}}
    IN [c \in cells |-> CHOOSE r \in RunsOf(c) : \A s \in RunsOf(c) \ {r} : Newer(r, s)]

\* What the bar at the top counts, in the same transaction.
SummaryCards ==
    LET completed == {r \in DOMAIN stored : stored[r].status = "completed"}
    IN [runs |-> Cardinality(completed),
        models |-> Cardinality({stored[r].subject.identity : r \in completed}),
        suites |-> Cardinality({stored[r].subject.suite : r \in completed}),
        machines |-> Cardinality({stored[r].subject.machine : r \in completed}),
        unsupported |-> Cardinality({v \in values : v.run \in completed /\ v.value = Unavailable})]

\* The headline cell of each model and suite: its first run-level row, or its last test's.
Heatmap(rows) ==
    LET Of(cell) == {i \in DOMAIN rows : rows[i].key = Headline /\ <<rows[i].model, rows[i].suite>> = cell}
        Level(cell) == {i \in Of(cell) : rows[i].test = RunLevel}
        cells == {<<v.model, v.suite>> : v \in {w \in Range(rows) : w.key = Headline}}
    IN [cell \in cells |-> rows[IF Level(cell) # {} THEN Min(Level(cell)) ELSE Max(Of(cell))]]

\* The first row of a model's best quality metric against the last of another.
Scatter(rows, against) ==
    LET Of(model, key) ==
            {i \in DOMAIN rows : rows[i].model = model /\ rows[i].key = key /\ rows[i].value # Unavailable}
        shown == {m \in {v.model : v \in Range(rows)} : Of(m, Headline) # {} /\ Of(m, against) # {}}
    IN {[model |-> m, quality |-> rows[Min(Of(m, Headline))], other |-> rows[Max(Of(m, against))]] : m \in shown}

\* The places of a panel's rows, in the panel's order of metrics.
Panel(rows, keys) == [k \in DOMAIN keys |-> {i \in DOMAIN rows : rows[i].key = keys[k]}]

\* The second transaction, and the figures folded from the rows of the first.
BuildDashboard ==
    /\ dash.phase = "rows"
    /\ dash' = [dash EXCEPT !.phase = "done", !.matrix = TestsMatrix(dash.rows), !.cards = SummaryCards,
                            !.heatmap = Heatmap(dash.rows), !.panel = Panel(dash.rows, MetricKeys),
                            !.scatter = Scatter(dash.rows, VramMetric)]
    /\ UNCHANGED <<stored, values, clock, rewrites, page, export>>

-----------------------------------------------------------------------------
\* A run as the subject of a comparison: its run-level rows, the last of a key.
Load(run) ==
    LET rows == {v \in values : v.run = run /\ v.test = RunLevel}
        LastOf(key) == CHOOSE v \in rows : v.key = key /\ \A w \in rows : w.key = key => ~IdAfter(w.id, v.id)
        facts == [id |-> run, metrics |-> [key \in {v.key : v \in rows} |-> LastOf(key).value]]
        subject == stored[run].subject
    IN [field \in DOMAIN subject \cup DOMAIN facts |-> IF field \in DOMAIN facts THEN facts[field] ELSE subject[field]]

\* A reference is a run, or a model whose latest completed run of a suite it names.
ResolveSubjectRuns(reference, suite) ==
    IF reference \in DOMAIN stored THEN {reference} ELSE LatestCompletedRun(<<reference, suite>>)

ResultsNext ==
    \/ \E run \in RunIds, subject \in Subjects, later \in {0, 1} : CreateRun(run, subject, later)
    \/ \E run \in RunIds, rows \in MetricRows : Aggregate(run, rows)
    \/ \E run \in RunIds : DeleteRun(run)
    \/ OpenPage
    \/ NextPage
    \/ \E suite \in {Unreported} \cup DOMAIN SuiteTests, since \in {0, 2}, until \in {2, MaxTime + 1} :
            BeginExport(suite, since, until)
    \/ OpenSnapshot
    \/ WriteRun
    \/ WriteTail
    \/ ReadRows
    \/ BuildDashboard

ResultsSpec == ResultsInit /\ [][ResultsNext]_resultVars

-----------------------------------------------------------------------------
\* A client that pages through the metrics while runs are written is shown no
\* row twice, and every row that was there from its first page to its last.
PagesAreExact ==
    /\ \A i, j \in DOMAIN page.shown : page.shown[i] = page.shown[j] => i = j
    /\ page.phase = "done" => page.throughout \subseteq ToSet(page.shown)

\* An export that is closed holds every run it resolved, once, in order, with
\* the metrics of one instant; and consecutive windows share no run and drop none.
ExportsAreWhole ==
    /\ export.phase = "done" =>
           export.written = [i \in DOMAIN export.runs |-> Bundle(export.runs[i])]
    /\ \A t \in 1..MaxTime + 1 :
           /\ Windowed(0, t) \cup Windowed(t, MaxTime + 1) = DOMAIN stored
           /\ Windowed(0, t) \cap Windowed(t, MaxTime + 1) = {}
=============================================================================
