----------------------------- MODULE MCReading ------------------------------
(***************************************************************************)
(* Readers against writers, for TLC: one reader moves per behaviour, and   *)
(* the stored runs are compared with each other in every state.            *)
(***************************************************************************)
EXTENDS Results

VARIABLE reader

\* Subjects of the instance: weights by their digest, others of the same name, that name
\* alone, and the first on another machine.
Plain == [identity |-> 11, name |-> "m", nameOnly |-> FALSE, profile |-> 1, machine |-> 1, suite |-> "kv",
          version |-> 1, datasets |-> 1, family |-> "f", quantization |-> "q8", context |-> 1]
Pulled == [Plain EXCEPT !.identity = 13, !.quantization = "q4"]
MCSubjects == {Plain, Pulled, [Plain EXCEPT !.identity = 12, !.nameOnly = TRUE],
               [Plain EXCEPT !.machine = 2, !.context = 2]}
MCMetricRows == {{[key |-> "headline", test |-> "run", value |-> 2],
                  [key |-> "model_vram_bytes", test |-> "run", value |-> 1]},
                 {[key |-> "headline", test |-> "t1", value |-> 1]},
                 {[key |-> "headline", test |-> "run", value |-> 1],
                  [key |-> "peak_vram_bytes", test |-> "run", value |-> 1]}}
\* Of the instance's keys METRIC_KINDS lists one.
MCMetricKinds == [peak_vram_bytes |-> "memory"]
MCSuiteTests == [kv |-> {"t1"}]
MCMetricKeys == <<"headline", "model_vram_bytes", "peak_vram_bytes">>

\* A reader, or a comparison in every state; a reader stops the instance when it
\* ends, and no run is deleted before it starts: that is a run never made.
MCInit == ResultsInit /\ reader \in {"page", "export", "dash", "compare"}

ReaderEnded == "done" \in {page.phase, export.phase, dash.phase} \/ export.phase \in {"refused", "torn"}
Started == "idle" # page.phase \/ "idle" # export.phase \/ "idle" # dash.phase
\* What a reader tells apart: paging and exporting, the order of runs; the
\* dashboard, their models too; a comparison, everything but their order.
InScope(run) ==
    /\ reader \in {"page", "export"} => stored'[run].subject = Plain
    /\ reader = "dash" => stored'[run].subject.machine = Plain.machine /\ stored'[run].subject # Pulled
    /\ reader = "compare" => stored'[run].created = 1 /\ 1..run \subseteq DOMAIN stored'

MCNext ==
    /\ ~ReaderEnded
    /\ ResultsNext
    /\ UNCHANGED reader
    /\ page'.phase # "idle" => reader = "page"
    /\ export'.phase # "idle" => reader = "export"
    /\ dash'.phase # "idle" => reader = "dash"
    /\ ~Started => DOMAIN stored \subseteq DOMAIN stored'
    /\ \A run \in DOMAIN stored' : InScope(run)
    /\ IF reader = "compare" THEN values \subseteq values' ELSE \A v \in values' : v.key # "peak_vram_bytes"
    /\ reader # "page" => rewrites' <= 2
    /\ reader = "export" => DOMAIN stored' \subseteq 1..2

MCSpec == MCInit /\ [][MCNext]_<<reader, resultVars>>

-----------------------------------------------------------------------------
\* When one page holds every row a dashboard has all the rows of the latest completed
\* runs of every model and suite.
Complete(rows) == {v.id : v \in Range(rows)} = dash.full
DashboardIsComplete == dash.phase = "rows" /\ ~dash.cut => Complete(dash.rows)

\* The same without the condition: the code says it of every dashboard.
DashboardIsLatest == dash.phase = "rows" => Complete(dash.rows)

\* Of every comparison of stored runs: each row's groups, the first of which opens with
\* the first run, hold every run once, any two of a group may be merged, not only those next
\* to each other, a best run is named only where all may, and every two that some row keeps
\* apart are listed among the separations.
Named == DOMAIN stored \cup {s.identity : s \in Subjects}
Resolved(names) == [i \in DOMAIN names |-> ResolveSubjectRuns(names[i], "kv")]
References ==
    {[i \in DOMAIN names |-> CHOOSE run \in Resolved(names)[i] : TRUE] :
        names \in {n \in [1..2 -> Named] \cup [1..3 -> DOMAIN stored] : \A i \in DOMAIN n : Resolved(n)[i] # {}}}
Places(groups) == UNION {{<<g, k>> : k \in DOMAIN groups[g].members} : g \in DOMAIN groups}
Member(groups, place) == groups[place[1]].members[place[2]]
SoundRow(subjects, row) ==
    LET kind == MetricKindFor(row.key)
        places == Places(row.groups)
    IN /\ {Member(row.groups, p) : p \in places} = ToSet(subjects)
       /\ \A p, q \in places : Member(row.groups, p) = Member(row.groups, q) => p = q
       /\ row.groups[1].members[1] = subjects[1]
       /\ \A i \in DOMAIN row.groups : \A s, t \in ToSet(row.groups[i].members) :
              s # t => MayMerge(VerdictForPair(s, t, kind))
       /\ BestRunId(subjects, row) # NoRun =>
              \A p \in Pairs(subjects) : MayMerge(VerdictForPair(subjects[p[1]], subjects[p[2]], kind))
       /\ \A p \in Pairs(subjects) :
              ~MayMerge(VerdictForPair(subjects[p[1]], subjects[p[2]], kind)) =>
                  \E v \in Separations(subjects) : v.left = subjects[p[1]].id /\ v.right = subjects[p[2]].id
ComparisonsAreSound ==
    reader = "compare" => \A refs \in {r \in References : IsInjective(r)} :
        LET subjects == [i \in DOMAIN refs |-> Load(refs[i])]
        IN \A row \in CompareRuns(subjects).rows : SoundRow(subjects, row)

\* What a page shows of several runs is what is stored of them: a dashboard that is not cut
\* misses no row of a latest completed run, and a comparison merges no two runs that the matrix
\* keeps apart for the kind that METRIC_KINDS gives the metric (build_dashboard, compare_runs,
\* group_subjects).
ScreensAreSound == DashboardIsComplete /\ ComparisonsAreSound

\* Not so: that what measures memory is merged on one machine only (MEMORY_METRIC_PREFIXES:
\* "Never comparable across machines").  A key that the table does not list is quality.
MemoryMetrics == {"model_vram_bytes", "peak_vram_bytes"}
MemoryStaysOnItsMachine ==
    reader = "compare" => \A refs \in {r \in References : IsInjective(r)} :
        LET subjects == [i \in DOMAIN refs |-> Load(refs[i])]
        IN \A row \in CompareRuns(subjects).rows : row.key \in MemoryMetrics =>
              \A i \in DOMAIN row.groups : \A s, t \in ToSet(row.groups[i].members) : s.machine = t.machine
=============================================================================
