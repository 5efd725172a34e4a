----------------------------- MODULE Telemetry ------------------------------
(***************************************************************************)
(* The machine while a run is measured (services/telemetry_recording.py    *)
(* and the phases of services/runs.py around it): the wait for it to go    *)
(* idle, the thread that records it, what is read back of the recording,   *)
(* and the figures a run keeps of it.  The sampler's thread and its join   *)
(* with a timeout are SweatMeter's.                                        *)
(*                                                                         *)
(* One reading, a small number or Unsupported, stands for all the columns  *)
(* of a device; a device that reads 1 or more is busy.                     *)
(***************************************************************************)
EXTENDS Integers, Sequences, FiniteSets, SequencesExt

CONSTANTS
    Configs,      \* [collector, check, refuse, persist, multiGpu] of a run
    Waited,       \* what may be observed while waiting, and
    Recorded,     \* while recording: [cpu, gpus]
    Devices,      \* indices of devices that may be visible
    Target,       \* the run's gpu_index
    Required,     \* idle_required_samples
    MaxPolls,     \* observations of a wait before it must have timed out
    HostLimit,    \* rows list_for_run reads: 5000
    GpuLimit,     \* rows list_gpu_for_run reads: 20000
    MaxObserved,  \* observations taken while recording
    MaxAttempts   \* processes that execute the run

Unsupported == -1
Readings == {Unsupported, 0, 1, 2}
Snapshots == [cpu : {Unsupported, 0, 1}, gpus : UNION {[visible -> Readings] : visible \in SUBSET Devices}]

ASSUME TelemetryAssumption ==
    /\ Devices \subseteq Nat /\ IsFiniteSet(Devices) /\ Target \in Devices
    /\ Configs \subseteq [collector : BOOLEAN, check : BOOLEAN, refuse : BOOLEAN, persist : BOOLEAN, multiGpu : BOOLEAN]
    /\ Waited \cup Recorded \subseteq Snapshots
    /\ {Required, MaxPolls, HostLimit, GpuLimit, MaxObserved, MaxAttempts} \subseteq Nat \ {0}

VARIABLES
    config,        \* what the run was created with
    phase,         \* where execute_run is
    leaving,       \* what follows the measurement's finally
    idle,          \* the locals of wait_for_idle, and what it saw
    degradations,  \* runs.degradations_json
    worker, stopped, held,  \* the sampler's thread, its stop event, the snapshot it writes
    hosts,         \* telemetry_samples: their times, in the order of their ids
    gpus,          \* telemetry_gpu_samples: set of [host, time, gpu, reading]
    figures,       \* metric rows derived and not yet written
    metrics,       \* the run's metric_values of the machine
    attempts,      \* processes so far
    clock,         \* now
    truth,         \* every observation taken while recording, in order
    endRows        \* observations there were when the run ended

runVars == <<config, phase, leaving, idle, degradations, figures, metrics, attempts, endRows>>
recorderVars == <<worker, stopped, held, hosts, gpus, clock, truth>>
telemetryVars == <<runVars, recorderVars>>

Terminal == {"completed", "failed", "cancelled"}
NothingHeld == [time |-> 0, gpus |-> [d \in {} |-> 0]]
NotWaiting == [consecutive |-> 0, best |-> 0, worst |-> Unsupported, seen |-> <<>>]
NoFigures == [peak |-> Unsupported, samples |-> 0, residency |-> FALSE]

TelemetryInit ==
    /\ config \in Configs
    /\ phase = "queued" /\ leaving = "aggregate" /\ idle = NotWaiting /\ degradations = <<>>
    /\ worker = "off" /\ stopped = FALSE /\ held = NothingHeld
    /\ hosts = <<>> /\ gpus = {} /\ clock = 1 /\ truth = <<>>
    /\ figures = NoFigures /\ metrics = NoFigures
    /\ attempts = 0 /\ endRows = 0

-----------------------------------------------------------------------------
\* The wait for an idle machine.
BusiestGpuPercent(snapshot) == Max({Unsupported} \cup {snapshot.gpus[d] : d \in DOMAIN snapshot.gpus})
Busy(snapshot) == BusiestGpuPercent(snapshot) >= 1 \/ snapshot.cpu >= 1

ObserveBug(waited, snapshot) ==
    LET consecutive == IF Busy(snapshot) THEN waited.consecutive ELSE waited.consecutive + 1
        gpu == BusiestGpuPercent(snapshot)
    IN  [consecutive |-> consecutive, best |-> IF consecutive > waited.best THEN consecutive ELSE waited.best,
         worst |-> IF gpu > waited.worst THEN gpu ELSE waited.worst, seen |-> Append(waited.seen, Busy(snapshot))]

Observe(waited, snapshot) ==
    LET consecutive == IF Busy(snapshot) THEN 0 ELSE waited.consecutive + 1
        gpu == BusiestGpuPercent(snapshot)
    IN  [consecutive |-> consecutive, best |-> IF consecutive > waited.best THEN consecutive ELSE waited.best,
         worst |-> IF gpu > waited.worst THEN gpu ELSE waited.worst, seen |-> Append(waited.seen, Busy(snapshot))]

Claim ==
    /\ phase = "queued" /\ attempts < MaxAttempts
    /\ phase' = "settle" /\ attempts' = attempts + 1 /\ idle' = NotWaiting
    /\ UNCHANGED <<config, leaving, degradations, figures, metrics, endRows, recorderVars>>

\* Nothing to observe with, or a threshold of 0.
SkipTheWait ==
    /\ phase = "settle" /\ (~config.collector \/ ~config.check)
    /\ phase' = "measure"
    /\ UNCHANGED <<config, leaving, idle, degradations, figures, metrics, attempts, endRows, recorderVars>>

WaitForIdle ==
    /\ phase = "settle" /\ config.collector /\ config.check
    /\ \E snapshot \in Waited, timedOut \in BOOLEAN :
          LET waited == Observe(idle, snapshot)
              settled == waited.consecutive >= Required
          IN  /\ timedOut \/ settled \/ Len(waited.seen) < MaxPolls
              /\ idle' = waited
              /\ phase' = IF settled THEN "measure"
                          ELSE IF ~timedOut THEN "settle"
                          ELSE IF config.refuse THEN "failed" ELSE "measure"
              /\ degradations' = IF ~settled /\ timedOut /\ ~config.refuse
                                 THEN Append(degradations, [attempt |-> attempts, best |-> waited.best,
                                                            worst |-> waited.worst])
                                 ELSE degradations
    /\ endRows' = Len(hosts)
    /\ UNCHANGED <<config, leaving, figures, metrics, attempts, recorderVars>>

-----------------------------------------------------------------------------
\* The recorder.
StartRecorder ==
    /\ phase = "measure" /\ config.persist /\ config.collector
    /\ phase' = "recorded" /\ worker' = "waiting" /\ stopped' = FALSE
    /\ UNCHANGED <<config, leaving, idle, degradations, figures, metrics, attempts, endRows,
                   held, hosts, gpus, clock, truth>>
NoRecorder ==
    /\ phase = "measure" /\ ~(config.persist /\ config.collector)
    /\ phase' = "recorded"
    /\ UNCHANGED <<config, leaving, idle, degradations, figures, metrics, attempts, endRows, recorderVars>>

Sample ==
    /\ worker = "waiting" /\ Len(truth) < MaxObserved
    /\ \E snapshot \in Recorded, time \in {clock, clock + 1} :
          /\ clock' = time
          /\ held' = [time |-> time, gpus |-> snapshot.gpus]
          /\ truth' = Append(truth, held')
    /\ worker' = "holding"
    /\ UNCHANGED <<runVars, stopped, hosts, gpus>>

\* A failed write is dropped; the thread goes on unless it was told to stop.
Record ==
    /\ worker = "holding" /\ worker' = IF stopped THEN "off" ELSE "waiting"
    /\ \/ /\ hosts' = Append(hosts, held.time)
          /\ gpus' = gpus \cup {[host |-> Len(hosts) + 1, time |-> held.time, gpu |-> d, reading |-> held.gpus[d]] :
                                   d \in DOMAIN held.gpus}
       \/ UNCHANGED <<hosts, gpus>>
    /\ held' = NothingHeld
    /\ UNCHANGED <<runVars, stopped, clock, truth>>

\* The tests are done, one of them raised, or a cancellation was seen.
LeaveMeasurement ==
    /\ phase = "recorded" /\ phase' = "stopping"
    /\ leaving' \in {"aggregate", "failed", "cancelled"}
    /\ UNCHANGED <<config, idle, degradations, figures, metrics, attempts, endRows, recorderVars>>

StopRecorderBug ==
    /\ phase = "stopping"
    /\ phase' = leaving /\ endRows' = Len(hosts)
    /\ stopped' = (leaving = "aggregate")
    /\ worker' = IF leaving = "aggregate" /\ worker = "waiting" THEN "off" ELSE worker
    /\ UNCHANGED <<config, leaving, idle, degradations, figures, metrics, attempts, held, hosts, gpus, clock, truth>>

\* The thread is told, and waited for; one that is still writing when the wait
\* times out is left behind.
StopRecorder ==
    /\ phase = "stopping"
    /\ phase' = leaving /\ endRows' = Len(hosts)
    /\ stopped' = TRUE
    /\ worker' = IF worker = "waiting" THEN "off" ELSE worker
    /\ UNCHANGED <<config, leaving, idle, degradations, figures, metrics, attempts, held, hosts, gpus, clock, truth>>

-----------------------------------------------------------------------------
\* What is read back: the oldest rows, the devices' of one instant and device in
\* the order of their host rows; and a series, indexed by the host row.
ListForRun == SubSeq(hosts, 1, IF Len(hosts) < HostLimit THEN Len(hosts) ELSE HostLimit)
GpuBefore(a, b) ==
    \/ a.time < b.time
    \/ a.time = b.time /\ (a.gpu < b.gpu \/ (a.gpu = b.gpu /\ a.host < b.host))
ListGpuForRun == {row \in gpus : Cardinality({other \in gpus : GpuBefore(other, row)}) < GpuLimit}

LoadSeriesBug ==
    LET of(d) == SetToSortSeq({row \in ListGpuForRun : row.gpu = d}, GpuBefore)
    IN  [d \in {row.gpu : row \in ListGpuForRun} |->
            [position \in DOMAIN ListForRun |->
                IF position <= Len(of(d)) THEN of(d)[position].reading ELSE Unsupported]]

LoadSeries ==
    LET there(d, position) == {row \in ListGpuForRun : row.gpu = d /\ row.host = position}
    IN  [d \in {row.gpu : row \in ListGpuForRun} |->
            [position \in DOMAIN ListForRun |->
                IF there(d, position) = {} THEN Unsupported
                ELSE (CHOOSE row \in there(d, position) : TRUE).reading]]

\* A window is the snapshots again, and its figures are SweatMeter's.
LoadWindow == [i \in DOMAIN ListForRun |-> {row \in ListGpuForRun : row.host = i}]
PeakOf(window) ==
    Max({Unsupported}
          \cup {row.reading : row \in {r \in UNION {window[i] : i \in DOMAIN window} : r.gpu = Target}})

SummarizeGpuTelemetry ==
    [peak |-> IF config.multiGpu THEN Unsupported ELSE PeakOf(LoadWindow), samples |-> Len(LoadWindow)]

\* No row of a run that recorded nothing; the provider's report of what the model
\* occupies is known only to the process that measured.
TelemetryRows(observed) ==
    IF LoadWindow = <<>> THEN [NoFigures EXCEPT !.residency = observed]
    ELSE [peak |-> SummarizeGpuTelemetry.peak, samples |-> SummarizeGpuTelemetry.samples, residency |-> observed]

AggregateRun ==
    /\ phase = "aggregate"
    /\ \E observed \in BOOLEAN : figures' = TelemetryRows(observed)
    /\ phase' = "finish"
    /\ UNCHANGED <<config, leaving, idle, degradations, metrics, attempts, endRows, recorderVars>>
Finish ==
    /\ phase = "finish" /\ phase' = "completed" /\ metrics' = figures /\ endRows' = Len(hosts)
    /\ UNCHANGED <<config, leaving, idle, degradations, figures, attempts, recorderVars>>

\* After a human grade (its two transactions as one).
ReaggregateRun ==
    /\ phase = "completed" /\ metrics' = TelemetryRows(FALSE)
    /\ UNCHANGED <<config, phase, leaving, idle, degradations, figures, attempts, endRows, recorderVars>>

\* The process dies with its thread; the run is queued again.
ProcessDies ==
    /\ phase \in {"settle", "measure", "recorded", "stopping", "aggregate", "finish"}
    /\ phase' = "queued" /\ worker' = "off" /\ stopped' = FALSE /\ held' = NothingHeld
    /\ UNCHANGED <<config, leaving, idle, degradations, figures, metrics, attempts, endRows, hosts, gpus, clock, truth>>

TelemetryNext ==
    \/ Claim \/ SkipTheWait \/ WaitForIdle
    \/ StartRecorder \/ NoRecorder \/ Sample \/ Record \/ LeaveMeasurement \/ StopRecorder
    \/ AggregateRun \/ Finish \/ ReaggregateRun \/ ProcessDies
TelemetrySpec == TelemetryInit /\ [][TelemetryNext]_telemetryVars

-----------------------------------------------------------------------------
\* A run that measures with the check on was quiet for the required observations,
\* the last ones of the wait, or says that it measured a busy machine; and one
\* that was refused never had been that quiet (wait_for_idle, _settle).
MeasuredMachineWasQuiet ==
    LET quiet(n) == n >= Required /\ \A i \in (n - Required + 1)..n : ~idle.seen[i]
        checked == config.collector /\ config.check /\ idle.seen # <<>>
    IN  checked =>
          /\ phase \notin {"queued", "settle"} /\ ~quiet(Len(idle.seen)) =>
                \/ phase = "failed" /\ config.refuse
                \/ \E i \in DOMAIN degradations :
                      /\ degradations[i].attempt = attempts
                      /\ degradations[i].worst = idle.worst
          /\ \A n \in 1..(Len(idle.seen) - 1) : ~quiet(n)
          /\ phase \notin {"queued", "settle"} /\ config.refuse /\ quiet(Len(idle.seen)) => degradations = <<>>

\* Once a run has ended, however it ended, at most the one observation its thread
\* was writing is added, and it was taken before the end; nothing is recorded of a
\* run that nobody executes (TelemetryRecorder.stop, execute_run).
RecordingEndsWithTheRun ==
    phase \in Terminal \cup {"queued", "settle"} =>
        /\ worker # "waiting"
        /\ phase \in Terminal => Len(hosts) <= endRows + 1
        /\ phase \in {"queued", "settle"} => worker = "off"

\* Whatever devices come and go, are unreadable, share an instant or are cut off by
\* the limits, a series says of a device at an instant only what was read of it
\* then, and says all that was read while the limits are not reached; a run's peak
\* was read of its own device (load_series, load_window, summarize_gpu_telemetry).
FiguresAreOfTheirDevice ==
    LET series == LoadSeries
        readings(d, t) == {truth[i].gpus[d] : i \in {j \in DOMAIN truth : truth[j].time = t /\ d \in DOMAIN truth[j].gpus}}
    IN  /\ \A d \in DOMAIN series : \A i \in DOMAIN series[d] :
              series[d][i] # Unsupported => series[d][i] \in readings(d, hosts[i])
        /\ Len(hosts) <= HostLimit /\ Cardinality(gpus) <= GpuLimit =>
              \A row \in gpus : series[row.gpu][row.host] = row.reading
        /\ metrics.peak # Unsupported =>
              /\ ~config.multiGpu
              /\ \E t \in 1..clock : metrics.peak \in readings(Target, t)
        /\ metrics.samples <= Len(hosts)
=============================================================================
