----------------------------- MODULE RunEvents -----------------------------
(***************************************************************************)
(* The event log of one run and the browser tab that follows it: how an    *)
(* event gets its sequence number (services/events.py), in which order the *)
(* executor, the request handlers and recovery write a status and announce *)
(* it, and what the tab's two server-sent streams, the page's script and   *)
(* its log pane, receive across reconnections, reloads and restarts        *)
(* (web/routes/runs.py, web/static/js/runs.js).                            *)
(*                                                                         *)
(* A status is committed in one transaction and its event published in     *)
(* another: between the two the publisher owes the event.  What the        *)
(* executor does inside a run is abstracted to its events; RunEngine has   *)
(* the rest.                                                               *)
(***************************************************************************)
EXTENDS RunState, Naturals, Sequences

CONSTANTS
    Handlers,    \* request threads that cancel and resume
    Executor,    \* the scheduler's thread
    Serialised,  \* write transactions exclude each other (SQLite does, not PostgreSQL)
    MaxTries,    \* MAX_SEQUENCE_RETRIES
    MaxNotes,    \* progress events the executor publishes
    MaxResumes,  \* resumes of the run
    MaxFaults,   \* machinery exceptions in the executor
    MaxCrashes,  \* deaths of the server process
    MaxLoads,    \* page loads the user asks for
    MaxDrops     \* connections lost

ASSUME EventsAssumption ==
    /\ Executor \notin Handlers
    /\ Serialised \in BOOLEAN
    /\ MaxTries \in Nat \ {0}

VARIABLES
    \* The database.
    status,      \* runs.status
    events,      \* run_events of the run, as [seq, type]
    \* Publishers.
    owed,        \* the event a publisher is inside publish() with, or "none"
    seq,         \* the sequence it computed and has not inserted, 0 for none
    tries,       \* collisions of this publish()
    pc,          \* the executor
    \* The tab.  Each stream is an EventSource of its own.
    link,        \* its connection
    after,       \* the highest sequence it has, its Last-Event-ID
    start,       \* where this page load began to read
    drained,     \* close_when_drained of the open connection
    got,         \* the sequences received since the page was loaded
    \* Bounds.
    notes, resumes, faults, crashes, loads, drops

publishing == <<owed, seq, tries>>
tab        == <<link, after, start, drained, got>>
bounds     == <<notes, resumes, faults, crashes, loads, drops>>
vars       == <<status, events, publishing, pc, tab, bounds>>

Publishers == Handlers \cup {Executor}
Streams    == {"script", "pane"}

\* Test and sample events differ from run.progress in nothing this module reads.
EventType == {"run.started", "run.progress", "run.completed", "run.failed",
              "run.cancelled", "run.interrupted"}

\* _TERMINAL_EVENT_TYPES
TerminalEvent == {"run.completed", "run.failed", "run.cancelled", "run.interrupted"}

\* RunSummary.is_terminal: the four states a stream need not wait in.
IsTerminal(s) == s \in TerminalRun \cup {"interrupted"}

EventOf == [completed |-> "run.completed", failed |-> "run.failed",
            cancelled |-> "run.cancelled", interrupted |-> "run.interrupted"]

Taken(n) == \E e \in events : e.seq = n

\* max(sequence) + 1, or 1 when the run has no event.
NextSequence(n) ==
    /\ n \in Nat \ {0}
    /\ \A e \in events : e.seq < n
    /\ n = 1 \/ Taken(n - 1)

\* The sequences a publisher can compute, as a set TLC can enumerate.
Candidates == {1} \cup {e.seq + 1 : e \in events}

TypeOK ==
    /\ status \in RunStatus
    /\ events \subseteq [seq : Nat \ {0}, type : EventType]
    /\ owed \in [Publishers -> EventType \cup {"none"}]
    /\ seq \in [Publishers -> Nat]
    /\ tries \in [Publishers -> Nat]
    /\ \A p \in Publishers : seq[p] # 0 => owed[p] # "none"
    /\ pc \in {"down", "recovering", "idle", "claimed", "working", "leaving"}
    /\ link \in [Streams -> {"away", "closed", "open", "reload", "settled",
                             "closing", "stopped"}]
    /\ after \in [Streams -> Nat]
    /\ start \in [Streams -> Nat]
    /\ drained \in [Streams -> BOOLEAN]
    /\ got \in [Streams -> Seq(Nat)]
    /\ notes \in Nat /\ resumes \in Nat /\ faults \in Nat
    /\ crashes \in Nat /\ loads \in Nat /\ drops \in Nat

Init ==
    /\ status = "queued"
    /\ events = {}
    /\ owed = [p \in Publishers |-> "none"]
    /\ seq = [p \in Publishers |-> 0]
    /\ tries = [p \in Publishers |-> 0]
    /\ pc = "idle"
    /\ link = [k \in Streams |-> "away"]
    /\ after = [k \in Streams |-> 0]
    /\ start = [k \in Streams |-> 0]
    /\ drained = [k \in Streams |-> FALSE]
    /\ got = [k \in Streams |-> <<>>]
    /\ notes = 0 /\ resumes = 0 /\ faults = 0
    /\ crashes = 0 /\ loads = 0 /\ drops = 0
-----------------------------------------------------------------------------
(* publish().                                                              *)

Owe(p, type) == owed' = [owed EXCEPT ![p] = type]

\* Faulty: the sequence computed for one event survives it.
SettleBug(p) ==
    /\ Owe(p, "none")
    /\ tries' = [tries EXCEPT ![p] = 0]
    /\ UNCHANGED seq

\* publish() has returned, or raised for the executor's last event.
Settle(p) ==
    /\ Owe(p, "none")
    /\ seq' = [seq EXCEPT ![p] = 0]
    /\ tries' = [tries EXCEPT ![p] = 0]

AfterPublish(p) == IF p = Executor /\ pc \in {"leaving", "recovering"} THEN "idle" ELSE pc

Store(p, n) ==
    /\ events' = events \cup {[seq |-> n, type |-> owed[p]]}
    /\ Settle(p)
    /\ pc' = AfterPublish(p)
    /\ UNCHANGED <<status, tab, bounds>>

\* Nothing comes between computing the sequence and inserting the event: always
\* so under SQLite's single writer.
PublishAtOnce(p) ==
    /\ owed[p] # "none" /\ seq[p] = 0 /\ tries[p] < MaxTries
    /\ \E n \in Candidates : NextSequence(n) /\ Store(p, n)

ComputeSequence(p) ==
    /\ ~Serialised
    /\ owed[p] # "none" /\ seq[p] = 0 /\ tries[p] < MaxTries
    /\ \E n \in Candidates : NextSequence(n) /\ seq' = [seq EXCEPT ![p] = n]
    /\ UNCHANGED <<status, events, owed, tries, pc, tab, bounds>>

\* Faulty: the table has no uniqueness constraint.
AppendEventBug(p) == seq[p] # 0 /\ Store(p, seq[p])

\* The insert, which UNIQUE (run_id, sequence) lets through at most once.
AppendEvent(p) == seq[p] # 0 /\ ~Taken(seq[p]) /\ Store(p, seq[p])

\* Faulty: a collision is taken for an event already stored.
CollideBug(p) ==
    /\ seq[p] # 0 /\ Taken(seq[p])
    /\ Settle(p)
    /\ pc' = AfterPublish(p)
    /\ UNCHANGED <<status, events, tab, bounds>>

\* IntegrityError: once more around the loop.
Collide(p) ==
    /\ seq[p] # 0 /\ Taken(seq[p])
    /\ seq' = [seq EXCEPT ![p] = 0]
    /\ tries' = [tries EXCEPT ![p] = @ + 1]
    /\ UNCHANGED <<status, events, owed, pc, tab, bounds>>
-----------------------------------------------------------------------------
(* Who writes a status and then owes its event.                            *)

Serving == pc \notin {"down", "recovering"}

\* Faulty: a run that has already ended is given a second ending.
FinishBug(target) ==
    /\ status' = target
    /\ Owe(Executor, EventOf[target])
    /\ pc' = "leaving"

\* _finish.  A run that has ended, or is where it is going, is left alone; an
\* illegal move raises out of execute_run and leaves the run as it is.  Nothing is
\* announced then, nor is the event whose publish() had failed the run.
Finish(target) ==
    \/ /\ status = target \/ status \in {"completed", "failed", "cancelled"}
       /\ pc' = "idle"
       /\ Owe(Executor, "none") /\ UNCHANGED status
    \/ /\ status # target
       /\ LegalRun(status, target) \/ (target = "cancelled" /\ status = "running")
       /\ status' = target
       /\ Owe(Executor, EventOf[target])
       /\ pc' = "leaving"
    \/ /\ status \in {"cancelling", "interrupted"} /\ target \in {"completed", "failed"}
       /\ ~LegalRun(status, target)
       /\ pc' = "idle"
       /\ Owe(Executor, "none") /\ UNCHANGED status

Free(p) == owed[p] = "none"

Claim ==
    /\ pc = "idle" /\ status = "queued"
    /\ status' = "preparing"
    /\ pc' = "claimed"
    /\ UNCHANGED <<events, publishing, tab, bounds>>

\* run.started goes out before the first cancellation check.
AnnounceStart ==
    /\ pc = "claimed"
    /\ Owe(Executor, "run.started")
    /\ pc' = "working"
    /\ UNCHANGED <<status, events, seq, tries, tab, bounds>>

Working == pc = "working" /\ Free(Executor)

Transition ==
    /\ Working
    /\ \/ status = "preparing" /\ status' = "warming"
       \/ status = "warming" /\ status' = "running"
    /\ UNCHANGED <<events, publishing, pc, tab, bounds>>

AnnounceProgress ==
    /\ Working
    /\ notes < MaxNotes
    /\ notes' = notes + 1
    /\ Owe(Executor, "run.progress")
    /\ UNCHANGED <<status, events, seq, tries, pc, tab, resumes, faults, crashes, loads, drops>>

\* Faulty: the stop is announced before it is written.
StopRunBug ==
    /\ Working
    /\ status \in {"cancelling", "cancelled"}
    /\ IF \E e \in events : e.type = "run.cancelled"
       THEN Finish("cancelled")
       ELSE Owe(Executor, "run.cancelled") /\ UNCHANGED <<status, pc>>
    /\ UNCHANGED <<events, seq, tries, tab, bounds>>

\* A check meets a requested stop.
StopRun ==
    /\ Working
    /\ status \in {"cancelling", "cancelled"}
    /\ Finish("cancelled")
    /\ UNCHANGED <<events, seq, tries, tab, bounds>>

\* Past the last check; a cancel may have arrived since.
CompleteRun ==
    /\ Working
    /\ status \in {"running", "cancelling"}
    /\ Finish("completed")
    /\ UNCHANGED <<events, seq, tries, tab, bounds>>

FailRun ==
    /\ Working
    /\ faults < MaxFaults
    /\ faults' = faults + 1
    /\ Finish("failed")
    /\ UNCHANGED <<events, seq, tries, tab, notes, resumes, crashes, loads, drops>>

\* RuntimeError out of publish(): a request fails after its commit, an executor
\* at work fails its run, a run already ended stays as it is, unannounced.
GiveUp(p) ==
    /\ tries[p] = MaxTries
    /\ seq' = [seq EXCEPT ![p] = 0]
    /\ tries' = [tries EXCEPT ![p] = 0]
    /\ \/ /\ p = Executor /\ pc = "working"
          /\ Finish("failed")
       \/ /\ p # Executor \/ pc # "working"
          /\ Owe(p, "none")
          /\ pc' = AfterPublish(p)
          /\ UNCHANGED status
    /\ UNCHANGED <<events, tab, bounds>>

\* cancel_run; a run already cancelling is answered without a write.
CancelRun(h) ==
    /\ Serving /\ Free(h)
    /\ status \in CancellableRun
    /\ status' = CancellationTarget(status)
    /\ Owe(h, IF status' = "cancelled" THEN "run.cancelled" ELSE "run.progress")
    /\ UNCHANGED <<events, seq, tries, pc, tab, bounds>>

ResumeRun(h) ==
    /\ Serving /\ Free(h)
    /\ status = "interrupted"
    /\ resumes < MaxResumes
    /\ resumes' = resumes + 1
    /\ status' = "queued"
    /\ Owe(h, "run.progress")
    /\ UNCHANGED <<events, seq, tries, pc, tab, notes, faults, crashes, loads, drops>>

\* The process dies: what it owed is never published, every connection closes.
Crash ==
    /\ pc # "down"
    /\ crashes < MaxCrashes
    /\ crashes' = crashes + 1
    /\ pc' = "down"
    /\ owed' = [p \in Publishers |-> "none"]
    /\ seq' = [p \in Publishers |-> 0]
    /\ tries' = [p \in Publishers |-> 0]
    /\ link' = [k \in Streams |-> IF link[k] \in {"open", "closing"} THEN "closed" ELSE link[k]]
    /\ UNCHANGED <<status, events, after, start, drained, got, notes, resumes, faults, loads, drops>>

\* recover: an orphan is interrupted and announced before the loop starts.
Recover ==
    /\ pc = "down"
    /\ \/ /\ status \in ActiveRun
          /\ status' = "interrupted"
          /\ Owe(Executor, "run.interrupted")
          /\ pc' = "recovering"
       \/ /\ status \notin ActiveRun
          /\ pc' = "idle"
          /\ UNCHANGED <<status, owed>>
    /\ UNCHANGED <<events, seq, tries, tab, bounds>>
-----------------------------------------------------------------------------
(* The tab.                                                                *)

LastSequence(n) == IF events = {} THEN n = 0 ELSE Taken(n) /\ \A e \in events : e.seq <= n

\* Faulty: the status is read before the events, and is stale.
RenderPageBug ==
    \E n \in {0} \cup {e.seq : e \in events} :
        /\ LastSequence(n)
        /\ link' = [k \in Streams |-> "closed"]
        /\ after' = [k \in Streams |-> IF k = "script" THEN n ELSE 0]
        /\ start' = [k \in Streams |-> IF k = "script" THEN n ELSE 0]
        /\ drained' = [k \in Streams |-> FALSE]
        /\ got' = [k \in Streams |-> <<>>]

\* The page is rendered from one snapshot of the run and its events; its log
\* pane is given no position and reads from the beginning.
RenderPage ==
    \E n \in {0} \cup {e.seq : e \in events} :
        /\ LastSequence(n)
        /\ link' = [link EXCEPT !["script"] = IF IsTerminal(status) THEN "settled" ELSE "closed",
                                !["pane"] = "closed"]
        /\ after' = [k \in Streams |-> IF k = "script" THEN n ELSE 0]
        /\ start' = [k \in Streams |-> IF k = "script" THEN n ELSE 0]
        /\ drained' = [k \in Streams |-> FALSE]
        /\ got' = [k \in Streams |-> <<>>]

LoadPage ==
    /\ Serving
    /\ loads < MaxLoads
    /\ loads' = loads + 1
    /\ RenderPage
    /\ UNCHANGED <<status, events, publishing, pc, notes, resumes, faults, crashes, drops>>

\* The script reloads the page when a terminal event arrives.
ReloadPage ==
    /\ Serving
    /\ link["script"] = "reload"
    /\ RenderPage
    /\ UNCHANGED <<status, events, publishing, pc, bounds>>

\* Faulty: the page's query parameter outranks the Last-Event-ID header.
OpenStreamBug(k) ==
    /\ Serving
    /\ link[k] = "closed"
    /\ link' = [link EXCEPT ![k] = "open"]
    /\ drained' = [drained EXCEPT ![k] = IsTerminal(status)]
    /\ after' = [after EXCEPT ![k] = start[k]]
    /\ UNCHANGED <<status, events, publishing, pc, start, got, bounds>>

\* The route looks the run up, then streams after Last-Event-ID.
OpenStream(k) ==
    /\ Serving
    /\ link[k] = "closed"
    /\ link' = [link EXCEPT ![k] = "open"]
    /\ drained' = [drained EXCEPT ![k] = IsTerminal(status)]
    /\ UNCHANGED <<status, events, publishing, pc, after, start, got, bounds>>

\* The next event after the position, whichever batch it was read with.
Following(k, e) == /\ e.seq > after[k]
                   /\ \A d \in events : d.seq > after[k] => e.seq <= d.seq

\* After a terminal event the script closes its stream and reloads; the pane
\* has yet to be told.
SendEvent(k) ==
    /\ link[k] = "open"
    /\ \E e \in events :
          /\ Following(k, e)
          /\ after' = [after EXCEPT ![k] = e.seq]
          /\ got' = [got EXCEPT ![k] = Append(@, e.seq)]
          /\ link' = [link EXCEPT ![k] = IF e.type \notin TerminalEvent THEN "open"
                                         ELSE IF k = "script" THEN "reload" ELSE "closing"]
    /\ UNCHANGED <<status, events, publishing, pc, start, drained, bounds>>

\* log.closed stops the pane for good.
SendClosed ==
    /\ link["pane"] = "closing"
    /\ link' = [link EXCEPT !["pane"] = "stopped"]
    /\ UNCHANGED <<status, events, publishing, pc, after, start, drained, got, bounds>>

\* An empty batch on a connection opened on a terminal run; the EventSource
\* takes the close for an interruption and comes back.
CloseDrained(k) ==
    /\ link[k] = "open" /\ drained[k]
    /\ \A e \in events : e.seq <= after[k]
    /\ link' = [link EXCEPT ![k] = "closed"]
    /\ UNCHANGED <<status, events, publishing, pc, after, start, drained, got, bounds>>

DropConnection(k) ==
    /\ link[k] \in {"open", "closing"}
    /\ drops < MaxDrops
    /\ drops' = drops + 1
    /\ link' = [link EXCEPT ![k] = "closed"]
    /\ UNCHANGED <<status, events, publishing, pc, after, start, drained, got,
                   notes, resumes, faults, crashes, loads>>
-----------------------------------------------------------------------------
Publish(p) == PublishAtOnce(p) \/ ComputeSequence(p) \/ AppendEvent(p) \/ Collide(p) \/ GiveUp(p)

Execute == Claim \/ AnnounceStart \/ Transition \/ StopRun \/ CompleteRun

Stream(k) == OpenStream(k) \/ SendEvent(k) \/ CloseDrained(k)

Next ==
    \/ \E p \in Publishers : Publish(p)
    \/ Execute \/ AnnounceProgress \/ FailRun
    \/ \E h \in Handlers : CancelRun(h) \/ ResumeRun(h)
    \/ Crash \/ Recover
    \/ LoadPage \/ ReloadPage
    \/ \E k \in Streams : Stream(k) \/ DropConnection(k)
    \/ SendClosed

Spec == Init /\ [][Next]_vars

\* Threads that have something to do are scheduled, a dead server is started
\* again, and a browser keeps its open connection served.  Nobody has to cancel,
\* resume or load a page.
FairSpec ==
    /\ Spec
    /\ \A p \in Publishers : WF_vars(Publish(p))
    /\ WF_vars(Execute) /\ WF_vars(Recover) /\ WF_vars(ReloadPage) /\ WF_vars(SendClosed)
    /\ \A k \in Streams : WF_vars(Stream(k))
-----------------------------------------------------------------------------
(* What every behaviour satisfies.                                         *)

\* The sequence numbers of a run are 1, 2, ... with no gap and none twice,
\* whoever publishes at the same time (RunEventRepository.next_sequence, publish).
GapFree ==
    /\ \A d, e \in events : d.seq = e.seq => d = e
    /\ \A e \in events : \A n \in 1..e.seq : Taken(n)

\* Since the page was loaded each stream has received exactly the events that
\* follow its starting position, each once and in order, through every lost
\* connection and restart (_event_stream, _resolve_last_event_id).
ExactReplay ==
    \A k \in Streams :
        /\ after[k] = start[k] + Len(got[k])
        /\ \A i \in DOMAIN got[k] : got[k][i] = start[k] + i

TrueOfRun(type) ==
    /\ type = "run.completed" => status = "completed"
    /\ type = "run.failed"    => status = "failed"
    /\ type = "run.cancelled" => status = "cancelled"

\* A final event is only ever read of a run the database already holds in that
\* state: persist, then publish (_finish, cancel_run).
AnnouncedIsTrue == \A e \in events : TrueOfRun(e.type)

\* However requests and the executor race, a run is announced ended once for
\* every time it was queued (_finish's tolerance of a run already ended).
OneEndingPerAttempt ==
    \A d, e \in events : d # e /\ d.type \in TerminalEvent /\ e.type \in TerminalEvent =>
        "run.interrupted" \in {d.type, e.type} /\ resumes > 0

\* Without a crash every run that ends is announced: three tries suffice against
\* one request thread, of the eight the code has (MAX_SEQUENCE_RETRIES).  With a
\* crash it is refuted: data-model.md has every transition emitted as an event.
EndIsAnnounced ==
    \A s \in {"completed", "failed", "cancelled"} :
        (status = s) ~> (\E e \in events : e.type = EventOf[s])

\* Without a crash a tab that is open when its run ends is reloaded on the final
\* page, whatever it had received by then.
TabLearnsTheEnd ==
    (link["script"] # "away" /\ status \in TerminalRun) ~> (link["script"] = "settled")
-----------------------------------------------------------------------------
(* What the documentation, the docstrings and the tests say, and the code   *)
(* does not do.                                                            *)

\* _finish: the terminal event is always emitted before the stream can close.
NoSilentClose ==
    [][\A k \in Streams :
          CloseDrained(k) => \E e \in events : e.type \in TerminalEvent /\ e.seq <= after[k]]_vars

\* test_run_execution.py: the last event of a cancelled run is run.cancelled.
CancelledIsLast ==
    \A d, e \in events : d.type = "run.cancelled" => e.seq <= d.seq

\* runs.py: refresh mid-run, no missing events.  Beside a live script, a pane that
\* has stopped shows at least what the page was rendered with.
PaneReachesTheRender ==
    link["pane"] = "stopped" /\ link["script"] = "open" =>
        after["pane"] >= start["script"]

\* run_log: log.closed after the terminal event, so the pane stops reconnecting.
PaneStops ==
    (link["pane"] # "away" /\ status \in TerminalRun) ~> (link["pane"] = "stopped")
=============================================================================
