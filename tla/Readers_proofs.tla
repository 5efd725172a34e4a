-------------------------- MODULE Readers_proofs ---------------------------
(***************************************************************************)
(* Proofs about those who read while others write.  Of RunEvents, for any  *)
(* number of request threads, whether or not the database serialises its   *)
(* writers: the numbering has no gap, every stream replays it exactly, and *)
(* a final event is never read of a run that is not in that state.  And of *)
(* Results, for any runs, rows and metrics: what is read page by page, or  *)
(* exported, is shown once and whole.                                      *)
(***************************************************************************)
EXTENDS RunEvents, MCReading, NaturalLemmas, SequenceTheorems, TLAPS

\* A computed sequence follows one that is taken, and stays so: events are
\* only ever added.
PendingFollows == \A p \in Publishers : seq[p] # 0 => seq[p] = 1 \/ Taken(seq[p] - 1)

\* What a publisher is about to announce is committed already.
OwedIsTrue == \A p \in Publishers : TrueOfRun(owed[p])

\* Streams, publishers, and the log, the last with what makes it inductive.
LogOK == GapFree /\ PendingFollows

TruthOK == AnnouncedIsTrue /\ OwedIsTrue

\* A successful insert, in either write discipline, is what Store says.
LEMMA StoreKeepsTypes ==
    ASSUME TypeOK, NEW p \in Publishers, NEW n \in Nat \ {0}, owed[p] # "none", Store(p, n)
    PROVE  TypeOK'
<1>1. owed[p] \in EventType
    BY DEF TypeOK
<1>2. events' \subseteq [seq : Nat \ {0}, type : EventType]
    BY <1>1 DEF TypeOK, Store
<1>3. /\ owed' \in [Publishers -> EventType \cup {"none"}]
      /\ seq' \in [Publishers -> Nat]
      /\ tries' \in [Publishers -> Nat]
    BY DEF TypeOK, Store, Settle, Owe
<1>4. pc' \in {"down", "recovering", "idle", "claimed", "working", "leaving"}
    BY DEF TypeOK, Store, AfterPublish
<1> QED
    BY <1>2, <1>3, <1>4 DEF TypeOK, Store, Settle, Owe, tab, bounds

\* A sequence is never computed as 0.
LEMMA CandidatesAreNumbers ==
    ASSUME TypeOK PROVE Candidates \subseteq Nat \ {0}
BY DEF TypeOK, Candidates

\* Every step of a publisher keeps the types.
LEMMA PublishKeepsTypes ==
    ASSUME TypeOK, NEW p \in Publishers, Publish(p)
    PROVE  TypeOK'
<1>1. CASE PublishAtOnce(p)
    BY <1>1, StoreKeepsTypes, CandidatesAreNumbers DEF PublishAtOnce
<1>2. CASE ComputeSequence(p)
    BY <1>2, CandidatesAreNumbers DEF ComputeSequence, TypeOK, tab, bounds
<1>3. CASE AppendEvent(p)
    BY <1>3, StoreKeepsTypes DEF AppendEvent, TypeOK
<1>4. CASE Collide(p)
    BY <1>4 DEF Collide, TypeOK, tab, bounds
<1>5. CASE GiveUp(p)
    <2>1. owed' \in [Publishers -> EventType \cup {"none"}] /\ status' \in RunStatus
          /\ pc' \in {"down", "recovering", "idle", "claimed", "working", "leaving"}
        BY <1>5 DEF GiveUp, Finish, Owe, AfterPublish, EventOf, RunStatus, EventType, Publishers, TypeOK
    <2>2. \A q \in Publishers : q # p => owed'[q] = owed[q]
        BY <1>5 DEF GiveUp, Finish, Owe, TypeOK
    <2> QED
        BY <1>5, <2>1, <2>2 DEF GiveUp, TypeOK, tab, bounds
<1> QED
    BY <1>1, <1>2, <1>3, <1>4, <1>5 DEF Publish

\* Finish moves a run nowhere outside the vocabulary and owes one event for it.
LEMMA FinishKeepsTypes ==
    ASSUME TypeOK, NEW target \in {"completed", "failed", "cancelled"}, Finish(target),
           owed[Executor] = "none"
    PROVE  /\ status' \in RunStatus
           /\ owed' \in [Publishers -> EventType \cup {"none"}]
           /\ pc' \in {"down", "recovering", "idle", "claimed", "working", "leaving"}
           /\ \A q \in Publishers : owed[q] # "none" => owed'[q] # "none"
BY DEF Finish, Owe, EventOf, RunStatus, EventType, Publishers, TypeOK

\* What the executor does keeps the types.
LEMMA ExecutorKeepsTypes ==
    ASSUME TypeOK, Execute \/ AnnounceProgress \/ FailRun
    PROVE  TypeOK'
<1>1. CASE Claim
    BY <1>1 DEF Claim, TypeOK, RunStatus, publishing, tab, bounds
<1>2. CASE AnnounceStart
    BY <1>2 DEF AnnounceStart, Owe, TypeOK, EventType, Publishers, tab, bounds
<1>3. CASE Transition
    BY <1>3 DEF Transition, TypeOK, RunStatus, publishing, tab, bounds
<1>4. CASE StopRun
    BY <1>4, FinishKeepsTypes DEF StopRun, Working, Free, TypeOK, tab, bounds
<1>5. CASE CompleteRun
    BY <1>5, FinishKeepsTypes DEF CompleteRun, Working, Free, TypeOK, tab, bounds
<1>6. CASE AnnounceProgress
    BY <1>6 DEF AnnounceProgress, Owe, TypeOK, EventType, Publishers, tab
<1>7. CASE FailRun
    BY <1>7, FinishKeepsTypes DEF FailRun, Working, Free, TypeOK, tab
<1> QED
    BY <1>1, <1>2, <1>3, <1>4, <1>5, <1>6, <1>7 DEF Execute

\* Requests, deaths and restarts keep the types.
LEMMA ServerKeepsTypes ==
    ASSUME TypeOK,
           Crash \/ Recover \/ \E h \in Handlers : CancelRun(h) \/ ResumeRun(h)
    PROVE  TypeOK'
<1>1. ASSUME NEW h \in Handlers, CancelRun(h)
      PROVE  TypeOK'
    <2>1. status' \in RunStatus
        BY <1>1 DEF CancelRun, CancellationTarget, RunStatus
    <2>2. owed' \in [Publishers -> EventType \cup {"none"}]
          /\ \A q \in Publishers : owed[q] # "none" => owed'[q] # "none"
        BY <1>1 DEF CancelRun, Owe, TypeOK, EventType, Publishers
    <2> QED
        BY <1>1, <2>1, <2>2 DEF CancelRun, TypeOK, tab, bounds
<1>2. ASSUME NEW h \in Handlers, ResumeRun(h)
      PROVE  TypeOK'
    BY <1>2 DEF ResumeRun, Owe, TypeOK, EventType, RunStatus, Publishers, tab
<1>3. CASE Crash
    BY <1>3 DEF Crash, TypeOK, EventType, Publishers
<1>4. CASE Recover
    BY <1>4 DEF Recover, Owe, TypeOK, EventType, RunStatus, Publishers, tab, bounds
<1> QED
    BY <1>1, <1>2, <1>3, <1>4

\* A page is rendered at a sequence of the log, or at 0.
LEMMA RenderKeepsTypes ==
    ASSUME TypeOK, RenderPage
    PROVE  /\ link' \in [Streams -> {"away", "closed", "open", "reload", "settled",
                                      "closing", "stopped"}]
           /\ after' \in [Streams -> Nat] /\ start' = after'
           /\ start' \in [Streams -> Nat]
           /\ drained' \in [Streams -> BOOLEAN]
           /\ got' = [k \in Streams |-> <<>>] /\ got' \in [Streams -> Seq(Nat)]
<1>1. PICK n \in {0} \cup {e.seq : e \in events} : RenderPage!(n)
    BY DEF RenderPage
<1>2. n \in Nat
    BY DEF TypeOK
<1>3. got' = [k \in Streams |-> <<>>] /\ got' \in [Streams -> Seq(Nat)]
    BY <1>1
<1> QED
    BY <1>1, <1>2, <1>3 DEF TypeOK, Streams

\* The tab keeps the types.
LEMMA TabKeepsTypes ==
    ASSUME TypeOK,
           \/ LoadPage \/ ReloadPage \/ SendClosed
           \/ \E k \in Streams : Stream(k) \/ DropConnection(k)
    PROVE  TypeOK'
<1>1. CASE LoadPage
    BY <1>1, RenderKeepsTypes DEF LoadPage, TypeOK, publishing
<1>2. CASE ReloadPage
    BY <1>2, RenderKeepsTypes DEF ReloadPage, TypeOK, publishing, bounds
<1>3. CASE SendClosed
    BY <1>3 DEF SendClosed, TypeOK, publishing, bounds
<1>4. ASSUME NEW k \in Streams, OpenStream(k) PROVE TypeOK'
    <2>1. IsTerminal(status) \in BOOLEAN
        BY DEF IsTerminal
    <2> QED
        BY <1>4, <2>1, ZenonT(30) DEF OpenStream, TypeOK, publishing, bounds
<1>5. ASSUME NEW k \in Streams, SendEvent(k) PROVE TypeOK'
    <2>1. PICK e \in events : /\ after' = [after EXCEPT ![k] = e.seq]
                              /\ got' = [got EXCEPT ![k] = Append(@, e.seq)]
        BY <1>5 DEF SendEvent
    <2>2. e.seq \in Nat
        BY DEF TypeOK
    <2>3. got' \in [Streams -> Seq(Nat)] /\ after' \in [Streams -> Nat]
        BY <2>1, <2>2 DEF TypeOK
    <2>4. link' \in [Streams -> {"away", "closed", "open", "reload", "settled",
                                 "closing", "stopped"}]
        BY <1>5 DEF SendEvent, TypeOK
    <2> QED
        BY <1>5, <2>3, <2>4 DEF SendEvent, TypeOK, publishing, bounds
<1>6. ASSUME NEW k \in Streams, CloseDrained(k) PROVE TypeOK'
    BY <1>6 DEF CloseDrained, TypeOK, publishing, bounds
<1>7. ASSUME NEW k \in Streams, DropConnection(k) PROVE TypeOK'
    BY <1>7 DEF DropConnection, TypeOK, publishing
<1> QED
    BY <1>1, <1>2, <1>3, <1>4, <1>5, <1>6, <1>7 DEF Stream

LEMMA InitTypes == Init => TypeOK
BY DEF Init, TypeOK, RunStatus, EventType, Streams

LEMMA NextTypes == TypeOK /\ [Next]_vars => TypeOK'
<1> SUFFICES ASSUME TypeOK, [Next]_vars PROVE TypeOK'
    OBVIOUS
<1>1. CASE UNCHANGED vars
    BY <1>1 DEF vars, publishing, tab, bounds, TypeOK
<1>2. CASE Next
    BY <1>2, PublishKeepsTypes, ExecutorKeepsTypes, ServerKeepsTypes, TabKeepsTypes DEF Next
<1> QED
    BY <1>1, <1>2

\* Every variable keeps its type, and no publisher holds a sequence for no event.
THEOREM Typing == Spec => []TypeOK
BY InitTypes, NextTypes, PTL DEF Spec
-----------------------------------------------------------------------------
(* The numbering.                                                          *)

\* Whoever inserts next to the end of the log leaves it without a gap.
LEMMA StoreKeepsLog ==
    ASSUME TypeOK, LogOK, NEW p \in Publishers, NEW n \in Nat \ {0},
           ~Taken(n), n = 1 \/ Taken(n - 1), Store(p, n)
    PROVE  LogOK'
<1> DEFINE new == [seq |-> n, type |-> owed[p]]
<1>1. events' = events \cup {new} /\ new.seq = n
    BY DEF Store
<1>2. \A m : Taken(m) => Taken(m)'
    BY <1>1 DEF Taken
<1>3. ASSUME NEW d \in events', NEW e \in events', d.seq = e.seq
      PROVE  d = e
    BY <1>1, <1>3 DEF LogOK, GapFree, Taken
<1>4. ASSUME NEW e \in events', NEW m \in 1..e.seq
      PROVE  Taken(m)'
    <2>1. CASE e \in events
        BY <2>1, <1>2 DEF LogOK, GapFree
    <2>2. CASE e = new /\ m = n
        BY <2>2, <1>1 DEF Taken
    <2>3. CASE e = new /\ m # n
        <3>1. Taken(n - 1) /\ m \in 1..(n - 1)
            BY <1>1, <2>3
        <3> QED
            BY <3>1, <1>2 DEF LogOK, GapFree, Taken
    <2> QED
        BY <1>1, <2>1, <2>2, <2>3
<1>5. ASSUME NEW q \in Publishers, seq'[q] # 0
      PROVE  seq'[q] = 1 \/ Taken(seq[q] - 1)'
    <2>1. seq'[q] = seq[q]
        BY <1>5 DEF Store, Settle, TypeOK
    <2>2. seq[q] = 1 \/ Taken(seq[q] - 1)
        BY <1>5, <2>1 DEF LogOK, PendingFollows
    <2> QED
        BY <1>1, <2>1, <2>2 DEF Taken
<1> QED
    BY <1>3, <1>4, <1>5 DEF LogOK, GapFree, PendingFollows

\* Steps that insert nothing and compute no sequence.
LEMMA OthersKeepLog ==
    ASSUME TypeOK, LogOK, events' = events,
           \A q \in Publishers : seq'[q] \in {0, seq[q]}
    PROVE  LogOK'
BY DEF LogOK, GapFree, PendingFollows, Taken

LEMMA NextKeepsLog == TypeOK /\ LogOK /\ [Next]_vars => LogOK'
<1> SUFFICES ASSUME TypeOK, LogOK, [Next]_vars PROVE LogOK'
    OBVIOUS
<1>1. ASSUME NEW p \in Publishers, PublishAtOnce(p) PROVE LogOK'
    <2>1. PICK n \in Candidates : NextSequence(n) /\ Store(p, n)
        BY <1>1 DEF PublishAtOnce
    <2>2. ~Taken(n)
        BY <2>1 DEF NextSequence, Taken
    <2> QED
        BY <2>1, <2>2, StoreKeepsLog DEF NextSequence
<1>2. ASSUME NEW p \in Publishers, ComputeSequence(p) PROVE LogOK'
    <2>1. PICK n \in Candidates : NextSequence(n) /\ seq' = [seq EXCEPT ![p] = n]
        BY <1>2 DEF ComputeSequence
    <2>2. n = 1 \/ Taken(n - 1)
        BY <2>1 DEF NextSequence
    <2>3. events' = events /\ \A m : Taken(m)' <=> Taken(m)
        BY <1>2 DEF ComputeSequence, Taken
    <2>4. \A q \in Publishers : seq'[q] = IF q = p THEN n ELSE seq[q]
        BY <2>1 DEF TypeOK
    <2>5. \A q \in Publishers : seq'[q] # 0 => seq'[q] = 1 \/ Taken(seq'[q] - 1)
        BY <2>2, <2>4 DEF LogOK, PendingFollows
    <2>7. PendingFollows'
        BY <2>3, <2>5 DEF PendingFollows, Taken
    <2> QED
        BY <2>3, <2>7 DEF LogOK, GapFree
<1>3. ASSUME NEW p \in Publishers, AppendEvent(p) PROVE LogOK'
    <2>1. seq[p] \in Nat \ {0} /\ ~Taken(seq[p]) /\ Store(p, seq[p])
        BY <1>3 DEF AppendEvent, TypeOK
    <2>2. seq[p] = 1 \/ Taken(seq[p] - 1)
        BY <2>1 DEF LogOK, PendingFollows
    <2> QED
        BY <2>1, <2>2, StoreKeepsLog
<1>4. ASSUME NEW p \in Publishers, Collide(p) \/ GiveUp(p) PROVE LogOK'
    BY <1>4, OthersKeepLog DEF Collide, GiveUp, TypeOK
<1>5. CASE Execute \/ AnnounceProgress \/ FailRun
    BY <1>5, OthersKeepLog DEF Execute, Claim, AnnounceStart, Transition, StopRun, CompleteRun,
       AnnounceProgress, FailRun, publishing
<1>6. ASSUME NEW h \in Handlers, CancelRun(h) \/ ResumeRun(h) PROVE LogOK'
    BY <1>6, OthersKeepLog DEF CancelRun, ResumeRun
<1>7. CASE Crash \/ Recover
    BY <1>7, OthersKeepLog DEF Crash, Recover
<1>8. CASE LoadPage \/ ReloadPage \/ SendClosed
    BY <1>8, OthersKeepLog DEF LoadPage, ReloadPage, SendClosed, publishing
<1>9. ASSUME NEW k \in Streams, Stream(k) \/ DropConnection(k) PROVE LogOK'
    BY <1>9, OthersKeepLog DEF Stream, OpenStream, SendEvent, CloseDrained, DropConnection, publishing
<1>10. CASE UNCHANGED vars
    BY <1>10, OthersKeepLog DEF vars, publishing
<1> QED
    BY <1>1, <1>2, <1>3, <1>4, <1>5, <1>6, <1>7, <1>8, <1>9, <1>10 DEF Next, Publish

\* The sequence numbers are 1, 2, ... with no gap and none twice, under either
\* write discipline and however many publishers there are.
THEOREM Numbering == Spec => []GapFree
<1>1. Init => LogOK
    BY DEF Init, LogOK, GapFree, PendingFollows
<1>2. LogOK => GapFree
    BY DEF LogOK
<1> QED
    BY <1>1, <1>2, Typing, NextKeepsLog, PTL DEF Spec
-----------------------------------------------------------------------------
(* Replay.                                                                 *)

\* With no gap in the log, the next event after a position is its successor.
LEMMA SendIsNext ==
    ASSUME TypeOK, GapFree, ExactReplay, NEW k \in Streams, SendEvent(k)
    PROVE  ExactReplay'
<1>1. PICK e \in events : /\ Following(k, e)
                          /\ after' = [after EXCEPT ![k] = e.seq]
                          /\ got' = [got EXCEPT ![k] = Append(@, e.seq)]
    BY DEF SendEvent
<1>2. after[k] \in Nat /\ e.seq \in Nat /\ got[k] \in Seq(Nat) /\ start[k] \in Nat
    BY DEF TypeOK
<1>3. e.seq = after[k] + 1
    <2>1. e.seq > after[k] /\ \A d \in events : d.seq > after[k] => e.seq <= d.seq
        BY <1>1 DEF Following
    <2>2. PICK d \in events : d.seq = after[k] + 1
        BY <1>2, <2>1 DEF GapFree, Taken
    <2> QED
        BY <1>2, <2>1, <2>2
<1>4. start' = start
    BY DEF SendEvent
<1>5. ASSUME NEW j \in Streams PROVE /\ after'[j] = start'[j] + Len(got'[j])
                                     /\ \A i \in DOMAIN got'[j] : got'[j][i] = start'[j] + i
    <2>1. CASE j = k
        <3>1. after'[k] = e.seq /\ got'[k] = Append(got[k], e.seq)
            BY <1>1 DEF TypeOK
        <3>2. after[k] = start[k] + Len(got[k]) /\ \A i \in 1..Len(got[k]) : got[k][i] = start[k] + i
            BY <1>2 DEF ExactReplay
        <3>3. Len(Append(got[k], e.seq)) = Len(got[k]) + 1 /\ Len(got[k]) \in Nat
              /\ DOMAIN Append(got[k], e.seq) = 1..(Len(got[k]) + 1)
            BY <1>2
        <3>4. \A i \in 1..(Len(got[k]) + 1) :
                 Append(got[k], e.seq)[i] = IF i <= Len(got[k]) THEN got[k][i] ELSE e.seq
            BY <1>2
        <3>5. \A i \in 1..(Len(got[k]) + 1) : Append(got[k], e.seq)[i] = start[k] + i
            BY <1>2, <1>3, <3>2, <3>3, <3>4
        <3>6. after'[j] = e.seq /\ got'[j] = Append(got[k], e.seq) /\ start'[j] = start[k]
            BY <1>4, <2>1, <3>1
        <3>7. after'[j] = start'[j] + Len(got'[j])
            <4>1. Len(got'[j]) = Len(got[k]) + 1
                BY <3>3, <3>6
            <4> QED
                BY <1>2, <1>3, <3>2, <3>3, <3>6, <4>1
        <3>8. \A i \in DOMAIN got'[j] : got'[j][i] = start'[j] + i
            <4>1. DOMAIN got'[j] = 1..(Len(got[k]) + 1)
                BY <3>3, <3>6
            <4> QED
                BY <3>5, <3>6, <4>1, Zenon
        <3> QED
            BY <3>7, <3>8
    <2>2. CASE j # k
        BY <1>1, <1>4, <2>2 DEF ExactReplay, TypeOK
    <2> QED
        BY <2>1, <2>2
<1> QED
    BY <1>5 DEF ExactReplay

\* A page just rendered has received nothing.
LEMMA RenderReplays == ASSUME TypeOK, RenderPage PROVE ExactReplay'
BY RenderKeepsTypes DEF ExactReplay

LEMMA OthersReplay ==
    ASSUME ExactReplay, UNCHANGED <<after, start, got>> PROVE ExactReplay'
BY DEF ExactReplay

LEMMA NextReplays == TypeOK /\ GapFree /\ ExactReplay /\ [Next]_vars => ExactReplay'
<1> SUFFICES ASSUME TypeOK, GapFree, ExactReplay, [Next]_vars PROVE ExactReplay'
    OBVIOUS
<1>1. ASSUME NEW p \in Publishers, Publish(p) PROVE ExactReplay'
    BY <1>1, OthersReplay DEF Publish, PublishAtOnce, ComputeSequence, AppendEvent, Collide, GiveUp,
       Store, tab
<1>2. CASE Execute \/ AnnounceProgress \/ FailRun
    BY <1>2, OthersReplay DEF Execute, Claim, AnnounceStart, Transition, StopRun, CompleteRun,
       AnnounceProgress, FailRun, tab
<1>3. ASSUME NEW h \in Handlers, CancelRun(h) \/ ResumeRun(h) PROVE ExactReplay'
    BY <1>3, OthersReplay DEF CancelRun, ResumeRun, tab
<1>4. CASE Crash \/ Recover \/ SendClosed
    BY <1>4, OthersReplay DEF Crash, Recover, SendClosed, tab
<1>5. CASE LoadPage \/ ReloadPage
    BY <1>5, RenderReplays DEF LoadPage, ReloadPage
<1>6. ASSUME NEW k \in Streams, SendEvent(k) PROVE ExactReplay'
    BY <1>6, SendIsNext
<1>7. ASSUME NEW k \in Streams, OpenStream(k) \/ CloseDrained(k) \/ DropConnection(k)
      PROVE  ExactReplay'
    BY <1>7, OthersReplay DEF OpenStream, CloseDrained, DropConnection
<1>8. CASE UNCHANGED vars
    BY <1>8, OthersReplay DEF vars, tab
<1> QED
    BY <1>1, <1>2, <1>3, <1>4, <1>5, <1>6, <1>7, <1>8 DEF Next, Stream

\* Every stream receives what follows its starting position, each event once and
\* in order, through any number of drops, reloads and restarts.
THEOREM Replay == Spec => []ExactReplay
<1>1. Init => ExactReplay
    BY DEF Init, ExactReplay
<1> QED
    BY <1>1, Typing, Numbering, NextReplays, PTL DEF Spec
-----------------------------------------------------------------------------
(* Persist, then publish.                                                  *)

\* A step that leaves an ended run ended, and a publisher's event true.
LEMMA KeepsTruth ==
    ASSUME TypeOK, TruthOK,
           status \in {"completed", "failed", "cancelled"} => status' = status,
           \A e \in events' : e \in events \/ \E p \in Publishers : e.type = owed[p],
           \A p \in Publishers : owed'[p] \in {"none", owed[p]} \/ TrueOfRun(owed[p])'
    PROVE  TruthOK'
<1>1. \A type : TrueOfRun(type) => TrueOfRun(type)'
    BY DEF TrueOfRun
<1>2. AnnouncedIsTrue'
    BY <1>1 DEF TruthOK, AnnouncedIsTrue, OwedIsTrue, TrueOfRun
<1>3. OwedIsTrue'
    BY <1>1 DEF TruthOK, OwedIsTrue, TrueOfRun
<1> QED
    BY <1>2, <1>3 DEF TruthOK

\* What _finish owes is the status it has just written.
LEMMA FinishOwesTruth ==
    ASSUME TypeOK, NEW target \in {"completed", "failed", "cancelled"}, Finish(target)
    PROVE  /\ status \in {"completed", "failed", "cancelled"} => status' = status
           /\ \A p \in Publishers : owed'[p] = owed[p] \/ TrueOfRun(owed[p])'
<1>1. status \in {"completed", "failed", "cancelled"} => status' = status
    BY DEF Finish, LegalRun, RunTransitions
<1>2. \/ owed' = [owed EXCEPT ![Executor] = "none"]
      \/ status' = target /\ owed' = [owed EXCEPT ![Executor] = EventOf[target]]
    BY DEF Finish, Owe
<1>3. status' = target => TrueOfRun(EventOf[target])'
    BY DEF TrueOfRun, EventOf
<1>4. ASSUME NEW p \in Publishers PROVE owed'[p] = owed[p] \/ TrueOfRun(owed[p])'
    <2>1. CASE owed' = [owed EXCEPT ![Executor] = "none"]
        BY <2>1 DEF TypeOK, TrueOfRun
    <2>2. CASE status' = target /\ owed' = [owed EXCEPT ![Executor] = EventOf[target]]
        BY <1>3, <2>2 DEF TypeOK, TrueOfRun
    <2> QED
        BY <1>2, <2>1, <2>2
<1> QED
    BY <1>1, <1>4

LEMMA NextKeepsTruth == TypeOK /\ TruthOK /\ [Next]_vars => TruthOK'
<1> SUFFICES ASSUME TypeOK, TruthOK, [Next]_vars PROVE TruthOK'
    OBVIOUS
<1>1. ASSUME NEW p \in Publishers, NEW n, Store(p, n) PROVE TruthOK'
    <2>1. \A q \in Publishers : owed'[q] \in {"none", owed[q]}
        BY <1>1 DEF Store, Settle, Owe, TypeOK
    <2>2. \A e \in events' : e \in events \/ e.type = owed[p]
        BY <1>1 DEF Store
    <2> QED
        BY <1>1, <2>1, <2>2, KeepsTruth DEF Store
<1>2. ASSUME NEW p \in Publishers, Publish(p) PROVE TruthOK'
    <2>1. CASE PublishAtOnce(p) \/ AppendEvent(p)
        BY <1>1, <2>1 DEF PublishAtOnce, AppendEvent
    <2>2. CASE ComputeSequence(p) \/ Collide(p)
        BY <2>2, KeepsTruth DEF ComputeSequence, Collide
    <2>3. CASE GiveUp(p) /\ Finish("failed")
        BY <2>3, FinishOwesTruth, KeepsTruth DEF GiveUp
    <2>4. CASE GiveUp(p) /\ Owe(p, "none") /\ UNCHANGED status
        <3>1. \A q \in Publishers : owed'[q] \in {"none", owed[q]}
            BY <2>4 DEF Owe, TypeOK
        <3> QED
            BY <2>4, <3>1, KeepsTruth DEF GiveUp
    <2> QED
        BY <1>2, <2>1, <2>2, <2>3, <2>4 DEF Publish, GiveUp
<1>3. CASE Claim \/ Transition
    BY <1>3, KeepsTruth DEF Claim, Transition, publishing
<1>4. CASE AnnounceStart \/ AnnounceProgress
    <2>1. \A p \in Publishers : owed'[p] = owed[p] \/ owed'[p] \in {"run.started", "run.progress"}
        BY <1>4 DEF AnnounceStart, AnnounceProgress, Owe, TypeOK
    <2>2. \A p \in Publishers : owed'[p] = owed[p] \/ TrueOfRun(owed[p])'
        BY <2>1 DEF TrueOfRun
    <2> QED
        BY <1>4, <2>2, KeepsTruth DEF AnnounceStart, AnnounceProgress
<1>5. CASE StopRun \/ CompleteRun \/ FailRun
    <2>1. events' = events /\ \E target \in {"completed", "failed", "cancelled"} : Finish(target)
        BY <1>5 DEF StopRun, CompleteRun, FailRun
    <2> QED
        BY <2>1, FinishOwesTruth, KeepsTruth
<1>6. ASSUME NEW h \in Handlers, CancelRun(h) PROVE TruthOK'
    <2>1. status \notin {"completed", "failed", "cancelled"}
        BY <1>6 DEF CancelRun, CancellableRun
    <2>2. \A p \in Publishers : \/ owed'[p] = owed[p]
                                \/ owed'[p] = "run.progress"
                                \/ owed'[p] = "run.cancelled" /\ status' = "cancelled"
        BY <1>6 DEF CancelRun, Owe, TypeOK
    <2>3. \A p \in Publishers : owed'[p] = owed[p] \/ TrueOfRun(owed[p])'
        BY <2>2 DEF TrueOfRun
    <2> QED
        BY <1>6, <2>1, <2>3, KeepsTruth DEF CancelRun
<1>7. ASSUME NEW h \in Handlers, ResumeRun(h) PROVE TruthOK'
    <2>1. \A p \in Publishers : owed'[p] = owed[p] \/ owed'[p] = "run.progress"
        BY <1>7 DEF ResumeRun, Owe, TypeOK
    <2>2. \A p \in Publishers : owed'[p] = owed[p] \/ TrueOfRun(owed[p])'
        BY <2>1 DEF TrueOfRun
    <2> QED
        BY <1>7, <2>2, KeepsTruth DEF ResumeRun
<1>8. CASE Crash
    BY <1>8, KeepsTruth DEF Crash
<1>9. CASE Recover
    <2>1. \A p \in Publishers : owed'[p] = owed[p] \/ owed'[p] = "run.interrupted"
        BY <1>9 DEF Recover, Owe, TypeOK
    <2>2. \A p \in Publishers : owed'[p] = owed[p] \/ TrueOfRun(owed[p])'
        BY <2>1 DEF TrueOfRun
    <2> QED
        BY <1>9, <2>2, KeepsTruth DEF Recover, ActiveRun
<1>10. CASE LoadPage \/ ReloadPage \/ SendClosed
    BY <1>10, KeepsTruth DEF LoadPage, ReloadPage, SendClosed, publishing
<1>11. ASSUME NEW k \in Streams, Stream(k) \/ DropConnection(k) PROVE TruthOK'
    BY <1>11, KeepsTruth DEF Stream, OpenStream, SendEvent, CloseDrained, DropConnection, publishing
<1>12. CASE UNCHANGED vars
    BY <1>12, KeepsTruth DEF vars, publishing
<1> QED
    BY <1>2, <1>3, <1>4, <1>5, <1>6, <1>7, <1>8, <1>9, <1>10, <1>11, <1>12 DEF Next, Execute

\* Whatever crashes, an event that says a run ended is only ever stored for a run
\* the database holds in that very state.
THEOREM PersistThenPublish == Spec => []AnnouncedIsTrue
<1>1. Init => TruthOK
    BY DEF Init, TruthOK, AnnouncedIsTrue, OwedIsTrue, TrueOfRun
<1>2. TruthOK => AnnouncedIsTrue
    BY DEF TruthOK
<1> QED
    BY <1>1, <1>2, Typing, NextKeepsTruth, PTL DEF Spec
-----------------------------------------------------------------------------
(* One ending for every time the run was queued.                           *)

Ended      == {"completed", "failed", "cancelled"}
FinalEvent == {"run.completed", "run.failed", "run.cancelled"}

\* An event of one of these kinds is in the log or about to be.
Announced(K) == \/ \E e \in events : e.type \in K
                \/ \E p \in Publishers : owed[p] \in K

\* At most one event of these kinds is in the log or about to be.
AtMostOne(K) ==
    /\ \A d, e \in events : d.type \in K /\ e.type \in K => d = e
    /\ \A p, q \in Publishers : owed[p] \in K /\ owed[q] \in K => p = q
    /\ \A e \in events, p \in Publishers : ~(e.type \in K /\ owed[p] \in K)

\* A run announced ended has ended, and until it is resumed so has one announced
\* interrupted; each is announced once.
EndingOK ==
    /\ AtMostOne(FinalEvent) /\ (Announced(FinalEvent) => status \in Ended)
    /\ resumes = 0 =>
          AtMostOne(TerminalEvent) /\ (Announced(TerminalEvent) => IsTerminal(status))

\* What a step may do to the announcements: store one that is owed, owe no ending,
\* or owe the ending of a run that had not ended.
Stores(p) == /\ \E n : events' = events \cup {[seq |-> n, type |-> owed[p]]}
             /\ owed' = [owed EXCEPT ![p] = "none"]
             /\ UNCHANGED <<status, resumes>>

OwesNoEnding ==
    /\ events' = events
    /\ \A q \in Publishers : owed'[q] = owed[q] \/ owed'[q] \notin TerminalEvent
    /\ status \in Ended => status' = status
    /\ resumes' = 0 => resumes = 0 /\ (IsTerminal(status) => status' = status)

OwesEnding(p) ==
    /\ events' = events
    /\ \E type \in TerminalEvent :
          /\ owed' = [owed EXCEPT ![p] = type]
          /\ type \in FinalEvent => status' \in Ended
    /\ ~IsTerminal(status) /\ IsTerminal(status')
    /\ UNCHANGED resumes

LEMMA Endings ==
    /\ TerminalEvent = FinalEvent \cup {"run.interrupted"}
    /\ \A s : IsTerminal(s) <=> s \in Ended \cup {"interrupted"}
BY DEF TerminalEvent, FinalEvent, IsTerminal, TerminalRun, Ended, RunStatus, RunTransitions

LEMMA FinishSteps ==
    ASSUME TypeOK, NEW target \in Ended, Finish(target), events' = events, UNCHANGED resumes
    PROVE  OwesNoEnding \/ OwesEnding(Executor)
<1>1. CASE Owe(Executor, "none") /\ UNCHANGED status
  BY <1>1, Endings DEF Owe, OwesNoEnding, TypeOK, FinalEvent
<1>2. CASE ~(Owe(Executor, "none") /\ UNCHANGED status)
  <2>1. /\ LegalRun(status, target) \/ (target = "cancelled" /\ status = "running")
        /\ status' = target /\ Owe(Executor, EventOf[target])
    BY <1>2 DEF Finish
  <2>2. status \notin Ended \cup {"interrupted"} /\ status' \in Ended
    BY <2>1 DEF LegalRun, RunTransitions, Ended
  <2>3. EventOf[target] \in FinalEvent /\ FinalEvent \subseteq TerminalEvent
    BY Endings DEF EventOf, Ended, FinalEvent
  <2>4. ~IsTerminal(status) /\ IsTerminal(status')
    BY <2>2, Endings
  <2>q. QED BY <2>1, <2>2, <2>3, <2>4 DEF Owe, OwesEnding
<1>q. QED BY <1>1, <1>2

LEMMA StepsOfEndings ==
    ASSUME TypeOK, [Next]_vars
    PROVE  OwesNoEnding \/ \E p \in Publishers : Stores(p) \/ OwesEnding(p)
<1>x. Executor \in Publishers
  BY DEF Publishers
<1>1. ASSUME NEW p \in Publishers, PublishAtOnce(p) \/ AppendEvent(p) PROVE Stores(p)
  BY <1>1 DEF PublishAtOnce, AppendEvent, Store, Settle, Owe, Stores, bounds
<1>2. ASSUME NEW p \in Publishers, ComputeSequence(p) \/ Collide(p) PROVE OwesNoEnding
  BY <1>2 DEF ComputeSequence, Collide, OwesNoEnding, bounds
<1>3. ASSUME NEW p \in Publishers, GiveUp(p)
      PROVE  OwesNoEnding \/ OwesEnding(Executor)
  <2>1. events' = events /\ UNCHANGED resumes
    BY <1>3 DEF GiveUp, bounds
  <2>2. CASE Finish("failed")
    BY <2>1, <2>2, FinishSteps DEF Ended
  <2>3. CASE Owe(p, "none") /\ UNCHANGED status
    BY <2>1, <2>3, Endings DEF Owe, OwesNoEnding, TypeOK, FinalEvent
  <2>q. QED BY <1>3, <2>2, <2>3 DEF GiveUp
<1>4. CASE Claim \/ Transition
  BY <1>4, Endings DEF Claim, Transition, OwesNoEnding, Ended, publishing, bounds
<1>5. CASE AnnounceStart \/ AnnounceProgress
  BY <1>5, Endings
  DEF AnnounceStart, AnnounceProgress, Owe, OwesNoEnding, TypeOK, FinalEvent, bounds
<1>6. CASE StopRun \/ CompleteRun \/ FailRun
  <2>1. /\ \E target \in Ended : Finish(target)
        /\ events' = events /\ UNCHANGED resumes
    BY <1>6 DEF StopRun, CompleteRun, FailRun, Ended, bounds
  <2>q. QED BY <1>x, <2>1, FinishSteps
<1>7. ASSUME NEW h \in Handlers, CancelRun(h) PROVE OwesNoEnding \/ OwesEnding(h)
  <2>1. CASE status = "running"
    BY <1>7, <2>1, Endings
    DEF CancelRun, CancellationTarget, Owe, OwesNoEnding, TypeOK, Ended, FinalEvent, bounds
  <2>2. CASE status # "running"
    <3>1. status' = "cancelled" /\ Owe(h, "run.cancelled") /\ ~IsTerminal(status)
      BY <1>7, <2>2, Endings DEF CancelRun, CancellationTarget, CancellableRun, Ended
    <3>q. QED
      BY <1>7, <3>1, Endings DEF CancelRun, Owe, OwesEnding, Ended, FinalEvent, bounds
  <2>q. QED BY <2>1, <2>2
<1>8. ASSUME NEW h \in Handlers, ResumeRun(h) PROVE OwesNoEnding
  BY <1>8, Endings DEF ResumeRun, Owe, OwesNoEnding, TypeOK, Ended, FinalEvent
<1>9. CASE Crash
  BY <1>9, Endings DEF Crash, OwesNoEnding, FinalEvent
<1>10. CASE Recover
  <2>1. CASE status \in ActiveRun
    <3>1. status' = "interrupted" /\ Owe(Executor, "run.interrupted") /\ events' = events
          /\ UNCHANGED resumes
      BY <1>10, <2>1 DEF Recover, bounds
    <3>2. ~IsTerminal(status) /\ IsTerminal(status')
      BY <2>1, <3>1, Endings DEF ActiveRun, Ended
    <3>3. "run.interrupted" \in TerminalEvent \ FinalEvent
      BY Endings DEF FinalEvent
    <3>4. OwesEnding(Executor)
      BY <3>1, <3>2, <3>3 DEF Owe, OwesEnding
    <3>q. QED BY <1>x, <3>4
  <2>2. CASE status \notin ActiveRun
    BY <1>10, <2>2 DEF Recover, OwesNoEnding, bounds
  <2>q. QED BY <1>x, <2>1, <2>2
<1>11. CASE LoadPage \/ ReloadPage \/ SendClosed
  BY <1>11 DEF LoadPage, ReloadPage, SendClosed, OwesNoEnding, publishing, bounds
<1>12. ASSUME NEW k \in Streams, Stream(k) \/ DropConnection(k) PROVE OwesNoEnding
  BY <1>12
  DEF Stream, OpenStream, SendEvent, CloseDrained, DropConnection, OwesNoEnding, publishing, bounds
<1>13. CASE UNCHANGED vars
  BY <1>13 DEF vars, OwesNoEnding, publishing, bounds
<1>14. Handlers \subseteq Publishers
  BY DEF Publishers
<1>q. QED
  BY <1>x, <1>1, <1>2, <1>3, <1>4, <1>5, <1>6, <1>7, <1>8, <1>9, <1>10, <1>11, <1>12, <1>13, <1>14
  DEF Next, Publish, Execute

\* Whatever the kinds, storing what is owed announces nothing new.
LEMMA StoringAnnouncesNothing ==
    ASSUME TypeOK, NEW K, "none" \notin K, NEW p \in Publishers, Stores(p)
    PROVE  /\ AtMostOne(K) => AtMostOne(K)'
           /\ Announced(K)' => Announced(K)
<1>1. \A q \in Publishers : owed'[q] = IF q = p THEN "none" ELSE owed[q]
  BY DEF Stores, TypeOK
<1>2. \A e \in events' : e \in events \/ e.type = owed[p]
  BY DEF Stores
<1>3. \A d, e \in events' : d.type \in K /\ e.type \in K /\ AtMostOne(K) => d = e
  <2> SUFFICES ASSUME NEW d \in events', NEW e \in events', d.type \in K, e.type \in K,
                      AtMostOne(K)
               PROVE  d = e
    OBVIOUS
  <2>1. PICK n : events' = events \cup {[seq |-> n, type |-> owed[p]]}
    BY DEF Stores
  <2>2. CASE owed[p] \in K
    BY <2>1, <2>2 DEF AtMostOne
  <2>3. CASE owed[p] \notin K
    BY <1>2, <2>3 DEF AtMostOne
  <2>q. QED BY <2>2, <2>3
<1>4. AtMostOne(K) => AtMostOne(K)'
  BY <1>1, <1>2, <1>3 DEF AtMostOne
<1>5. Announced(K)' => Announced(K)
  BY <1>1, <1>2 DEF Announced
<1>q. QED BY <1>4, <1>5

LEMMA OwingNoEndingAnnouncesNothing ==
    ASSUME NEW K, K \subseteq TerminalEvent, OwesNoEnding
    PROVE  /\ AtMostOne(K) => AtMostOne(K)'
           /\ Announced(K)' => Announced(K)
BY DEF OwesNoEnding, AtMostOne, Announced

LEMMA FirstAnnouncement ==
    ASSUME TypeOK, NEW K, "none" \notin K, ~Announced(K), NEW p \in Publishers, NEW type,
           owed' = [owed EXCEPT ![p] = type], events' = events
    PROVE  AtMostOne(K)'
BY DEF AtMostOne, Announced, TypeOK

LEMMA NextKeepsEndings == TypeOK /\ EndingOK /\ [Next]_vars => EndingOK'
<1> SUFFICES ASSUME TypeOK, EndingOK, [Next]_vars PROVE EndingOK'
  OBVIOUS
<1>1. FinalEvent \subseteq TerminalEvent /\ "none" \notin TerminalEvent
  BY Endings DEF FinalEvent
<1>2. ASSUME NEW p \in Publishers, Stores(p) PROVE EndingOK'
  <2>1. UNCHANGED <<status, resumes>>
    BY <1>2 DEF Stores
  <2>q. QED BY <1>1, <1>2, <2>1, StoringAnnouncesNothing DEF EndingOK, IsTerminal
<1>3. CASE OwesNoEnding
  <2>1. /\ status \in Ended => status' = status
        /\ resumes' = 0 => resumes = 0 /\ (IsTerminal(status) => status' = status)
    BY <1>3 DEF OwesNoEnding
  <2>2. /\ AtMostOne(FinalEvent) => AtMostOne(FinalEvent)'
        /\ Announced(FinalEvent)' => Announced(FinalEvent)
        /\ AtMostOne(TerminalEvent) => AtMostOne(TerminalEvent)'
        /\ Announced(TerminalEvent)' => Announced(TerminalEvent)
    BY <1>1, <1>3, OwingNoEndingAnnouncesNothing
  <2>q. QED BY <2>1, <2>2 DEF EndingOK, IsTerminal
<1>4. ASSUME NEW p \in Publishers, OwesEnding(p) PROVE EndingOK'
  <2>1. PICK type \in TerminalEvent : /\ owed' = [owed EXCEPT ![p] = type] /\ events' = events
                                      /\ type \in FinalEvent => status' \in Ended
    BY <1>4 DEF OwesEnding
  <2>2. ~IsTerminal(status) /\ IsTerminal(status') /\ UNCHANGED resumes
    BY <1>4 DEF OwesEnding
  <2>3. ~Announced(FinalEvent) /\ (resumes = 0 => ~Announced(TerminalEvent))
    BY <2>2, Endings DEF EndingOK
  <2>4. AtMostOne(FinalEvent)' /\ (resumes = 0 => AtMostOne(TerminalEvent)')
    BY <1>1, <2>1, <2>3, FirstAnnouncement
  <2>5. Announced(FinalEvent)' => type \in FinalEvent
    BY <2>1, <2>3 DEF Announced, TypeOK
  <2>q. QED BY <2>1, <2>2, <2>4, <2>5 DEF EndingOK, IsTerminal
<1>q. QED BY <1>2, <1>3, <1>4, StepsOfEndings

\* However requests, the executor, crashes and recoveries race, a run is announced
\* ended at most once for every time it was queued.
THEOREM OneEnding == Spec => []OneEndingPerAttempt
<1>1. Init => EndingOK
  BY Endings DEF Init, EndingOK, AtMostOne, Announced, FinalEvent
<1>2. TypeOK /\ EndingOK => OneEndingPerAttempt
  BY Endings DEF EndingOK, AtMostOne, OneEndingPerAttempt, TypeOK
<1>q. QED BY <1>1, <1>2, Typing, NextKeepsEndings, PTL DEF Spec
-----------------------------------------------------------------------------
(***************************************************************************)
(* The readers of stored results.                                          *)
(***************************************************************************)
Ids == Nat \X Nat
SortKeys == [created : 1..MaxTime, run : RunIds, key : Range(MetricKeys), id : Ids]

\* Every row is of a stored, completed run, and has an id of its own, older than the next.
RunsStored ==
    /\ stored = [r \in DOMAIN stored |-> stored[r]] /\ DOMAIN stored \subseteq RunIds /\ IsFiniteSet(DOMAIN stored)
    /\ \A r \in DOMAIN stored : /\ stored[r] = [subject |-> stored[r].subject, created |-> stored[r].created,
                                               status |-> stored[r].status]
                                /\ stored[r].created \in 1..MaxTime
    /\ clock \in Nat /\ rewrites \in Nat /\ IsFiniteSet(values)
ValuesStored ==
    /\ \A v \in values : /\ v.run \in DOMAIN stored /\ stored[v.run].status = "completed"
                         /\ v.key \in Range(MetricKeys) /\ v.id \in Ids /\ v.id[1] < rewrites
    /\ \A v, w \in values : v.id = w.id => v = w

\* What was shown is not after the cursor, and what was there all the while was shown or is.
IsShown(v) == v.id \in ToSet(page.shown)
PageFollows ==
    /\ page \in [phase : {"idle", "paging", "done"}, cursor : SortKeys \cup {NoCursor},
                 shown : Seq(Ids), throughout : SUBSET Ids]
    /\ page.phase = "idle" => page.shown = <<>>
    /\ \A i \in DOMAIN page.shown : page.shown[i][1] < rewrites
    /\ page.throughout \subseteq {v.id : v \in values}
    /\ page.phase = "paging" => \A v \in values : /\ IsShown(v) => ~After(SortKey(v), page.cursor)
                                                  /\ v.id \in page.throughout /\ ~IsShown(v) => After(SortKey(v), page.cursor)

\* What is written are the first of the runs, as the snapshot has them.
ExportFollows ==
    /\ export = [phase |-> export.phase, runs |-> export.runs, written |-> export.written,
                 snapshot |-> export.snapshot, held |-> export.held]
    /\ export.runs \in Seq(RunIds) /\ export.written \in Seq({Bundle(r) : r \in RunIds})
    /\ Len(export.written) <= Len(export.runs)
    /\ \A i \in DOMAIN export.written : export.written[i] = Bundle(export.runs[i])
    /\ export.phase \in {"idle", "head", "refused"} => export.written = <<>>
    /\ export.phase = "done" => Len(export.written) = Len(export.runs)

ResultsInv == RunsStored /\ ValuesStored /\ PageFollows /\ PagesAreExact /\ ExportFollows

-----------------------------------------------------------------------------
\* Metrics have places of their own in the order of text.
LEMMA KeysHavePlaces ==
    /\ \A k \in Range(MetricKeys) : KeyIndex(k) \in Nat
    /\ \A k, l \in Range(MetricKeys) : KeyIndex(k) = KeyIndex(l) => k = l
<1>1. MetricKeys \in Seq(STRING) /\ \A i, j \in DOMAIN MetricKeys : MetricKeys[i] = MetricKeys[j] => i = j
  BY ResultsAssumption
<1>2. DOMAIN MetricKeys = 1..Len(MetricKeys) /\ Len(MetricKeys) \in Nat
  BY <1>1
<1>3. ASSUME NEW k \in Range(MetricKeys), k # "" PROVE KeyIndex(k) \in Nat \ {0} /\ MetricKeys[KeyIndex(k)] = k
  <2>1. \E i \in DOMAIN MetricKeys : MetricKeys[i] = k
    BY DEF Range
  <2>2. KeyIndex(k) = CHOOSE i \in DOMAIN MetricKeys : MetricKeys[i] = k
    BY <1>3 DEF KeyIndex
  <2>q. QED BY <1>2, <2>1, <2>2
<1>4. KeyIndex("") = 0
  BY DEF KeyIndex
<1>5. ASSUME NEW k \in Range(MetricKeys), NEW l \in Range(MetricKeys), KeyIndex(k) = KeyIndex(l) PROVE k = l
  <2>1. CASE k = "" \/ l = ""
    BY <1>3, <1>4, <1>5, <2>1
  <2>2. CASE k # "" /\ l # ""
    BY <1>3, <1>5, <2>2
  <2>q. QED BY <2>1, <2>2
<1>6. ASSUME NEW k \in Range(MetricKeys) PROVE KeyIndex(k) \in Nat
  <2>1. CASE k = ""
    <3>1. KeyIndex(k) = 0
      BY <2>1 DEF KeyIndex
    <3>q. QED BY <3>1
  <2>2. CASE k # ""
    BY <1>3, <2>2
  <2>q. QED BY <2>1, <2>2
<1>q. QED BY <1>5, <1>6

LEMMA FieldsOfKeys ==
    ASSUME NEW k \in SortKeys
    PROVE  /\ k.created \in Nat /\ k.created < MaxTime + 1 /\ k.run \in Nat /\ k.key \in Range(MetricKeys)
           /\ k.id \in Ids /\ k.id = <<k.id[1], k.id[2]>> /\ k.id[1] \in Nat /\ k.id[2] \in Nat
<1>1. k.created \in 1..MaxTime /\ k.run \in RunIds /\ k.key \in Range(MetricKeys) /\ k.id \in Ids
  BY DEF SortKeys
<1>2. MaxTime \in Nat /\ RunIds \subseteq Nat
  BY ResultsAssumption
<1> DEFINE created == k.created
<1>3. created \in Nat /\ created < MaxTime + 1
  <2>1. created \in 1..MaxTime
    BY <1>1
  <2> HIDE DEF created
  <2>q. QED BY <1>2, <2>1
<1>4. k.created \in Nat /\ k.created < MaxTime + 1 /\ k.run \in Nat
  BY <1>1, <1>2, <1>3
<1>5. k.id = <<k.id[1], k.id[2]>> /\ k.id[1] \in Nat /\ k.id[2] \in Nat
  BY <1>1 DEF Ids
<1>q. QED BY <1>1, <1>4, <1>5

\* Rows come one after the other, and all of them after no cursor.
LEMMA AfterOrders ==
    ASSUME NEW a \in SortKeys, NEW b \in SortKeys
    PROVE  /\ ~After(a, a) /\ After(a, NoCursor)
           /\ a.id # b.id => After(a, b) \/ After(b, a)
           /\ \A c \in SortKeys \cup {NoCursor} : After(a, b) /\ After(b, c) => After(a, c)
<1>k. /\ a.created \in Nat /\ a.created < MaxTime + 1 /\ a.run \in Nat /\ a.key \in Range(MetricKeys)
      /\ a.id \in Ids /\ a.id = <<a.id[1], a.id[2]>> /\ a.id[1] \in Nat /\ a.id[2] \in Nat
  BY FieldsOfKeys
<1>l. /\ b.created \in Nat /\ b.created < MaxTime + 1 /\ b.run \in Nat /\ b.key \in Range(MetricKeys)
      /\ b.id \in Ids /\ b.id = <<b.id[1], b.id[2]>> /\ b.id[1] \in Nat /\ b.id[2] \in Nat
  BY FieldsOfKeys
<1>1. MaxTime \in Nat
  BY ResultsAssumption
<1>2. /\ KeyIndex(a.key) \in Nat /\ KeyIndex(b.key) \in Nat
      /\ KeyIndex(a.key) = KeyIndex(b.key) => a.key = b.key
  BY <1>k, <1>l, KeysHavePlaces
<1>3. ~After(a, a)
  BY <1>k, <1>2 DEF After, IdAfter
<1>4. After(a, NoCursor) /\ After(b, NoCursor)
  BY <1>k, <1>l, <1>1 DEF After, NoCursor
<1>5. a.id # b.id => After(a, b) \/ After(b, a)
  BY <1>k, <1>l, <1>2 DEF After, IdAfter
<1>6. ASSUME NEW c \in SortKeys, After(a, b), After(b, c) PROVE After(a, c)
  <2>1. /\ c.created \in Nat /\ c.run \in Nat /\ c.id[1] \in Nat /\ c.id[2] \in Nat /\ c.key \in Range(MetricKeys)
    BY FieldsOfKeys
  <2>2. KeyIndex(c.key) \in Nat
    BY <2>1, KeysHavePlaces
  <2>q. QED BY <1>k, <1>l, <1>2, <1>6, <2>1, <2>2 DEF After, IdAfter
<1>q. QED BY <1>3, <1>4, <1>5, <1>6

LEMMA SortKeyIs ==
    ASSUME RunsStored, ValuesStored, NEW v \in values
    PROVE  SortKey(v) \in SortKeys /\ SortKey(v).id = v.id
BY DEF RunsStored, ValuesStored, SortKey, SortKeys

LEMMA PairIsFinite == ASSUME NEW a, NEW b PROVE IsFiniteSet({a, b})
<1>1. IsFiniteSet({a}) /\ {a, b} = {a} \cup {b}
  BY FS_Singleton
<1>q. QED BY <1>1, FS_AddElement

LEMMA LimitIsPositive == ASSUME NEW limit \in Nat PROVE ClampedLimit(limit) \in Nat \ {0}
<1> DEFINE least == Min({limit, MaxLimit})
           both == {1, least}
<1>0. MaxLimit \in Nat /\ {limit, MaxLimit} # {} /\ {limit, MaxLimit} \subseteq Int /\ IsFiniteSet({limit, MaxLimit})
  <2>1. IsFiniteSet({limit, MaxLimit})
    BY PairIsFinite
  <2>q. QED BY <2>1, LimitsArePositive
<1>1. least \in {limit, MaxLimit}
  BY <1>0, Extremes
<1> HIDE DEF least
<1>2. both # {} /\ both \subseteq Int /\ IsFiniteSet(both)
  BY <1>0, <1>1, PairIsFinite
<1>3. Max(both) \in both /\ \A x \in both : Max(both) >= x
  <2> HIDE DEF both
  <2>q. QED BY <1>2, Extremes
<1>q. QED BY <1>0, <1>1, <1>3 DEF ClampedLimit, least

\* A page are the first rows after its cursor, and there is more when there are others.
Answers(read, cursor) ==
    /\ read.rows \in Seq(values) /\ read.more \in BOOLEAN
    /\ \A i \in DOMAIN read.rows : After(SortKey(read.rows[i]), cursor)
    /\ \A i, j \in DOMAIN read.rows : i < j => After(SortKey(read.rows[j]), SortKey(read.rows[i]))
    /\ read.more => Len(read.rows) > 0
    /\ \A v \in values : After(SortKey(v), cursor) =>
           \/ \E i \in DOMAIN read.rows : read.rows[i] = v
           \/ read.more /\ After(SortKey(v), SortKey(Last(read.rows)))

LEMMA QueryAnswers ==
    ASSUME RunsStored, ValuesStored, NEW cursor, NEW limit \in Nat
    PROVE  Answers(QueryResults(cursor, limit), cursor)
<1> DEFINE matching == {v \in BaseStatement : After(SortKey(v), cursor)}
           R == {p \in matching \X matching : After(SortKey(p[2]), SortKey(p[1]))}
           n == Cardinality(matching)
           o == InOrder(R, matching)
           size == ClampedLimit(limit)
           m == Min({size, n})
           rows == SubSeq(o, 1, m)
<1>1. BaseStatement = values
  BY DEF BaseStatement, ValuesStored
<1>2. IsFiniteSet(matching) /\ matching \subseteq values
  BY <1>1, FS_Subset DEF RunsStored
<1>3. StrictlyOrders(R, matching)
  <2>1. \A v \in matching : SortKey(v) \in SortKeys /\ SortKey(v).id = v.id
    BY <1>2, SortKeyIs
  <2>2. \A v, w \in matching : v # w => SortKey(v).id # SortKey(w).id
    BY <1>2, <2>1 DEF ValuesStored
  <2>3. \A v, w \in matching : <<v, w>> \in R <=> After(SortKey(w), SortKey(v))
    OBVIOUS
  <2> HIDE DEF R, matching
  <2>4. \A v \in matching : ~After(SortKey(v), SortKey(v))
    BY <2>1, AfterOrders
  <2>5. \A v, w \in matching : v # w => After(SortKey(v), SortKey(w)) \/ After(SortKey(w), SortKey(v))
    BY <2>1, <2>2, AfterOrders
  <2>6. ASSUME NEW u \in matching, NEW v \in matching, NEW w \in matching,
               After(SortKey(v), SortKey(u)), After(SortKey(w), SortKey(v))
        PROVE  After(SortKey(w), SortKey(u))
    BY <2>1, <2>6, AfterOrders
  <2>q. QED BY <2>3, <2>4, <2>5, <2>6 DEF StrictlyOrders
<1>4. /\ n \in Nat /\ o \in [1..n -> matching]
      /\ \A v \in matching : \E i \in 1..n : o[i] = v
      /\ \A i, j \in 1..n : i < j => <<o[i], o[j]>> \in R
  <2> HIDE DEF R, matching
  <2>q. QED BY <1>2, <1>3, InOrderIs
<1>5. \A i, j \in 1..n : i < j => After(SortKey(o[j]), SortKey(o[i]))
  <2> HIDE DEF o, n, matching
  <2>q. QED BY <1>4
<1>6. size \in Nat \ {0}
  BY LimitIsPositive
<1>7. QueryResults(cursor, limit) = [rows |-> SubSeq(o, 1, Min({size, Len(o)})), more |-> Len(o) > size]
  <2>1. \A v \in matching : {w \in matching : After(SortKey(v), SortKey(w))} = Below(R, matching, v)
    BY DEF Below
  <2>2. o = [i \in 1..n |-> CHOOSE v \in matching :
                               Cardinality({w \in matching : After(SortKey(v), SortKey(w))}) = i - 1]
    <3>1. ASSUME NEW i \in 1..n
          PROVE  (CHOOSE v \in matching : Cardinality({w \in matching : After(SortKey(v), SortKey(w))}) = i - 1)
                     = CHOOSE v \in matching : Cardinality(Below(R, matching, v)) = i - 1
      <4>1. \A v \in matching : Cardinality({w \in matching : After(SortKey(v), SortKey(w))}) = i - 1
                                  <=> Cardinality(Below(R, matching, v)) = i - 1
        BY <2>1
      <4> HIDE DEF R, matching
      <4>q. QED BY <4>1
    <3> HIDE DEF R, matching
    <3>q. QED BY <3>1 DEF InOrder
  <2>q. QED BY <2>2 DEF QueryResults
<1>8. o \in Seq(values) /\ Len(o) = n /\ DOMAIN o = 1..n
  <2> HIDE DEF o, n, matching
  <2>q. QED BY <1>2, <1>4
<1>9. /\ m \in 0..n /\ m <= size /\ (n > size => m = size) /\ (n <= size => m = n)
  <2>1. {size, n} # {} /\ {size, n} \subseteq Int /\ IsFiniteSet({size, n})
    <3>1. IsFiniteSet({size, n})
      BY PairIsFinite
    <3> HIDE DEF size, n
    <3>q. QED BY <1>4, <1>6, <3>1
  <2>2. m \in {size, n} /\ \A x \in {size, n} : m <= x
    <3> HIDE DEF size, n
    <3>q. QED BY <2>1, Extremes
  <2> HIDE DEF size, n, m
  <2>q. QED BY <1>4, <1>6, <2>2
<1>10. /\ rows \in Seq(values) /\ Len(rows) = m /\ DOMAIN rows = 1..m
       /\ \A i \in 1..m : rows[i] = o[i]
  <2> HIDE DEF o, n, m
  <2>1. \A i \in 1..m : o[i] \in values
    BY <1>8, <1>9, <1>4
  <2>2. /\ rows \in Seq(values) /\ Len(rows) = IF 1 <= m THEN m - 1 + 1 ELSE 0
        /\ \A i \in 1..m - 1 + 1 : rows[i] = o[1 + i - 1]
    BY <1>9, <2>1, SubSeqProperties
  <2> HIDE DEF rows
  <2>q. QED BY <1>4, <1>9, <2>2
<1>11. \A i \in 1..n : After(SortKey(o[i]), cursor)
  <2>1. \A v \in matching : After(SortKey(v), cursor)
    OBVIOUS
  <2> HIDE DEF o, n, matching
  <2>q. QED BY <1>4, <2>1
<1> DEFINE read == QueryResults(cursor, limit)
<1>12. read.rows = rows /\ read.more = (n > size)
  <2> HIDE DEF o, n, size, read
  <2>1. read = [rows |-> SubSeq(o, 1, Min({size, n})), more |-> n > size]
    BY <1>7, <1>8 DEF read
  <2>q. QED BY <2>1
<1>13. ASSUME NEW v \in values, After(SortKey(v), cursor)
       PROVE  (\E i \in DOMAIN rows : rows[i] = v) \/ (n > size /\ After(SortKey(v), SortKey(Last(rows))))
  <2>1. v \in matching
    BY <1>1, <1>13
  <2> HIDE DEF o, n, matching, rows, m, size
  <2>2. PICK i \in 1..n : o[i] = v
    BY <1>4, <2>1
  <2>3. CASE i <= m
    BY <1>10, <2>2, <2>3, <1>9
  <2>4. CASE i > m
    <3>1. n > size /\ m = size /\ m \in 1..n
      BY <1>4, <1>6, <1>9, <2>4
    <3>2. Last(rows) = o[m]
      BY <1>10, <3>1 DEF Last
    <3>q. QED BY <1>5, <2>2, <2>4, <3>1, <3>2
  <2>q. QED BY <1>4, <1>9, <2>3, <2>4
<1> HIDE DEF o, n, m, rows, size, read, matching, R
<1>14. \A i \in DOMAIN rows : After(SortKey(rows[i]), cursor)
  BY <1>4, <1>9, <1>10, <1>11
<1>15. \A i, j \in DOMAIN rows : i < j => After(SortKey(rows[j]), SortKey(rows[i]))
  BY <1>4, <1>5, <1>9, <1>10
<1>16. n > size => Len(rows) > 0
  BY <1>4, <1>6, <1>9, <1>10
<1>17. (n > size) \in BOOLEAN
  OBVIOUS
<1>q. QED BY <1>10, <1>12, <1>13, <1>14, <1>15, <1>16, <1>17 DEF Answers, read

-----------------------------------------------------------------------------
\* What a writer does to a reader: rows keep their place while they are there, and a
\* new row has an id that none had before.
RowsSurvive ==
    /\ rewrites' >= rewrites
    /\ \A v \in values' : (v \in values /\ SortKey(v)' = SortKey(v)) \/ v.id[1] >= rewrites

LEMMA CreateRunStores ==
    ASSUME RunsStored, ValuesStored, NEW run \in RunIds, NEW subject, NEW later \in {0, 1},
           CreateRun(run, subject, later)
    PROVE  RunsStored' /\ ValuesStored' /\ RowsSurvive
<1>1. /\ run \notin DOMAIN stored /\ clock' \in 1..MaxTime /\ values' = values /\ rewrites' = rewrites
      /\ DOMAIN stored' = DOMAIN stored \cup {run}
      /\ stored' = [r \in DOMAIN stored' |-> stored'[r]]
      /\ stored'[run] = [subject |-> subject, created |-> clock', status |-> "running"]
      /\ \A r \in DOMAIN stored : stored'[r] = stored[r]
  BY DEF CreateRun
<1>2. MaxTime \in Nat /\ IsFiniteSet(DOMAIN stored')
  BY <1>1, ResultsAssumption, FS_AddElement DEF RunsStored
<1>3. RunsStored'
  <2>1. \A r \in DOMAIN stored' :
            /\ stored'[r] = [subject |-> stored'[r].subject, created |-> stored'[r].created, status |-> stored'[r].status]
            /\ stored'[r].created \in 1..MaxTime
    BY <1>1 DEF RunsStored
  <2>q. QED BY <1>1, <1>2, <2>1 DEF RunsStored
<1>4. \A v \in values : v.run \in DOMAIN stored /\ stored'[v.run] = stored[v.run]
  BY <1>1 DEF ValuesStored
<1>5. ValuesStored'
  BY <1>1, <1>4 DEF ValuesStored
<1>6. RowsSurvive
  BY <1>1, <1>4 DEF RowsSurvive, SortKey, RunsStored
<1>q. QED BY <1>3, <1>5, <1>6

LEMMA AggregateStores ==
    ASSUME RunsStored, ValuesStored, NEW run \in RunIds, NEW rows \in MetricRows, Aggregate(run, rows)
    PROVE  RunsStored' /\ ValuesStored' /\ RowsSurvive /\ page' = StillThere(values')
<1> DEFINE new == SetToSeq(rows)
           n == Cardinality(rows)
           added == {Row(<<rewrites, i>>, run, new[i]) : i \in DOMAIN new}
           kept == {v \in values : v.run # run}
<1>1. /\ run \in DOMAIN stored /\ values' = kept \cup added /\ page' = StillThere(values') /\ rewrites' = rewrites + 1
      /\ stored' = [stored EXCEPT ![run].status = "completed"] /\ clock' = clock
  BY DEF Aggregate, ReplaceForRun
<1>2. /\ stored' = [r \in DOMAIN stored' |-> stored'[r]] /\ DOMAIN stored' = DOMAIN stored
      /\ stored'[run].status = "completed" /\ stored'[run].created = stored[run].created
      /\ \A r \in DOMAIN stored' : stored'[r] = [subject |-> stored'[r].subject, created |-> stored'[r].created,
                                                 status |-> stored'[r].status]
      /\ \A r \in DOMAIN stored \ {run} : stored'[r] = stored[r]
  <2>1. /\ stored' = [r \in DOMAIN stored' |-> stored'[r]] /\ DOMAIN stored' = DOMAIN stored
        /\ stored'[run] = [stored[run] EXCEPT !.status = "completed"]
        /\ \A r \in DOMAIN stored \ {run} : stored'[r] = stored[r]
    BY <1>1 DEF RunsStored
  <2>2. stored'[run] = [subject |-> stored[run].subject, created |-> stored[run].created, status |-> "completed"]
    BY <1>1, <2>1 DEF RunsStored
  <2>q. QED BY <1>1, <2>1, <2>2 DEF RunsStored
<1>3. /\ n \in Nat /\ new \in [1..n -> rows] /\ \A row \in rows : row.key \in Range(MetricKeys)
  <2>1. IsFiniteSet(rows) /\ \A row \in rows : row.key \in Range(MetricKeys)
    BY ResultsAssumption
  <2>2. n \in Nat /\ \E f \in [1..n -> rows] : IsInjective(f)
    BY <2>1, ListingIs
  <2>q. QED BY <2>1, <2>2 DEF SetToSeq
<1>4. IsFiniteSet(kept) /\ IsFiniteSet(added) /\ rewrites \in Nat
  <2>1. IsFiniteSet(DOMAIN new)
    <3> HIDE DEF n, new
    <3>1. IsFiniteSet(1..n) /\ DOMAIN new = 1..n
      BY <1>3, FS_Interval
    <3>q. QED BY <3>1
  <2> DEFINE f == [i \in DOMAIN new |-> Row(<<rewrites, i>>, run, new[i])]
  <2>2. added = {f[i] : i \in DOMAIN new}
    OBVIOUS
  <2> HIDE DEF f, added, new
  <2>3. IsFiniteSet(added)
    BY <2>1, <2>2, FiniteImage
  <2>4. IsFiniteSet(kept)
    BY FS_Subset DEF RunsStored
  <2>q. QED BY <2>3, <2>4 DEF RunsStored
<1>5. \A v \in added : /\ v.run = run /\ v.key \in Range(MetricKeys) /\ v.id \in Ids /\ v.id[1] = rewrites
                       /\ \E i \in 1..n : v = Row(<<rewrites, i>>, run, new[i]) /\ v.id = <<rewrites, i>>
  BY <1>3, <1>4 DEF Row, Ids
<1> HIDE DEF added, new, n
<1>6. RunsStored'
  <2>1. IsFiniteSet(values')
    BY <1>1, <1>4, FS_Union
  <2>2. \A r \in DOMAIN stored' : stored'[r].created \in 1..MaxTime
    BY <1>2 DEF RunsStored
  <2>q. QED BY <1>1, <1>2, <2>1, <2>2 DEF RunsStored
<1>7. \A v \in values' : /\ v.run \in DOMAIN stored' /\ stored'[v.run].status = "completed"
                         /\ v.key \in Range(MetricKeys) /\ v.id \in Ids /\ v.id[1] < rewrites'
  <2>1. \A v \in kept : v.id[1] < rewrites + 1
    BY <1>4 DEF ValuesStored, Ids
  <2>2. \A v \in added : v.id[1] < rewrites + 1
    BY <1>4, <1>5
  <2>q. QED BY <1>1, <1>2, <1>5, <2>1, <2>2 DEF ValuesStored
<1>8. ASSUME NEW v \in values', NEW w \in values', v.id = w.id PROVE v = w
  <2>1. CASE v \in kept /\ w \in kept
    BY <1>8, <2>1 DEF ValuesStored
  <2>2. CASE v \in added /\ w \in added
    <3>1. PICK i \in 1..n : v = Row(<<rewrites, i>>, run, new[i]) /\ v.id = <<rewrites, i>>
      BY <1>5, <2>2
    <3>2. PICK j \in 1..n : w = Row(<<rewrites, j>>, run, new[j]) /\ w.id = <<rewrites, j>>
      BY <1>5, <2>2
    <3>3. i = j
      BY <1>8, <3>1, <3>2
    <3>q. QED BY <3>1, <3>2, <3>3
  <2>3. \A u \in kept, x \in added : u.id # x.id
    BY <1>4, <1>5 DEF ValuesStored, Ids
  <2>q. QED BY <1>1, <1>8, <2>1, <2>2, <2>3
<1>9. RowsSurvive
  <2>1. \A v \in kept : v \in values /\ SortKey(v)' = SortKey(v)
    BY <1>2 DEF ValuesStored, SortKey
  <2>2. \A v \in added : v.id[1] >= rewrites
    BY <1>4, <1>5
  <2>q. QED BY <1>1, <1>4, <2>1, <2>2 DEF RowsSurvive
<1>10. ValuesStored'
  BY <1>7, <1>8 DEF ValuesStored
<1>q. QED BY <1>1, <1>6, <1>9, <1>10

LEMMA DeleteRunStores ==
    ASSUME RunsStored, ValuesStored, NEW run \in RunIds, DeleteRun(run)
    PROVE  RunsStored' /\ ValuesStored' /\ RowsSurvive /\ page' = StillThere(values')
<1>1. /\ stored' = [r \in DOMAIN stored' |-> stored'[r]] /\ DOMAIN stored' = DOMAIN stored \ {run}
      /\ \A r \in DOMAIN stored' : stored'[r] = stored[r]
      /\ values' = {v \in values : v.run # run} /\ page' = StillThere(values')
      /\ clock' = clock /\ rewrites' = rewrites
  BY DEF DeleteRun
<1>2. IsFiniteSet(DOMAIN stored') /\ IsFiniteSet(values')
  BY <1>1, FS_Subset DEF RunsStored
<1>3. RunsStored'
  BY <1>1, <1>2 DEF RunsStored
<1>4. \A v \in values' : v \in values /\ v.run \in DOMAIN stored' /\ stored'[v.run] = stored[v.run]
  BY <1>1 DEF ValuesStored
<1>5. ValuesStored'
  BY <1>1, <1>4 DEF ValuesStored
<1>6. RowsSurvive
  BY <1>1, <1>4 DEF RowsSurvive, SortKey, RunsStored
<1>q. QED BY <1>1, <1>3, <1>5, <1>6

-----------------------------------------------------------------------------
\* A page that is being read is not disturbed by what is written meanwhile.
LEMMA PageSurvives ==
    ASSUME RunsStored, ValuesStored, PageFollows, PagesAreExact, RunsStored', ValuesStored', RowsSurvive,
           page' = StillThere(values')
    PROVE  PageFollows' /\ PagesAreExact'
<1> DEFINE ids == {v.id : v \in values'}
<1>1. /\ page' = [page EXCEPT !.throughout = page.throughout \cap ids]
      /\ page'.phase = page.phase /\ page'.cursor = page.cursor /\ page'.shown = page.shown
      /\ page'.throughout = page.throughout \cap ids
      /\ page'.phase \in {"idle", "paging", "done"} /\ page'.cursor \in SortKeys \cup {NoCursor}
      /\ page'.shown \in Seq(Ids) /\ page'.throughout \subseteq Ids
  BY DEF StillThere, PageFollows
<1>2. page' \in [phase : {"idle", "paging", "done"}, cursor : SortKeys \cup {NoCursor},
                 shown : Seq(Ids), throughout : SUBSET Ids]
  <2> HIDE DEF ids
  <2>q. QED BY <1>1 DEF PageFollows
<1>3. rewrites \in Nat /\ rewrites' \in Nat /\ rewrites' >= rewrites
  BY DEF RunsStored, RowsSurvive
<1>4. \A i \in DOMAIN page'.shown : page'.shown[i][1] < rewrites'
  <2> SUFFICES ASSUME NEW i \in DOMAIN page.shown PROVE page.shown[i][1] < rewrites'
    BY <1>1
  <2>1. page.shown[i] \in Ids /\ page.shown[i][1] < rewrites
    BY <1>1 DEF PageFollows
  <2>q. QED BY <1>3, <2>1 DEF Ids
<1>5. ASSUME NEW v \in values', v.id \in ToSet(page.shown) \/ v.id \in page.throughout
      PROVE  v \in values /\ SortKey(v)' = SortKey(v)
  <2>1. v.id[1] < rewrites /\ v.id \in Ids
    BY <1>5 DEF PageFollows, ValuesStored, ToSet
  <2>2. ~(v.id[1] >= rewrites)
    BY <1>3, <2>1 DEF Ids
  <2>q. QED BY <2>2 DEF RowsSurvive
<1>6. ASSUME page'.phase = "paging", NEW v \in values'
      PROVE  /\ IsShown(v)' => ~After(SortKey(v)', page'.cursor)
             /\ v.id \in page'.throughout /\ ~IsShown(v)' => After(SortKey(v)', page'.cursor)
  <2>1. IsShown(v)' <=> IsShown(v)
    BY <1>1 DEF IsShown
  <2>2. v.id \in page'.throughout => v.id \in page.throughout
    BY <1>1
  <2>3. page.phase = "paging"
    BY <1>1, <1>6
  <2>4. CASE IsShown(v)
    <3>1. v \in values /\ SortKey(v)' = SortKey(v)
      BY <1>5, <2>4 DEF IsShown
    <3>2. ~After(SortKey(v), page.cursor)
      BY <2>3, <2>4, <3>1 DEF PageFollows
    <3>q. QED BY <1>1, <2>1, <2>4, <3>1, <3>2
  <2>5. CASE ~IsShown(v) /\ v.id \in page.throughout
    <3>1. v \in values /\ SortKey(v)' = SortKey(v)
      BY <1>5, <2>5
    <3>2. After(SortKey(v), page.cursor)
      BY <2>3, <2>5, <3>1 DEF PageFollows
    <3>q. QED BY <1>1, <2>1, <2>5, <3>1, <3>2
  <2>q. QED BY <2>1, <2>2, <2>4, <2>5
<1>7. PageFollows'
  <2>1. page'.phase = "idle" => page'.shown = <<>>
    BY <1>1 DEF PageFollows
  <2>2. page'.throughout \subseteq ids
    BY <1>1
  <2>q. QED BY <1>2, <1>4, <1>6, <2>1, <2>2 DEF PageFollows
<1>8. PagesAreExact'
  <2> HIDE DEF ids
  <2>q. QED BY <1>1 DEF PagesAreExact
<1>q. QED BY <1>7, <1>8

Distinct(s) == \A i, j \in DOMAIN s : s[i] = s[j] => i = j
LEMMA JoinedIs ==
    ASSUME NEW S, NEW s \in Seq(S), NEW u \in Seq(S)
    PROVE  /\ s \o u \in Seq(S) /\ ToSet(s \o u) = ToSet(s) \cup ToSet(u)
           /\ Distinct(s) /\ Distinct(u) /\ ToSet(s) \cap ToSet(u) = {} => Distinct(s \o u)
<1> DEFINE w == s \o u
           m == Len(s)
           n == Len(u)
<1>1. /\ m \in Nat /\ n \in Nat /\ DOMAIN s = 1..m /\ DOMAIN u = 1..n
      /\ w \in Seq(S) /\ DOMAIN w = 1..m + n
      /\ \A i \in 1..m + n : w[i] = IF i <= m THEN s[i] ELSE u[i - m]
  <2>1. w \in Seq(S) /\ Len(w) = m + n /\ \A i \in 1..m + n : w[i] = IF i <= m THEN s[i] ELSE u[i - m]
    BY ConcatProperties
  <2> HIDE DEF w
  <2>q. QED BY <2>1, LenProperties
<1> HIDE DEF w, m, n
<1>2. \A i \in 1..m : i \in 1..m + n /\ w[i] = s[i]
  BY <1>1
<1>3. \A i \in 1..n : i + m \in 1..m + n /\ w[i + m] = u[i]
  BY <1>1
<1>4. \A i \in 1..m + n : (i \in 1..m /\ w[i] = s[i]) \/ (i - m \in 1..n /\ w[i] = u[i - m])
  BY <1>1
<1>5. ToSet(w) = ToSet(s) \cup ToSet(u)
  <2>1. /\ ToSet(w) = {w[i] : i \in 1..m + n}
        /\ ToSet(s) = {s[i] : i \in 1..m} /\ ToSet(u) = {u[i] : i \in 1..n}
    BY <1>1 DEF ToSet
  <2>2. \A x \in ToSet(w) : x \in ToSet(s) \cup ToSet(u)
    BY <1>4, <2>1
  <2>3. \A x \in ToSet(s) : x \in ToSet(w)
    BY <1>2, <2>1
  <2>4. \A x \in ToSet(u) : x \in ToSet(w)
    BY <1>3, <2>1
  <2>q. QED BY <2>2, <2>3, <2>4
<1>6. ASSUME Distinct(s), Distinct(u), ToSet(s) \cap ToSet(u) = {},
             NEW i \in DOMAIN w, NEW j \in DOMAIN w, w[i] = w[j]
      PROVE  i = j
  <2>1. \A k \in 1..m, l \in 1..n : s[k] # u[l]
    <3> SUFFICES ASSUME NEW k \in 1..m, NEW l \in 1..n PROVE s[k] # u[l]
      OBVIOUS
    <3>1. s[k] \in ToSet(s) /\ u[l] \in ToSet(u)
      BY <1>1 DEF ToSet
    <3>q. QED BY <1>6, <3>1
  <2>2. i \in 1..m + n /\ j \in 1..m + n
    BY <1>1
  <2>3. CASE i \in 1..m /\ w[i] = s[i] /\ j \in 1..m /\ w[j] = s[j]
    BY <1>1, <1>6, <2>3 DEF Distinct
  <2>4. CASE i - m \in 1..n /\ w[i] = u[i - m] /\ j - m \in 1..n /\ w[j] = u[j - m]
    <3>1. i - m = j - m
      BY <1>1, <1>6, <2>4 DEF Distinct
    <3>q. QED BY <1>1, <2>2, <3>1
  <2>q. QED BY <1>4, <1>6, <2>1, <2>2, <2>3, <2>4
<1>q. QED BY <1>1, <1>5, <1>6 DEF w, Distinct

LEMMA OpenPageFollows ==
    ASSUME RunsStored, ValuesStored, PageFollows, PagesAreExact, OpenPage
    PROVE  PageFollows' /\ PagesAreExact'
<1> DEFINE ids == {v.id : v \in BaseStatement}
<1>1. /\ page' = [phase |-> "paging", cursor |-> NoCursor, shown |-> <<>>, throughout |-> ids]
      /\ stored' = stored /\ values' = values /\ rewrites' = rewrites
  BY DEF OpenPage
<1>2. ids = {v.id : v \in values} /\ ids \subseteq Ids
  BY DEF BaseStatement, ValuesStored
<1>3. \A v \in values : After(SortKey(v), NoCursor)
  BY SortKeyIs, AfterOrders
<1>4. \A v \in values : SortKey(v)' = SortKey(v)
  BY <1>1 DEF SortKey
<1> HIDE DEF ids
<1>5. <<>> \in Seq(Ids) /\ DOMAIN <<>> = {} /\ ToSet(<<>>) = {}
  BY DEF ToSet
<1>6. page' \in [phase : {"idle", "paging", "done"}, cursor : SortKeys \cup {NoCursor},
                 shown : Seq(Ids), throughout : SUBSET Ids]
  BY <1>1, <1>2, <1>5
<1>7. PageFollows'
  <2>1. \A v \in values' : ~IsShown(v)' /\ After(SortKey(v)', page'.cursor)
    BY <1>1, <1>3, <1>4, <1>5 DEF IsShown
  <2>q. QED BY <1>1, <1>2, <1>5, <1>6, <2>1 DEF PageFollows
<1>q. QED BY <1>1, <1>5, <1>7 DEF PagesAreExact

\* The next page shows the first rows after the cursor, none of which was shown; the
\* new cursor is the last of them, and there is none after it at the end.
LEMMA NextPageFollows ==
    ASSUME RunsStored, ValuesStored, PageFollows, PagesAreExact, NextPage
    PROVE  PageFollows' /\ PagesAreExact'
<1> DEFINE read == QueryResults(page.cursor, PageLimit)
           rows == read.rows
           n == Len(rows)
           ids == [i \in DOMAIN rows |-> rows[i].id]
           shown == page.shown \o ids
<1>1. /\ page.phase = "paging"
      /\ page' = [page EXCEPT !.shown = shown,
                              !.cursor = IF read.more THEN SortKey(Last(rows)) ELSE page.cursor,
                              !.phase = IF read.more THEN page.phase ELSE "done"]
      /\ stored' = stored /\ values' = values /\ rewrites' = rewrites
  BY DEF NextPage
<1>2. Answers(read, page.cursor)
  BY QueryAnswers, LimitsArePositive
<1> HIDE DEF read
<1>3. /\ n \in Nat /\ DOMAIN rows = 1..n /\ rows \in Seq(values) /\ \A i \in 1..n : rows[i] \in values
      /\ \A i \in 1..n : rows[i].id \in Ids /\ rows[i].id[1] < rewrites
  BY <1>2 DEF Answers, ValuesStored
<1>4. \A v \in values : SortKey(v) \in SortKeys /\ SortKey(v)' = SortKey(v)
  BY <1>1, SortKeyIs DEF SortKey
<1>5. \A v \in values : IsShown(v) => ~After(SortKey(v), page.cursor)
  BY <1>1 DEF PageFollows
<1> HIDE DEF rows, n
<1>6. ids \in Seq(Ids) /\ DOMAIN ids = 1..n /\ \A i \in 1..n : ids[i] = rows[i].id
  BY <1>3
<1>7. \A i, j \in DOMAIN ids : ids[i] = ids[j] => i = j
  <2> SUFFICES ASSUME NEW i \in 1..n, NEW j \in 1..n, i < j PROVE rows[i].id # rows[j].id
    BY <1>3, <1>6
  <2>1. After(SortKey(rows[j]), SortKey(rows[i]))
    BY <1>2, <1>3 DEF Answers, rows
  <2>2. rows[i] # rows[j]
    BY <1>3, <1>4, <2>1, AfterOrders
  <2>q. QED BY <1>3, <2>2 DEF ValuesStored
<1>8. ToSet(ids) = {rows[i].id : i \in 1..n}
  <2> HIDE DEF ids
  <2>q. QED BY <1>6 DEF ToSet
<1>9. ToSet(page.shown) \cap ToSet(ids) = {}
  <2> SUFFICES ASSUME NEW i \in 1..n, rows[i].id \in ToSet(page.shown) PROVE FALSE
    BY <1>8
  <2>1. After(SortKey(rows[i]), page.cursor)
    BY <1>2, <1>3 DEF Answers, rows
  <2>q. QED BY <1>3, <1>5, <2>1 DEF IsShown
<1> HIDE DEF ids
<1>10. /\ shown \in Seq(Ids) /\ ToSet(shown) = ToSet(page.shown) \cup ToSet(ids)
       /\ Distinct(shown)
  <2>1. page.shown \in Seq(Ids) /\ Distinct(page.shown) /\ Distinct(ids)
    BY <1>7 DEF PageFollows, PagesAreExact, Distinct
  <2>q. QED BY <1>6, <1>9, <2>1, JoinedIs
<1> HIDE DEF shown
<1>11. \A i \in DOMAIN shown : shown[i][1] < rewrites
  <2> SUFFICES ASSUME NEW x \in ToSet(shown) PROVE x[1] < rewrites
    BY DEF ToSet
  <2>1. \A y \in ToSet(page.shown) : y[1] < rewrites
    BY DEF PageFollows, ToSet
  <2>q. QED BY <1>3, <1>8, <1>10, <2>1
<1>12. /\ page'.shown = shown /\ page'.throughout = page.throughout
       /\ page'.cursor = IF read.more THEN SortKey(Last(rows)) ELSE page.cursor
       /\ page'.phase = IF read.more THEN "paging" ELSE "done"
  BY <1>1 DEF PageFollows
<1>13. read.more => Last(rows) \in values /\ n > 0 /\ Last(rows) = rows[n]
  BY <1>2, <1>3 DEF Answers, Last, rows, n
<1>14. page' \in [phase : {"idle", "paging", "done"}, cursor : SortKeys \cup {NoCursor},
                  shown : Seq(Ids), throughout : SUBSET Ids]
  <2> DEFINE cursor == IF read.more THEN SortKey(Last(rows)) ELSE page.cursor
             phase == IF read.more THEN page.phase ELSE "done"
  <2>1. cursor \in SortKeys \cup {NoCursor} /\ phase \in {"idle", "paging", "done"}
    BY <1>1, <1>4, <1>13 DEF PageFollows
  <2>2. page' = [page EXCEPT !.shown = shown, !.cursor = cursor, !.phase = phase]
    BY <1>1
  <2> HIDE DEF cursor, phase
  <2>q. QED BY <1>10, <2>1, <2>2 DEF PageFollows
<1>15. ASSUME NEW v \in values, v.id \in page.throughout, v.id \notin ToSet(shown)
       PROVE  read.more /\ After(SortKey(v), SortKey(Last(rows)))
  <2>1. After(SortKey(v), page.cursor)
    BY <1>1, <1>10, <1>15 DEF PageFollows, IsShown
  <2>2. \A i \in 1..n : rows[i] # v
    BY <1>8, <1>10, <1>15
  <2>q. QED BY <1>2, <1>3, <2>1, <2>2 DEF Answers, rows
<1>16. ASSUME read.more, NEW v \in values, v.id \in ToSet(shown)
       PROVE  ~After(SortKey(v), SortKey(rows[n]))
  <2>1. CASE v.id \in ToSet(page.shown)
    <3>1. ~After(SortKey(v), page.cursor)
      BY <1>5, <2>1 DEF IsShown
    <3>2. n \in 1..n /\ After(SortKey(rows[n]), page.cursor) /\ SortKey(rows[n]) \in SortKeys
      BY <1>2, <1>3, <1>4, <1>13, <1>16 DEF Answers, rows
    <3>3. page.cursor \in SortKeys \cup {NoCursor}
      BY DEF PageFollows
    <3>q. QED BY <1>4, <3>1, <3>2, <3>3, AfterOrders
  <2>2. CASE v.id \in ToSet(ids)
    <3>1. PICK i \in 1..n : v = rows[i]
      BY <1>3, <1>8, <2>2 DEF ValuesStored
    <3>2. i < n => After(SortKey(rows[n]), SortKey(v))
      BY <1>2, <1>3, <1>13, <1>16, <3>1 DEF Answers, rows
    <3>3. n \in 1..n /\ SortKey(rows[n]) \in SortKeys
      BY <1>3, <1>4, <1>13, <1>16
    <3>4. i < n \/ i = n
      BY <1>3
    <3>q. QED BY <1>4, <3>1, <3>2, <3>3, <3>4, AfterOrders
  <2>q. QED BY <1>10, <1>16, <2>1, <2>2
<1>17. PageFollows'
  <2>1. ASSUME page'.phase = "paging", NEW v \in values'
        PROVE  /\ IsShown(v)' => ~After(SortKey(v)', page'.cursor)
               /\ v.id \in page'.throughout /\ ~IsShown(v)' => After(SortKey(v)', page'.cursor)
    BY <1>1, <1>4, <1>12, <1>13, <1>15, <1>16, <2>1 DEF IsShown
  <2>2. page'.phase # "idle" /\ page'.throughout \subseteq {v.id : v \in values}
    BY <1>12 DEF PageFollows
  <2>q. QED BY <1>1, <1>11, <1>12, <1>14, <2>1, <2>2 DEF PageFollows
<1>18. PagesAreExact'
  <2>1. page'.phase = "done" => page'.throughout \subseteq ToSet(shown)
    <3> SUFFICES ASSUME ~read.more, NEW x \in page.throughout PROVE x \in ToSet(shown)
      BY <1>12
    <3>1. PICK v \in values : v.id = x
      BY DEF PageFollows
    <3>q. QED BY <1>15, <3>1
  <2>q. QED BY <1>10, <1>12, <2>1 DEF PagesAreExact, Distinct
<1>q. QED BY <1>17, <1>18

-----------------------------------------------------------------------------
\* An export: the snapshot does not change while the runs are written.
LEMMA ExportRests ==
    ASSUME ExportFollows, UNCHANGED export
    PROVE  ExportFollows'
BY DEF ExportFollows, Bundle

\* A list of runs is a sequence of runs that are stored.
LEMMA ResolvedRuns ==
    ASSUME RunsStored, NEW suite, NEW since, NEW until, NEW ids \in ResolveRunIds(suite, since, until)
    PROVE  ids \in Seq(RunIds)
<1> DEFINE S == {r \in Windowed(since, until) : suite \in {Unreported, stored[r].subject.suite}}
<1>1. ids \in SetToSeqs(S)
  BY DEF ResolveRunIds
<1>2. S \in SUBSET DOMAIN stored /\ S \subseteq RunIds
  BY DEF Windowed, RunsStored
<1> HIDE DEF S
<1>3. Cardinality(S) \in Nat
  BY <1>2, FS_Subset, FS_CardinalityType DEF RunsStored
<1>4. ids \in [1..Cardinality(S) -> S]
  BY <1>1 DEF SetToSeqs
<1>q. QED BY <1>2, <1>3, <1>4

LEMMA BeginExportFollows ==
    ASSUME RunsStored, ExportFollows, NEW suite, NEW since, NEW until, BeginExport(suite, since, until)
    PROVE  ExportFollows'
<1>1. PICK ids \in ResolveRunIds(suite, since, until) :
        export' = [export EXCEPT !.phase = IF ids = <<>> \/ Len(ids) > MaxRuns THEN "refused" ELSE "head", !.runs = ids]
  BY DEF BeginExport
<1> DEFINE phase == IF ids = <<>> \/ Len(ids) > MaxRuns THEN "refused" ELSE "head"
<1>2. ids \in Seq(RunIds) /\ Len(ids) \in Nat
  BY ResolvedRuns
<1>3. phase \in {"refused", "head"} /\ export.phase = "idle" /\ export.written = <<>>
  BY DEF BeginExport, ExportFollows
<1>4. export' = [export EXCEPT !.phase = phase, !.runs = ids]
  BY <1>1
<1> HIDE DEF phase
<1>5. /\ export' = [phase |-> phase, runs |-> ids, written |-> <<>>, snapshot |-> export.snapshot, held |-> export.held]
  BY <1>3, <1>4 DEF ExportFollows
<1>6. <<>> \in Seq({Bundle(r) : r \in RunIds}') /\ Len(<<>>) = 0 /\ DOMAIN <<>> = {}
  BY EmptySeq
<1>q. QED BY <1>2, <1>3, <1>5, <1>6 DEF ExportFollows

LEMMA OpenSnapshotFollows ==
    ASSUME RunsStored, ExportFollows, OpenSnapshot
    PROVE  ExportFollows'
<1>1. /\ export' = [export EXCEPT !.phase = "writing", !.snapshot = values, !.held = DOMAIN stored]
      /\ export.written = <<>>
  BY DEF OpenSnapshot, ExportFollows
<1>2. export' = [phase |-> "writing", runs |-> export.runs, written |-> <<>>, snapshot |-> values, held |-> DOMAIN stored]
  BY <1>1 DEF ExportFollows
<1>3. <<>> \in Seq({Bundle(r) : r \in RunIds}') /\ Len(<<>>) = 0 /\ DOMAIN <<>> = {}
  BY EmptySeq
<1>4. export.runs \in Seq(RunIds) /\ Len(export.runs) \in Nat
  BY DEF ExportFollows
<1>q. QED BY <1>2, <1>3, <1>4 DEF ExportFollows

LEMMA WriteRunFollows ==
    ASSUME ExportFollows, WriteRun
    PROVE  ExportFollows'
<1> DEFINE n == Len(export.written)
           run == export.runs[n + 1]
           B == {Bundle(r) : r \in RunIds}
           written == Append(export.written, Bundle(run))
<1>1. export.phase = "writing" /\ n < Len(export.runs)
  BY DEF WriteRun
<1>2. n \in Nat /\ export.runs \in Seq(RunIds) /\ Len(export.runs) \in Nat /\ export.written \in Seq(B)
  BY DEF ExportFollows
<1>3. run \in RunIds /\ Bundle(run) \in B
  BY <1>1, <1>2
<1>4. CASE run \in export.held
  <2>1. export' = [export EXCEPT !.written = written]
    BY <1>4 DEF WriteRun
  <2>2. /\ written \in Seq(B) /\ Len(written) = n + 1 /\ DOMAIN written = 1..n + 1
        /\ \A i \in 1..n : written[i] = export.written[i]
        /\ written[n + 1] = Bundle(run)
    <3> HIDE DEF B
    <3>q. QED BY <1>2, <1>3
  <2> HIDE DEF written
  <2>3. export' = [phase |-> "writing", runs |-> export.runs, written |-> written,
                   snapshot |-> export.snapshot, held |-> export.held]
    BY <1>1, <2>1 DEF ExportFollows
  <2>4. \A r : Bundle(r)' = Bundle(r)
    BY <2>3 DEF Bundle
  <2>5. B' = B
    BY <2>4
  <2>6. DOMAIN export.written = 1..n /\ \A i \in 1..n : export.written[i] = Bundle(export.runs[i])
    BY <1>2 DEF ExportFollows
  <2>7. ASSUME NEW i \in 1..n + 1 PROVE written[i] = Bundle(export.runs[i])
    <3>1. n \in Nat
      BY <1>2
    <3> HIDE DEF n
    <3>2. CASE i \in 1..n
      BY <2>2, <2>6, <3>2
    <3>3. CASE i = n + 1
      BY <2>2, <3>3
    <3>q. QED BY <3>1, <3>2, <3>3
  <2>8. \A i \in DOMAIN written : written[i] = Bundle(export.runs[i])'
    BY <2>2, <2>3, <2>4, <2>7
  <2>9. written \in Seq({Bundle(r) : r \in RunIds})'
    BY <2>2, <2>5
  <2> HIDE DEF B
  <2>q. QED BY <1>1, <1>2, <2>2, <2>3, <2>8, <2>9 DEF ExportFollows
<1>5. CASE run \notin export.held
  <2>1. export' = [export EXCEPT !.phase = "torn"]
    BY <1>5 DEF WriteRun
  <2>2. export' = [phase |-> "torn", runs |-> export.runs, written |-> export.written,
                   snapshot |-> export.snapshot, held |-> export.held]
    BY <2>1 DEF ExportFollows
  <2>3. \A r : Bundle(r)' = Bundle(r)
    BY <2>2 DEF Bundle
  <2>q. QED BY <2>2, <2>3 DEF ExportFollows
<1>q. QED BY <1>4, <1>5

LEMMA WriteTailFollows ==
    ASSUME ExportFollows, WriteTail
    PROVE  ExportFollows'
<1>1. export' = [export EXCEPT !.phase = "done"] /\ Len(export.written) = Len(export.runs)
  BY DEF WriteTail
<1>2. export' = [phase |-> "done", runs |-> export.runs, written |-> export.written,
                 snapshot |-> export.snapshot, held |-> export.held]
  BY <1>1 DEF ExportFollows
<1>3. \A r : Bundle(r)' = Bundle(r)
  BY <1>2 DEF Bundle
<1>q. QED BY <1>1, <1>2, <1>3 DEF ExportFollows

-----------------------------------------------------------------------------
LEMMA ResultsInvInit == ResultsInit => ResultsInv
<1> SUFFICES ASSUME ResultsInit PROVE ResultsInv
  OBVIOUS
<1>1. /\ stored = <<>> /\ values = {} /\ clock = 1 /\ rewrites = 0
      /\ page = [phase |-> "idle", cursor |-> NoCursor, shown |-> <<>>, throughout |-> {}]
      /\ export = [phase |-> "idle", runs |-> <<>>, written |-> <<>>, snapshot |-> {}, held |-> {}]
  BY DEF ResultsInit
<1>2. DOMAIN <<>> = {} /\ Len(<<>>) = 0 /\ IsFiniteSet({}) /\ \A S : <<>> \in Seq(S)
  BY FS_EmptySet, EmptySeq
<1>3. RunsStored
  <2>1. stored = [r \in DOMAIN stored |-> stored[r]]
    BY <1>1
  <2>q. QED BY <1>1, <1>2, <2>1 DEF RunsStored
<1>4. ValuesStored
  BY <1>1 DEF ValuesStored
<1>5. PageFollows /\ PagesAreExact
  BY <1>1, <1>2 DEF PageFollows, PagesAreExact
<1>6. ExportFollows
  BY <1>1, <1>2 DEF ExportFollows
<1>q. QED BY <1>3, <1>4, <1>5, <1>6 DEF ResultsInv

LEMMA ResultsStep ==
    ASSUME ResultsInv, [ResultsNext]_resultVars
    PROVE  ResultsInv'
<1> USE DEF ResultsInv
<1>1. ASSUME UNCHANGED <<stored, values, clock, rewrites>> PROVE RunsStored' /\ ValuesStored'
  BY <1>1 DEF RunsStored, ValuesStored
<1>2. ASSUME UNCHANGED <<stored, values, clock, rewrites, page>>
      PROVE  RunsStored' /\ ValuesStored' /\ PageFollows' /\ PagesAreExact'
  <2>1. RunsStored' /\ ValuesStored'
    BY <1>1, <1>2
  <2>2. \A v : SortKey(v)' = SortKey(v) /\ IsShown(v)' = IsShown(v)
    BY <1>2 DEF SortKey, IsShown
  <2>3. PageFollows'
    BY <1>2, <2>2 DEF PageFollows
  <2>4. PagesAreExact'
    BY <1>2 DEF PagesAreExact
  <2>q. QED BY <2>1, <2>3, <2>4
<1>3. ASSUME NEW run \in RunIds, NEW subject \in Subjects, NEW later \in {0, 1}, CreateRun(run, subject, later)
      PROVE  ResultsInv'
  <2>1. RunsStored' /\ ValuesStored' /\ RowsSurvive
    BY <1>3, CreateRunStores
  <2>2. page' = page /\ values' = values /\ export' = export
    BY <1>3 DEF CreateRun
  <2>3. page' = StillThere(values')
    BY <2>2 DEF StillThere, PageFollows
  <2>q. QED BY <2>1, <2>2, <2>3, PageSurvives, ExportRests
<1>4. ASSUME NEW run \in RunIds, NEW rows \in MetricRows, Aggregate(run, rows) PROVE ResultsInv'
  <2>1. export' = export
    BY <1>4 DEF Aggregate
  <2>q. QED BY <1>4, <2>1, AggregateStores, PageSurvives, ExportRests
<1>5. ASSUME NEW run \in RunIds, DeleteRun(run) PROVE ResultsInv'
  <2>1. export' = export
    BY <1>5 DEF DeleteRun
  <2>q. QED BY <1>5, <2>1, DeleteRunStores, PageSurvives, ExportRests
<1>6. CASE OpenPage
  BY <1>1, <1>6, OpenPageFollows, ExportRests DEF OpenPage
<1>7. CASE NextPage
  BY <1>1, <1>7, NextPageFollows, ExportRests DEF NextPage
<1>8. ASSUME NEW suite, NEW since, NEW until, BeginExport(suite, since, until) PROVE ResultsInv'
  BY <1>2, <1>8, BeginExportFollows DEF BeginExport
<1>9. CASE OpenSnapshot
  BY <1>2, <1>9, OpenSnapshotFollows DEF OpenSnapshot
<1>10. CASE WriteRun
  BY <1>2, <1>10, WriteRunFollows DEF WriteRun
<1>11. CASE WriteTail
  BY <1>2, <1>11, WriteTailFollows DEF WriteTail
<1>12. CASE ReadRows \/ BuildDashboard
  <2>1. UNCHANGED <<stored, values, clock, rewrites, page>> /\ UNCHANGED export
    BY <1>12 DEF ReadRows, BuildDashboard
  <2>q. QED BY <1>2, <2>1, ExportRests
<1>13. CASE UNCHANGED resultVars
  <2>1. UNCHANGED <<stored, values, clock, rewrites, page>> /\ UNCHANGED export
    BY <1>13 DEF resultVars
  <2>q. QED BY <1>2, <2>1, ExportRests
<1>q. QED BY <1>3, <1>4, <1>5, <1>6, <1>7, <1>8, <1>9, <1>10, <1>11, <1>12, <1>13 DEF ResultsNext

\* A closed export holds a bundle of each of its runs; and an instant parts the runs in two.
LEMMA ExportsFollow == ResultsInv => ExportsAreWhole
<1> SUFFICES ASSUME ResultsInv PROVE ExportsAreWhole
  OBVIOUS
<1>1. ASSUME export.phase = "done"
      PROVE  export.written = [i \in DOMAIN export.runs |-> Bundle(export.runs[i])]
  <2>1. /\ Len(export.written) = Len(export.runs) /\ export.runs \in Seq(RunIds)
        /\ export.written \in Seq({Bundle(r) : r \in RunIds})
        /\ \A i \in DOMAIN export.written : export.written[i] = Bundle(export.runs[i])
    BY <1>1 DEF ResultsInv, ExportFollows
  <2>2. DOMAIN export.written = DOMAIN export.runs
    BY <2>1
  <2>3. export.written = [i \in DOMAIN export.written |-> export.written[i]]
    BY <2>1
  <2>q. QED BY <2>1, <2>2, <2>3
<1>2. ASSUME NEW u \in 1..MaxTime + 1
      PROVE  /\ Windowed(0, u) \cup Windowed(u, MaxTime + 1) = DOMAIN stored
             /\ Windowed(0, u) \cap Windowed(u, MaxTime + 1) = {}
  <2>1. u \in Nat /\ MaxTime \in Nat /\ \A r \in DOMAIN stored : stored[r].created \in 1..MaxTime
    BY ResultsAssumption DEF ResultsInv, RunsStored
  <2>q. QED BY <2>1 DEF Windowed
<1>q. QED BY <1>1, <1>2 DEF ExportsAreWhole

THEOREM ResultsInvariant == ResultsSpec => []ResultsInv
<1>q. QED BY ResultsInvInit, ResultsStep, PTL DEF ResultsSpec

\* A client that pages through the metrics while runs are written, aggregated again and
\* deleted is shown no row twice and every row that was there all the while, for any
\* number of runs and rows and any size of a page.
THEOREM PagesMissNothing == ResultsSpec => []PagesAreExact
<1>1. ResultsInv => PagesAreExact
  BY DEF ResultsInv
<1>q. QED BY <1>1, ResultsInvariant, PTL

\* A closed export holds every run it resolved, in order, as one instant had them, and
\* consecutive windows share no run and drop none.
THEOREM ExportsMissNothing == ResultsSpec => []ExportsAreWhole
<1>q. QED BY ExportsFollow, ResultsInvariant, PTL

\* The instance that TLC checks only leaves steps out.
THEOREM MCIsReading == MCSpec => ResultsSpec
<1>1. MCInit => ResultsInit
  BY DEF MCInit
<1>2. [MCNext]_<<reader, resultVars>> => [ResultsNext]_resultVars
  BY DEF MCNext
<1>q. QED BY <1>1, <1>2, PTL DEF MCSpec, ResultsSpec
-----------------------------------------------------------------------------
(***************************************************************************)
(* Comparisons.  The groups of the first subjects are followed, subject by *)
(* subject.                                                                *)
(***************************************************************************)
Studies == {"direct", "incomparable", "quantization_study", "runtime_study", "machine_study", "unrelated"}
GroupsOf(S) == Seq([members : Seq(S), study : Studies])

\* Whether two may be merged does not depend on which comes first, and two that may not
\* for some kind of metric are not outright comparable for the most permissive one.
LEMMA VerdictsAre ==
    ASSUME NEW s, NEW t, NEW kind
    PROVE  /\ VerdictForPair(s, t, kind).study \in Studies
           /\ MayMerge(VerdictForPair(s, t, kind)) <=> MayMerge(VerdictForPair(t, s, kind))
           /\ ~MayMerge(VerdictForPair(s, t, kind)) => VerdictForPair(s, t, Quality).comparability # "comparable"
<1> DEFINE Same(a, b) == MayBeSame(a, b) /\ (a.identity = b.identity \/ AcrossNameOnly = "warn")
<1>1. VerdictForPair(s, t, kind).study \in Studies
  BY DEF VerdictForPair, StudyFor, StudyForDifferentIdentity, StudyForSeparate, Studies
<1>2. MayMerge(VerdictForPair(s, t, kind)) <=>
          /\ s.suite = t.suite /\ Same(s, t) /\ s.profile = t.profile /\ s.version = t.version
          /\ s.datasets = t.datasets /\ (s.machine = t.machine \/ kind = Quality)
  BY DEF VerdictForPair, MayMerge, IsComparableWith
<1>3. MayMerge(VerdictForPair(t, s, kind)) <=>
          /\ t.suite = s.suite /\ Same(t, s) /\ t.profile = s.profile /\ t.version = s.version
          /\ t.datasets = s.datasets /\ (t.machine = s.machine \/ kind = Quality)
  BY DEF VerdictForPair, MayMerge, IsComparableWith
<1>4. VerdictForPair(s, t, Quality).comparability = "comparable" =>
          /\ s.suite = t.suite /\ Same(s, t) /\ s.profile = t.profile /\ s.version = t.version
          /\ s.datasets = t.datasets /\ s.machine = t.machine
  BY DEF VerdictForPair, IsComparableWith
<1>5. Same(s, t) <=> Same(t, s)
  BY DEF MayBeSame
<1> HIDE DEF Same
<1>q. QED BY <1>1, <1>2, <1>3, <1>4, <1>5

LEMMA PlacesAre ==
    ASSUME NEW groups, NEW p
    PROVE  p \in Places(groups) <=>
               \E g \in DOMAIN groups : \E k \in DOMAIN groups[g].members : p = <<g, k>>
BY DEF Places

\* A subject takes one new place: in a group whose members all clear it, or in one of
\* its own when no group does.
JoinedAt(joined, groups, subject, kind, place) ==
    /\ place \notin Places(groups) /\ Places(joined) = Places(groups) \cup {place}
    /\ Member(joined, place) = subject
    /\ \A p \in Places(groups) : Member(joined, p) = Member(groups, p)
    /\ \/ Len(joined) = Len(groups) /\ place[1] \in DOMAIN groups /\ Fits(subject, groups[place[1]], kind)
       \/ /\ Len(joined) = Len(groups) + 1 /\ place = <<Len(groups) + 1, 1>>
          /\ \A g \in DOMAIN groups : ~Fits(subject, groups[g], kind)

LEMMA JoinTakesAPlace ==
    ASSUME NEW S, NEW groups \in GroupsOf(S), NEW subject \in S, NEW kind
    PROVE  /\ Join(groups, subject, kind) \in GroupsOf(S)
           /\ \E place : JoinedAt(Join(groups, subject, kind), groups, subject, kind, place)
<1> DEFINE open == {i \in DOMAIN groups : Fits(subject, groups[i], kind)}
           study == IF groups = <<>> THEN "direct"
                    ELSE VerdictForPair(groups[1].members[1], subject, kind).study
           joined == Join(groups, subject, kind)
           n == Len(groups)
           G == [members : Seq(S), study : Studies]
<1>1. n \in Nat /\ DOMAIN groups = 1..n /\ groups \in Seq(G)
      /\ \A i \in 1..n : groups[i] \in G /\ groups[i].members \in Seq(S) /\ groups[i].study \in Studies
  <2>1. groups \in Seq(G)
    BY DEF GroupsOf
  <2>2. \A g \in G : g.members \in Seq(S) /\ g.study \in Studies
    OBVIOUS
  <2> HIDE DEF G
  <2>3. n \in Nat /\ DOMAIN groups = 1..n /\ \A i \in 1..n : groups[i] \in G
    BY <2>1
  <2>q. QED BY <2>1, <2>2, <2>3
<1>2. study \in Studies
  BY VerdictsAre DEF Studies
<1>3. joined = IF open # {}
               THEN [groups EXCEPT ![Min(open)].members = Append(@, subject)]
               ELSE Append(groups, [members |-> <<subject>>, study |-> study])
  BY DEF Join
<1> HIDE DEF study, joined
<1>4. CASE open # {}
  <2> DEFINE g == Min(open)
             m == groups[g].members
             k == Len(m) + 1
             more == [groups[g] EXCEPT !.members = Append(m, subject)]
  <2>1. g \in open
    <3>1. open \in SUBSET Nat
      BY <1>1
    <3>2. \E x \in open : \A y \in open : x <= y
      <4> HIDE DEF open
      <4>q. QED BY <1>4, <3>1, LeastNumber
    <3> HIDE DEF open
    <3>q. QED BY <3>2 DEF Min
  <2>2. g \in 1..n /\ Fits(subject, groups[g], kind)
    BY <1>1, <2>1
  <2>3. joined = [groups EXCEPT ![g] = more]
    BY <1>3, <1>4
  <2> HIDE DEF g, open
  <2>4. m \in Seq(S) /\ k \in Nat \ {0} /\ DOMAIN m = 1..(k - 1)
    BY <1>1, <2>2
  <2>5. /\ Append(m, subject) \in Seq(S) /\ DOMAIN Append(m, subject) = 1..k
        /\ Append(m, subject)[k] = subject /\ \A j \in 1..(k - 1) : Append(m, subject)[j] = m[j]
    <3> HIDE DEF m
    <3>q. QED BY <2>4, AppendProperties
  <2>6. more \in G /\ more.members = Append(m, subject)
    BY <1>1, <2>2, <2>5
  <2> HIDE DEF m, more, k
  <2>7. /\ joined \in Seq(G) /\ Len(joined) = n /\ DOMAIN joined = 1..n
        /\ joined[g] = more /\ \A i \in 1..n : i # g => joined[i] = groups[i]
    <3> HIDE DEF G
    <3>q. QED BY <1>1, <2>2, <2>3, <2>6
  <2> DEFINE place == <<g, k>>
  <2>8. ASSUME NEW p PROVE p \in Places(joined) <=> p \in Places(groups) \/ p = place
    <3>1. p \in Places(joined) <=> \E i \in 1..n : \E j \in DOMAIN joined[i].members : p = <<i, j>>
      BY <2>7, PlacesAre
    <3>2. p \in Places(groups) <=> \E i \in 1..n : \E j \in DOMAIN groups[i].members : p = <<i, j>>
      BY <1>1, PlacesAre
    <3>3. DOMAIN joined[g].members = 1..k /\ DOMAIN groups[g].members = 1..(k - 1)
      BY <2>4, <2>5, <2>6, <2>7 DEF m
    <3>4. \A i \in 1..n : i # g => joined[i].members = groups[i].members
      BY <2>7
    <3>5. 1..k = 1..(k - 1) \cup {k}
      BY <2>4
    <3>q. QED BY <2>2, <3>1, <3>2, <3>3, <3>4, <3>5
  <2>9. place \notin Places(groups)
    <3>1. k \notin DOMAIN groups[g].members
      BY <2>4 DEF m
    <3>q. QED BY <3>1, PlacesAre
  <2>10. Member(joined, place) = subject
    BY <2>5, <2>6, <2>7 DEF Member
  <2>11. ASSUME NEW p \in Places(groups) PROVE Member(joined, p) = Member(groups, p)
    <3>1. PICK i \in 1..n : \E j \in DOMAIN groups[i].members : p = <<i, j>>
      BY <1>1, PlacesAre
    <3>2. PICK j \in DOMAIN groups[i].members : p = <<i, j>>
      BY <3>1
    <3>3. CASE i = g
      BY <2>4, <2>5, <2>6, <2>7, <3>2, <3>3 DEF Member, m
    <3>4. CASE i # g
      BY <2>7, <3>2, <3>4 DEF Member
    <3>q. QED BY <3>3, <3>4
  <2>12. Places(joined) = Places(groups) \cup {place}
    BY <2>8
  <2>13. JoinedAt(joined, groups, subject, kind, place)
    <3>1. place[1] = g
      OBVIOUS
    <3> HIDE DEF place
    <3>q. QED BY <1>1, <2>2, <2>7, <2>9, <2>10, <2>11, <2>12, <3>1 DEF JoinedAt
  <2>14. joined \in GroupsOf(S)
    BY <2>7 DEF GroupsOf
  <2>q. QED BY <2>13, <2>14 DEF joined
<1>5. CASE open = {}
  <2> DEFINE new == [members |-> <<subject>>, study |-> study]
             place == <<n + 1, 1>>
  <2>1. new \in G /\ DOMAIN new.members = {1} /\ new.members[1] = subject
    BY <1>2
  <2>2. joined = Append(groups, new)
    BY <1>3, <1>5
  <2> HIDE DEF new
  <2>3. /\ joined \in Seq(G) /\ Len(joined) = n + 1 /\ DOMAIN joined = 1..(n + 1)
        /\ joined[n + 1] = new /\ \A i \in 1..n : joined[i] = groups[i]
    <3> HIDE DEF G
    <3>q. QED BY <1>1, <2>1, <2>2, AppendProperties
  <2>4. \A g \in DOMAIN groups : ~Fits(subject, groups[g], kind)
    BY <1>5
  <2>5. ASSUME NEW p PROVE p \in Places(joined) <=> p \in Places(groups) \/ p = place
    <3>1. p \in Places(joined) <=> \E i \in 1..(n + 1) : \E j \in DOMAIN joined[i].members : p = <<i, j>>
      BY <2>3, PlacesAre, SMTT(30)
    <3>2. p \in Places(groups) <=> \E i \in 1..n : \E j \in DOMAIN groups[i].members : p = <<i, j>>
      BY <1>1, PlacesAre
    <3>3. 1..(n + 1) = 1..n \cup {n + 1}
      BY <1>1
    <3> HIDE DEF n
    <3>q. QED BY <2>1, <2>3, <3>1, <3>2, <3>3
  <2>6. place \notin Places(groups)
    <3>1. n + 1 \notin DOMAIN groups
      BY <1>1
    <3>q. QED BY <3>1, PlacesAre
  <2>7. Member(joined, place) = subject
    BY <2>1, <2>3 DEF Member
  <2>8. ASSUME NEW p \in Places(groups) PROVE Member(joined, p) = Member(groups, p)
    <3>1. PICK i \in 1..n : \E j \in DOMAIN groups[i].members : p = <<i, j>>
      BY <1>1, PlacesAre
    <3>2. PICK j \in DOMAIN groups[i].members : p = <<i, j>>
      BY <3>1
    <3>q. QED BY <2>3, <3>2 DEF Member
  <2>9. Places(joined) = Places(groups) \cup {place}
    BY <2>5
  <2>10. JoinedAt(joined, groups, subject, kind, place)
    <3> HIDE DEF open
    <3>q. QED BY <2>3, <2>4, <2>6, <2>7, <2>8, <2>9 DEF JoinedAt
  <2>q. QED BY <2>3, <2>10 DEF joined, GroupsOf
<1>q. QED BY <1>4, <1>5

\* The groups of the first n subjects: each has one place, those of a group may be
\* merged, and there is a second group only if two of them may not.
Grouped(groups, subjects, kind, n) ==
    /\ groups \in GroupsOf(ToSet(subjects))
    /\ {Member(groups, p) : p \in Places(groups)} = {subjects[i] : i \in 1..n}
    /\ \A p, q \in Places(groups) : Member(groups, p) = Member(groups, q) => p = q
    /\ \A p, q \in Places(groups) :
           p # q /\ p[1] = q[1] => MayMerge(VerdictForPair(Member(groups, p), Member(groups, q), kind))
    /\ n > 0 => <<1, 1>> \in Places(groups) /\ Member(groups, <<1, 1>>) = subjects[1]
    /\ n = 0 => groups = <<>>
    /\ Len(groups) > 1 =>
           \E i, j \in 1..n : i < j /\ ~MayMerge(VerdictForPair(subjects[i], subjects[j], kind))

LEMMA JoinGroups ==
    ASSUME NEW subjects, NEW kind, NEW n \in Nat, NEW N \in Nat, n + 1 \in 1..N, DOMAIN subjects = 1..N,
           \A i, j \in 1..N : subjects[i] = subjects[j] => i = j,
           NEW groups, Grouped(groups, subjects, kind, n)
    PROVE  Grouped(Join(groups, subjects[n + 1], kind), subjects, kind, n + 1)
<1> DEFINE subject == subjects[n + 1]
           joined == Join(groups, subject, kind)
           first == {subjects[i] : i \in 1..n}
<1>1. subject \in ToSet(subjects) /\ groups \in GroupsOf(ToSet(subjects)) /\ subject \notin first
  BY DEF Grouped, ToSet
<1>2. joined \in GroupsOf(ToSet(subjects)) /\ \E place : JoinedAt(joined, groups, subject, kind, place)
  BY <1>1, JoinTakesAPlace
<1>3. PICK place : JoinedAt(joined, groups, subject, kind, place)
  BY <1>2
<1> HIDE DEF joined
<1>4. /\ place \notin Places(groups) /\ Places(joined) = Places(groups) \cup {place}
      /\ Member(joined, place) = subject
      /\ \A p \in Places(groups) : Member(joined, p) = Member(groups, p)
  BY <1>3 DEF JoinedAt
<1>5. /\ {Member(groups, p) : p \in Places(groups)} = first
      /\ \A p, q \in Places(groups) : Member(groups, p) = Member(groups, q) => p = q
      /\ \A p, q \in Places(groups) :
             p # q /\ p[1] = q[1] => MayMerge(VerdictForPair(Member(groups, p), Member(groups, q), kind))
  BY DEF Grouped
<1>6. Len(groups) \in Nat /\ DOMAIN groups = 1..Len(groups)
  BY <1>1 DEF GroupsOf
<1> DEFINE now == {subjects[i] : i \in 1..(n + 1)}
<1>7. now = first \cup {subject}
  <2>1. 1..(n + 1) = 1..n \cup {n + 1}
    OBVIOUS
  <2>q. QED BY <2>1
<1> HIDE DEF first, subject
<1>8. {Member(joined, p) : p \in Places(joined)} = now
  <2> HIDE DEF now
  <2>1. {Member(joined, p) : p \in Places(groups)} = first
    BY <1>4, <1>5
  <2>2. {Member(joined, p) : p \in Places(joined)} = {Member(joined, p) : p \in Places(groups)} \cup {Member(joined, place)}
    BY <1>4
  <2>q. QED BY <1>4, <1>7, <2>1, <2>2
<1>9. ASSUME NEW p \in Places(joined), NEW q \in Places(joined), Member(joined, p) = Member(joined, q) PROVE p = q
  <2>1. \A r \in Places(groups) : Member(joined, r) \in first
    BY <1>4, <1>5
  <2>q. QED BY <1>1, <1>4, <1>5, <1>9, <2>1
<1>10. ASSUME NEW q \in Places(groups), q[1] = place[1]
       PROVE  /\ MayMerge(VerdictForPair(Member(joined, q), Member(joined, place), kind))
              /\ MayMerge(VerdictForPair(Member(joined, place), Member(joined, q), kind))
  <2>1. PICK g \in DOMAIN groups : \E k \in DOMAIN groups[g].members : q = <<g, k>>
    BY PlacesAre
  <2>k. PICK k \in DOMAIN groups[g].members : q = <<g, k>>
    BY <2>1
  <2>2. Fits(subject, groups[g], kind)
    <3>1. g = place[1] /\ g <= Len(groups)
      BY <1>6, <1>10, <2>k
    <3>2. place # <<Len(groups) + 1, 1>>
      BY <1>6, <3>1
    <3>q. QED BY <1>3, <3>1, <3>2 DEF JoinedAt
  <2>3. Member(joined, q) = groups[g].members[k]
    BY <1>4, <2>k DEF Member
  <2>4. Member(joined, q) \in ToSet(groups[g].members)
    BY <2>1, <2>3 DEF ToSet
  <2>5. MayMerge(VerdictForPair(Member(joined, q), subject, kind))
    BY <2>2, <2>4 DEF Fits
  <2>q. QED BY <1>4, <2>5, VerdictsAre
<1>11. ASSUME NEW p \in Places(joined), NEW q \in Places(joined), p # q, p[1] = q[1]
       PROVE  MayMerge(VerdictForPair(Member(joined, p), Member(joined, q), kind))
  BY <1>4, <1>5, <1>10, <1>11
<1>12. <<1, 1>> \in Places(joined) /\ Member(joined, <<1, 1>>) = subjects[1]
  <2>1. CASE n = 0
    <3>1. groups = <<>> /\ Len(groups) = 0 /\ DOMAIN groups = {}
      BY <2>1, EmptySeq DEF Grouped
    <3>2. place = <<1, 1>>
      BY <1>3, <3>1 DEF JoinedAt
    <3>3. subject = subjects[1]
      BY <2>1 DEF subject
    <3>q. QED BY <1>4, <3>2, <3>3
  <2>2. CASE n > 0
    BY <1>4, <2>2 DEF Grouped
  <2>q. QED BY <2>1, <2>2
<1>13. ASSUME Len(joined) > 1
       PROVE  \E i, j \in 1..(n + 1) : i < j /\ ~MayMerge(VerdictForPair(subjects[i], subjects[j], kind))
  <2>1. CASE Len(groups) > 1
    <3>1. PICK i \in 1..n, j \in 1..n : i < j /\ ~MayMerge(VerdictForPair(subjects[i], subjects[j], kind))
      BY <2>1 DEF Grouped
    <3>q. QED BY <3>1
  <2>2. CASE ~(Len(groups) > 1)
    <3>1. Len(groups) = 1 /\ \A g \in DOMAIN groups : ~Fits(subject, groups[g], kind)
      BY <1>3, <1>6, <1>13, <2>2 DEF JoinedAt
    <3>2. 1 \in DOMAIN groups
      BY <1>6, <3>1
    <3>3. PICK other \in ToSet(groups[1].members) : ~MayMerge(VerdictForPair(other, subject, kind))
      BY <3>1, <3>2 DEF Fits
    <3>4. PICK k \in DOMAIN groups[1].members : other = groups[1].members[k]
      BY DEF ToSet
    <3>5. <<1, k>> \in Places(groups) /\ Member(groups, <<1, k>>) = other
      BY <3>2, <3>4, PlacesAre DEF Member
    <3>6. PICK i \in 1..n : other = subjects[i]
      BY <1>5, <3>5 DEF first
    <3>7. i \in 1..(n + 1) /\ n + 1 \in 1..(n + 1) /\ i < n + 1
      OBVIOUS
    <3>q. QED BY <3>3, <3>6, <3>7 DEF subject
  <2>q. QED BY <2>1, <2>2
<1>14. n + 1 > 0 /\ n + 1 # 0
  OBVIOUS
<1>15. Grouped(joined, subjects, kind, n + 1)
  BY <1>2, <1>8, <1>9, <1>11, <1>12, <1>13, <1>14 DEF Grouped, now
<1>q. QED BY <1>15 DEF joined, subject

LEMMA GroupsAreGrouped ==
    ASSUME NEW subjects, NEW kind, NEW N \in Nat, subjects \in Seq(ToSet(subjects)), Len(subjects) = N,
           \A i, j \in 1..N : subjects[i] = subjects[j] => i = j
    PROVE  Grouped(GroupSubjects(subjects, kind), subjects, kind, N)
<1>0. DOMAIN subjects = 1..N /\ \A i \in 1..N : subjects[i] \in ToSet(subjects)
  BY DEF ToSet
<1> DEFINE V == GroupsOf(ToSet(subjects))
           step == [p \in (1..N) \X V |-> Join(p[2], subjects[p[1]], kind)]
           Goes(h) == h \in [0..N -> V] /\ h[0] = <<>> /\ \A i \in 1..N : h[i] = Join(h[i - 1], subjects[i], kind)
<1>1. \A i \in 1..N, v \in V : step[<<i, v>>] = Join(v, subjects[i], kind)
  <2> HIDE DEF V
  <2>q. QED OBVIOUS
<1>2. \A i \in 1..N, v \in V : step[<<i, v>>] \in V
  <2>1. \A i \in 1..N, v \in V : Join(v, subjects[i], kind) \in V
    BY <1>0, JoinTakesAPlace
  <2> HIDE DEF V, step
  <2>q. QED BY <1>1, <2>1
<1>3. <<>> \in V
  BY EmptySeq DEF GroupsOf
<1> HIDE DEF V, step
<1>4. PICK h : Climbs(h, N, V, <<>>, step)
  BY <1>2, <1>3, ClimbExists
<1>5. Goes(h)
  <2>1. \A i \in 1..N : i - 1 \in 0..N
    OBVIOUS
  <2>q. QED BY <1>1, <1>4, <2>1 DEF Climbs
<1> DEFINE Is(g) == g = [n \in 0..N |-> IF n = 0 THEN <<>> ELSE Join(g[n - 1], subjects[n], kind)]
<1>6. Is(h)
  BY <1>5
<1>7. \A g : Is(g) => g = h
  <2> SUFFICES ASSUME NEW g, Is(g) PROVE g = h
    OBVIOUS
  <2>1. g[0] = <<>> /\ \A i \in 1..N : g[i] = Join(g[i - 1], subjects[i], kind)
    OBVIOUS
  <2>2. g = [i \in 0..N |-> g[i]] /\ h = [i \in 0..N |-> h[i]]
    BY <1>5
  <2>3. g[0] = h[0] /\ \A i \in 1..N : g[i - 1] = h[i - 1] => g[i] = h[i]
    BY <1>5, <2>1
  <2> HIDE DEF Is
  <2>4. \A i \in 0..N : g[i] = h[i]
    BY ONLY <2>3, N \in Nat, ClimbUnique
  <2>q. QED BY <2>2, <2>4
<1>8. (CHOOSE g : Is(g)) = h
  <2> HIDE DEF Is
  <2>q. QED BY <1>6, <1>7, Zenon
<1>9. GroupSubjects(subjects, kind) = h[N]
  BY <1>8 DEF GroupSubjects
<1> DEFINE bad == {n \in 0..N : ~Grouped(h[n], subjects, kind, n)}
<1>10. 0 \notin bad
  <2>1. h[0] = <<>> /\ Len(<<>>) = 0 /\ DOMAIN <<>> = {} /\ <<>> \in GroupsOf(ToSet(subjects))
    BY <1>3, <1>5, EmptySeq DEF V
  <2>2. Places(<<>>) = {}
    BY <2>1, PlacesAre
  <2>q. QED BY <2>1, <2>2 DEF Grouped
<1>11. ASSUME NEW n \in 0..N, n + 1 \in 0..N, n \notin bad PROVE n + 1 \notin bad
  <2>1. n \in Nat /\ n + 1 \in 1..N /\ h[n + 1] = Join(h[n], subjects[n + 1], kind)
    <3>1. n \in Nat /\ n + 1 \in 1..N /\ (n + 1) - 1 = n
      BY <1>11
    <3>q. QED BY <1>5, <3>1
  <2>2. Grouped(h[n], subjects, kind, n)
    BY <1>11
  <2> HIDE DEF Goes, Is
  <2>q. QED BY <1>0, <2>1, <2>2, JoinGroups
<1>12. bad = {}
  <2> SUFFICES ASSUME bad # {} PROVE FALSE
    OBVIOUS
  <2>1. PICK m \in bad : \A k \in bad : m <= k
    <3>1. bad \in SUBSET Nat
      OBVIOUS
    <3> HIDE DEF bad
    <3>q. QED BY <3>1, LeastNumber
  <2>2. m \in 0..N /\ m # 0
    BY <1>10, <2>1
  <2>3. m - 1 \in 0..N /\ (m - 1) + 1 = m /\ m - 1 \notin bad
    <3> HIDE DEF bad
    <3>q. QED BY <2>1, <2>2
  <2> HIDE DEF bad
  <2>q. QED BY <1>11, <2>1, <2>2, <2>3
<1>q. QED BY <1>9, <1>12

LEMMA RowsAreSound ==
    ASSUME NEW subjects, NEW key, NEW N \in Nat \ {0}, subjects \in Seq(ToSet(subjects)), Len(subjects) = N,
           \A i, j \in 1..N : subjects[i] = subjects[j] => i = j
    PROVE  SoundRow(subjects, RowFor(subjects, key))
<1> DEFINE row == RowFor(subjects, key)
           groups == row.groups
           kind == MetricKindFor(key)
           places == Places(groups)
           members == {Member(groups, p) : p \in places}
<1>1. groups = GroupSubjects(subjects, kind) /\ row.key = key
  BY DEF RowFor
<1>2. Grouped(groups, subjects, kind, N)
  BY <1>1, GroupsAreGrouped
<1> HIDE DEF row, groups, kind
<1>3. DOMAIN subjects = 1..N
  OBVIOUS
<1>4. Len(groups) \in Nat /\ DOMAIN groups = 1..Len(groups)
  BY <1>2 DEF Grouped, GroupsOf
<1>5. /\ members = {subjects[i] : i \in 1..N}
      /\ \A p, q \in places : Member(groups, p) = Member(groups, q) => p = q
      /\ \A p, q \in places :
             p # q /\ p[1] = q[1] => MayMerge(VerdictForPair(Member(groups, p), Member(groups, q), kind))
      /\ Member(groups, <<1, 1>>) = subjects[1]
  <2>1. N > 0
    OBVIOUS
  <2>2. Member(groups, <<1, 1>>) = subjects[1]
    BY <1>2, <2>1 DEF Grouped
  <2>q. QED BY <1>2, <2>2, Zenon DEF Grouped
<1>6. members = ToSet(subjects)
  BY <1>3, <1>5 DEF ToSet
<1>7. groups[1].members[1] = subjects[1]
  BY <1>5 DEF Member
<1>8. ASSUME NEW g \in DOMAIN groups, NEW s \in ToSet(groups[g].members), NEW t \in ToSet(groups[g].members), s # t
      PROVE  MayMerge(VerdictForPair(s, t, kind))
  <2>1. PICK k \in DOMAIN groups[g].members, l \in DOMAIN groups[g].members :
            s = groups[g].members[k] /\ t = groups[g].members[l]
    BY DEF ToSet
  <2>2. <<g, k>> \in places /\ <<g, l>> \in places /\ Member(groups, <<g, k>>) = s /\ Member(groups, <<g, l>>) = t
    BY <2>1, PlacesAre DEF Member
  <2>3. <<g, k>> # <<g, l>> /\ <<g, k>>[1] = <<g, l>>[1]
    BY <1>8, <2>1
  <2>q. QED BY <1>5, <2>2, <2>3
<1>9. ASSUME BestRunId(subjects, row) # NoRun, NEW i \in 1..N, NEW j \in 1..N, i # j
      PROVE  MayMerge(VerdictForPair(subjects[i], subjects[j], kind))
  <2>1. ~(Len(groups) > 1)
    BY <1>9 DEF BestRunId, groups
  <2>2. \A p \in places : p[1] = 1
    BY <1>4, <2>1, PlacesAre
  <2>3. subjects[i] \in members /\ subjects[j] \in members
    BY <1>5
  <2>4. PICK p \in places, q \in places : Member(groups, p) = subjects[i] /\ Member(groups, q) = subjects[j]
    BY <2>3
  <2>5. p # q
    BY <1>9, <2>4
  <2>q. QED BY <1>5, <2>2, <2>4, <2>5
<1>10. \A p \in Pairs(subjects) : p[1] \in 1..N /\ p[2] \in 1..N /\ p[1] # p[2]
  BY <1>3 DEF Pairs
<1>11. ASSUME NEW p \in Pairs(subjects),
              ~MayMerge(VerdictForPair(subjects[p[1]], subjects[p[2]], kind))
       PROVE  \E v \in Separations(subjects) : v.left = subjects[p[1]].id /\ v.right = subjects[p[2]].id
  <2> DEFINE v == VerdictForPair(subjects[p[1]], subjects[p[2]], Quality)
  <2>1. v.comparability # "comparable"
    BY <1>11, VerdictsAre
  <2>2. v \in Separations(subjects)
    BY <2>1 DEF Separations
  <2>3. v.left = subjects[p[1]].id /\ v.right = subjects[p[2]].id
    BY DEF VerdictForPair
  <2> HIDE DEF v
  <2>q. QED BY <2>2, <2>3
<1>12. MetricKindFor(row.key) = kind
  BY <1>1 DEF kind
<1>13. SoundRow(subjects, row)
  BY <1>5, <1>6, <1>7, <1>8, <1>9, <1>10, <1>11, <1>12 DEF SoundRow, groups
<1>q. QED BY <1>13 DEF row

\* The runs compared are different, and so are the subjects they are loaded as.
LEMMA ComparedAreSound == ComparisonsAreSound
<1> SUFFICES ASSUME NEW refs \in References, IsInjective(refs),
                    NEW row \in CompareRuns([i \in DOMAIN refs |-> Load(refs[i])]).rows
             PROVE  SoundRow([i \in DOMAIN refs |-> Load(refs[i])], row)
  BY DEF ComparisonsAreSound
<1> DEFINE subjects == [i \in DOMAIN refs |-> Load(refs[i])]
<1>1. \E N \in {2, 1, 3} : DOMAIN refs = 1..N
  BY DEF References
<1>2. PICK N \in Nat \ {0} : DOMAIN refs = 1..N
  BY <1>1
<1>3. ASSUME NEW i \in 1..N PROVE Load(refs[i])["id"] = refs[i]
  BY DEF Load
<1>4. \A i, j \in 1..N : subjects[i] = subjects[j] => i = j
  BY <1>2, <1>3 DEF IsInjective
<1>5. subjects \in Seq(ToSet(subjects)) /\ Len(subjects) = N
  <2>1. subjects \in [1..N -> ToSet(subjects)]
    BY <1>2 DEF ToSet
  <2> HIDE DEF subjects
  <2>q. QED BY <2>1
<1> HIDE DEF subjects
<1>6. PICK key : row = RowFor(subjects, key)
  BY DEF CompareRuns, subjects
<1>7. SoundRow(subjects, row)
  BY <1>4, <1>5, <1>6, RowsAreSound
<1>q. QED BY <1>7 DEF subjects
-----------------------------------------------------------------------------
(***************************************************************************)
(* The dashboard.  It keeps the rows of the runs that no other run of      *)
(* their model and suite follows; a run that is completed has rows, so a   *)
(* page that holds every row names every completed run.                    *)
(***************************************************************************)
CompletedHaveRows ==
    \A r \in DOMAIN stored : stored[r].status = "completed" => \E v \in values : v.run = r
DashFollows ==
    /\ dash = [phase |-> dash.phase, rows |-> dash.rows, full |-> dash.full, cut |-> dash.cut,
               matrix |-> dash.matrix, cards |-> dash.cards, heatmap |-> dash.heatmap, panel |-> dash.panel,
               scatter |-> dash.scatter]
DashInv == CompletedHaveRows /\ DashFollows /\ DashboardIsComplete

LEMMA CompletedKeepRows ==
    ASSUME RunsStored, ValuesStored, CompletedHaveRows, [ResultsNext]_resultVars
    PROVE  CompletedHaveRows'
<1>1. ASSUME NEW run \in RunIds, NEW subject \in Subjects, NEW later \in {0, 1}, CreateRun(run, subject, later)
      PROVE  CompletedHaveRows'
  <2>1. /\ values' = values /\ DOMAIN stored' = DOMAIN stored \cup {run} /\ stored'[run].status = "running"
        /\ \A r \in DOMAIN stored : r # run /\ stored'[r] = stored[r]
    BY <1>1 DEF CreateRun
  <2>q. QED BY <2>1 DEF CompletedHaveRows
<1>2. ASSUME NEW run \in RunIds, NEW rows \in MetricRows, Aggregate(run, rows) PROVE CompletedHaveRows'
  <2> DEFINE new == SetToSeq(rows)
             n == Cardinality(rows)
  <2>1. /\ values' = {v \in values : v.run # run} \cup {Row(<<rewrites, i>>, run, new[i]) : i \in DOMAIN new}
        /\ DOMAIN stored' = DOMAIN stored
        /\ \A r \in DOMAIN stored \ {run} : stored'[r] = stored[r]
    BY <1>2 DEF Aggregate, ReplaceForRun, RunsStored
  <2>2. rows # {} /\ IsFiniteSet(rows)
    BY ResultsAssumption
  <2>3. n \in Nat /\ n # 0
    BY <2>2, FS_CardinalityType, FS_EmptySet
  <2>4. \E f \in [1..n -> rows] : IsInjective(f)
    BY <2>2, ListingIs
  <2>5. DOMAIN new = 1..n
    BY <2>4 DEF SetToSeq
  <2>6. 1 \in DOMAIN new
    <3> HIDE DEF n, new
    <3>q. QED BY <2>3, <2>5
  <2>7. Row(<<rewrites, 1>>, run, new[1]) \in values' /\ Row(<<rewrites, 1>>, run, new[1]).run = run
    <3>1. Row(<<rewrites, 1>>, run, new[1]).run = run
      BY DEF Row
    <3> HIDE DEF n, new
    <3>q. QED BY <2>1, <2>6, <3>1
  <2>8. ASSUME NEW r \in DOMAIN stored \ {run}, stored'[r].status = "completed" PROVE \E v \in values' : v.run = r
    <3>1. PICK v \in values : v.run = r
      BY <2>1, <2>8 DEF CompletedHaveRows
    <3>q. QED BY <2>1, <3>1
  <2> HIDE DEF n, new
  <2>q. QED BY <2>1, <2>7, <2>8 DEF CompletedHaveRows
<1>3. ASSUME NEW run \in RunIds, DeleteRun(run) PROVE CompletedHaveRows'
  <2>1. /\ DOMAIN stored' = DOMAIN stored \ {run} /\ \A r \in DOMAIN stored' : stored'[r] = stored[r]
        /\ values' = {v \in values : v.run # run}
    BY <1>3 DEF DeleteRun
  <2>q. QED BY <2>1 DEF CompletedHaveRows
<1>4. ASSUME UNCHANGED <<stored, values>> PROVE CompletedHaveRows'
  BY <1>4 DEF CompletedHaveRows
<1>5. ASSUME NEW suite, NEW since, NEW until, BeginExport(suite, since, until) PROVE CompletedHaveRows'
  BY <1>4, <1>5 DEF BeginExport
<1>6. CASE OpenPage \/ NextPage \/ OpenSnapshot \/ WriteRun \/ WriteTail \/ ReadRows \/ BuildDashboard
  BY <1>4, <1>6 DEF OpenPage, NextPage, OpenSnapshot, WriteRun, WriteTail, ReadRows, BuildDashboard
<1>7. CASE UNCHANGED resultVars
  BY <1>4, <1>7 DEF resultVars
<1>q. QED BY <1>1, <1>2, <1>3, <1>5, <1>6, <1>7 DEF ResultsNext

-----------------------------------------------------------------------------
\* When the page holds every row, those kept are all that the latest completed runs have.
LEMMA AllRowsAreKept ==
    ASSUME RunsStored, ValuesStored, CompletedHaveRows, ~QueryResults(NoCursor, MaxLimit).more
    PROVE  {v.id : v \in Range(LatestRows(MaxLimit))} = RowsOfLatest
<1> DEFINE answer == QueryResults(NoCursor, MaxLimit)
           read == answer.rows
           completed == {r \in DOMAIN stored : stored[r].status = "completed"}
           keep == Newest({x.run : x \in ToSet(read)})
<1>1. Answers(answer, NoCursor)
  BY QueryAnswers, LimitsArePositive
<1>2. \A v \in values : After(SortKey(v), NoCursor)
  BY SortKeyIs, AfterOrders
<1>3. LatestRows(MaxLimit) = [i \in {j \in DOMAIN read : read[j].run \in keep} |-> Joined(read[i])]
  BY DEF LatestRows
<1>4. ~answer.more
  OBVIOUS
<1> HIDE DEF answer
<1>5. read \in Seq(values) /\ \A v \in values : \E i \in DOMAIN read : read[i] = v
  BY <1>1, <1>2, <1>4 DEF Answers
<1>6. ToSet(read) = values
  BY <1>5 DEF ToSet
<1>7. {x.run : x \in ToSet(read)} = completed
  BY <1>6 DEF ValuesStored, CompletedHaveRows
<1>8. ASSUME NEW v \in values
      PROVE  v.run \in keep <=> \E r \in DOMAIN stored : v.run \in LatestCompletedRun(Pair(r))
  <2>1. v.run \in DOMAIN stored /\ v.run \in completed
    BY DEF ValuesStored
  <2>2. v.run \in keep <=> \A s \in completed \ {v.run} : Pair(v.run) = Pair(s) => Newer(v.run, s)
    BY <1>7, <2>1 DEF Newest
  <2>3. ASSUME NEW r \in DOMAIN stored
        PROVE  v.run \in LatestCompletedRun(Pair(r)) <=>
                   /\ Pair(v.run) = Pair(r)
                   /\ \A s \in completed \ {v.run} : Pair(s) = Pair(r) /\ Pair(v.run) = Pair(s) => Newer(v.run, s)
    BY <2>1 DEF LatestCompletedRun, Newest
  <2> HIDE DEF keep, completed
  <2>q. QED BY <2>1, <2>2, <2>3
<1>9. ASSUME NEW i \in DOMAIN read PROVE read[i] \in values /\ Joined(read[i]).id = read[i].id
  BY <1>5 DEF Joined
<1> DEFINE latest == {w \in values : \E r \in DOMAIN stored : w.run \in LatestCompletedRun(Pair(r))}
<1>10. \A v \in values : v \in latest <=> v.run \in keep
  BY <1>8
<1>11. RowsOfLatest = {v.id : v \in latest}
  BY DEF RowsOfLatest
<1> DEFINE shown == LatestRows(MaxLimit)
<1> HIDE DEF read, keep, latest, completed
<1>12. ASSUME NEW v \in Range(shown) PROVE v.id \in {w.id : w \in latest}
  <2>1. PICK i \in DOMAIN read : read[i].run \in keep /\ v = Joined(read[i])
    BY <1>3, <1>12 DEF Range
  <2>q. QED BY <1>9, <1>10, <2>1
<1>13. ASSUME NEW v \in latest PROVE \E w \in Range(shown) : w.id = v.id
  <2>1. v \in values
    BY DEF latest
  <2>2. PICK i \in DOMAIN read : read[i] = v
    BY <1>5, <2>1
  <2>3. i \in DOMAIN shown /\ shown[i] = Joined(v)
    BY <1>3, <1>10, <2>1, <2>2
  <2>q. QED BY <1>9, <2>2, <2>3 DEF Range
<1> HIDE DEF shown
<1>14. {v.id : v \in Range(shown)} = {v.id : v \in latest}
  BY <1>12, <1>13
<1>q. QED BY <1>11, <1>14 DEF shown

LEMMA DashInit == ResultsInit => DashInv
<1> SUFFICES ASSUME ResultsInit PROVE DashInv
  OBVIOUS
<1>1. /\ stored = <<>>
      /\ dash = [phase |-> "idle", rows |-> <<>>, full |-> {}, cut |-> FALSE, matrix |-> <<>>,
                 cards |-> <<>>, heatmap |-> <<>>, panel |-> <<>>, scatter |-> {}]
  BY DEF ResultsInit
<1>q. QED BY <1>1 DEF DashInv, CompletedHaveRows, DashFollows, DashboardIsComplete

LEMMA DashStep ==
    ASSUME ResultsInv, DashInv, [ResultsNext]_resultVars
    PROVE  DashInv'
<1>0. RunsStored /\ ValuesStored /\ CompletedHaveRows /\ DashFollows /\ DashboardIsComplete
  BY DEF ResultsInv, DashInv
<1>1. CompletedHaveRows'
  BY <1>0, CompletedKeepRows
<1>2. ASSUME dash' = dash PROVE DashInv'
  BY <1>0, <1>1, <1>2 DEF DashInv, DashFollows, DashboardIsComplete, Complete
<1>3. CASE ReadRows
  <2>1. /\ dash.phase = "idle"
        /\ dash' = [dash EXCEPT !.phase = "rows", !.rows = LatestRows(MaxLimit), !.full = RowsOfLatest,
                                !.cut = QueryResults(NoCursor, MaxLimit).more]
    BY <1>3 DEF ReadRows
  <2>2. dash' = [phase |-> "rows", rows |-> LatestRows(MaxLimit), full |-> RowsOfLatest,
                 cut |-> QueryResults(NoCursor, MaxLimit).more, matrix |-> dash.matrix, cards |-> dash.cards,
                 heatmap |-> dash.heatmap, panel |-> dash.panel, scatter |-> dash.scatter]
    BY <1>0, <2>1 DEF DashFollows
  <2>3. ~dash'.cut => {v.id : v \in Range(dash'.rows)} = dash'.full
    BY <1>0, <2>2, AllRowsAreKept
  <2>4. DashFollows'
    BY <2>2 DEF DashFollows
  <2>q. QED BY <1>1, <2>3, <2>4 DEF DashInv, DashboardIsComplete, Complete
<1>4. CASE BuildDashboard
  <2> DEFINE matrix == TestsMatrix(dash.rows)
             heatmap == Heatmap(dash.rows)
             panel == Panel(dash.rows, MetricKeys)
             scatter == Scatter(dash.rows, VramMetric)
  <2>1. dash' = [dash EXCEPT !.phase = "done", !.matrix = matrix, !.cards = SummaryCards,
                             !.heatmap = heatmap, !.panel = panel, !.scatter = scatter]
    BY <1>4 DEF BuildDashboard
  <2> HIDE DEF matrix, heatmap, panel, scatter
  <2>2. dash' = [phase |-> "done", rows |-> dash.rows, full |-> dash.full, cut |-> dash.cut, matrix |-> matrix,
                 cards |-> SummaryCards, heatmap |-> heatmap, panel |-> panel, scatter |-> scatter]
    BY <1>0, <2>1 DEF DashFollows
  <2>3. DashFollows'
    BY <2>2 DEF DashFollows
  <2>4. DashboardIsComplete'
    BY <2>2 DEF DashboardIsComplete
  <2>q. QED BY <1>1, <2>3, <2>4 DEF DashInv
<1>5. ASSUME NEW suite, NEW since, NEW until, BeginExport(suite, since, until) PROVE dash' = dash
  BY <1>5 DEF BeginExport
<1>6. ASSUME NEW run, NEW subject, NEW later, CreateRun(run, subject, later) PROVE dash' = dash
  BY <1>6 DEF CreateRun
<1>7. ASSUME NEW run, NEW rows, Aggregate(run, rows) \/ DeleteRun(run) PROVE dash' = dash
  BY <1>7 DEF Aggregate, DeleteRun
<1>8. CASE OpenPage \/ NextPage \/ OpenSnapshot \/ WriteRun \/ WriteTail \/ UNCHANGED resultVars
  <2>1. dash' = dash
    BY <1>8 DEF OpenPage, NextPage, OpenSnapshot, WriteRun, WriteTail, resultVars
  <2>q. QED BY <1>2, <2>1
<1>q. QED BY <1>2, <1>3, <1>4, <1>5, <1>6, <1>7, <1>8 DEF ResultsNext

\* A dashboard has all the rows of the latest completed runs when a page holds every row; no
\* comparison merges, ranks or leaves unlisted two runs that the matrix keeps apart for the kind
\* the table of kinds gives the metric; for any number of runs, rows, subjects and kinds, whatever
\* is written while a page is built and whatever the matrix says across names.
THEOREM ScreensShowWhatIsStored == MCSpec => []ScreensAreSound
<1>1. ResultsInit => DashInv
  BY DashInit
<1>2. ResultsInv /\ DashInv /\ [ResultsNext]_resultVars => DashInv'
  BY DashStep
<1>3. ResultsSpec => []DashInv
  BY <1>1, <1>2, ResultsInvariant, PTL DEF ResultsSpec
<1>4. DashInv => DashboardIsComplete
  BY DEF DashInv
<1>5. DashInv => ScreensAreSound
  BY <1>4, ComparedAreSound DEF ScreensAreSound
<1>q. QED BY <1>3, <1>5, MCIsReading, PTL
=============================================================================
