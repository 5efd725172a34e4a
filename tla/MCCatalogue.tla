---------------------------- MODULE MCCatalogue -----------------------------
(***************************************************************************)
(* The catalogue, the adapters and the creation of runs, for TLC.  Each    *)
(* behaviour is about one of them: what the others do is then held still,  *)
(* and what it does is bounded by the number of edits.                     *)
(***************************************************************************)
EXTENDS Creation

CONSTANT MaxEdits  \* edits of a behaviour, by what it is about
VARIABLES part, edits

mcVars == <<part, edits, allVars>>

MCManifests == {[name |-> 1, sha |-> 1, baseName |-> 1, baseDigest |-> 1],
                [name |-> 1, sha |-> 2, baseName |-> 1, baseDigest |-> 0],
                [name |-> 2, sha |-> 1, baseName |-> 1, baseDigest |-> 2]}
MCRequests ==
    [ref : {[kind |-> "name", name |-> 1, id |-> 0], [kind |-> "id", name |-> 1, id |-> 1]},
     suite : Suites, profile : {<<>>}, adapter : 0..2, allowOverride : BOOLEAN,
     fit : {{}, {"use"}, {"use", "require"}}, repeats : {0}]
Worlds == [version : 1..2, data : 1..2, machine : 1..2, override : BOOLEAN,
           hotSwap : BOOLEAN, configurable : BOOLEAN]
MCEdits == [catalogue |-> 4, repeat |-> 3, adapter |-> 3]
OneEdit(w) == Cardinality({f \in DOMAIN w : w[f] # world[f]}) = 1

MCInit == CreationInit /\ part \in {"catalogue", "repeat", "adapter"} /\ edits = 0

\* What the operator and the world do.
EditCatalogue ==
    \/ /\ part # "adapter"
       /\ \E name \in ModelNames, digest \in Digests, content \in Contents :
             /\ part = "repeat" => content = 1
             /\ Republish(name, digest, content)
    \/ part = "catalogue" /\ \E i \in DOMAIN models, on \in BOOLEAN : SetModelEnabled(i, on)
    \/ part = "catalogue" /\ \E name \in ModelNames : GetModelDetail(1, name)
EditAdapters ==
    /\ part = "adapter"
    /\ \/ \E stem \in Stems, artifact \in Artifacts, manifest \in Manifests \cup {NoManifest} :
             EditDirectory(stem, artifact, manifest)
       \/ \E stem \in Stems : DraftManifest(stem)
       \/ RegisterConfiguredAdapters
EditWorld ==
    \/ \E w \in Worlds :
          /\ OneEdit(w)
          /\ IF w.hotSwap = world.hotSwap THEN part = "repeat" ELSE part = "adapter"
          /\ ChangeWorld(w)
    \/ /\ part = "repeat"
       /\ \E machine \in machines : SetMachineNickname(machine)

Edit ==
    /\ edits < MaxEdits[part] /\ edits' = edits + 1
    /\ \/ EditCatalogue /\ UNCHANGED <<adapterVars, creationVars>>
       \/ EditAdapters /\ UNCHANGED <<catalogueVars, creationVars>>
       \/ EditWorld

\* What FreeWeight does.
Discovery ==
    \E d \in Discoverers :
        /\ part # "catalogue" => \A other \in Discoverers : d <= other
        /\ part = "adapter" => models = <<>>
        /\ part = "repeat" => clock + 1 < MaxTime \/ listing[d] # NotListed
        /\ \/ ListModels(d)
           \/ DiscoverModels(d)
           \/ part = "catalogue" /\ DiscoveryFails(d)

\* The directory is read before a run, or before the repeat of one.
Reading ==
    /\ Len(runs) < MaxRuns /\ repeat = NoRepeat /\ models # <<>>
    /\ \E caller \in Callers :
           /\ caller = "repeat" => runs # <<>>
           /\ ~\E other \in Callers : reading[other].done
           /\ ReadEntries(caller)

Creating ==
    \/ Reading
    \/ \E request \in MCRequests :
           /\ repeat = NoRepeat
           /\ \/ part = "repeat" /\ request.adapter = 0
                 /\ request.suite = "fit" => (request.ref.kind = "name" /\ request.fit = {})
              \/ part = "adapter" /\ request.suite # "fit" /\ request.fit = {}
           /\ CreateRun(request, 0)
    \/ \E r \in DOMAIN runs, force, allow \in BOOLEAN : CheckRepeat(r, force, allow)
    \/ RepeatRun
    \/ RepeatIsRefused

Measuring ==
    \E r \in DOMAIN runs :
        /\ part = "adapter" \/ runs[r].suite = "fit"
        /\ \/ ExecuteRun(r)
           \/ \E fit \in Fits : part = "repeat" /\ CompleteRun(r, fit)

Work ==
    /\ edits' = edits
    /\ \/ Discovery /\ UNCHANGED <<adapterVars, creationVars>>
       \/ part # "catalogue" /\ (Creating \/ Measuring)

MCNext == UNCHANGED part /\ (Edit \/ Work)
MCSpec == MCInit /\ [][MCNext]_mcVars

-----------------------------------------------------------------------------
\* A model's row and an adapter's row stand for one artifact: no two rows have
\* one identity, a digest once stored is never another, rows are never lost, and
\* a run's rows stay those of the document it keeps, whatever is discovered,
\* upgraded, renamed or rescanned since (repositories/models.py, adapter_row_for).
OneRowEach ==
    /\ \A i, j \in DOMAIN models :
           models[i].name = models[j].name /\ models[i].digest = models[j].digest => i = j
    /\ \A i, j \in DOMAIN adapters : adapters[i].sha = adapters[j].sha => i = j
    /\ \A r \in DOMAIN runs :
           /\ runs[r].doc.digest \in {0, models[runs[r].row].digest}
           /\ runs[r].doc.content = descriptors[runs[r].descriptor].content
           /\ runs[r].asked = IF runs[r].adapter = 0 THEN 0 ELSE adapters[runs[r].adapter].sha
DigestsStay ==
    /\ \A i \in DOMAIN models : /\ i \in DOMAIN models'
                                /\ models'[i].digest = models[i].digest \/ models[i].digest = 0
    /\ \A i \in DOMAIN adapters : i \in DOMAIN adapters' /\ adapters'[i].sha = adapters[i].sha
IdentitiesAreKept == [][DigestsStay /\ OneRowEach']_allVars

\* What a refresh says it did is what it did: it added as many rows as it says,
\* wrote no descriptor it does not count, and a refresh that found everything
\* unchanged only moved the sightings (discover_models).
Content(rows) == [i \in DOMAIN rows |-> <<rows[i].name, rows[i].digest>>]
Refreshes == lastDiscovery' # lastDiscovery /\ lastDiscovery'.ok
CountsAreTrue ==
    [][Refreshes =>
          LET said == lastDiscovery'
              stored == Len(descriptors') - Len(descriptors)
          IN  /\ said.added + said.updated + said.unchanged = Cardinality(ModelNames)
              /\ said.added = Len(models') - Len(models)
              /\ said.added <= stored /\ stored <= said.added + said.updated
              /\ said.added + said.updated = 0 => Content(models') = Content(models)]_allVars

\* A repeat has its original's suite and profile, in its serving mode or a
\* narrower one, and an adapter where its original had one; it renders replaced
\* prompts only if it was itself allowed to, and where its prompts are not its
\* original's one of the two is marked; and, unless something moved between its
\* check and its creation, it differs from the original in a checked field exactly
\* where it says so (repeat_run, check_repeatable).
CheckedFields == {"digest", "machine", "version", "data"}
Checked(doc) == [f \in CheckedFields |-> doc[f]]
Narrowed(mode) == IF mode = "on" THEN {"on", "off"} ELSE {mode}
RepeatsMatch ==
    [][\A new \in DOMAIN runs' \ DOMAIN runs :
          runs'[new].repeats # 0 =>
             LET copy == runs'[new]
                 original == runs[copy.repeats]
             IN  /\ copy.suite = original.suite /\ copy.profile.context = original.profile.context
                 /\ copy.profile.registered \in Narrowed(original.profile.registered)
                 /\ (copy.adapter = 0) = (original.adapter = 0)
                 /\ copy.overridden => repeat.allowed
                 /\ copy.doc.override # original.doc.override => copy.overridden \/ original.overridden
                 /\ copy.divergences # {} => repeat.forced
                 /\ Checked(copy.doc) = Checked(repeat.observed) =>
                        copy.divergences =
                            {f \in CheckedFields : copy.doc[f] # original.doc[f]}]_allVars

\* A repeat measures the same subject (repeat_run's docstring).  It does not: the
\* adapter's name is looked up in the directory again, and may be another's there.
RepeatsMeasureTheSameSubject ==
    [][\A new \in DOMAIN runs' \ DOMAIN runs :
          LET copy == runs'[new]
          IN  copy.repeats # 0 /\ copy.divergences = {} => copy.asked = runs[copy.repeats].asked]_allVars

\* A run is measured under the artifact its adapter's row stands for: the row is
\* where its numbers are filed (services/runs.py, _stored_adapter_name).
MeasuresItsSubject ==
    \A r \in DOMAIN runs : runs[r].status = "running" => runs[r].applied = {runs[r].asked}
=============================================================================
