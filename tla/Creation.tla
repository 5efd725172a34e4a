------------------------------ MODULE Creation ------------------------------
(***************************************************************************)
(* Creating a run and repeating one (services/runs.py, create_run and      *)
(* repeat_run; domain/provenance.py): a request resolves a model, an       *)
(* adapter and a context against what is stored and served now, and the    *)
(* run keeps a document of it; a repeat reads the document of its original *)
(* in one transaction, checks it, and creates its run in another.          *)
(***************************************************************************)
EXTENDS Catalogue, Adapters

CONSTANTS Suites,     \* suite keys; "fit" is the one that measures the context
          Fits,       \* contexts a fit may measure, in tokens
          Margin,     \* benchmarks.context_fit_margin_tokens
          RefineStep, \* REFINE_STEP_TOKENS
          MaxRuns     \* bound of the runs

ASSUME FitsArePositive == Fits \subseteq Nat \ {0} /\ {Margin, RefineStep} \subseteq Nat

VARIABLES
    world,     \* what a process finds around it: versions, data, machine, capabilities
    machines,  \* fingerprints stored, with their nicknames
    suites,    \* installed suites: [key, version, data]
    runs,      \* stored runs
    reading,   \* what the caller of a creation and of a repeat read of the directory
    repeat     \* a repeat between its check and its creation

creationVars == <<world, machines, suites, runs, reading, repeat>>
allVars == <<catalogueVars, adapterVars, creationVars>>

Callers == {"creation", "repeat"}
NotRead == [done |-> FALSE, entries |-> {}]
NoRepeat == [original |-> 0, observed |-> <<>>, adapter |-> 0, forced |-> FALSE, allowed |-> FALSE]

CreationInit ==
    /\ CatalogueInit /\ AdaptersInit
    /\ world = [version |-> 1, data |-> 1, machine |-> 1, override |-> FALSE,
                hotSwap |-> TRUE, configurable |-> TRUE]
    /\ machines = {} /\ suites = {} /\ runs = <<>> /\ repeat = NoRepeat
    /\ reading = [c \in Callers |-> NotRead]

\* The provider is upgraded or is another, which serves no adapters or no
\* context it is asked for, a dataset moves, the database is on another machine,
\* an operator overrides a prompt.
ChangeWorld(next) ==
    /\ world' = next /\ world' # world
    /\ UNCHANGED <<catalogueVars, adapterVars, machines, suites, runs, reading, repeat>>

-----------------------------------------------------------------------------
ProfileMachine(stored) ==
    IF world.machine \in {m.fingerprint : m \in stored} THEN stored
    ELSE stored \cup {[fingerprint |-> world.machine, nickname |-> FALSE]}

SetMachineNickname(machine) ==
    /\ machine \in machines
    /\ machines' = (machines \ {machine}) \cup {[machine EXCEPT !.nickname = ~@]}
    /\ UNCHANGED <<catalogueVars, adapterVars, world, suites, runs, reading, repeat>>

\* Insert if absent: a suite's row is never rewritten.
InstallSuite(stored, suite) ==
    IF \E s \in stored : s.key = suite.key /\ s.version = suite.version
    THEN stored ELSE stored \cup {suite}
\* A shipped suite's version moves with its manifest, which names its data.
SuiteOf(key) == [key |-> key, version |-> world.data, data |-> world.data]

ResolveServedContext(requested, configurable, advertised) ==
    IF requested # 0 /\ configurable THEN [tokens |-> requested, source |-> "configured"]
    ELSE [tokens |-> advertised, source |-> "assumed"]

UsableContext(fit) ==
    LET least == IF fit < RefineStep THEN fit ELSE RefineStep
    IN  IF fit - Margin > least THEN fit - Margin ELSE least

\* The newest completed fit of this model, here, in this serving mode; a fit
\* without a result is not looked past.
MeasuredContextFit(row, profile) ==
    LET fits == {r \in DOMAIN runs : /\ runs[r].suite = "fit" /\ runs[r].status = "completed"
                                     /\ runs[r].row = row /\ runs[r].doc.machine = world.machine
                                     /\ runs[r].profile.registered = profile.registered}
    IN  IF fits = {} THEN 0
        ELSE runs[CHOOSE r \in fits : \A q \in fits : runs[q].ended <= runs[r].ended].fit

FingerprintDocument(row, descriptor, profile, suite, context) ==
    [digest |-> models[row].digest, content |-> descriptors[descriptor].content,
     profile |-> profile, version |-> world.version, machine |-> world.machine,
     data |-> suite.data, override |-> world.override, context |-> context]

Served(profile, descriptor) ==
    ResolveServedContext(profile.context, world.configurable, descriptors[descriptor].content)

-----------------------------------------------------------------------------
\* The checks, in the order of the code, before anything but the machine is
\* written: the prompts, the model, its descriptor, the adapter.
MayCreate(request, row, entries) ==
    /\ world.override => request.allowOverride
    /\ models[row].enabled
    /\ LatestForModel(descriptors, row) # {}
    /\ request.adapter # 0 => world.hotSwap
    /\ ~SubjectRefused(models[row], entries, request.adapter)

\* A base without adapters of its own is served by a clean server.
NarrowedProfile(request, row, entries) ==
    [request.profile EXCEPT
        !.registered = IF @ = "on" /\ ~ServesBase(entries, models[row]) THEN "off" ELSE @]

\* Under require_context_fit a suite other than the fit waits for one; a request
\* that names no context runs at what the fit measured less the margin.  A
\* provider that cannot be given a context has neither.
FitRequired(request, row, profile) ==
    /\ "require" \in request.fit /\ request.suite # "fit" /\ world.configurable
    /\ MeasuredContextFit(row, profile) = 0
ProfileAtFit(request, row, profile) ==
    IF /\ "use" \in request.fit /\ request.suite # "fit" /\ world.configurable
       /\ MeasuredContextFit(row, profile) # 0
    THEN [profile EXCEPT !.context = UsableContext(MeasuredContextFit(row, profile))]
    ELSE profile

InsertRun(request, row, descriptor, profile, entries, divergences) ==
    LET suite == SuiteOf(request.suite)
        subject == SubjectFor(entries, request.adapter)
        rows == AdapterRowFor(subject)
    IN  /\ adapters' = rows
        /\ suites' = InstallSuite(suites, suite)
        /\ runs' = Append(runs,
               [row |-> row, descriptor |-> descriptor, suite |-> request.suite, profile |-> profile,
                doc |-> FingerprintDocument(row, descriptor, profile, suite,
                                            Served(profile, descriptor)),
                adapter |-> IF subject = Bare THEN 0
                            ELSE CHOOSE i \in DOMAIN rows : rows[i] = StoredRow(subject),
                asked |-> subject.sha, repeats |-> request.repeats, divergences |-> divergences,
                overridden |-> world.override, status |-> "queued", ended |-> 0, fit |-> 0,
                applied |-> {}])

\* The directory is as the caller read it before.
CreateFrom(request, entries, divergences) ==
    /\ Len(runs) < MaxRuns
    /\ machines' = ProfileMachine(machines)
    /\ \E row \in LookupModel(request.ref) :
           /\ MayCreate(request, row, entries)
           /\ LET profile == NarrowedProfile(request, row, entries)
              IN  /\ ~FitRequired(request, row, profile)
                  /\ \E descriptor \in LatestForModel(descriptors, row) :
                         InsertRun(request, row, descriptor, ProfileAtFit(request, row, profile),
                                   entries, divergences)
    /\ UNCHANGED <<catalogueVars, files, registered, world>>

\* The route and the command read the directory, then call.
ReadEntries(caller) ==
    /\ ~reading[caller].done
    /\ reading' = [reading EXCEPT ![caller] = [done |-> TRUE, entries |-> ReadDirectory.entries]]
    /\ UNCHANGED <<catalogueVars, adapterVars, world, machines, suites, runs, repeat>>
Entries(caller) == reading[caller].entries
Called(caller) == reading[caller].done /\ reading' = [reading EXCEPT ![caller] = NotRead]

\* A fresh run is asked for in the serving mode of the directory that was read.
RequestProfile(context) ==
    [context |-> context, registered |-> ServingMode(Entries("creation"), world.hotSwap)]
CreateRun(request, context) ==
    /\ Called("creation")
    /\ CreateFrom([request EXCEPT !.profile = RequestProfile(context)], Entries("creation"), {})
    /\ UNCHANGED repeat

-----------------------------------------------------------------------------
CheckRepeatableBug(recorded, observed) ==
    {f \in {"digest", "machine", "data"} : recorded[f] # observed[f]}

\* The four fields a repeat is refused for.
CheckRepeatable(recorded, observed) ==
    {f \in {"digest", "machine", "version", "data"} : recorded[f] # observed[f]}

\* The model is found again by the name it is served under, not by its id.
ModelRef(run) == [kind |-> "name", name |-> models[run.row].name, id |-> 0]

ObservedDocument(run, row, descriptor) ==
    FingerprintDocument(row, descriptor, run.profile, SuiteOf(run.suite),
                        Served(run.profile, descriptor))

\* The check: what is here now against the original's document.  The name its
\* adapter has now is read with it.
CheckRepeat(original, force, allow) ==
    /\ reading["repeat"].done /\ repeat = NoRepeat
    /\ original \in DOMAIN runs
    /\ \E row \in LookupModel(ModelRef(runs[original])) :
       \E descriptor \in LatestForModel(descriptors, row) :
           LET observed == ObservedDocument(runs[original], row, descriptor)
           IN  /\ CheckRepeatable(runs[original].doc, observed) # {} => force
               /\ repeat' = [original |-> original, observed |-> observed,
                             adapter |-> StoredAdapterName(runs[original].adapter),
                             forced |-> force, allowed |-> allow]
    /\ machines' = ProfileMachine(machines)
    /\ UNCHANGED <<catalogueVars, adapterVars, world, suites, runs, reading>>

\* The creation: the original's model name, suite, profile and adapter's name,
\* looked up once more, with the divergence the check saw.
DivergenceDegradation == CheckRepeatable(runs[repeat.original].doc, repeat.observed)
RepeatRequest ==
    LET original == runs[repeat.original]
    IN  [ref |-> ModelRef(original), suite |-> original.suite, profile |-> original.profile,
         adapter |-> repeat.adapter, allowOverride |-> repeat.allowed,
         fit |-> {}, repeats |-> repeat.original]
RepeatRun ==
    /\ repeat # NoRepeat /\ repeat' = NoRepeat
    /\ Called("repeat")
    /\ CreateFrom(RepeatRequest, Entries("repeat"), DivergenceDegradation)

\* The creation refuses what changed since the check in its own terms.
RepeatIsRefused ==
    /\ repeat # NoRepeat /\ repeat' = NoRepeat
    /\ \/ Len(runs) = MaxRuns
       \/ \A row \in LookupModel(ModelRef(runs[repeat.original])) :
              ~MayCreate(RepeatRequest, row, Entries("repeat"))
    /\ Called("repeat")
    /\ UNCHANGED <<catalogueVars, adapterVars, world, machines, suites, runs>>

-----------------------------------------------------------------------------
\* The executor asks the provider for the adapter by its row's name; a name the
\* provider was not given fails the run.
ExecuteRun(r) ==
    /\ runs[r].status = "queued"
    /\ LET applied == Applied(StoredAdapterName(runs[r].adapter))
       IN  runs' = [runs EXCEPT ![r].applied = applied,
                                ![r].status = IF applied = {} THEN "failed" ELSE "running"]
    /\ UNCHANGED <<catalogueVars, adapterVars, world, machines, suites, reading, repeat>>

CompleteRun(r, fit) ==
    /\ runs[r].status = "running"
    /\ runs' = [runs EXCEPT ![r].status = "completed",
                            ![r].ended = Cardinality({q \in DOMAIN runs : runs[q].ended > 0}) + 1,
                            ![r].fit = IF runs[r].suite = "fit" THEN fit ELSE 0]
    /\ UNCHANGED <<catalogueVars, adapterVars, world, machines, suites, reading, repeat>>

-----------------------------------------------------------------------------
\* The operator, the provider, the processes and the executor, in any order.
World == [version : Nat, data : Nat, machine : Nat, override : BOOLEAN,
          hotSwap : BOOLEAN, configurable : BOOLEAN]
Requests ==
    [ref : [kind : {"name", "id"}, name : ModelNames, id : Nat], suite : Suites, profile : {<<>>}, adapter : Nat,
     allowOverride : BOOLEAN, fit : SUBSET {"use", "require"}, repeats : {0}]
CatalogueNext ==
    \/ \E name \in ModelNames :
          \/ \E digest \in Digests, content \in Contents : Republish(name, digest, content)
          \/ \E alias \in Nat : GetModelDetail(alias, name)
    \/ \E i \in DOMAIN models, on \in BOOLEAN : SetModelEnabled(i, on)
    \/ \E d \in Discoverers : ListModels(d) \/ DiscoverModels(d) \/ DiscoveryFails(d)
AdaptersNext ==
    \/ \E stem \in Stems, artifact \in Artifacts, manifest \in Manifests \cup {NoManifest} :
          EditDirectory(stem, artifact, manifest)
    \/ \E stem \in Stems : DraftManifest(stem)
    \/ RegisterConfiguredAdapters
CreationNext ==
    \/ CatalogueNext /\ UNCHANGED <<adapterVars, creationVars>>
    \/ AdaptersNext /\ UNCHANGED <<catalogueVars, creationVars>>
    \/ \E w \in World : ChangeWorld(w)
    \/ \E machine \in machines : SetMachineNickname(machine)
    \/ \E request \in Requests, context \in Nat : CreateRun(request, context)
    \/ \E caller \in Callers : ReadEntries(caller)
    \/ \E r \in DOMAIN runs, force, allow \in BOOLEAN : CheckRepeat(r, force, allow)
    \/ RepeatRun \/ RepeatIsRefused
    \/ \E r \in DOMAIN runs : ExecuteRun(r) \/ \E fit \in Fits : CompleteRun(r, fit)
CreationSpec == CreationInit /\ [][CreationNext]_allVars
=============================================================================
