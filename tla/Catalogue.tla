----------------------------- MODULE Catalogue ------------------------------
(***************************************************************************)
(* The model catalogue (services/models.py): what the provider serves is   *)
(* listed outside any transaction and written in one, by a server and a    *)
(* command line that know nothing of each other.  A model is a row found   *)
(* by its name and its artifact's digest; 0 is no digest reported.         *)
(***************************************************************************)
EXTENDS Naturals, Sequences, FiniteSets, SequencesExt, FiniteSetsExt

CONSTANTS ModelNames,   \* names the provider serves models under
          Digests,      \* digests it may report, 0 among them
          Contents,     \* what a descriptor may say (its hash)
          Discoverers,  \* processes that refresh the catalogue
          MaxTime       \* bound of the clock

ASSUME CatalogueAssumption ==
    /\ IsFiniteSet(ModelNames) /\ Digests \subseteq Nat /\ {0, 1} \subseteq Digests /\ 1 \in Contents
    /\ MaxTime \in Nat

VARIABLES
    served,         \* by name: [digest, content], what the provider serves
    models,         \* rows of `models`: [name, digest, seen, enabled, aliases]
    descriptors,    \* rows of `model_descriptors`: [model, content, at]
    lastDiscovery,  \* the setting models.last_discovery
    listing,        \* by discoverer: the answer it holds, and when it asked
    clock

catalogueVars == <<served, models, descriptors, lastDiscovery, listing, clock>>

NoOutcome == [ok |-> FALSE, added |-> 0, updated |-> 0, unchanged |-> 0, at |-> 0]
NotListed == [at |-> 0, answer |-> <<>>]

CatalogueInit ==
    /\ served \in [ModelNames -> [digest : {1}, content : {1}]]
    /\ models = <<>> /\ descriptors = <<>> /\ lastDiscovery = NoOutcome
    /\ listing = [d \in Discoverers |-> NotListed] /\ clock = 1

-----------------------------------------------------------------------------
IdentityConfidence(digest) == IF digest = 0 THEN "name_only" ELSE "digest"

GetByIdentity(rows, name, digest) ==
    {i \in DOMAIN rows : rows[i].name = name /\ rows[i].digest = digest}

\* A row of the newest sighting; equal instants leave the choice to SQLite.
GetByProviderModelName(name) ==
    {i \in DOMAIN models : /\ models[i].name = name
                           /\ \A j \in DOMAIN models :
                                  models[j].name = name => models[j].seen <= models[i].seen}

LatestForModel(store, i) ==
    {k \in DOMAIN store : /\ store[k].model = i
                          /\ \A l \in DOMAIN store : store[l].model = i => store[l].at <= store[k].at}

\* The mistake of upgrading whatever row the name has.
UpgradeNameOnlyRowBug(rows, name, digest, now) ==
    IF GetByIdentity(rows, name, digest) # {} THEN rows
    ELSE [i \in DOMAIN rows |->
              IF rows[i].name = name THEN [rows[i] EXCEPT !.digest = digest, !.seen = now] ELSE rows[i]]

\* A row known by name only takes the digest, unless a row has it already.
UpgradeNameOnlyRow(rows, name, digest, now) ==
    IF GetByIdentity(rows, name, digest) # {} THEN rows
    ELSE [i \in DOMAIN rows |->
              IF i \in GetByIdentity(rows, name, 0)
              THEN [rows[i] EXCEPT !.digest = digest, !.seen = now] ELSE rows[i]]

TouchOrInsert(rows, name, digest, now) ==
    IF GetByIdentity(rows, name, digest) = {}
    THEN Append(rows, [name |-> name, digest |-> digest, seen |-> now, enabled |-> TRUE,
                       aliases |-> {}])
    ELSE [i \in DOMAIN rows |-> IF i \in GetByIdentity(rows, name, digest)
                                THEN [rows[i] EXCEPT !.seen = now] ELSE rows[i]]

UpsertIdentity(rows, name, digest, now) ==
    LET upgraded == IF digest = 0 THEN rows ELSE UpgradeNameOnlyRow(rows, name, digest, now)
    IN  IF upgraded # rows THEN upgraded ELSE TouchOrInsert(rows, name, digest, now)

IsNewBug(rows, name, digest) == GetByIdentity(rows, name, digest) = {}

\* A sighting is of a new model when neither its identity nor its name alone is
\* stored; otherwise it updates the model if it says something else of it.
IsNew(rows, name, digest) ==
    GetByIdentity(rows, name, digest) \cup GetByIdentity(rows, name, 0) = {}

PreviousConfidence(rows, name, digest) ==
    IF GetByIdentity(rows, name, digest) # {} THEN IdentityConfidence(digest) ELSE "name_only"

StoreDescriptor(store, i, said, at) == Append(store, [model |-> i, content |-> said.content, at |-> at])

\* One descriptor of an answer, on top of what the pass did before it.
Discover(pass, name, said, at, now) ==
    LET rows == UpsertIdentity(pass.models, name, said.digest, now)
        i == CHOOSE k \in GetByIdentity(rows, name, said.digest) : TRUE
        latest == LatestForModel(pass.descriptors, i)
        new == IsNew(pass.models, name, said.digest)
        changed == \A k \in latest : pass.descriptors[k].content # said.content
        confident == PreviousConfidence(pass.models, name, said.digest) # IdentityConfidence(said.digest)
        updates == ~new /\ (changed \/ confident)
    IN  [models |-> rows,
         descriptors |-> IF new \/ changed THEN StoreDescriptor(pass.descriptors, i, said, at)
                                           ELSE pass.descriptors,
         added |-> pass.added + (IF new THEN 1 ELSE 0),
         updated |-> pass.updated + (IF updates THEN 1 ELSE 0),
         unchanged |-> pass.unchanged + (IF ~new /\ ~updates THEN 1 ELSE 0)]

-----------------------------------------------------------------------------
\* The provider's models are pulled again, removed, or reported without a digest.
Republish(name, digest, content) ==
    /\ served[name] # [digest |-> digest, content |-> content]
    /\ served' = [served EXCEPT ![name] = [digest |-> digest, content |-> content]]
    /\ UNCHANGED <<models, descriptors, lastDiscovery, listing, clock>>

ListModels(d) ==
    /\ listing[d] = NotListed
    /\ clock < MaxTime
    /\ clock' = clock + 1
    /\ listing' = [listing EXCEPT ![d] = [at |-> clock', answer |-> served]]
    /\ UNCHANGED <<served, models, descriptors, lastDiscovery>>

\* A whole answer on top of what is stored, in the order the provider chose.
Started == [models |-> models, descriptors |-> descriptors, added |-> 0, updated |-> 0, unchanged |-> 0]
Refreshed(answer, at) ==
    FoldSet(LAMBDA name, pass : Discover(pass, name, answer[name], at, at), Started, DOMAIN answer)

\* One write transaction for it.
DiscoverModels(d) ==
    /\ listing[d] # NotListed
    /\ LET at == listing[d].at
           pass == Refreshed(listing[d].answer, at)
       IN  /\ models' = pass.models /\ descriptors' = pass.descriptors
           /\ lastDiscovery' = [ok |-> TRUE, added |-> pass.added, updated |-> pass.updated,
                                unchanged |-> pass.unchanged, at |-> at]
    /\ listing' = [listing EXCEPT ![d] = NotListed]
    /\ UNCHANGED <<served, clock>>

\* The provider cannot be listed: the attempt is recorded and nothing else.
DiscoveryFails(d) ==
    /\ listing[d] # NotListed
    /\ lastDiscovery' = [NoOutcome EXCEPT !.at = listing[d].at]
    /\ listing' = [listing EXCEPT ![d] = NotListed]
    /\ UNCHANGED <<served, models, descriptors, clock>>

\* References are looked up as an id, then a canonical id, then a name.
LookupModel(ref) == IF ref.kind = "id" THEN {ref.id} \cap DOMAIN models
                                       ELSE GetByProviderModelName(ref.name)

SetModelEnabled(i, enabled) ==
    /\ models[i].enabled # enabled
    /\ models' = [models EXCEPT ![i].enabled = enabled]
    /\ UNCHANGED <<served, descriptors, lastDiscovery, listing, clock>>

\* A reference nothing is stored under is resolved by the provider, and is
\* remembered with the row of what it resolves to now, if that was discovered.
RecordAlias(i, alias) == [models EXCEPT ![i].aliases = @ \cup {alias}]
GetModelDetail(alias, name) ==
    /\ \E i \in GetByIdentity(models, name, served[name].digest) :
           /\ alias \notin models[i].aliases
           /\ models' = RecordAlias(i, alias)
    /\ UNCHANGED <<served, descriptors, lastDiscovery, listing, clock>>

\* The list page: a row each, with its newest descriptor; and the shortest name
\* that is not ambiguous among the enabled.
ListModelsWithLatestDescriptor == [i \in DOMAIN models |-> LatestForModel(descriptors, i)]
DisplayNames ==
    [i \in DOMAIN models |->
        IF Cardinality({j \in DOMAIN models : models[j].enabled /\ models[j].name = models[i].name}) > 1
        THEN <<models[i].name, models[i].digest>> ELSE <<models[i].name>>]
=============================================================================
