------------------------------ MODULE Adapters ------------------------------
(***************************************************************************)
(* LoRA adapters: the operator's directory of artifacts and manifests      *)
(* (infrastructure/adapters/directory.py), the subjects a base and the     *)
(* directory make (domain/subjects.py), the stored rows they are measured  *)
(* under (services/adapters.py), and the set the provider was constructed  *)
(* with (infrastructure/providers/factory.py).  A digest is a number; 0 is *)
(* no digest, no file or no name.                                          *)
(***************************************************************************)
EXTENDS Naturals, Sequences, FiniteSets

CONSTANTS Stems,      \* file stems of the directory
          Artifacts,  \* digests a file may have
          Manifests   \* manifests: [name, sha, baseName, baseDigest]

ASSUME AdaptersAssumption ==
    /\ Stems \subseteq Nat /\ 0 \in Artifacts
    /\ Manifests \subseteq [name : Nat \ {0}, sha : Nat, baseName : Nat, baseDigest : Nat]

VARIABLES
    files,       \* by stem: [artifact, manifest, draft]
    adapters,    \* rows of `adapters`: [name, sha, baseName]
    registered   \* the registrations the provider process was constructed with

adapterVars == <<files, adapters, registered>>

NoManifest == [name |-> 0, sha |-> 0, baseName |-> 0, baseDigest |-> 0]
Empty == [artifact |-> 0, manifest |-> NoManifest, draft |-> FALSE]
AdaptersInit == files = [s \in Stems |-> Empty] /\ adapters = <<>> /\ registered = {}

\* An entry is available while its artifact is there and hashes to what it says.
ReadManifest(stem) ==
    LET manifest == files[stem].manifest
    IN  [stem |-> stem, name |-> manifest.name, sha |-> manifest.sha,
         baseName |-> manifest.baseName, baseDigest |-> manifest.baseDigest,
         available |-> files[stem].artifact = manifest.sha]

ReadDirectory ==
    [entries |-> {ReadManifest(s) : s \in {t \in Stems : files[t].manifest # NoManifest}},
     drafts |-> {s \in Stems : files[s].draft},
     unmanifested |-> {s \in Stems : /\ files[s].artifact # 0 /\ ~files[s].draft
                                     /\ files[s].manifest = NoManifest}]

RegistrationsFrom(entries) == {e \in entries : e.available}

\* The operator copies, replaces and removes artifacts and reviewed manifests.
EditDirectory(stem, artifact, manifest) ==
    /\ files' = [files EXCEPT ![stem].artifact = artifact, ![stem].manifest = manifest,
                              ![stem].draft = @ /\ manifest = NoManifest]
    /\ files' # files
    /\ UNCHANGED <<adapters, registered>>

\* A draft is written only for an artifact that has neither a manifest nor a draft.
DraftManifest(stem) ==
    /\ stem \in ReadDirectory.unmanifested
    /\ files' = [files EXCEPT ![stem].draft = TRUE]
    /\ UNCHANGED <<adapters, registered>>

\* A process that starts offers its provider what is available then.
RegisterConfiguredAdapters ==
    /\ registered' = RegistrationsFrom(ReadDirectory.entries)
    /\ registered' # registered
    /\ UNCHANGED <<files, adapters>>

-----------------------------------------------------------------------------
\* A manifest that pins its base's digest is held to it where the base has one.
DeclaresBase(entry, base) ==
    IF entry.baseDigest # 0 /\ base.digest # 0
    THEN entry.baseDigest = base.digest
    ELSE entry.baseName = base.name

CompatibleEntries(base, entries) == {e \in RegistrationsFrom(entries) : DeclaresBase(e, base)}

Bare == [name |-> 0, sha |-> 0]
EnumerateSubjects(base, entries) == {Bare} \cup CompatibleEntries(base, entries)

\* The first entry of that name, in the order the directory is read.
Named(entries, name) ==
    CHOOSE e \in entries : e.name = name /\ \A f \in entries : f.name = name => e.stem <= f.stem

SubjectRefused(base, entries, name) ==
    /\ name # 0
    /\ \/ name \notin {e.name : e \in entries}
       \/ Named(entries, name) \notin CompatibleEntries(base, entries)

SubjectFor(entries, name) == IF name = 0 THEN Bare ELSE Named(entries, name)

\* Narrower than compatibility: a pinned digest is compared even with none.
ServesBase(entries, base) ==
    \E e \in RegistrationsFrom(entries) :
        IF e.baseDigest # 0 THEN e.baseDigest = base.digest ELSE e.baseName = base.name

\* A provider that has no adapters says nothing of its mode.
ServingMode(entries, hotSwap) ==
    IF ~hotSwap THEN "unsaid" ELSE IF RegistrationsFrom(entries) # {} THEN "on" ELSE "off"

\* Identity is the artifact's digest: a rename refreshes the row it finds.
RowOf(subject) == {i \in DOMAIN adapters : adapters[i].sha = subject.sha}
StoredRow(subject) == [name |-> subject.name, sha |-> subject.sha, baseName |-> subject.baseName]

AdapterRowFor(subject) ==
    IF subject = Bare THEN adapters
    ELSE IF RowOf(subject) = {} THEN Append(adapters, StoredRow(subject))
    ELSE [i \in DOMAIN adapters |-> IF i \in RowOf(subject) THEN StoredRow(subject) ELSE adapters[i]]

\* What the adapters page lists: one entry per digest, on disk or measured.
AdapterCatalog(measured) ==
    LET entries == ReadDirectory.entries
        stored == {adapters[i].sha : i \in DOMAIN adapters}
    IN  {[sha |-> sha, inDirectory |-> sha \in {e.sha : e \in entries},
          measured |-> sha \in stored, runs |-> measured[sha]]
            : sha \in {e.sha : e \in entries} \cup stored}

\* A run asks the provider for its adapter by the name its row carries.
StoredAdapterName(row) == IF row = 0 THEN 0 ELSE adapters[row].name
Applied(name) == IF name = 0 THEN {0} ELSE {e.sha : e \in {r \in registered : r.name = name}}
=============================================================================
