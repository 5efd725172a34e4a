----------------------------- MODULE GoalPacks -----------------------------
(***************************************************************************)
(* Goal packs on disk, one directory per goal (services/goals.py), beside  *)
(* the rows that are read from them and the registry of the server that    *)
(* runs them.  Every write is staged in a directory of its own and renamed *)
(* into place; requests of the server and commands of other processes      *)
(* interleave at each step, the author edits by hand, the server dies.     *)
(***************************************************************************)
EXTENDS GoalPack, TLC

CONSTANTS
    Slugs,
    Bodies,     \* the documents that a request may carry
    HandEdits,  \* the documents that the author may leave on disk, well-formed or not
    Prompts,    \* judge prompts that a bundle may bring, None among them
    Workers     \* requests and commands under way

VARIABLES
    disk,      \* the packs: slug -> [body, prompt]
    torn,      \* slugs whose directory is being removed
    litter,    \* whether a staging directory was left behind
    rows,      \* the criteria of the stored goal, for the slugs that have one
    grades,    \* the criteria of each slug that the author has graded
    registry,  \* the packs that the server runs
    up,        \* whether the server runs
    req,       \* each worker's step
    kept,      \* history: slugs that were written and not deleted since,
    cut        \* and those whose replacement was cut off while it took its place

history == <<kept, cut>>
packVars == <<disk, torn, litter, rows, grades, registry, up, req, history>>

Idle == [op |-> "none", at |-> "idle"]
NoPacks == [s \in {} |-> Idle]
Exists(s) == s \in DOMAIN disk \/ s \in torn
Without(f, s) == [x \in DOMAIN f \ {s} |-> f[x]]
With(f, s, v) == [x \in DOMAIN f \cup {s} |-> IF x = s THEN v ELSE f[x]]
KeysOf(body) == {c.key : c \in CriteriaOf(body)}
Parses(s) == s \in DOMAIN disk /\ ParsesPack(s, disk[s].body)
\* list_goals: one bad pack does not hide the others.
Loadable == [s \in {x \in DOMAIN disk : Parses(x)} |-> disk[s]]

PackInit ==
    /\ disk = NoPacks /\ torn = {} /\ litter = FALSE
    /\ rows = NoPacks /\ grades = [s \in Slugs |-> {}]
    /\ registry = NoPacks /\ up = TRUE
    /\ req = [w \in Workers |-> Idle] /\ kept = {} /\ cut = {}

Enter(w, op, at, s, pack, web) ==
    req' = [req EXCEPT ![w] = [op |-> op, at |-> at, slug |-> s, pack |-> pack, web |-> web]]
Step(w, at) == req' = [req EXCEPT ![w].at = at]
\* The staging directory is removed and the error is the answer.
Refuse(w) == req' = [req EXCEPT ![w] = Idle]
Free(w, web) == req[w] = Idle /\ (web => up)

-----------------------------------------------------------------------------
\* Staging

\* A slug that exists is refused; the lint is not consulted.
WritePack(w, s, body, web) ==
    /\ Free(w, web) /\ ~Exists(s) /\ ParsesPack(s, body)
    /\ Enter(w, "write", "staged", s, [body |-> body, prompt |-> None], web)
    /\ UNCHANGED <<disk, torn, litter, rows, grades, registry, up, history>>

\* A bundle whose lint has errors is refused.
ImportBundle(w, s, body, prompt, web) ==
    /\ Free(w, web) /\ ~Exists(s) /\ ParsesPack(s, body) /\ ~HasErrors(LintPack(body))
    /\ Enter(w, "import", "staged", s, [body |-> body, prompt |-> prompt], web)
    /\ UNCHANGED <<disk, torn, litter, rows, grades, registry, up, history>>

\* The judge's prompt is kept, and a starter that is edited is no longer unforked.
Staged(previous, body) ==
    [body |-> [body EXCEPT !.unforked = body.unforked /\ ~EditsStarterContent(previous.body, body)],
     prompt |-> previous.prompt]

\* The old directory was removed before the dry run was asked about.
ReplacePackBug(w, s, body, dry) ==
    /\ Free(w, TRUE) /\ Parses(s) /\ ParsesPack(s, body)
    /\ IF dry THEN disk' = Without(disk, s) /\ UNCHANGED req
       ELSE Enter(w, "replace", "staged", s, Staged(disk[s], body), TRUE) /\ UNCHANGED disk
    /\ UNCHANGED <<torn, litter, rows, grades, registry, up, history>>

\* A dry run only answers what would change.
ReplacePack(w, s, body, dry) ==
    /\ Free(w, TRUE) /\ Parses(s) /\ ParsesPack(s, body)
    /\ IF dry THEN UNCHANGED req
       ELSE Enter(w, "replace", "staged", s, Staged(disk[s], body), TRUE)
    /\ UNCHANGED <<disk, torn, litter, rows, grades, registry, up, history>>

-----------------------------------------------------------------------------
\* Into place

\* The old directory is removed piece by piece, or refuses at once.
RemoveOld(w) ==
    /\ req[w].op = "replace" /\ req[w].at = "staged"
    /\ LET s == req[w].slug
       IN  \/ Exists(s) /\ disk' = Without(disk, s) /\ torn' = torn \cup {s} /\ Step(w, "removing")
           \/ Refuse(w) /\ UNCHANGED <<disk, torn>>
    /\ UNCHANGED <<litter, rows, grades, registry, up, history>>

\* It is removed, unless another request was faster.
OldRemoved(w) ==
    /\ req[w].op = "replace" /\ req[w].at = "removing"
    /\ IF req[w].slug \in torn
       THEN torn' = torn \ {req[w].slug} /\ Step(w, "removed")
       ELSE Refuse(w) /\ UNCHANGED torn
    /\ UNCHANGED <<disk, litter, rows, grades, registry, up, history>>

\* A piece refuses: the staged pack is removed too, and half of the old one stays.
RemovalFails(w) ==
    /\ req[w].op = "replace" /\ req[w].at = "removing" /\ req[w].slug \in torn
    /\ Refuse(w) /\ cut' = cut \cup {req[w].slug}
    /\ UNCHANGED <<disk, torn, litter, rows, grades, registry, up, kept>>

\* A directory is not renamed over one that holds files.
Rename(w) ==
    /\ \/ req[w].op \in {"write", "import"} /\ req[w].at = "staged"
       \/ req[w].op = "replace" /\ req[w].at = "removed"
    /\ LET s == req[w].slug
       IN  IF Exists(s) THEN Refuse(w) /\ UNCHANGED <<disk, history>>
           ELSE /\ disk' = With(disk, s, req[w].pack) /\ Step(w, "placed")
                /\ kept' = kept \cup {s} /\ cut' = cut \ {s}
    /\ UNCHANGED <<torn, litter, rows, grades, registry, up>>

\* The pack is loaded from where it now lives, then all of them for the registry.
ReadPacks(w) ==
    /\ req[w].at = "placed"
    /\ req' = [req EXCEPT ![w] =
                 IF req[w].web /\ (req[w].op = "delete" \/ Parses(req[w].slug))
                 THEN [op |-> "install", at |-> "read", slug |-> req[w].slug, pack |-> Loadable, web |-> TRUE]
                 ELSE Idle]
    /\ UNCHANGED <<disk, torn, litter, rows, grades, registry, up, history>>

Installed(w) ==
    /\ req[w].op = "install"
    /\ registry' = req[w].pack /\ Refuse(w)
    /\ UNCHANGED <<disk, torn, litter, rows, grades, up, history>>

-----------------------------------------------------------------------------
\* Deletion: the rows, then the directory

DeleteGoal(w, s) ==
    /\ Free(w, TRUE) /\ (Exists(s) \/ s \in DOMAIN rows)
    /\ Enter(w, "delete", IF s \in DOMAIN rows THEN "rows" ELSE "directory", s, Idle, TRUE)
    /\ UNCHANGED <<disk, torn, litter, rows, grades, registry, up, history>>

DeleteRows(w) ==
    /\ req[w].op = "delete" /\ req[w].at = "rows"
    /\ rows' = Without(rows, req[w].slug) /\ grades' = [grades EXCEPT ![req[w].slug] = {}]
    /\ Step(w, "directory")
    /\ UNCHANGED <<disk, torn, litter, registry, up, history>>

\* What cannot be removed is left without a word.
RemoveDirectory(w) ==
    /\ req[w].op = "delete" /\ req[w].at = "directory"
    /\ LET s == req[w].slug
       IN  /\ \/ disk' = Without(disk, s) /\ torn' = torn \ {s}
              \/ disk' = Without(disk, s) /\ torn' = IF s \in DOMAIN disk THEN torn \cup {s} ELSE torn
              \/ UNCHANGED <<disk, torn>>
           /\ kept' = kept \ {s}
    /\ Step(w, "placed")
    /\ UNCHANGED <<litter, rows, grades, registry, up, cut>>

-----------------------------------------------------------------------------
\* The rows

\* Criteria that the pack still declares keep their rows, and with them their grades.
ReconcileBug(s, keys) == {}
Reconcile(s, keys) == grades[s] \cap keys

\* A calibration route or command reads the pack and stores what it read.
ReadGoal(w, s, web) ==
    /\ Free(w, web) /\ Parses(s)
    /\ Enter(w, "sync", "syncing", s, disk[s], web)
    /\ UNCHANGED <<disk, torn, litter, rows, grades, registry, up, history>>

SyncGoals(w) ==
    /\ req[w].op = "sync"
    /\ LET s == req[w].slug
           keys == KeysOf(req[w].pack.body)
       IN  rows' = With(rows, s, keys) /\ grades' = [grades EXCEPT ![s] = Reconcile(s, keys)]
    /\ Refuse(w)
    /\ UNCHANGED <<disk, torn, litter, registry, up, history>>

RecordGrade(s, k) ==
    /\ s \in DOMAIN rows /\ k \in rows[s]
    /\ grades' = [grades EXCEPT ![s] = @ \cup {k}]
    /\ UNCHANGED <<disk, torn, litter, rows, registry, up, req, history>>

-----------------------------------------------------------------------------
\* The author and the server

\* goals edit opens the file in place; a file is as good as an editor.
Edit(s, body) ==
    /\ s \in DOMAIN disk
    /\ disk' = [disk EXCEPT ![s].body = body]
    /\ UNCHANGED <<torn, litter, rows, grades, registry, up, req, history>>

TidyUp ==
    /\ litter \/ torn # {}
    /\ \A w \in Workers : req[w] = Idle
    /\ litter' = FALSE /\ torn' = {}
    /\ UNCHANGED <<disk, rows, grades, registry, up, req, history>>

\* Its requests die with the server, wherever they are.
Served(w) == req[w] # Idle /\ req[w].web
Die ==
    /\ up /\ up' = FALSE
    /\ litter' = (litter \/ \E w \in Workers : Served(w) /\ req[w].at \in {"staged", "removing", "removed"})
    /\ cut' = cut \cup {req[w].slug : w \in {x \in Workers : Served(x) /\ req[x].at \in {"removing", "removed"}}}
    /\ req' = [w \in Workers |-> IF Served(w) THEN Idle ELSE req[w]]
    /\ UNCHANGED <<disk, torn, rows, grades, registry, kept>>

\* load_goals: every directory has to be a pack without errors, a staging directory too.
LoadGoals ==
    /\ ~litter /\ torn = {}
    /\ \A w \in Workers : req[w].at \notin {"staged", "removing", "removed"}
    /\ \A s \in DOMAIN disk : Parses(s) /\ ~HasErrors(LintPack(disk[s].body))

Launch ==
    /\ ~up /\ LoadGoals
    /\ up' = TRUE /\ registry' = disk
    /\ UNCHANGED <<disk, torn, litter, rows, grades, req, history>>

Progress(w) ==
    \/ RemoveOld(w) \/ OldRemoved(w) \/ RemovalFails(w) \/ Rename(w) \/ ReadPacks(w) \/ Installed(w)
    \/ DeleteRows(w) \/ RemoveDirectory(w) \/ SyncGoals(w)

PackNext ==
    \/ \E w \in Workers, s \in Slugs :
          \/ \E body \in Bodies :
                \/ \E web \in BOOLEAN : WritePack(w, s, body, web)
                \/ \E web \in BOOLEAN, prompt \in Prompts : ImportBundle(w, s, body, prompt, web)
                \/ \E dry \in BOOLEAN : ReplacePack(w, s, body, dry)
          \/ DeleteGoal(w, s)
          \/ \E web \in BOOLEAN : ReadGoal(w, s, web)
    \/ \E w \in Workers : Progress(w)
    \/ \E s \in Slugs : \/ \E k \in UNION {KeysOf(body) : body \in Bodies} : RecordGrade(s, k)
                        \/ \E body \in HandEdits : Edit(s, body)
    \/ TidyUp \/ Die \/ Launch

-----------------------------------------------------------------------------
\* The state has its shape.
PackTypeOK ==
    /\ DOMAIN disk \subseteq Slugs /\ torn \subseteq Slugs /\ DOMAIN disk \cap torn = {}
    /\ DOMAIN rows \subseteq Slugs /\ DOMAIN registry \subseteq Slugs /\ kept \subseteq Slugs /\ cut \subseteq Slugs
    /\ {litter, up} \subseteq BOOLEAN
    /\ \A w \in Workers : req[w].op \in {"none", "write", "import", "replace", "delete", "install", "sync"}

Replacing(s) ==
    \E w \in Workers : req[w].op = "replace" /\ req[w].slug = s /\ req[w].at \in {"removing", "removed"}

\* A goal that was written and not deleted is on disk, or its replacement is taking its place,
\* or that was cut off in between: by the death of the server, or by a directory that would not
\* go.  Nothing else loses it: no refused, raced, previewed or imported write, no other
\* deletion, no start of the server, no tidying up (replace_pack).
GoalsSurvive == \A s \in kept \ cut : s \in DOMAIN disk \/ Replacing(s)

\* Not so: what is cut off leaves neither the old pack nor, where the directory would not go,
\* the new one.
GoalsAlwaysSurvive == \A s \in kept : s \in DOMAIN disk \/ Replacing(s)

\* A grade is lost to the deletion of its goal, or to the storing of a pack that no longer
\* declares its criterion, and to nothing else (GoalRepository.sync).
GradesSurvive ==
    [][\A s \in Slugs : \A k \in grades[s] \ grades'[s] :
          \E w \in Workers : /\ req[w] # Idle /\ req[w].slug = s
                             /\ \/ req[w].op = "delete"
                                \/ req[w].op = "sync" /\ k \notin KeysOf(req[w].pack.body)]_packVars
=============================================================================
