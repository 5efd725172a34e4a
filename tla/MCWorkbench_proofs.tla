------------------------- MODULE MCWorkbench_proofs -------------------------
(***************************************************************************)
(* A goal that was written survives every race of its writers, and a grade *)
(* survives every load of its pack, for any number of requests, commands   *)
(* and deaths of the server, the wizard's saves among them.                *)
(***************************************************************************)
EXTENDS MCWorkbench, NaturalLemmas, SequenceTheorems, TLAPS

Removing(w, s) == req[w].op = "replace" /\ req[w].slug = s /\ req[w].at = "removing"
Removed(w, s) == req[w].op = "replace" /\ req[w].slug = s /\ req[w].at = "removed"

Replacement(r) == r # Idle /\ r.web /\ {"op", "at", "slug"} \subseteq DOMAIN r

\* A request is Idle or says what it is; only the application replaces a pack.
Requests ==
    /\ req = [w \in Workers |-> req[w]]
    /\ \A w \in Workers : req[w].op = "replace" => Replacement(req[w])

\* A kept goal that no replacement was cut off of: if its directory is being removed it has a
\* replacement that removes it, and if it has none a replacement that removed it.
Uncut == kept \ cut
Kept ==
    \A s \in Uncut :
        /\ s \in torn => \E w \in Workers : Removing(w, s)
        /\ s \notin DOMAIN disk /\ s \notin torn => \E w \in Workers : Removed(w, s)

PackInv == Requests /\ Kept

LEMMA KeptSurvive == PackInv => GoalsSurvive
  BY DEF PackInv, Kept, GoalsSurvive, Uncut, Replacing, Removing, Removed

\* A request that begins, and one that is answered.
LEMMA Begins ==
  ASSUME PackInv, NEW w \in Workers, req[w] = Idle, NEW r,
         req' = [req EXCEPT ![w] = r], r.op = "replace" => Replacement(r),
         UNCHANGED <<disk, torn, history>>
  PROVE  PackInv'
<1>1. Requests'
  BY DEF PackInv, Requests
<1>2. \A v \in Workers : req[v].op = "replace" => req'[v] = req[v]
  BY DEF PackInv, Requests, Replacement
<1>3. Kept'
  BY <1>2 DEF PackInv, Kept, Removing, Removed, Uncut, history
<1> QED  BY <1>1, <1>3 DEF PackInv

\* A step of a request that replaces nothing, or not yet, and touches no directory.
LEMMA Elsewhere ==
  ASSUME PackInv, NEW w \in Workers, ~(req[w].op = "replace" /\ req[w].at \in {"removing", "removed"}),
         NEW r, req' = [req EXCEPT ![w] = r], r.op = "replace" => Replacement(r),
         Uncut' \subseteq Uncut,
         \A s \in Uncut' : (s \in DOMAIN disk <=> s \in DOMAIN disk') /\ (s \in torn <=> s \in torn')
  PROVE  PackInv'
<1>1. Requests'
  BY DEF PackInv, Requests
<1>2. \A v \in Workers : req[v].op = "replace" /\ req[v].at \in {"removing", "removed"} => req'[v] = req[v]
  BY DEF PackInv, Requests
<1>3. Kept'
  BY <1>2 DEF PackInv, Kept, Removing, Removed
<1> QED  BY <1>1, <1>3 DEF PackInv

\* Neither requests nor directories change.
LEMMA Untouched ==
  ASSUME PackInv, UNCHANGED <<torn, history, req>>, DOMAIN disk' = DOMAIN disk
  PROVE  PackInv'
  BY DEF PackInv, Requests, Kept, Removing, Removed, Uncut, history

-----------------------------------------------------------------------------
LEMMA StartStep ==
  ASSUME PackInv, NEW w \in Workers, NEW s \in Slugs,
         \/ \E body, web : WritePack(w, s, body, web)
         \/ \E body, web, prompt : ImportBundle(w, s, body, prompt, web)
         \/ \E body, dry : ReplacePack(w, s, body, dry)
         \/ DeleteGoal(w, s)
         \/ \E web : ReadGoal(w, s, web)
  PROVE  PackInv'
<1>1. CASE \E body, web : WritePack(w, s, body, web)
  <2>1. PICK body, web : WritePack(w, s, body, web)
    BY <1>1
  <2> DEFINE r == [op |-> "write", at |-> "staged", slug |-> s, pack |-> [body |-> body, prompt |-> None], web |-> web]
  <2>2. req[w] = Idle /\ req' = [req EXCEPT ![w] = r] /\ UNCHANGED <<disk, torn, history>>
    BY <2>1 DEF WritePack, Free, Enter
  <2>3. r.op # "replace"
    OBVIOUS
  <2> QED  BY <2>2, <2>3, Begins
<1>2. CASE \E body, web, prompt : ImportBundle(w, s, body, prompt, web)
  <2>1. PICK body, web, prompt : ImportBundle(w, s, body, prompt, web)
    BY <1>2
  <2> DEFINE r == [op |-> "import", at |-> "staged", slug |-> s, pack |-> [body |-> body, prompt |-> prompt], web |-> web]
  <2>2. req[w] = Idle /\ req' = [req EXCEPT ![w] = r] /\ UNCHANGED <<disk, torn, history>>
    BY <2>1 DEF ImportBundle, Free, Enter
  <2>3. r.op # "replace"
    OBVIOUS
  <2> QED  BY <2>2, <2>3, Begins
<1>3. CASE \E body, dry : ReplacePack(w, s, body, dry)
  <2>1. PICK body, dry : ReplacePack(w, s, body, dry)
    BY <1>3
  <2>2. CASE dry
    <3>1. UNCHANGED <<torn, history, req>> /\ disk' = disk
      BY <2>1, <2>2 DEF ReplacePack
    <3> QED  BY <3>1, Untouched
  <2>3. CASE ~dry
    <3> DEFINE r == [op |-> "replace", at |-> "staged", slug |-> s, pack |-> Staged(disk[s], body), web |-> TRUE]
    <3>1. req[w] = Idle /\ req' = [req EXCEPT ![w] = r] /\ UNCHANGED <<disk, torn, history>>
      BY <2>1, <2>3 DEF ReplacePack, Free, Enter
    <3>2. r.op # Idle.op /\ r.web /\ {"op", "at", "slug"} \subseteq DOMAIN r
      BY DEF Idle
    <3> HIDE DEF r
    <3> QED  BY <3>1, <3>2, Begins DEF Replacement
  <2> QED  BY <2>2, <2>3
<1>4. CASE DeleteGoal(w, s)
  <2> DEFINE r == [op |-> "delete", at |-> IF s \in DOMAIN rows THEN "rows" ELSE "directory", slug |-> s,
                   pack |-> Idle, web |-> TRUE]
  <2>1. req[w] = Idle /\ req' = [req EXCEPT ![w] = r] /\ UNCHANGED <<disk, torn, history>>
    BY <1>4 DEF DeleteGoal, Free, Enter
  <2>2. r.op # "replace"
    OBVIOUS
  <2> QED  BY <2>1, <2>2, Begins
<1>5. CASE \E web : ReadGoal(w, s, web)
  <2>1. PICK web : ReadGoal(w, s, web)
    BY <1>5
  <2> DEFINE r == [op |-> "sync", at |-> "syncing", slug |-> s, pack |-> disk[s], web |-> web]
  <2>2. req[w] = Idle /\ req' = [req EXCEPT ![w] = r] /\ UNCHANGED <<disk, torn, history>>
    BY <2>1 DEF ReadGoal, Free, Enter
  <2>3. r.op # "replace"
    OBVIOUS
  <2> QED  BY <2>2, <2>3, Begins
<1> QED  BY <1>1, <1>2, <1>3, <1>4, <1>5

-----------------------------------------------------------------------------
\* The replacement's three steps and the rename of the others.

LEMMA RemoveOldStep ==
  ASSUME PackInv, NEW w \in Workers, RemoveOld(w)
  PROVE  PackInv'
<1> SUFFICES ASSUME NEW s, s = req[w].slug
             PROVE  PackInv'
  OBVIOUS
<1>1. req[w].op = "replace" /\ req[w].at = "staged" /\ UNCHANGED history
  BY DEF RemoveOld
<1>2. CASE /\ Exists(s) /\ disk' = Without(disk, s) /\ torn' = torn \cup {s}
            /\ Step(w, "removing")
  <2>1. DOMAIN disk' = DOMAIN disk \ {s} /\ torn' = torn \cup {s}
        /\ req' = [req EXCEPT ![w].at = "removing"]
    BY <1>2 DEF Without, Step
  <2>2. Requests'
    <3> DEFINE r == [req[w] EXCEPT !.at = "removing"]
    <3>1. Replacement(req[w])
      BY <1>1 DEF PackInv, Requests
    <3>2. r.op = "replace" /\ r.web /\ DOMAIN r = DOMAIN req[w]
      BY <1>1, <3>1 DEF Replacement
    <3>3. r # Idle
      BY <3>2 DEF Idle
    <3>4. req' = [req EXCEPT ![w] = r]
      BY <2>1
    <3> HIDE DEF r
    <3> QED  BY <3>1, <3>2, <3>3, <3>4 DEF PackInv, Requests, Replacement
  <2>3. Removing(w, s)'
    BY <2>1, <1>1 DEF PackInv, Requests, Replacement, Removing
  <2>4. \A v \in Workers : v # w => req'[v] = req[v]
    BY <2>1 DEF PackInv, Requests
  <2>5. ASSUME NEW x \in Uncut, x # s
        PROVE  /\ x \in torn' => \E v \in Workers : Removing(v, x)'
               /\ x \notin DOMAIN disk' /\ x \notin torn' => \E v \in Workers : Removed(v, x)'
    BY <2>1, <2>4, <2>5, <1>1 DEF PackInv, Kept, Removing, Removed, Uncut, history
  <2>6. Kept'
    BY <2>1, <2>3, <2>5, <1>1 DEF Kept, Uncut, history
  <2> QED  BY <2>2, <2>6 DEF PackInv
<1>3. CASE Refuse(w) /\ UNCHANGED <<disk, torn>>
  <2>1. req' = [req EXCEPT ![w] = Idle] /\ UNCHANGED <<disk, torn, history>>
    BY <1>1, <1>3 DEF Refuse
  <2>2. Idle.op # "replace"
    BY DEF Idle
  <2> QED  BY <1>1, <2>1, <2>2, Elsewhere DEF Uncut, history
<1> QED  BY <1>2, <1>3 DEF RemoveOld

LEMMA OldRemovedStep ==
  ASSUME PackInv, NEW w \in Workers, OldRemoved(w)
  PROVE  PackInv'
<1> SUFFICES ASSUME NEW s, s = req[w].slug
             PROVE  PackInv'
  OBVIOUS
<1>1. req[w].op = "replace" /\ req[w].at = "removing" /\ UNCHANGED <<disk, history>>
  BY DEF OldRemoved
<1>2. CASE s \in torn
  <2>1. torn' = torn \ {s} /\ req' = [req EXCEPT ![w].at = "removed"]
    BY <1>2 DEF OldRemoved, Step
  <2>2. Requests'
    <3> DEFINE r == [req[w] EXCEPT !.at = "removed"]
    <3>1. Replacement(req[w])
      BY <1>1 DEF PackInv, Requests
    <3>2. r.op = "replace" /\ r.web /\ DOMAIN r = DOMAIN req[w]
      BY <1>1, <3>1 DEF Replacement
    <3>3. r # Idle
      BY <3>2 DEF Idle
    <3>4. req' = [req EXCEPT ![w] = r]
      BY <2>1
    <3> HIDE DEF r
    <3> QED  BY <3>1, <3>2, <3>3, <3>4 DEF PackInv, Requests, Replacement
  <2>3. Removed(w, s)'
    BY <2>1, <1>1 DEF PackInv, Requests, Replacement, Removed
  <2>4. \A v \in Workers : v # w => req'[v] = req[v]
    BY <2>1 DEF PackInv, Requests
  <2>5. ASSUME NEW x \in Uncut, x # s
        PROVE  /\ x \in torn' => \E v \in Workers : Removing(v, x)'
               /\ x \notin DOMAIN disk' /\ x \notin torn' => \E v \in Workers : Removed(v, x)'
    BY <2>1, <2>4, <2>5, <1>1 DEF PackInv, Kept, Removing, Removed, Uncut, history
  <2>6. Kept'
    BY <2>1, <2>3, <2>5, <1>1 DEF Kept, Uncut, history
  <2> QED  BY <2>2, <2>6 DEF PackInv
<1>3. CASE s \notin torn
  <2>1. req' = [req EXCEPT ![w] = Idle] /\ torn' = torn
    BY <1>3 DEF OldRemoved, Refuse
  <2>2. Requests'
    BY <2>1 DEF PackInv, Requests, Idle
  <2>3. \A v \in Workers : v # w => req'[v] = req[v]
    BY <2>1 DEF PackInv, Requests
  <2>4. Kept'
    BY <2>1, <2>3, <1>1, <1>3 DEF PackInv, Kept, Removing, Removed, Uncut, history
  <2> QED  BY <2>2, <2>4 DEF PackInv
<1> QED  BY <1>2, <1>3

\* A removal that fails gives the goal up to what was cut off.
LEMMA RemovalFailsStep ==
  ASSUME PackInv, NEW w \in Workers, RemovalFails(w)
  PROVE  PackInv'
<1> SUFFICES ASSUME NEW s, s = req[w].slug
             PROVE  PackInv'
  OBVIOUS
<1>1. /\ req' = [req EXCEPT ![w] = Idle] /\ req[w].at = "removing" /\ cut' = cut \cup {s}
      /\ UNCHANGED <<disk, torn, kept>>
  BY DEF RemovalFails, Refuse
<1>2. Requests'
  BY <1>1 DEF PackInv, Requests, Idle
<1>3. \A v \in Workers : v # w => req'[v] = req[v]
  BY <1>1 DEF PackInv, Requests
<1>4. \A x \in Uncut' : x # s /\ x \in Uncut
  BY <1>1 DEF Uncut
<1>5. \A x : x # s => ~Removing(w, x) /\ ~Removed(w, x)
  BY DEF Removing, Removed
<1>6. ASSUME NEW x \in Uncut'
      PROVE  /\ x \in torn' => \E v \in Workers : Removing(v, x)'
             /\ x \notin DOMAIN disk' /\ x \notin torn' => \E v \in Workers : Removed(v, x)'
  BY <1>1, <1>3, <1>4, <1>5 DEF PackInv, Kept, Removing, Removed
<1>7. Kept'
  BY <1>6 DEF Kept
<1> QED  BY <1>2, <1>7 DEF PackInv

\* A directory that holds files, the one a replacement is removing too, refuses the rename.
LEMMA RenameStep ==
  ASSUME PackInv, NEW w \in Workers, Rename(w)
  PROVE  PackInv'
<1> SUFFICES ASSUME NEW s, s = req[w].slug
             PROVE  PackInv'
  OBVIOUS
<1>1. req[w].at # "removing" /\ torn' = torn
  BY DEF Rename
<1>2. CASE Exists(s)
  <2>1. req' = [req EXCEPT ![w] = Idle] /\ UNCHANGED <<disk, history>>
    BY <1>2 DEF Rename, Refuse
  <2>2. Requests'
    BY <2>1 DEF PackInv, Requests, Idle
  <2>3. \A v \in Workers : v # w => req'[v] = req[v]
    BY <2>1 DEF PackInv, Requests
  <2>4. Kept'
    BY <2>1, <2>3, <1>1, <1>2 DEF PackInv, Kept, Removing, Removed, Exists, Uncut, history
  <2> QED  BY <2>2, <2>4 DEF PackInv
<1>3. CASE ~Exists(s)
  <2>1. DOMAIN disk' = DOMAIN disk \cup {s} /\ kept' = kept \cup {s} /\ cut' = cut \ {s}
        /\ req' = [req EXCEPT ![w].at = "placed"]
    BY <1>3 DEF Rename, With, Step
  <2>2. Requests'
    <3> DEFINE r == [req[w] EXCEPT !.at = "placed"]
    <3>1. DOMAIN r = DOMAIN req[w] /\ r.op = req[w].op /\ r.web = req[w].web
      OBVIOUS
    <3>2. r.op = "replace" => r # Idle
      BY DEF Idle
    <3>3. req' = [req EXCEPT ![w] = r]
      BY <2>1
    <3> HIDE DEF r
    <3> QED  BY <3>1, <3>2, <3>3 DEF PackInv, Requests, Replacement
  <2>3. \A v \in Workers : v # w => req'[v] = req[v]
    BY <2>1 DEF PackInv, Requests
  <2>4. s \notin torn
    BY <1>3 DEF Exists
  <2>5. ASSUME NEW x \in Uncut, x # s
        PROVE  /\ x \in torn' => \E v \in Workers : Removing(v, x)'
               /\ x \notin DOMAIN disk' /\ x \notin torn' => \E v \in Workers : Removed(v, x)'
    BY <2>1, <2>3, <2>5, <1>1 DEF PackInv, Kept, Removing, Removed, Uncut
  <2>6. Kept'
    BY <2>1, <2>4, <2>5, <1>1 DEF Kept, Uncut
  <2> QED  BY <2>2, <2>6 DEF PackInv
<1> QED  BY <1>2, <1>3

LEMMA ProgressStep ==
  ASSUME PackInv, NEW w \in Workers, Progress(w)
  PROVE  PackInv'
<1> USE DEF Idle
<1>1. CASE RemoveOld(w) \/ OldRemoved(w) \/ RemovalFails(w) \/ Rename(w)
  BY <1>1, RemoveOldStep, OldRemovedStep, RemovalFailsStep, RenameStep
<1>2. CASE ReadPacks(w)
  <2> DEFINE r == IF req[w].web /\ (req[w].op = "delete" \/ Parses(req[w].slug))
                  THEN [op |-> "install", at |-> "read", slug |-> req[w].slug, pack |-> Loadable, web |-> TRUE]
                  ELSE Idle
  <2>1. req[w].at = "placed" /\ req' = [req EXCEPT ![w] = r] /\ UNCHANGED <<disk, torn, history>>
    BY <1>2 DEF ReadPacks
  <2>2. r.op # "replace"
    OBVIOUS
  <2> HIDE DEF r
  <2> QED  BY <2>1, <2>2, Elsewhere DEF Uncut, history
<1>3. CASE Installed(w)
  <2>1. req[w].op = "install" /\ req' = [req EXCEPT ![w] = Idle] /\ UNCHANGED <<disk, torn, history>>
    BY <1>3 DEF Installed, Refuse
  <2> QED  BY <2>1, Elsewhere DEF Uncut, history
<1>4. CASE DeleteRows(w)
  <2> DEFINE r == [req[w] EXCEPT !.at = "directory"]
  <2>1. req[w].op = "delete" /\ req' = [req EXCEPT ![w] = r] /\ UNCHANGED <<disk, torn, history>>
    BY <1>4 DEF DeleteRows, Step
  <2>2. r.op = req[w].op
    OBVIOUS
  <2> HIDE DEF r
  <2> QED  BY <2>1, <2>2, Elsewhere DEF Uncut, history
<1>5. CASE RemoveDirectory(w)
  <2> DEFINE r == [req[w] EXCEPT !.at = "placed"]
             s == req[w].slug
  <2>1. req[w].op = "delete" /\ req' = [req EXCEPT ![w] = r] /\ kept' = kept \ {s} /\ cut' = cut
    BY <1>5 DEF RemoveDirectory, Step
  <2>2. r.op = req[w].op
    OBVIOUS
  <2>3. \A x : x # s => (x \in DOMAIN disk <=> x \in DOMAIN disk') /\ (x \in torn <=> x \in torn')
    BY <1>5 DEF RemoveDirectory, Without
  <2> HIDE DEF r, s
  <2>4. \A x \in Uncut' : (x \in DOMAIN disk <=> x \in DOMAIN disk') /\ (x \in torn <=> x \in torn')
    BY <2>1, <2>3 DEF Uncut
  <2>5. Uncut' \subseteq Uncut
    BY <2>1 DEF Uncut
  <2> QED  BY <2>1, <2>2, <2>4, <2>5, Elsewhere
<1>6. CASE SyncGoals(w)
  <2>1. req[w].op = "sync" /\ req' = [req EXCEPT ![w] = Idle] /\ UNCHANGED <<disk, torn, history>>
    BY <1>6 DEF SyncGoals, Refuse
  <2> QED  BY <2>1, Elsewhere DEF Uncut, history
<1> QED  BY <1>1, <1>2, <1>3, <1>4, <1>5, <1>6 DEF Progress

\* Nothing that was not cut off waits for the author to tidy up, and a death cuts off what it
\* leaves without its pack.
LEMMA ServerStep ==
  ASSUME PackInv, TidyUp \/ Die \/ Launch
  PROVE  PackInv'
<1>1. CASE TidyUp
  <2>1. \A w \in Workers : \A s : ~Removing(w, s) /\ ~Removed(w, s)
    BY <1>1 DEF TidyUp, Removing, Removed, Idle
  <2>2. Uncut \cap torn = {} /\ Uncut \subseteq DOMAIN disk
    BY <2>1 DEF PackInv, Kept
  <2> QED  BY <1>1, <2>2 DEF TidyUp, PackInv, Requests, Kept, Removing, Removed, Uncut, history
<1>2. CASE Die
  <2>1. \A w \in Workers : \A s : (Removing(w, s) \/ Removed(w, s)) => s \notin Uncut'
    BY <1>2 DEF Die, Served, Removing, Removed, PackInv, Requests, Replacement, Uncut
  <2>2. Uncut' \cap torn = {} /\ Uncut' \subseteq DOMAIN disk
    BY <1>2, <2>1 DEF PackInv, Kept, Die, Uncut
  <2>3. UNCHANGED <<disk, torn>>
    BY <1>2 DEF Die
  <2>4. Kept'
    BY <2>2, <2>3 DEF Kept
  <2>5. Requests'
    BY <1>2 DEF Die, Served, PackInv, Requests, Idle
  <2> QED  BY <2>4, <2>5 DEF PackInv
<1>3. CASE Launch
  BY <1>3, Untouched DEF Launch
<1> QED  BY <1>1, <1>2, <1>3

-----------------------------------------------------------------------------
LEMMA PackStep == ASSUME PackInv, PackNext PROVE PackInv'
<1>1. CASE \E w \in Workers, s \in Slugs :
              \/ \E body \in Bodies :
                    \/ \E web \in BOOLEAN : WritePack(w, s, body, web)
                    \/ \E web \in BOOLEAN, prompt \in Prompts : ImportBundle(w, s, body, prompt, web)
                    \/ \E dry \in BOOLEAN : ReplacePack(w, s, body, dry)
              \/ DeleteGoal(w, s)
              \/ \E web \in BOOLEAN : ReadGoal(w, s, web)
  BY <1>1, StartStep
<1>2. CASE \E w \in Workers : Progress(w)
  BY <1>2, ProgressStep
<1>3. CASE \E s \in Slugs : \E k : RecordGrade(s, k)
  BY <1>3, Untouched DEF RecordGrade
<1>4. CASE \E s \in Slugs : \E body \in HandEdits : Edit(s, body)
  <2>1. UNCHANGED <<torn, history, req>> /\ DOMAIN disk' = DOMAIN disk
    BY <1>4 DEF Edit
  <2> QED  BY <2>1, Untouched
<1>5. CASE TidyUp \/ Die \/ Launch
  BY <1>5, ServerStep
<1> QED  BY <1>1, <1>2, <1>3, <1>4, <1>5 DEF PackNext

\* The wizard writes packs as a request does, and its tabs are requests.
LEMMA WizardStep == ASSUME PackInv, WizardNext PROVE PackInv'
<1>1. CASE UNCHANGED packVars
  BY <1>1, Untouched DEF packVars, history
<1>2. CASE \E t \in Tabs : SavePack(t)
  <2>1. PICK t \in Tabs : SavePack(t)
    BY <1>2
  <2> DEFINE s == tab[t].doc.slug
             r == [op |-> "write", at |-> "staged", slug |-> s,
                   pack |-> [body |-> PackBody(tab[t].doc), prompt |-> None], web |-> TRUE]
  <2>2. req[t] = Idle /\ req' = [req EXCEPT ![t] = r] /\ UNCHANGED <<disk, torn, history>>
    BY <2>1 DEF SavePack, WritePack, Free, Enter
  <2>3. r.op # "replace"
    OBVIOUS
  <2>4. t \in Workers
    BY TabsAreWorkers
  <2> HIDE DEF r
  <2> QED  BY <2>2, <2>3, <2>4, Begins
<1>3. CASE \E t \in Tabs : Progress(t)
  BY <1>3, ProgressStep, TabsAreWorkers
<1> QED  BY <1>1, <1>2, <1>3
         DEF WizardNext, StartDraft, DeleteDraft, LoadDraft, EditDraft, RecordSaved, Leave

LEMMA PackInvariant == MCSpec => []PackInv
<1>1. MCInit => PackInv
  BY DEF MCInit, PackInit, PackInv, Requests, Kept, Idle, Uncut
<1>2. PackInv /\ [MCNext]_<<moving, packVars, wizardVars>> => PackInv'
  BY PackStep, WizardStep, ServerStep, Untouched DEF MCNext, packVars, history
<1> QED  BY <1>1, <1>2, PTL DEF MCSpec

(* A goal that was written is there until it is deleted, or its replacement is taking its place
   or was cut off in just that moment, by a death of the server or by a directory that would not
   go: whoever else writes, replaces, imports, deletes, starts or tidies up at whichever step,
   no refused or raced write leaves neither the old pack nor the new one. *)
THEOREM GoalsAreThere == MCSpec => []GoalsSurvive
  BY PackInvariant, KeptSurvive, PTL

-----------------------------------------------------------------------------
\* Grades

Graded == grades = [s \in Slugs |-> grades[s]]

Lost(s, k) ==
    \E w \in Workers : /\ req[w] # Idle /\ req[w].slug = s
                       /\ \/ req[w].op = "delete"
                          \/ req[w].op = "sync" /\ k \notin KeysOf(req[w].pack.body)
OnlyLost == \A s \in Slugs : \A k \in grades[s] \ grades'[s] : Lost(s, k)

LEMMA GradesOfProgress ==
  ASSUME Graded, NEW w \in Workers, Progress(w)
  PROVE  Graded' /\ OnlyLost
<1>1. CASE UNCHANGED grades
  BY <1>1 DEF Graded, OnlyLost
<1>2. CASE DeleteRows(w)
  <2> DEFINE x == req[w].slug
  <2>1. req[w].op = "delete" /\ req[w] # Idle
    BY <1>2 DEF DeleteRows, Idle
  <2>2. grades' = [grades EXCEPT ![x] = {}]
    BY <1>2 DEF DeleteRows
  <2>3. ASSUME NEW s \in Slugs, NEW k \in grades[s] \ grades'[s]
        PROVE  x = s
    BY <2>2, <2>3 DEF Graded
  <2> QED  BY <2>1, <2>2, <2>3 DEF Graded, OnlyLost, Lost
<1>3. CASE SyncGoals(w)
  <2> DEFINE x == req[w].slug
             keys == KeysOf(req[w].pack.body)
  <2>1. req[w].op = "sync" /\ req[w] # Idle
    BY <1>3 DEF SyncGoals, Idle
  <2>2. grades' = [grades EXCEPT ![x] = grades[x] \cap keys]
    BY <1>3 DEF SyncGoals, Reconcile
  <2>3. ASSUME NEW s \in Slugs, NEW k \in grades[s] \ grades'[s]
        PROVE  x = s /\ k \notin keys
    BY <2>2, <2>3 DEF Graded
  <2> QED  BY <2>1, <2>2, <2>3 DEF Graded, OnlyLost, Lost
<1> QED  BY <1>1, <1>2, <1>3
         DEF Progress, RemoveOld, OldRemoved, RemovalFails, Rename, ReadPacks, Installed, RemoveDirectory

\* What a request does when it begins leaves the grades alone.
LEMMA QuietStarts ==
  ASSUME NEW w, NEW s
  PROVE  /\ \A body, web : WritePack(w, s, body, web) => grades' = grades
         /\ \A body, web, prompt : ImportBundle(w, s, body, prompt, web) => grades' = grades
         /\ \A body, dry : ReplacePack(w, s, body, dry) => grades' = grades
         /\ DeleteGoal(w, s) => grades' = grades
         /\ \A web : ReadGoal(w, s, web) => grades' = grades
  BY DEF WritePack, ImportBundle, ReplacePack, DeleteGoal, ReadGoal

LEMMA GradesOfStep ==
  ASSUME Graded, MCNext
  PROVE  Graded' /\ OnlyLost
<1>1. CASE UNCHANGED grades
  BY <1>1 DEF Graded, OnlyLost
<1>2. CASE \E w \in Workers : Progress(w)
  BY <1>2, GradesOfProgress
<1>3. CASE \E s \in Slugs : \E k : RecordGrade(s, k)
  BY <1>3 DEF RecordGrade, Graded, OnlyLost
<1>4. CASE WizardNext
  BY <1>1, <1>2, <1>4, TabsAreWorkers
     DEF WizardNext, StartDraft, DeleteDraft, LoadDraft, EditDraft, SavePack, WritePack, RecordSaved, Leave, packVars
<1>5. CASE PackNext
  <2>1. CASE \E w \in Workers, s \in Slugs :
                \/ \E body \in Bodies :
                      \/ \E web \in BOOLEAN : WritePack(w, s, body, web)
                      \/ \E web \in BOOLEAN, prompt \in Prompts : ImportBundle(w, s, body, prompt, web)
                      \/ \E dry \in BOOLEAN : ReplacePack(w, s, body, dry)
                \/ DeleteGoal(w, s)
                \/ \E web \in BOOLEAN : ReadGoal(w, s, web)
    BY <1>1, <2>1, QuietStarts
  <2>2. CASE TidyUp \/ Die \/ Launch \/ \E s \in Slugs : \E body \in HandEdits : Edit(s, body)
    BY <1>1, <2>2 DEF TidyUp, Die, Launch, Edit
  <2> QED  BY <1>2, <1>3, <1>5, <2>1, <2>2 DEF PackNext
<1> QED  BY <1>1, <1>4, <1>5 DEF MCNext, Die

(* A grade is lost to the deletion of its goal, or to the storing of a pack that no longer declares
   its criterion, and to nothing else: no other load, edit, replacement, restart or save of the
   wizard removes one. *)
THEOREM GradesAreThere == MCSpec => GradesSurvive
<1>1. MCInit => Graded
  BY DEF MCInit, PackInit, Graded
<1>2. Graded /\ [MCNext]_<<moving, packVars, wizardVars>> => Graded'
  BY GradesOfStep DEF Graded, packVars
<1>3. Graded /\ [MCNext]_<<moving, packVars, wizardVars>>
      => [\A s \in Slugs : \A k \in grades[s] \ grades'[s] :
             \E w \in Workers : /\ req[w] # Idle /\ req[w].slug = s
                                /\ \/ req[w].op = "delete"
                                   \/ req[w].op = "sync" /\ k \notin KeysOf(req[w].pack.body)]_packVars
  BY GradesOfStep DEF OnlyLost, Lost, packVars
<1> QED  BY <1>1, <1>2, <1>3, PTL DEF MCSpec, GradesSurvive
-----------------------------------------------------------------------------
(***************************************************************************)
(* The wizard.  A sum is counted up weight by weight; the first share of a *)
(* rebalanced draft takes what the others leave, so that its weights add   *)
(* up to the whole whatever they were.                                     *)
(***************************************************************************)
SumsUp(s, f, n) == s[0] = 0 /\ \A i \in 1..n : s[i] = s[i - 1] + f[i]

LEMMA SumClimbs ==
    ASSUME NEW n \in Nat, NEW f, \A i \in 1..n : f[i] \in Int
    PROVE  \E s : s \in [0..n -> Int] /\ SumsUp(s, f, n) /\ SumTo(f, n) = s[n]
<1> DEFINE V == Int
           step == [p \in (1..n) \X V |-> p[2] + f[p[1]]]
<1>1. \A i \in 1..n, v \in V : step[<<i, v>>] = v + f[i]
  OBVIOUS
<1>2. ASSUME NEW i \in 1..n, NEW v \in V PROVE step[<<i, v>>] \in V
  <2>1. v + f[i] \in V
    OBVIOUS
  <2> HIDE DEF step, V
  <2>q. QED BY <1>1, <2>1
<1>0. 0 \in V
  OBVIOUS
<1>3. PICK h : Climbs(h, n, V, 0, step)
  <2> HIDE DEF step, V
  <2>q. QED BY <1>0, <1>2, ClimbExists
<1>4. h \in [0..n -> Int] /\ SumsUp(h, f, n)
  <2>1. \A i \in 1..n : i - 1 \in 0..n
    OBVIOUS
  <2>2. h \in [0..n -> V] /\ h[0] = 0 /\ \A i \in 1..n : h[i] = step[<<i, h[i - 1]>>]
    BY <1>3 DEF Climbs
  <2>3. \A i \in 1..n : h[i] = h[i - 1] + f[i]
    <3> HIDE DEF step, V
    <3>q. QED BY <1>1, <2>1, <2>2
  <2>q. QED BY <2>2, <2>3 DEF SumsUp
<1> HIDE DEF step
<1> DEFINE Is(g) == g = [i \in 0..n |-> IF i = 0 THEN 0 ELSE g[i - 1] + f[i]]
<1>5. Is(h)
  BY <1>4 DEF SumsUp
<1>6. \A g : Is(g) => g = h
  <2> SUFFICES ASSUME NEW g, Is(g) PROVE g = h
    OBVIOUS
  <2>1. g[0] = 0 /\ \A i \in 1..n : g[i] = g[i - 1] + f[i]
    OBVIOUS
  <2>2. g = [i \in 0..n |-> g[i]] /\ h = [i \in 0..n |-> h[i]]
    BY <1>4
  <2>3. g[0] = h[0] /\ \A i \in 1..n : g[i - 1] = h[i - 1] => g[i] = h[i]
    BY <1>4, <2>1 DEF SumsUp
  <2> HIDE DEF Is
  <2>4. \A i \in 0..n : g[i] = h[i]
    BY ONLY <2>3, n \in Nat, ClimbUnique
  <2>q. QED BY <2>2, <2>4
<1>7. (CHOOSE g : Is(g)) = h
  <2> HIDE DEF Is
  <2>q. QED BY <1>5, <1>6, Zenon
<1>8. SumTo(f, n) = h[n]
  BY <1>7 DEF SumTo
<1>q. QED BY <1>4, <1>8

LEMMA SumIsIt ==
    ASSUME NEW n \in Nat, NEW f, \A i \in 1..n : f[i] \in Int, NEW s, SumsUp(s, f, n)
    PROVE  SumTo(f, n) = s[n]
<1>1. PICK h : SumsUp(h, f, n) /\ SumTo(f, n) = h[n]
  BY SumClimbs
<1>2. s[0] = h[0] /\ \A i \in 1..n : s[i - 1] = h[i - 1] => s[i] = h[i]
  BY <1>1 DEF SumsUp
<1>3. \A i \in 0..n : s[i] = h[i]
  BY ONLY <1>2, n \in Nat, ClimbUnique
<1>q. QED BY <1>1, <1>3

LEMMA RoundedIsWhole ==
    ASSUME NEW n \in Int, NEW d \in Nat \ {0}
    PROVE  Rounded(n, d) \in Int
<1>1. n \div d \in Int
  OBVIOUS
<1> DEFINE q == n \div d
<1>2. Rounded(n, d) = q \/ Rounded(n, d) = q + 1
  BY DEF Rounded
<1> HIDE DEF q
<1>q. QED BY <1>1, <1>2 DEF q

CriteriaOK(criteria) ==
    /\ criteria \in Seq({criteria[i] : i \in DOMAIN criteria})
    /\ \A i \in DOMAIN criteria : IsCriterion(criteria[i])

LEMMA ListedCriteria ==
    ASSUME NEW n \in Nat, NEW criteria, criteria = [i \in 1..n |-> criteria[i]],
           \A i \in 1..n : IsCriterion(criteria[i])
    PROVE  CriteriaOK(criteria) /\ Len(criteria) = n
<1> DEFINE S == {criteria[i] : i \in DOMAIN criteria}
<1>1. DOMAIN criteria = 1..n /\ \A i \in 1..n : criteria[i] \in S
  OBVIOUS
<1> HIDE DEF S
<1>2. criteria \in [1..n -> S]
  BY <1>1
<1>3. criteria \in Seq(S) /\ Len(criteria) = n
  BY <1>2
<1>q. QED BY <1>1, <1>3 DEF CriteriaOK, S

LEMMA Rebalances ==
    ASSUME NEW criteria, CriteriaOK(criteria)
    PROVE  CriteriaOK(Rebalance(criteria)) /\ WeightsAreWhole(Rebalance(criteria))
<1> DEFINE n == Len(criteria)
           weight == WeightsOf(criteria)
           share == [i \in DOMAIN criteria |-> Share(criteria, i)]
           left == Whole - SumTo(share, n)
           w == [i \in 1..n |-> IF i = 1 THEN share[1] + left ELSE share[i]]
           r == Rebalance(criteria)
<1>1. n \in Nat /\ DOMAIN criteria = 1..n /\ \A i \in 1..n : IsCriterion(criteria[i])
  BY DEF CriteriaOK
<1>2. Whole \in Nat \ {0}
  BY StarterIsAPack
<1>3. \A i \in 1..n : criteria[i].weight \in Int /\ weight[i] = criteria[i].weight
  BY <1>1 DEF IsCriterion, WeightsOf
<1>4. SumTo(weight, n) \in Int
  <2> HIDE DEF weight, n
  <2>1. \E s : s \in [0..n -> Int] /\ SumTo(weight, n) = s[n]
    BY <1>1, <1>3, SumClimbs
  <2>q. QED BY <1>1, <2>1
<1>5. ASSUME NEW i \in 1..n PROVE Share(criteria, i) \in Int
  <2> DEFINE total == SumTo(weight, n)
             part == Whole * criteria[i].weight
  <2>1. n \in Nat \ {0} /\ total \in Int
    BY <1>1, <1>4
  <2>2. part \in Int
    BY <1>2, <1>3
  <2>3. Share(criteria, i) = IF total <= 0 THEN Rounded(Whole, n) ELSE Rounded(part, total)
    BY DEF Share
  <2> HIDE DEF n, total, part
  <2>4. Rounded(Whole, n) \in Int
    BY <1>2, <2>1, RoundedIsWhole
  <2>5. total > 0 => Rounded(part, total) \in Int
    BY <2>1, <2>2, RoundedIsWhole
  <2>q. QED BY <2>1, <2>3, <2>4, <2>5
<1>6. \A i \in 1..n : share[i] \in Int
  BY <1>1, <1>5
<1>7. PICK s : s \in [0..n -> Int] /\ SumsUp(s, share, n) /\ SumTo(share, n) = s[n]
  <2> HIDE DEF share, n
  <2>q. QED BY <1>1, <1>6, SumClimbs
<1>8. left \in Int /\ left = Whole - s[n]
  <2> HIDE DEF share, n
  <2>q. QED BY <1>1, <1>2, <1>7
<1>9. \A i \in 1..n : w[i] \in Int
  <2> HIDE DEF share, n, left
  <2>q. QED BY <1>1, <1>6, <1>8
<1>10. r = [i \in 1..n |-> [criteria[i] EXCEPT !.weight = w[i]]]
  BY <1>1 DEF Rebalance
<1> DEFINE t == [i \in 0..n |-> IF i = 0 THEN 0 ELSE s[i] + left]
<1>11. n > 0 => SumTo(w, n) = Whole
  <2> HIDE DEF share, n, left
  <2>1. s[0] = 0 /\ \A i \in 1..n : s[i] = s[i - 1] + share[i] /\ s[i - 1] \in Int /\ s[i] \in Int
    <3>1. \A i \in 1..n : i - 1 \in 0..n /\ i \in 0..n
      BY <1>1
    <3>q. QED BY <1>7, <3>1 DEF SumsUp
  <2>2. t[0] = 0
    BY <1>1
  <2>3. ASSUME NEW i \in 1..n PROVE t[i] = t[i - 1] + w[i]
    <3>1. t[i] = s[i] + left /\ i - 1 \in 0..n
      BY <1>1
    <3>2. CASE i = 1
      <4>1. t[i - 1] = 0 /\ w[i] = share[1] + left /\ s[i] = share[1]
        <5>1. i - 1 = 0
          BY <3>2
        <5>2. s[1] = s[0] + share[1] /\ share[1] \in Int
          <6>1. 1 \in 1..n /\ 1 - 1 = 0
            BY <3>2
          <6>q. QED BY <1>6, <2>1, <6>1
        <5> HIDE DEF t
        <5>q. QED BY <2>1, <2>2, <3>2, <5>1, <5>2
      <4> HIDE DEF t, w
      <4>q. QED BY <1>6, <1>8, <3>1, <3>2, <4>1
    <3>3. CASE i # 1
      <4>1. t[i - 1] = s[i - 1] + left /\ w[i] = share[i]
        BY <3>1, <3>3
      <4>2. s[i] = s[i - 1] + share[i] /\ s[i - 1] \in Int /\ share[i] \in Int
        BY <1>6, <2>1
      <4> HIDE DEF t, w
      <4>q. QED BY <1>8, <3>1, <4>1, <4>2
    <3>q. QED BY <3>2, <3>3
  <2>4. SumsUp(t, w, n)
    <3> HIDE DEF t, w
    <3>q. QED BY <2>2, <2>3 DEF SumsUp
  <2>5. SumTo(w, n) = t[n]
    <3> HIDE DEF t, w
    <3>q. QED BY <1>1, <1>9, <2>4, SumIsIt
  <2>6. n > 0 => t[n] = s[n] + left
    BY <1>1
  <2>7. s[n] \in Int
    BY <1>1, <1>7
  <2> HIDE DEF t, w
  <2>q. QED BY <1>2, <1>8, <2>5, <2>6, <2>7
<1> HIDE DEF w, share, n, left, weight, r
<1>12. ASSUME NEW i \in 1..n PROVE IsCriterion(r[i]) /\ r[i].weight = w[i]
  <2>1. IsCriterion(criteria[i]) /\ w[i] \in Int /\ r[i] = [criteria[i] EXCEPT !.weight = w[i]]
    BY <1>1, <1>9, <1>10
  <2>2. r[i] = [key |-> criteria[i].key, rung |-> criteria[i].rung, weight |-> w[i],
                described |-> criteria[i].described, rule |-> criteria[i].rule]
    BY <2>1 DEF IsCriterion
  <2>q. QED BY <2>1, <2>2 DEF IsCriterion
<1>13. CriteriaOK(r) /\ Len(r) = n
  <2>1. r = [i \in 1..n |-> r[i]]
    BY <1>10
  <2>q. QED BY <1>1, <1>12, <2>1, ListedCriteria
<1>14. WeightsOf(r) = w
  BY <1>10, <1>12 DEF WeightsOf, w
<1>15. r # <<>> => n > 0
  BY <1>1, <1>13, EmptySeq DEF CriteriaOK
<1>16. WeightsAreWhole(r)
  BY <1>11, <1>13, <1>14, <1>15 DEF WeightsAreWhole
<1>q. QED BY <1>13, <1>16 DEF r

-----------------------------------------------------------------------------
\* A draft that is edited stays a draft whose weights add up.
DocOK(doc) ==
    /\ doc = [slug |-> doc.slug, criteria |-> doc.criteria, tasks |-> doc.tasks, saved |-> doc.saved,
              edits |-> doc.edits]
    /\ doc.tasks \in Nat /\ CriteriaOK(doc.criteria) /\ WeightsAreWhole(doc.criteria)

LEMMA Reworded ==
    ASSUME NEW doc, DocOK(doc), NEW after, after = [i \in DOMAIN doc.criteria |-> after[i]],
           \A i \in DOMAIN doc.criteria : IsCriterion(after[i]) /\ after[i].weight = doc.criteria[i].weight,
           NEW to, to = [doc EXCEPT !.criteria = after]
    PROVE  DocOK(to)
<1> DEFINE before == doc.criteria
           n == Len(before)
<1>1. n \in Nat /\ DOMAIN before = 1..n
  BY DEF DocOK, CriteriaOK
<1>2. /\ to = [slug |-> doc.slug, criteria |-> after, tasks |-> doc.tasks, saved |-> doc.saved, edits |-> doc.edits]
      /\ after = [i \in 1..n |-> after[i]]
  BY <1>1 DEF DocOK
<1>3. CriteriaOK(after) /\ Len(after) = n
  <2>1. \A i \in 1..n : IsCriterion(after[i])
    BY <1>1
  <2> HIDE DEF n
  <2>q. QED BY <1>1, <1>2, <2>1, ListedCriteria
<1>4. WeightsOf(after) = WeightsOf(before)
  BY <1>1, <1>2 DEF WeightsOf
<1>5. after # <<>> => before # <<>>
  <2>1. CriteriaOK(before)
    BY DEF DocOK
  <2> HIDE DEF before, n
  <2>2. before = <<>> => n = 0
    BY EmptySeq DEF n
  <2>3. n = 0 => after = <<>>
    BY <1>3, EmptySeq DEF CriteriaOK
  <2>q. QED BY <2>2, <2>3
<1>6. WeightsAreWhole(after)
  BY <1>3, <1>4, <1>5 DEF DocOK, WeightsAreWhole
<1>7. to.criteria = after /\ to.slug = doc.slug /\ to.tasks = doc.tasks /\ to.saved = doc.saved /\ to.edits = doc.edits
  BY <1>2
<1>q. QED BY <1>2, <1>3, <1>6, <1>7 DEF DocOK

LEMMA Recriteriad ==
    ASSUME NEW doc, DocOK(doc), NEW criteria, CriteriaOK(criteria)
    PROVE  DocOK([doc EXCEPT !.criteria = Rebalance(criteria)])
<1> DEFINE r == Rebalance(criteria)
           to == [doc EXCEPT !.criteria = r]
<1>1. CriteriaOK(r) /\ WeightsAreWhole(r)
  BY Rebalances
<1> HIDE DEF r
<1>2. to = [slug |-> doc.slug, criteria |-> r, tasks |-> doc.tasks, saved |-> doc.saved, edits |-> doc.edits]
  BY DEF DocOK
<1> HIDE DEF to
<1>3. DocOK(to)
  BY <1>1, <1>2 DEF DocOK
<1>q. QED BY <1>3 DEF to, r

LEMMA CriterionIs ==
    ASSUME NEW key, NEW weight \in Int
    PROVE  IsCriterion(Criterion(key, weight))
BY DEF IsCriterion, Criterion, NoRule

\* A criterion with another weight, or other descriptors, is one still.
LEMMA Reweighed ==
    ASSUME NEW c, IsCriterion(c), NEW weight \in Int, NEW d, d = [c EXCEPT !.weight = weight]
    PROVE  IsCriterion(d)
<1>1. d = [key |-> c.key, rung |-> c.rung, weight |-> weight, described |-> c.described, rule |-> c.rule]
  BY DEF IsCriterion
<1>q. QED BY <1>1 DEF IsCriterion

LEMMA Described ==
    ASSUME NEW c, IsCriterion(c), NEW described \in Nat, NEW d, d = [c EXCEPT !.described = described]
    PROVE  IsCriterion(d) /\ d.weight = c.weight
<1>1. d = [key |-> c.key, rung |-> c.rung, weight |-> c.weight, described |-> described, rule |-> c.rule]
  BY DEF IsCriterion
<1>q. QED BY <1>1 DEF IsCriterion

RuledBy(c, rung, rule) == [c EXCEPT !.rung = rung, !.described = 0, !.rule = rule]
LEMMA Ruled ==
    ASSUME NEW c, IsCriterion(c), NEW rung \in Deterministic, NEW rule,
           Proposed(rung, rule) \/ rule \in RuleBlocks
    PROVE  LET d == RuledBy(c, rung, rule) IN IsCriterion(d) /\ d.weight = c.weight
<1> DEFINE d == RuledBy(c, rung, rule)
<1>2. d = [key |-> c.key, rung |-> rung, weight |-> c.weight, described |-> 0, rule |-> rule]
  <2>1. d = [c EXCEPT !.rung = rung, !.described = 0, !.rule = rule]
    BY DEF RuledBy
  <2>2. c = [key |-> c.key, rung |-> c.rung, weight |-> c.weight, described |-> c.described, rule |-> c.rule]
    BY DEF IsCriterion
  <2> HIDE DEF d
  <2>q. QED BY <2>1, <2>2
<1> HIDE DEF d
<1>3. d.key = c.key /\ d.rung = rung /\ d.weight = c.weight /\ d.described = 0 /\ d.rule = rule
  BY <1>2
<1>4. c.weight \in Int
  BY DEF IsCriterion
<1>5. d.rung \in Deterministic /\ (Proposed(d.rung, d.rule) \/ d.rule \in RuleBlocks)
  BY <1>3
<1>6. d = [key |-> d.key, rung |-> d.rung, weight |-> d.weight, described |-> d.described, rule |-> d.rule]
  BY <1>2, <1>3
<1>7. d.weight \in Int /\ d.described \in Nat /\ d.weight = c.weight
  BY <1>3, <1>4
<1>8. IsCriterion(d) /\ d.weight = c.weight
  BY <1>5, <1>6, <1>7 DEF IsCriterion
<1>q. QED BY <1>8 DEF d

LEMMA AddKeeps ==
    ASSUME NEW doc, DocOK(doc), NEW name
    PROVE  DocOK(AddCriterion(doc, name))
<1> DEFINE cs == doc.criteria
           n == Len(cs)
           k == IF n = 0 THEN 1 ELSE n
           many == Times(cs, k)
           mean == IF n = 0 THEN Whole ELSE SumTo(WeightsOf(cs), n)
           c == Criterion(name, mean)
           more == Append(many, c)
<1>1. n \in Nat /\ DOMAIN cs = 1..n /\ \A i \in 1..n : IsCriterion(cs[i])
  BY DEF DocOK, CriteriaOK
<1>2. mean \in Int
  <2>1. n # 0 => cs # <<>>
    BY EmptySeq
  <2>2. n # 0 => SumTo(WeightsOf(cs), n) = Whole
    BY <2>1 DEF DocOK, WeightsAreWhole
  <2>q. QED BY <2>2, StarterIsAPack
<1>3. IsCriterion(c)
  <2> HIDE DEF mean
  <2>q. QED BY <1>2, CriterionIs
<1>4. many = [i \in 1..n |-> many[i]] /\ \A i \in 1..n : IsCriterion(many[i])
  <2>1. many = [i \in 1..n |-> [cs[i] EXCEPT !.weight = k * cs[i].weight]]
    BY <1>1 DEF Times
  <2>2. ASSUME NEW i \in 1..n PROVE IsCriterion(many[i])
    <3> DEFINE weight == k * cs[i].weight
    <3>1. many[i] = [cs[i] EXCEPT !.weight = weight]
      BY <2>1
    <3>2. k \in Nat /\ IsCriterion(cs[i]) /\ cs[i].weight \in Int
      BY <1>1 DEF IsCriterion
    <3>3. weight \in Int
      <4> HIDE DEF k
      <4>q. QED BY <3>2
    <3> HIDE DEF weight, many
    <3>q. QED BY <3>1, <3>2, <3>3, Reweighed
  <2> HIDE DEF many
  <2>q. QED BY <2>1, <2>2
<1> DEFINE S == {many[i] : i \in 1..n} \cup {c}
<1>5. \A x \in S : IsCriterion(x)
  BY <1>3, <1>4
<1>6. many \in Seq(S) /\ Len(many) = n
  <2> HIDE DEF many, c
  <2>1. many \in [1..n -> S]
    BY <1>4
  <2> HIDE DEF S
  <2>q. QED BY <1>1, <2>1
<1>7. more \in Seq(S)
  <2>1. c \in S
    OBVIOUS
  <2> HIDE DEF many, c, S
  <2>q. QED BY <1>6, <2>1, AppendProperties
<1>8. CriteriaOK(more)
  <2> HIDE DEF S, more
  <2>1. Len(more) \in Nat /\ more = [i \in 1..Len(more) |-> more[i]] /\ \A i \in 1..Len(more) : more[i] \in S
    BY <1>7
  <2>q. QED BY <1>5, <2>1, ListedCriteria
<1>9. AddCriterion(doc, name) = [doc EXCEPT !.criteria = Rebalance(more)]
  BY DEF AddCriterion
<1> HIDE DEF more
<1>q. QED BY <1>8, <1>9, Recriteriad

\* The parts of a split are criteria, however many were split.
LEMMA SplitKeeps ==
    ASSUME NEW doc, DocOK(doc), NEW key \in Keys(doc), NEW first, NEW second
    PROVE  DocOK(SplitCriterion(doc, key, first, second))
<1> DEFINE cs == doc.criteria
           n == Len(cs)
           First(i) == cs[i].key = key /\ \A j \in DOMAIN cs : cs[j].key = key => i <= j
           original == cs[CHOOSE i \in DOMAIN cs : First(i)]
           half(name) == [Criterion(name, original.weight) EXCEPT !.described = original.described]
           part(i) == IF cs[i].key = key THEN <<half(first), half(second)>>
                      ELSE <<[cs[i] EXCEPT !.weight = 2 * @]>>
           S == {half(first), half(second)} \cup {[cs[i] EXCEPT !.weight = 2 * @] : i \in 1..n}
<1>1. n \in Nat /\ DOMAIN cs = 1..n /\ \A i \in 1..n : IsCriterion(cs[i])
  BY DEF DocOK, CriteriaOK
<1>2. \E i \in DOMAIN cs : First(i)
  <2> DEFINE with == {i \in 1..n : cs[i].key = key}
  <2>1. with # {} /\ with \in SUBSET Nat
    BY <1>1 DEF Keys
  <2>2. PICK i \in with : \A j \in with : i <= j
    <3> HIDE DEF with
    <3>q. QED BY <2>1, LeastNumber
  <2>q. QED BY <1>1, <2>2
<1>3. IsCriterion(original)
  <2>1. (CHOOSE i \in DOMAIN cs : First(i)) \in DOMAIN cs
    <3> HIDE DEF First
    <3>q. QED BY <1>2
  <2> HIDE DEF First
  <2>q. QED BY <1>1, <2>1
<1>4. ASSUME NEW name PROVE IsCriterion(half(name))
  <2> HIDE DEF original
  <2>1. original.weight \in Int /\ original.described \in Nat
    BY <1>3 DEF IsCriterion
  <2>2. IsCriterion(Criterion(name, original.weight))
    BY <2>1, CriterionIs
  <2>q. QED BY <2>1, <2>2, Described
<1>5. ASSUME NEW i \in 1..n PROVE IsCriterion([cs[i] EXCEPT !.weight = 2 * @])
  <2> DEFINE weight == 2 * cs[i].weight
  <2>1. IsCriterion(cs[i]) /\ weight \in Int
    BY <1>1 DEF IsCriterion
  <2>2. [cs[i] EXCEPT !.weight = 2 * @] = [cs[i] EXCEPT !.weight = weight]
    OBVIOUS
  <2> HIDE DEF weight
  <2>q. QED BY <2>1, <2>2, Reweighed
<1> HIDE DEF half
<1>6. \A x \in S : IsCriterion(x)
  BY <1>4, <1>5
<1>7. ASSUME NEW i \in 1..n PROVE part(i) \in Seq(S)
  <2>1. half(first) \in S /\ half(second) \in S /\ [cs[i] EXCEPT !.weight = 2 * @] \in S
    OBVIOUS
  <2> HIDE DEF S
  <2>q. QED BY <2>1
<1> DEFINE V == Seq(S)
           step == [p \in (1..n) \X V |-> p[2] \o part(p[1])]
<1> HIDE DEF S, part
<1>8. \A i \in 1..n, v \in V : step[<<i, v>>] = v \o part(i)
  OBVIOUS
<1>9. ASSUME NEW i \in 1..n, NEW v \in V PROVE step[<<i, v>>] \in V
  <2>1. v \o part(i) \in V
    BY <1>7, ConcatProperties
  <2> HIDE DEF step, V
  <2>q. QED BY <1>8, <2>1
<1>10. <<>> \in V
  BY EmptySeq
<1>11. PICK h : Climbs(h, n, V, <<>>, step)
  <2> HIDE DEF step, V, n
  <2>q. QED BY <1>1, <1>9, <1>10, ClimbExists
<1>12. h \in [0..n -> V] /\ h[0] = <<>> /\ \A i \in 1..n : h[i] = h[i - 1] \o part(i)
  <2>1. \A i \in 1..n : i - 1 \in 0..n
    BY <1>1
  <2>2. h \in [0..n -> V] /\ h[0] = <<>> /\ \A i \in 1..n : h[i] = step[<<i, h[i - 1]>>]
    BY <1>11 DEF Climbs
  <2>3. \A i \in 1..n : h[i] = h[i - 1] \o part(i)
    <3> HIDE DEF step, V, n
    <3>q. QED BY <1>8, <2>1, <2>2
  <2>q. QED BY <2>2, <2>3
<1> HIDE DEF step, V
<1> DEFINE Is(g) == g = [i \in 0..n |-> IF i = 0 THEN <<>> ELSE g[i - 1] \o part(i)]
<1>13. Is(h)
  <2> HIDE DEF n
  <2>q. QED BY <1>12
<1>14. \A g : Is(g) => g = h
  <2> SUFFICES ASSUME NEW g, Is(g) PROVE g = h
    OBVIOUS
  <2> HIDE DEF n
  <2>0. g = [i \in 0..n |-> IF i = 0 THEN <<>> ELSE g[i - 1] \o part(i)]
    OBVIOUS
  <2>1. g[0] = <<>> /\ \A i \in 1..n : g[i] = g[i - 1] \o part(i)
    <3>1. 0 \in 0..n /\ \A i \in 1..n : i \in 0..n /\ i # 0
      BY <1>1
    <3> HIDE DEF Is
    <3>2. g[0] = <<>>
      BY <2>0, <3>1
    <3>3. ASSUME NEW i \in 1..n PROVE g[i] = g[i - 1] \o part(i)
      BY ONLY <2>0, <3>1, Zenon
    <3>q. QED BY <3>2, <3>3
  <2>2. g = [i \in 0..n |-> g[i]] /\ h = [i \in 0..n |-> h[i]]
    BY <1>12
  <2>3. g[0] = h[0] /\ \A i \in 1..n : g[i - 1] = h[i - 1] => g[i] = h[i]
    BY <1>12, <2>1
  <2> HIDE DEF Is
  <2>4. \A i \in 0..n : g[i] = h[i]
    <3>1. n \in Nat
      BY <1>1
    <3>q. QED BY ONLY <2>3, <3>1, ClimbUnique
  <2>q. QED BY <2>2, <2>4
<1>15. (CHOOSE g : Is(g)) = h
  <2> HIDE DEF Is
  <2>q. QED BY <1>13, <1>14, Zenon
<1>16. SplitCriterion(doc, key, first, second) = [doc EXCEPT !.criteria = Rebalance(h[n])]
  BY <1>15 DEF SplitCriterion, part, half
<1>17. CriteriaOK(h[n])
  <2> DEFINE out == h[n]
  <2>1. out \in Seq(S)
    <3> HIDE DEF n
    <3>q. QED BY <1>1, <1>12 DEF V
  <2> HIDE DEF out
  <2>2. Len(out) \in Nat /\ out = [i \in 1..Len(out) |-> out[i]] /\ \A i \in 1..Len(out) : out[i] \in S
    BY <2>1
  <2>3. CriteriaOK(out)
    BY <1>6, <2>2, ListedCriteria
  <2>q. QED BY <2>3 DEF out
<1>q. QED BY <1>16, <1>17, Recriteriad

LEMMA EditedKeeps ==
    ASSUME NEW doc, DocOK(doc), NEW to \in Edited(doc)
    PROVE  DocOK(to)
<1>0. \A i \in DOMAIN doc.criteria : IsCriterion(doc.criteria[i])
  BY DEF DocOK, CriteriaOK
<1>1. ASSUME NEW key, to = SetScale(doc, key) PROVE DocOK(to)
  <2> DEFINE new(i) == IF doc.criteria[i].key = key THEN [doc.criteria[i] EXCEPT !.described = 3] ELSE doc.criteria[i]
             after == [i \in DOMAIN doc.criteria |-> new(i)]
  <2>1. to = [doc EXCEPT !.criteria = after]
    BY <1>1 DEF SetScale, Changed
  <2>2. ASSUME NEW i \in DOMAIN doc.criteria
        PROVE  IsCriterion(after[i]) /\ after[i].weight = doc.criteria[i].weight
    <3> DEFINE d == [doc.criteria[i] EXCEPT !.described = 3]
    <3>1. after[i] = IF doc.criteria[i].key = key THEN d ELSE doc.criteria[i]
      OBVIOUS
    <3>2. d = [doc.criteria[i] EXCEPT !.described = 3]
      OBVIOUS
    <3> HIDE DEF d, after
    <3>3. IsCriterion(d) /\ d.weight = doc.criteria[i].weight
      BY <1>0, <3>2, Described
    <3>q. QED BY <1>0, <3>1, <3>3
  <2>3. after = [i \in DOMAIN doc.criteria |-> after[i]]
    OBVIOUS
  <2> HIDE DEF after
  <2>q. QED BY <2>1, <2>2, <2>3, Reworded
<1>2. ASSUME NEW key, NEW type \in DOMAIN RuleRungs, NEW block, to = AcceptRule(doc, key, type, block),
             Proposed(RuleRungs[type], block) \/ block \in RuleBlocks
      PROVE  DocOK(to)
  <2> DEFINE new(c) == RuledBy(c, RuleRungs[type], block)
             after == [i \in DOMAIN doc.criteria |->
                          IF doc.criteria[i].key = key THEN new(doc.criteria[i]) ELSE doc.criteria[i]]
  <2>1. to = [doc EXCEPT !.criteria = after]
    BY <1>2 DEF AcceptRule, Changed, RuledBy
  <2>2. RuleRungs[type] \in Deterministic
    BY RulesHaveRungs
  <2>3. ASSUME NEW i \in DOMAIN doc.criteria
        PROVE  IsCriterion(after[i]) /\ after[i].weight = doc.criteria[i].weight
    <3> DEFINE c == doc.criteria[i]
    <3>1. after[i] = IF c.key = key THEN new(c) ELSE c
      OBVIOUS
    <3>2. IsCriterion(c)
      BY <1>0
    <3> HIDE DEF c, after
    <3>3. IsCriterion(new(c)) /\ new(c).weight = c.weight
      BY <1>2, <2>2, <3>2, Ruled
    <3> HIDE DEF new
    <3>q. QED BY <3>1, <3>2, <3>3 DEF c
  <2>4. after = [i \in DOMAIN doc.criteria |-> after[i]]
    OBVIOUS
  <2> HIDE DEF after
  <2>q. QED BY <2>1, <2>3, <2>4, Reworded
<1>3. CASE to = AddTask(doc)
  <2>1. to = [slug |-> doc.slug, criteria |-> doc.criteria, tasks |-> doc.tasks + 1, saved |-> doc.saved,
              edits |-> doc.edits]
    BY <1>3 DEF DocOK, AddTask
  <2>q. QED BY <2>1 DEF DocOK
<1>4. ASSUME NEW p \in ProposeRules(doc), NEW probe \in {"passes", "refused"}
      PROVE  p[2] \in DOMAIN RuleRungs /\ Proposed(RuleRungs[p[2]], RuleBlock(p[2], probe))
  <2>1. p[2] \in DOMAIN RuleRungs
    BY <1>4 DEF ProposeRules
  <2>q. QED BY <2>1 DEF Proposed, RuleBlock
<1>q. QED BY <1>1, <1>2, <1>3, <1>4, AddKeeps, SplitKeeps DEF Edited

-----------------------------------------------------------------------------
\* What the wizard saves of a draft fails the lint on nothing but a rule.
Clean(body) == \A f \in LintPack(body) : f.severity = "error" => OfARule(body, f)

LEMMA PackWeighsWhole ==
    ASSUME NEW doc, DocOK(doc), doc.criteria # <<>>
    PROVE  TotalWeight(PackBody(doc)) = Whole
<1> DEFINE cs == doc.criteria
           n == Len(cs)
           f == WeightsOf(cs)
           bs == PackBody(doc).criteria
           X(i) == IF bs[i].rung \in Rungs THEN bs[i].weight ELSE 0
           AddsUp(g) == g = [i \in 0..n |-> IF i = 0 THEN 0 ELSE g[i - 1] + f[i]]
           AddsWeights(g) == g = [i \in 0..Len(bs) |-> IF i = 0 THEN 0 ELSE g[i - 1] + X(i)]
<1>1. n \in Nat /\ DOMAIN cs = 1..n /\ \A i \in 1..n : IsCriterion(cs[i])
  BY DEF DocOK, CriteriaOK
<1>2. \A i \in 1..n : bs[i].rung = cs[i].rung /\ bs[i].weight = cs[i].weight
  BY <1>1 DEF PackBody
<1>3. Len(bs) = n
  <2>1. bs \in [1..n -> {bs[i] : i \in 1..n}]
    BY <1>1 DEF PackBody
  <2> HIDE DEF bs, n
  <2>q. QED BY <1>1, <2>1
<1>4. \A i \in 1..n : X(i) = f[i]
  <2>1. \A i \in 1..n : cs[i].rung \in Rungs
    BY <1>1 DEF IsCriterion, Rungs, Deterministic
  <2> HIDE DEF bs
  <2>q. QED BY <1>1, <1>2, <2>1 DEF WeightsOf
<1> HIDE DEF X, f, bs, n
<1>5. ASSUME NEW g PROVE AddsWeights(g) <=> AddsUp(g)
  <2>1. ASSUME NEW i \in 0..n
        PROVE  (IF i = 0 THEN 0 ELSE g[i - 1] + X(i)) = (IF i = 0 THEN 0 ELSE g[i - 1] + f[i])
    <3>1. i # 0 => i \in 1..n
      BY <1>1
    <3>q. QED BY <1>4, <3>1
  <2>2. [i \in 0..n |-> IF i = 0 THEN 0 ELSE g[i - 1] + X(i)] = [i \in 0..n |-> IF i = 0 THEN 0 ELSE g[i - 1] + f[i]]
    BY <2>1
  <2>q. QED BY <1>3, <2>2
<1>6. (CHOOSE g : AddsWeights(g)) = (CHOOSE g : AddsUp(g))
  <2> HIDE DEF AddsWeights, AddsUp
  <2>q. QED BY <1>5
<1>7. SumTo(f, n) = (CHOOSE g : AddsUp(g))[n]
  BY DEF SumTo
<1>8. TotalWeight(PackBody(doc)) = (CHOOSE g : AddsWeights(g))[Len(bs)]
  BY DEF TotalWeight, WeightOf, X, bs
<1>9. SumTo(f, n) = Whole
  BY DEF DocOK, WeightsAreWhole, f, n
<1>q. QED BY <1>3, <1>6, <1>7, <1>8, <1>9

LEMMA SavedIsClean ==
    ASSUME NEW doc, DocOK(doc), doc.criteria # <<>>, doc.tasks > 0,
           \A i \in DOMAIN doc.criteria : ~NeedsDescriptors(doc.criteria[i])
    PROVE  Clean(PackBody(doc))
<1> DEFINE body == PackBody(doc)
           cs == doc.criteria
<1>1. \A i \in DOMAIN cs : IsCriterion(cs[i])
  BY DEF DocOK, CriteriaOK
<1>2. CheckWeights(body) = {}
  <2>1. TotalWeight(body) = Whole /\ Whole \in Nat \ {0}
    BY PackWeighsWhole, StarterIsAPack
  <2> HIDE DEF body
  <2>q. QED BY <2>1 DEF CheckWeights, When
<1>3. ASSUME NEW c \in CriteriaOf(body)
      PROVE  \E i \in DOMAIN cs :
                /\ c.key = cs[i].key /\ c.rung = cs[i].rung /\ c.gate = FALSE /\ c.rule = cs[i].rule
                /\ c.scale = IF cs[i].rung = "judge" THEN [points |-> 5, described |-> cs[i].described] ELSE NoScale
  <2>1. PICK i \in DOMAIN body.criteria : c = body.criteria[i]
    BY DEF CriteriaOf
  <2>2. DOMAIN body.criteria = DOMAIN cs
    BY DEF PackBody
  <2>q. QED BY <2>1, <2>2 DEF PackBody
<1>4. ASSUME NEW f \in CheckPackLevel(body) PROVE f.severity # "error"
  <2>1. body.tasks # <<>>
    <3>1. doc.tasks \in Nat /\ DOMAIN body.tasks = 1..doc.tasks
      BY DEF DocOK, PackBody
    <3>2. 1 \in DOMAIN body.tasks
      BY <3>1
    <3>q. QED BY <3>2
  <2>2. (\E c \in CriteriaOf(body) : c.rung = "judge") => body.judge # NoJudge
    <3>1. (\E i \in DOMAIN cs : cs[i].rung = "judge") => body.judge = [size |-> 3, repetitions |-> 3]
      BY DEF PackBody
    <3>2. [size |-> 3, repetitions |-> 3] # NoJudge
      BY DEF NoJudge
    <3>q. QED BY <1>3, <3>1, <3>2
  <2>3. body.contributesTo = None /\ body.unforked = FALSE
    BY DEF PackBody
  <2> HIDE DEF body
  <2>4. \/ f = Warning("REFERENCE_WITHOUT_GROUND_TRUTH", None)
        \/ f = Finding("DETERMINISTIC_WEIGHT_SHARE", "info", None)
        \/ f = Warning("UNFORKED_STARTER", None)
    BY <1>4, <2>1, <2>2, <2>3 DEF CheckPackLevel, When
  <2>q. QED BY <2>4 DEF Warning, Finding
<1>5. ASSUME NEW c \in CriteriaOf(body), c.rung \in Deterministic, NEW f \in CheckRuleCriterion(c)
      PROVE  f.severity = "error" => OfARule(body, f)
  <2>1. PICK i \in DOMAIN cs : c.rung = cs[i].rung /\ c.rule = cs[i].rule /\ c.gate = FALSE
    BY <1>3
  <2>2. Proposed(c.rung, c.rule) \/ c.rule \in RuleBlocks
    BY <1>1, <1>5, <2>1 DEF IsCriterion, Deterministic
  <2>3. c.rule # NoRule
    BY <2>2, RulesHaveRungs, BlocksAreRules DEF NoRule, Proposed
  <2>4. f.key = c.key /\ f.code \in RuleErrors
    BY <1>5, <2>1, <2>3 DEF CheckRuleCriterion, ProbeParameters, When, Error, Finding, RuleErrors
  <2>5. Proposed(c.rung, c.rule) => f.code = "RULE_PARAMETERS_INVALID"
    BY <1>5, <2>1, <2>3 DEF CheckRuleCriterion, ProbeParameters, Proposed, When, Error, Finding
  <2>q. QED BY <2>2, <2>4, <2>5 DEF OfARule
<1>6. ASSUME NEW c \in CriteriaOf(body), c.rung \notin Deterministic, NEW f \in CheckGradedCriterion(c)
      PROVE  f.severity # "error"
  <2>1. PICK i \in DOMAIN cs :
            /\ c.rung = cs[i].rung /\ c.rule = cs[i].rule /\ c.gate = FALSE
            /\ c.scale = IF cs[i].rung = "judge" THEN [points |-> 5, described |-> cs[i].described] ELSE NoScale
    BY <1>3
  <2>2. c.rung = "judge" /\ c.rule = NoRule /\ cs[i].described \in Nat /\ ~(cs[i].described < 3)
    BY <1>1, <1>6, <2>1 DEF IsCriterion, NeedsDescriptors
  <2>3. c.scale # NoScale /\ Anchored(c.scale)
    <3>1. c.scale.points = 5 /\ c.scale.described = cs[i].described
      BY <2>1, <2>2
    <3>q. QED BY <2>2, <3>1 DEF NoScale, Anchored
  <2>4. f = Warning("MECHANIZABLE_JUDGED_CRITERION", c.key)
    BY <1>6, <2>1, <2>2, <2>3 DEF CheckGradedCriterion, When
  <2>q. QED BY <2>4 DEF Warning, Finding
<1> HIDE DEF body
<1>q. QED BY <1>2, <1>4, <1>5, <1>6 DEF Clean, LintPack, body

-----------------------------------------------------------------------------
\* Every draft, stored or under a tab, adds up; every pack saved or being saved is clean.
DraftsOK == \A d \in DOMAIN drafts : DocOK(drafts[d])
TabsOK ==
    /\ tab = [t \in Tabs |-> tab[t]]
    /\ \A t \in Tabs : tab[t].at \in {"loaded", "saving"} =>
           tab[t] = [at |-> tab[t].at, draft |-> tab[t].draft, doc |-> tab[t].doc] /\ DocOK(tab[t].doc)
SavesOK ==
    /\ req = [w \in Workers |-> req[w]]
    /\ \A w \in Workers :
           /\ req[w].op \in {"none", "write", "install"}
           /\ req[w].op = "write" =>
                  /\ req[w] = [op |-> "write", at |-> req[w].at, slug |-> req[w].slug, pack |-> req[w].pack,
                               web |-> req[w].web]
                  /\ Clean(req[w].pack.body)
    /\ \A s \in DOMAIN disk : Clean(disk[s].body)
WizardInv == DraftsOK /\ TabsOK /\ SavesOK

LEMMA NewDraftIsOK ==
    ASSUME NEW slug
    PROVE  DocOK(Document(slug, <<>>, 0)) /\ DocOK(Document(slug, Starter, 1))
<1>1. CriteriaOK(<<>>) /\ WeightsAreWhole(<<>>)
  BY EmptySeq DEF CriteriaOK, WeightsAreWhole
<1>2. CriteriaOK(Starter) /\ WeightsAreWhole(Starter)
  BY StarterIsAPack DEF CriteriaOK
<1>q. QED BY <1>1, <1>2 DEF DocOK, Document

LEMMA NotedIsOK ==
    ASSUME NEW doc, DocOK(doc), NEW x
    PROVE  DocOK([doc EXCEPT !.edits = x]) /\ DocOK([doc EXCEPT !.saved = x])
<1>1. /\ [doc EXCEPT !.edits = x] = [slug |-> doc.slug, criteria |-> doc.criteria, tasks |-> doc.tasks,
                                     saved |-> doc.saved, edits |-> x]
      /\ [doc EXCEPT !.saved = x] = [slug |-> doc.slug, criteria |-> doc.criteria, tasks |-> doc.tasks,
                                     saved |-> x, edits |-> doc.edits]
  BY DEF DocOK
<1>q. QED BY <1>1 DEF DocOK

LEMMA SaveDraftKeeps ==
    ASSUME DraftsOK, NEW d, NEW doc, DocOK(doc), SaveDraft(d, doc)
    PROVE  DraftsOK'
BY DEF DraftsOK, SaveDraft, With

LEMMA TabRests ==
    ASSUME TabsOK, NEW t \in Tabs, tab' = [tab EXCEPT ![t] = NoTab]
    PROVE  TabsOK'
BY DEF TabsOK, NoTab

LEMMA SavesRest == ASSUME SavesOK, UNCHANGED <<req, disk>> PROVE SavesOK'
BY DEF SavesOK

\* A request goes on to its step r and leaves the directory of packs alone.
Turns(w, r) == disk' = disk /\ req' = [req EXCEPT ![w] = r]

LEMMA SavesPass ==
    ASSUME SavesOK, NEW w \in Workers, NEW r, r.op \in {"none", "install"}, Turns(w, r)
    PROVE  SavesOK'
BY DEF SavesOK, Turns

\* A step of a request that the wizard began.
LEMMA ProgressSaves ==
    ASSUME SavesOK, NEW w \in Workers, Progress(w)
    PROVE  SavesOK'
<1>1. req[w].op \in {"none", "write", "install"}
  BY DEF SavesOK
<1>2. CASE RemoveOld(w) \/ OldRemoved(w) \/ RemovalFails(w) \/ DeleteRows(w) \/ RemoveDirectory(w) \/ SyncGoals(w)
  BY <1>1, <1>2 DEF RemoveOld, OldRemoved, RemovalFails, DeleteRows, RemoveDirectory, SyncGoals
<1>3. Idle.op = "none"
  BY DEF Idle
<1>4. CASE Rename(w)
  <2>1. req[w].op = "write"
    BY <1>1, <1>4 DEF Rename
  <2>2. CASE Exists(req[w].slug)
    <3>1. Turns(w, Idle)
      BY <1>4, <2>2 DEF Rename, Refuse, Turns
    <3>q. QED BY <1>3, <3>1, SavesPass
  <2>3. CASE ~Exists(req[w].slug)
    <3> DEFINE r == [req[w] EXCEPT !.at = "placed"]
    <3>1. disk' = With(disk, req[w].slug, req[w].pack) /\ req' = [req EXCEPT ![w] = r]
      BY <1>4, <2>3 DEF Rename, Step
    <3>2. r = [op |-> "write", at |-> "placed", slug |-> req[w].slug, pack |-> req[w].pack, web |-> req[w].web]
      BY <2>1 DEF SavesOK
    <3>3. Clean(req[w].pack.body)
      BY <2>1 DEF SavesOK
    <3> HIDE DEF r
    <3>4. \A s \in DOMAIN disk' : Clean(disk'[s].body)
      BY <3>1, <3>3 DEF SavesOK, With
    <3>5. /\ r.op = "write" /\ Clean(r.pack.body)
          /\ r = [op |-> "write", at |-> r.at, slug |-> r.slug, pack |-> r.pack, web |-> r.web]
      BY <3>2, <3>3
    <3>6. req' = [v \in Workers |-> req'[v]] /\ req'[w] = r /\ \A v \in Workers : v # w => req'[v] = req[v]
      BY <3>1 DEF SavesOK
    <3>q. QED BY <3>4, <3>5, <3>6 DEF SavesOK
  <2>q. QED BY <2>2, <2>3
<1>5. CASE ReadPacks(w)
  <2> DEFINE r == IF req[w].web /\ (req[w].op = "delete" \/ Parses(req[w].slug))
                  THEN [op |-> "install", at |-> "read", slug |-> req[w].slug, pack |-> Loadable, web |-> TRUE]
                  ELSE Idle
  <2>1. Turns(w, r)
    BY <1>5 DEF ReadPacks, Turns
  <2>2. r.op \in {"none", "install"}
    BY <1>3
  <2> HIDE DEF r
  <2>q. QED BY <2>1, <2>2, SavesPass
<1>6. CASE Installed(w)
  <2>1. Turns(w, Idle)
    BY <1>6 DEF Installed, Refuse, Turns
  <2>q. QED BY <1>3, <2>1, SavesPass
<1>q. QED BY <1>2, <1>4, <1>5, <1>6 DEF Progress

LEMMA WizardSteps ==
    ASSUME WizardInv, WizardNext
    PROVE  WizardInv'
<1>0. DraftsOK /\ TabsOK /\ SavesOK
  BY DEF WizardInv
<1>1. ASSUME UNCHANGED packVars PROVE SavesOK'
  BY <1>0, <1>1, SavesRest DEF packVars
<1>2. ASSUME drafts' = drafts PROVE DraftsOK'
  BY <1>0, <1>2 DEF DraftsOK
<1>3. ASSUME tab' = tab PROVE TabsOK'
  BY <1>0, <1>3 DEF TabsOK
<1>4. ASSUME NEW d \in Drafts, NEW s \in Slugs, StartDraft(d, s) PROVE WizardInv'
  <2>1. tab' = tab /\ UNCHANGED packVars /\ \E doc : DocOK(doc) /\ SaveDraft(d, doc)
    BY <1>4, NewDraftIsOK DEF StartDraft
  <2>q. QED BY <1>0, <1>1, <1>3, <2>1, SaveDraftKeeps DEF WizardInv
<1>5. ASSUME NEW d \in Drafts, DeleteDraft(d) PROVE WizardInv'
  <2>1. tab' = tab /\ UNCHANGED packVars /\ drafts' = Without(drafts, d)
    BY <1>5 DEF DeleteDraft
  <2>2. DraftsOK'
    BY <1>0, <2>1 DEF DraftsOK, Without
  <2>q. QED BY <1>1, <1>3, <2>1, <2>2 DEF WizardInv
<1>6. ASSUME NEW t \in Tabs, NEW d \in Drafts, LoadDraft(t, d) PROVE WizardInv'
  <2>1. /\ tab' = [tab EXCEPT ![t] = [at |-> "loaded", draft |-> d, doc |-> drafts[d]]]
        /\ d \in DOMAIN drafts /\ drafts' = drafts /\ UNCHANGED packVars
    BY <1>6 DEF LoadDraft
  <2>2. DocOK(drafts[d])
    BY <1>0, <2>1 DEF DraftsOK
  <2>3. TabsOK'
    BY <1>0, <2>1, <2>2 DEF TabsOK
  <2>q. QED BY <1>1, <1>2, <2>1, <2>3 DEF WizardInv
<1>7. ASSUME NEW t \in Tabs, EditDraft(t) PROVE WizardInv'
  <2>1. /\ tab[t].at = "loaded" /\ tab' = [tab EXCEPT ![t] = NoTab] /\ UNCHANGED packVars
        /\ \E doc \in Edited(tab[t].doc) : SaveDraft(tab[t].draft, [doc EXCEPT !.edits = @ + 1])
    BY <1>7 DEF EditDraft
  <2>2. PICK doc \in Edited(tab[t].doc) : SaveDraft(tab[t].draft, [doc EXCEPT !.edits = @ + 1])
    BY <2>1
  <2>3. DocOK(doc)
    BY <1>0, <2>1, EditedKeeps DEF TabsOK
  <2>4. DocOK([doc EXCEPT !.edits = doc.edits + 1])
    BY <2>3, NotedIsOK
  <2>5. DraftsOK'
    BY <1>0, <2>2, <2>4, SaveDraftKeeps
  <2>q. QED BY <1>0, <1>1, <2>1, <2>5, TabRests DEF WizardInv
<1>8. ASSUME NEW t \in Tabs, SavePack(t) PROVE WizardInv'
  <2> DEFINE doc == tab[t].doc
             body == PackBody(doc)
             r == [op |-> "write", at |-> "staged", slug |-> doc.slug, pack |-> [body |-> body, prompt |-> None],
                   web |-> TRUE]
  <2>1. /\ tab[t].at = "loaded" /\ doc.criteria # <<>> /\ doc.tasks > 0
        /\ \A i \in DOMAIN doc.criteria : ~NeedsDescriptors(doc.criteria[i])
        /\ WritePack(t, doc.slug, body, TRUE) /\ tab' = [tab EXCEPT ![t].at = "saving"] /\ drafts' = drafts
    BY <1>8 DEF SavePack
  <2>2. DocOK(doc) /\ tab[t] = [at |-> "loaded", draft |-> tab[t].draft, doc |-> doc]
    BY <1>0, <2>1 DEF TabsOK
  <2>3. Clean(body)
    BY <2>1, <2>2, SavedIsClean
  <2> HIDE DEF body
  <2>4. req' = [req EXCEPT ![t] = r] /\ disk' = disk
    BY <2>1 DEF WritePack, Enter
  <2>5. TabsOK'
    <3>1. tab' = [tab EXCEPT ![t] = [at |-> "saving", draft |-> tab[t].draft, doc |-> doc]]
      <4>1. tab' = [tab EXCEPT ![t] = [tab[t] EXCEPT !.at = "saving"]]
        BY <2>1
      <4> HIDE DEF doc
      <4>2. [tab[t] EXCEPT !.at = "saving"] = [at |-> "saving", draft |-> tab[t].draft, doc |-> doc]
        BY <2>2
      <4>q. QED BY <4>1, <4>2
    <3> HIDE DEF doc
    <3>q. QED BY <1>0, <2>2, <3>1 DEF TabsOK
  <2>6. /\ r.op = "write" /\ Clean(r.pack.body)
        /\ r = [op |-> "write", at |-> r.at, slug |-> r.slug, pack |-> r.pack, web |-> r.web]
    BY <2>3
  <2> HIDE DEF r
  <2>7. req' = [v \in Workers |-> req'[v]] /\ req'[t] = r /\ \A v \in Workers : v # t => req'[v] = req[v]
    BY <1>0, <2>4, TabsAreWorkers DEF SavesOK
  <2>8. SavesOK'
    BY <1>0, <2>4, <2>6, <2>7 DEF SavesOK
  <2>q. QED BY <1>2, <2>1, <2>5, <2>8 DEF WizardInv
<1>9. ASSUME NEW t \in Tabs, RecordSaved(t) PROVE WizardInv'
  <2>1. tab[t].at = "saving" /\ tab' = [tab EXCEPT ![t] = NoTab] /\ UNCHANGED packVars
    BY <1>9 DEF RecordSaved
  <2>2. drafts' = drafts \/ SaveDraft(tab[t].draft, [tab[t].doc EXCEPT !.saved = tab[t].doc.slug])
    BY <1>9 DEF RecordSaved
  <2>3. DocOK([tab[t].doc EXCEPT !.saved = tab[t].doc.slug])
    BY <1>0, <2>1, NotedIsOK DEF TabsOK
  <2>4. DraftsOK'
    BY <1>0, <1>2, <2>2, <2>3, SaveDraftKeeps
  <2>q. QED BY <1>0, <1>1, <2>1, <2>4, TabRests DEF WizardInv
<1>10. ASSUME NEW t \in Tabs, Leave(t) PROVE WizardInv'
  <2>1. tab' = [tab EXCEPT ![t] = NoTab] /\ drafts' = drafts /\ UNCHANGED packVars
    BY <1>10 DEF Leave
  <2>q. QED BY <1>0, <1>1, <1>2, <2>1, TabRests DEF WizardInv
<1>11. ASSUME UNCHANGED wizardVars, NEW t \in Tabs, Progress(t) PROVE WizardInv'
  <2>1. SavesOK'
    BY <1>0, <1>11, ProgressSaves, TabsAreWorkers
  <2>q. QED BY <1>2, <1>3, <1>11, <2>1 DEF WizardInv, wizardVars
<1>q. QED BY <1>4, <1>5, <1>6, <1>7, <1>8, <1>9, <1>10, <1>11 DEF WizardNext

\* Whatever is added, split, ruled, described and saved, from any number of tabs and across
\* deaths of the server, every draft's weights add up to the whole, and a saved pack fails
\* the lint on nothing but parameters that the wizard proposed or a rule that its author wrote.
THEOREM WizardSavesWholePacks == MCSpec => []WizardIsWhole
<1> DEFINE I == moving = "wizard" => WizardInv
<1>1. MCInit => I
  BY DEF MCInit, WizardInit, PackInit, WizardInv, DraftsOK, TabsOK, SavesOK, NoPacks, NoTab, Idle
<1>2. I /\ [MCNext]_<<moving, packVars, wizardVars>> => I'
  <2> SUFFICES ASSUME I, [MCNext]_<<moving, packVars, wizardVars>>, moving' = "wizard" PROVE WizardInv'
    OBVIOUS
  <2>1. moving = "wizard" /\ WizardInv
    BY DEF MCNext
  <2>2. CASE WizardNext
    BY <2>1, <2>2, WizardSteps
  <2>3. CASE Die /\ UNCHANGED wizardVars
    <3>1. disk' = disk /\ req' = [w \in Workers |-> IF Served(w) THEN Idle ELSE req[w]]
      BY <2>3 DEF Die
    <3>2. SavesOK'
      BY <2>1, <3>1 DEF WizardInv, SavesOK, Idle
    <3>q. QED BY <2>1, <2>3, <3>2 DEF WizardInv, DraftsOK, TabsOK, wizardVars
  <2>4. CASE UNCHANGED <<moving, packVars, wizardVars>>
    BY <2>1, <2>4 DEF WizardInv, DraftsOK, TabsOK, SavesOK, wizardVars, packVars
  <2>q. QED BY <2>1, <2>2, <2>3, <2>4 DEF MCNext
<1>3. I => WizardIsWhole
  BY DEF WizardIsWhole, WizardPacksAreWhole, WizardInv, DraftsOK, SavesOK, DocOK, Clean
<1>q. QED BY <1>1, <1>2, <1>3, PTL DEF MCSpec
=============================================================================
