------------------------- MODULE MCCatalogue_proofs -------------------------
(***************************************************************************)
(* Theorems about the catalogue, the adapters and the creation of runs,    *)
(* for any names, digests, manifests, processes and requests, in any       *)
(* order, and with no bound on the edits.                                  *)
(***************************************************************************)
EXTENDS MCCatalogue, NaturalLemmas, SequenceTheorems

(***************************************************************************)
(* A refresh.                                                              *)
(***************************************************************************)
Said == [digest : Digests, content : Contents]
ModelRow == [name : ModelNames, digest : Digests, seen : Nat, enabled : BOOLEAN, aliases : SUBSET Nat]
DescriptorRow == [model : Nat, content : Contents, at : Nat]

\* No two rows of one identity.
OneRowPerIdentity(rows) ==
    \A i, j \in DOMAIN rows : rows[i].name = rows[j].name /\ rows[i].digest = rows[j].digest => i = j
Rows == {rows \in Seq(ModelRow) : OneRowPerIdentity(rows)}

\* Rows that came of others: none is lost, none is renamed, and a digest that was
\* reported is the one it was.
Succeed(rows, new) ==
    /\ Len(rows) <= Len(new)
    /\ \A i \in DOMAIN rows : /\ i \in DOMAIN new /\ new[i].name = rows[i].name
                              /\ new[i].digest = rows[i].digest \/ rows[i].digest = 0

LEMMA SequenceOfRows ==
    ASSUME NEW S, NEW n \in Nat, NEW f, f = [i \in 1..n |-> f[i]], \A i \in 1..n : f[i] \in S
    PROVE  f \in Seq(S) /\ Len(f) = n /\ DOMAIN f = 1..n
<1>1. f \in [1..n -> S]
  OBVIOUS
<1>q. QED BY <1>1

\* A sighting touches the row of its identity, upgrades the one row of its name that has no
\* digest, or adds a row; which of the three, is what is said of it.
LEMMA UpsertIs ==
    ASSUME NEW rows \in Rows, NEW name \in ModelNames, NEW digest \in Digests, NEW now \in Nat
    PROVE  LET new == UpsertIdentity(rows, name, digest, now)
           IN  /\ new \in Rows /\ Succeed(rows, new)
               /\ GetByIdentity(new, name, digest) # {}
               /\ Len(new) = Len(rows) + (IF IsNew(rows, name, digest) THEN 1 ELSE 0)
               /\ \/ \A i \in DOMAIN rows : new[i].digest = rows[i].digest
                  \/ ~IsNew(rows, name, digest) /\ digest # 0 /\ GetByIdentity(rows, name, digest) = {}
<1> DEFINE new == UpsertIdentity(rows, name, digest, now)
           here == GetByIdentity(rows, name, digest)
           nameless == GetByIdentity(rows, name, 0)
           touched == [i \in DOMAIN rows |-> IF i \in here THEN [rows[i] EXCEPT !.seen = now] ELSE rows[i]]
           upgraded == [i \in DOMAIN rows |->
                           IF i \in nameless THEN [rows[i] EXCEPT !.digest = digest, !.seen = now] ELSE rows[i]]
           row == [name |-> name, digest |-> digest, seen |-> now, enabled |-> TRUE, aliases |-> {}]
<1>0. /\ rows \in Seq(ModelRow) /\ DOMAIN rows = 1..Len(rows) /\ Len(rows) \in Nat
      /\ \A i \in DOMAIN rows : rows[i] \in ModelRow
      /\ \A i, j \in DOMAIN rows : rows[i].name = rows[j].name /\ rows[i].digest = rows[j].digest => i = j
  BY DEF Rows, OneRowPerIdentity
<1>h. /\ here = {i \in DOMAIN rows : rows[i].name = name /\ rows[i].digest = digest}
      /\ nameless = {i \in DOMAIN rows : rows[i].name = name /\ rows[i].digest = 0}
  BY DEF GetByIdentity
<1>d. digest \in Nat /\ row \in ModelRow
  BY CatalogueAssumption DEF ModelRow
<1>1. CASE here # {}
  <2>1. new = touched
    <3>1. (IF digest = 0 THEN rows ELSE UpgradeNameOnlyRow(rows, name, digest, now)) = rows
      BY <1>1 DEF UpgradeNameOnlyRow
    <3>q. QED BY <1>1, <3>1 DEF UpsertIdentity, TouchOrInsert
  <2>2. \A i \in DOMAIN rows : /\ touched[i] \in ModelRow /\ touched[i].name = rows[i].name
                               /\ touched[i].digest = rows[i].digest
    BY <1>0 DEF ModelRow
  <2>3. touched \in Seq(ModelRow) /\ Len(touched) = Len(rows) /\ DOMAIN touched = DOMAIN rows
    <3>1. touched = [i \in 1..Len(rows) |-> touched[i]] /\ \A i \in 1..Len(rows) : touched[i] \in ModelRow
      BY <1>0, <2>2
    <3> HIDE DEF touched, upgraded, new, here, nameless
    <3>q. QED BY <1>0, <3>1, SequenceOfRows
  <2>4. touched \in Rows
    <3> HIDE DEF touched
    <3>q. QED BY <1>0, <2>2, <2>3 DEF Rows, OneRowPerIdentity
  <2>5. GetByIdentity(touched, name, digest) # {}
    BY <1>1, <1>h, <2>2, <2>3 DEF GetByIdentity
  <2>6. ~IsNew(rows, name, digest)
    BY <1>1 DEF IsNew
  <2> HIDE DEF touched, new
  <2>q. QED BY <1>0, <2>1, <2>2, <2>3, <2>4, <2>5, <2>6 DEF Succeed, new
<1>2. CASE here = {} /\ digest # 0 /\ nameless # {}
  <2>1. new = upgraded
    <3>1. UpgradeNameOnlyRow(rows, name, digest, now) = upgraded
      BY <1>2 DEF UpgradeNameOnlyRow
    <3>2. PICK i \in DOMAIN rows : i \in nameless
      BY <1>2, <1>h
    <3>3. upgraded[i].digest = digest /\ rows[i].digest = 0
      BY <1>0, <1>h, <3>2 DEF ModelRow
    <3>4. upgraded # rows
      BY <1>2, <3>3
    <3>q. QED BY <1>2, <3>1, <3>4 DEF UpsertIdentity
  <2>2. \A i \in DOMAIN rows :
          /\ upgraded[i] \in ModelRow /\ upgraded[i].name = rows[i].name
          /\ i \in nameless => upgraded[i].digest = digest /\ rows[i].digest = 0 /\ rows[i].name = name
          /\ i \notin nameless => upgraded[i].digest = rows[i].digest
    BY <1>0, <1>d, <1>h DEF ModelRow
  <2>3. upgraded \in Seq(ModelRow) /\ Len(upgraded) = Len(rows) /\ DOMAIN upgraded = DOMAIN rows
    <3>1. upgraded = [i \in 1..Len(rows) |-> upgraded[i]] /\ \A i \in 1..Len(rows) : upgraded[i] \in ModelRow
      BY <1>0, <2>2
    <3> HIDE DEF touched, upgraded, new, here, nameless
    <3>q. QED BY <1>0, <3>1, SequenceOfRows
  <2>4. upgraded \in Rows
    <3> SUFFICES ASSUME NEW i \in DOMAIN rows, NEW j \in DOMAIN rows,
                        upgraded[i].name = upgraded[j].name, upgraded[i].digest = upgraded[j].digest
                 PROVE  i = j
      BY <2>3 DEF Rows, OneRowPerIdentity
    <3> HIDE DEF touched, upgraded, new, here, nameless
    <3>1. CASE i \in nameless /\ j \in nameless
      BY <1>0, <2>2, <3>1
    <3>2. CASE i \in nameless /\ j \notin nameless
      <4>1. j \in here
        BY <1>h, <2>2, <3>2
      <4>q. QED BY <1>2, <4>1
    <3>3. CASE i \notin nameless /\ j \in nameless
      <4>1. i \in here
        BY <1>h, <2>2, <3>3
      <4>q. QED BY <1>2, <4>1
    <3>4. CASE i \notin nameless /\ j \notin nameless
      BY <1>0, <2>2, <3>4
    <3>q. QED BY <3>1, <3>2, <3>3, <3>4
  <2>5. GetByIdentity(upgraded, name, digest) # {}
    <3>1. PICK i \in DOMAIN rows : i \in nameless
      BY <1>2, <1>h
    <3>2. upgraded[i].name = name /\ upgraded[i].digest = digest
      BY <2>2, <3>1
    <3>q. QED BY <2>3, <3>2 DEF GetByIdentity
  <2>6. ~IsNew(rows, name, digest)
    BY <1>2 DEF IsNew
  <2> HIDE DEF upgraded, new
  <2>q. QED BY <1>0, <1>2, <2>1, <2>2, <2>3, <2>4, <2>5, <2>6 DEF Succeed, new
<1>3. CASE here = {} /\ (digest = 0 \/ nameless = {})
  <2>1. new = Append(rows, row)
    <3>1. (IF digest = 0 THEN rows ELSE UpgradeNameOnlyRow(rows, name, digest, now)) = rows
      <4>1. CASE digest = 0
        BY <4>1
      <4>2. CASE digest # 0
        <5>1. UpgradeNameOnlyRow(rows, name, digest, now) = [i \in DOMAIN rows |-> rows[i]]
          BY <1>3, <4>2 DEF UpgradeNameOnlyRow
        <5>q. QED BY <1>0, <4>2, <5>1
      <4>q. QED BY <4>1, <4>2
    <3>q. QED BY <1>3, <3>1 DEF UpsertIdentity, TouchOrInsert
  <2>2. /\ Append(rows, row) \in Seq(ModelRow) /\ Len(Append(rows, row)) = Len(rows) + 1
        /\ \A i \in DOMAIN rows : Append(rows, row)[i] = rows[i]
        /\ Append(rows, row)[Len(rows) + 1] = row
        /\ DOMAIN Append(rows, row) = 1..(Len(rows) + 1)
    BY <1>0, <1>d, AppendProperties
  <2> DEFINE longer == Append(rows, row)
  <2>3. longer \in Rows
    <3> SUFFICES ASSUME NEW i \in 1..(Len(rows) + 1), NEW j \in 1..(Len(rows) + 1),
                        longer[i].name = longer[j].name, longer[i].digest = longer[j].digest
                 PROVE  i = j
      BY <2>2 DEF Rows, OneRowPerIdentity
    <3>1. row.name = name /\ row.digest = digest
      OBVIOUS
    <3> HIDE DEF row
    <3>2. \A k \in DOMAIN rows : ~(rows[k].name = name /\ rows[k].digest = digest)
      BY <1>3, <1>h
    <3>3. \A k \in 1..(Len(rows) + 1) : k \in DOMAIN rows \/ k = Len(rows) + 1
      BY <1>0
    <3>q. QED BY <1>0, <2>2, <3>1, <3>2, <3>3
  <2>4. GetByIdentity(longer, name, digest) # {}
    BY <1>0, <2>2 DEF GetByIdentity
  <2>5. IsNew(rows, name, digest)
    BY <1>3 DEF IsNew
  <2> HIDE DEF longer, new, row
  <2>q. QED BY <1>0, <2>1, <2>2, <2>3, <2>4, <2>5 DEF Succeed, longer, new
<1>q. QED BY <1>1, <1>2, <1>3

\* What a refresh has done so far, to the rows and descriptors it started from.
Passes == [models : Rows, descriptors : Seq(DescriptorRow), added : Nat, updated : Nat, unchanged : Nat]
Keeps(store, new) == Len(store) <= Len(new) /\ \A k \in DOMAIN store : k \in DOMAIN new /\ new[k] = store[k]
CountsOf(rows, store, p) ==
    LET written == Len(p.descriptors) - Len(store)
    IN  /\ p.added = Len(p.models) - Len(rows)
        /\ p.added <= written /\ written <= p.added + p.updated
        /\ p.added + p.updated = 0 =>
              \A i \in DOMAIN rows : p.models[i].name = rows[i].name /\ p.models[i].digest = rows[i].digest
Reached(rows, store) ==
    {p \in Passes : Succeed(rows, p.models) /\ Keeps(store, p.descriptors) /\ CountsOf(rows, store, p)}
Listed(p) == p.added + p.updated + p.unchanged

\* One descriptor more: it is counted once, and what it is counted as is what was done.
LEMMA DiscoverIs ==
    ASSUME NEW rows \in Rows, NEW store \in Seq(DescriptorRow), NEW p \in Reached(rows, store),
           NEW name \in ModelNames, NEW said \in Said, NEW at \in Nat
    PROVE  /\ Discover(p, name, said, at, at) \in Reached(rows, store)
           /\ Listed(Discover(p, name, said, at, at)) = Listed(p) + 1
<1> DEFINE next == Discover(p, name, said, at, at)
           upserted == UpsertIdentity(p.models, name, said.digest, at)
           i == CHOOSE k \in GetByIdentity(upserted, name, said.digest) : TRUE
           latest == LatestForModel(p.descriptors, i)
           new == IsNew(p.models, name, said.digest)
           changed == \A k \in latest : p.descriptors[k].content # said.content
           confident == PreviousConfidence(p.models, name, said.digest) # IdentityConfidence(said.digest)
           updates == ~new /\ (changed \/ confident)
           longer == StoreDescriptor(p.descriptors, i, said, at)
<1>1. /\ p \in Passes /\ p.models \in Rows /\ p.descriptors \in Seq(DescriptorRow)
      /\ p.added \in Nat /\ p.updated \in Nat /\ p.unchanged \in Nat
      /\ Succeed(rows, p.models) /\ Keeps(store, p.descriptors) /\ CountsOf(rows, store, p)
  BY DEF Reached, Passes
<1>2. said.digest \in Digests /\ said.content \in Contents
  BY DEF Said
<1>3. new \in BOOLEAN /\ changed \in BOOLEAN /\ confident \in BOOLEAN /\ updates \in BOOLEAN
  BY DEF IsNew
<1>4. next = [models |-> upserted,
              descriptors |-> IF new \/ changed THEN longer ELSE p.descriptors,
              added |-> p.added + (IF new THEN 1 ELSE 0),
              updated |-> p.updated + (IF updates THEN 1 ELSE 0),
              unchanged |-> p.unchanged + (IF ~new /\ ~updates THEN 1 ELSE 0)]
  BY DEF Discover
<1>5. /\ upserted \in Rows /\ Succeed(p.models, upserted)
      /\ GetByIdentity(upserted, name, said.digest) # {}
      /\ Len(upserted) = Len(p.models) + (IF new THEN 1 ELSE 0)
      /\ \/ \A k \in DOMAIN p.models : upserted[k].digest = p.models[k].digest
         \/ ~new /\ said.digest # 0 /\ GetByIdentity(p.models, name, said.digest) = {}
  <2> DEFINE d == said.digest
             m == p.models
  <2>1. d \in Digests /\ m \in Rows
    BY <1>1, <1>2
  <2> HIDE DEF d, m
  <2>2. LET u == UpsertIdentity(m, name, d, at)
        IN  /\ u \in Rows /\ Succeed(m, u) /\ GetByIdentity(u, name, d) # {}
            /\ Len(u) = Len(m) + (IF IsNew(m, name, d) THEN 1 ELSE 0)
            /\ \/ \A k \in DOMAIN m : u[k].digest = m[k].digest
               \/ ~IsNew(m, name, d) /\ d # 0 /\ GetByIdentity(m, name, d) = {}
    BY <2>1, UpsertIs
  <2>q. QED BY <2>2 DEF d, m
<1>6. \/ \A k \in DOMAIN p.models : upserted[k].digest = p.models[k].digest
      \/ updates
  <2>1. CASE ~new /\ said.digest # 0 /\ GetByIdentity(p.models, name, said.digest) = {}
    <3>1. /\ PreviousConfidence(p.models, name, said.digest) = "name_only"
          /\ IdentityConfidence(said.digest) = "digest"
      BY <2>1 DEF PreviousConfidence, IdentityConfidence
    <3>q. QED BY <2>1, <3>1
  <2> HIDE DEF upserted, updates, new
  <2>q. QED BY <1>5, <2>1
<1>7. i \in Nat
  <2>1. i \in GetByIdentity(upserted, name, said.digest)
    BY <1>5
  <2>2. i \in DOMAIN upserted
    BY <2>1 DEF GetByIdentity
  <2>q. QED BY <1>5, <2>2 DEF Rows
<1>8. /\ longer \in Seq(DescriptorRow) /\ Len(longer) = Len(p.descriptors) + 1
      /\ \A k \in DOMAIN p.descriptors : longer[k] = p.descriptors[k] /\ k \in DOMAIN longer
  <2>1. [model |-> i, content |-> said.content, at |-> at] \in DescriptorRow
    BY <1>2, <1>7 DEF DescriptorRow
  <2>2. longer = Append(p.descriptors, [model |-> i, content |-> said.content, at |-> at])
    BY DEF StoreDescriptor
  <2> HIDE DEF longer, i
  <2>q. QED BY <1>1, <2>1, <2>2
<1> HIDE DEF next, upserted, i, latest, new, changed, confident, longer
<1>9. Len(rows) \in Nat /\ Len(p.models) \in Nat /\ Len(store) \in Nat /\ Len(p.descriptors) \in Nat
      /\ Len(upserted) \in Nat
  <2>1. rows \in Seq(ModelRow) /\ p.models \in Seq(ModelRow) /\ upserted \in Seq(ModelRow)
    BY <1>1, <1>5 DEF Rows
  <2>q. QED BY <1>1, <2>1
<1>10. next \in Passes
  BY <1>1, <1>3, <1>4, <1>5, <1>8 DEF Passes
<1>11. Succeed(rows, next.models)
  <2>1. Len(rows) <= Len(upserted)
    <3>1. Len(rows) <= Len(p.models) /\ Len(p.models) <= Len(upserted)
      BY <1>1, <1>5 DEF Succeed
    <3>q. QED BY <1>9, <3>1
  <2>2. ASSUME NEW k \in DOMAIN rows
        PROVE  /\ k \in DOMAIN upserted /\ upserted[k].name = rows[k].name
               /\ upserted[k].digest = rows[k].digest \/ rows[k].digest = 0
    BY <1>1, <1>5 DEF Succeed
  <2>q. QED BY <1>4, <2>1, <2>2 DEF Succeed
<1>12. Keeps(store, next.descriptors)
  BY <1>1, <1>4, <1>8, <1>9 DEF Keeps
<1>13. CountsOf(rows, store, next)
  <2>1. next.added = Len(upserted) - Len(rows)
    BY <1>1, <1>3, <1>4, <1>5, <1>9 DEF CountsOf
  <2>2. /\ next.added <= Len(next.descriptors) - Len(store)
        /\ Len(next.descriptors) - Len(store) <= next.added + next.updated
    <3>1. /\ p.added <= Len(p.descriptors) - Len(store)
          /\ Len(p.descriptors) - Len(store) <= p.added + p.updated
      BY <1>1 DEF CountsOf
    <3>2. CASE new
      <4>1. /\ Len(next.descriptors) = Len(p.descriptors) + 1 /\ next.added = p.added + 1
            /\ next.updated = p.updated
        BY <1>1, <1>4, <1>8, <3>2
      <4>q. QED BY <1>1, <1>9, <3>1, <4>1, SMTT(30)
    <3>3. CASE ~new /\ changed
      <4>1. /\ Len(next.descriptors) = Len(p.descriptors) + 1 /\ next.added = p.added
            /\ next.updated = p.updated + 1
        BY <1>1, <1>4, <1>8, <3>3
      <4>q. QED BY <1>1, <1>9, <3>1, <4>1, SMTT(30)
    <3>4. CASE ~new /\ ~changed
      <4>1. /\ Len(next.descriptors) = Len(p.descriptors) /\ next.added = p.added
            /\ next.updated \in {p.updated, p.updated + 1}
        BY <1>1, <1>3, <1>4, <3>4
      <4>q. QED BY <1>1, <1>9, <3>1, <4>1
    <3>q. QED BY <1>3, <3>2, <3>3, <3>4
  <2>3. ASSUME next.added + next.updated = 0, NEW k \in DOMAIN rows
        PROVE  upserted[k].name = rows[k].name /\ upserted[k].digest = rows[k].digest
    <3>1. ~updates /\ p.added + p.updated = 0
      <4>1. next.added \in Nat /\ next.updated \in Nat
        BY <1>10 DEF Passes
      <4>q. QED BY <1>1, <1>3, <1>4, <2>3, <4>1
    <3>2. k \in DOMAIN p.models
      BY <1>1 DEF Succeed
    <3>3. p.models[k].name = rows[k].name /\ p.models[k].digest = rows[k].digest
      BY <1>1, <3>1 DEF CountsOf
    <3> HIDE DEF updates
    <3>q. QED BY <1>5, <1>6, <3>1, <3>2, <3>3 DEF Succeed
  <2>q. QED BY <1>4, <2>1, <2>2, <2>3 DEF CountsOf
<1>14. Listed(next) = Listed(p) + 1
  BY <1>1, <1>3, <1>4 DEF Listed
<1>q. QED BY <1>10, <1>11, <1>12, <1>13, <1>14 DEF Reached, next

\* A refresh, whatever the order: every descriptor of the answer is counted once.
LEMMA RefreshIs ==
    ASSUME models \in Rows, descriptors \in Seq(DescriptorRow),
           NEW answer \in [ModelNames -> Said], NEW at \in Nat
    PROVE  /\ Refreshed(answer, at) \in Reached(models, descriptors)
           /\ Listed(Refreshed(answer, at)) = Cardinality(ModelNames)
<1> DEFINE S == ModelNames
           V == Reached(models, descriptors)
           step == [q \in S \X V |-> Discover(q[2], q[1], answer[q[1]], at, at)]
<1>0. IsFiniteSet(S) /\ \A name \in S : answer[name] \in Said
  BY CatalogueAssumption
<1>a. \A name \in S, v \in V : /\ Discover(v, name, answer[name], at, at) \in V
                               /\ Listed(Discover(v, name, answer[name], at, at)) = Listed(v) + 1
  BY <1>0, DiscoverIs
<1>b. Started \in V /\ Listed(Started) = 0
  <2>1. Started \in Passes
    BY DEF Started, Passes
  <2>2. /\ Started.models = models /\ Started.descriptors = descriptors
        /\ Started.added = 0 /\ Started.updated = 0 /\ Started.unchanged = 0
    BY DEF Started
  <2>3. Len(models) \in Nat /\ Len(descriptors) \in Nat
    BY DEF Rows
  <2>4. Succeed(models, models) /\ Keeps(descriptors, descriptors)
    BY <2>3 DEF Succeed, Keeps
  <2>5. CountsOf(models, descriptors, Started)
    BY <2>2, <2>3 DEF CountsOf
  <2>q. QED BY <2>1, <2>2, <2>4, <2>5 DEF Reached, Listed
<1>1. StaysIn(S, V, Started, step)
  <2> HIDE DEF V
  <2>q. QED BY <1>a, <1>b DEF StaysIn
<1>2. PICK h : IsFold(h, S, V, Started, step)
  <2> HIDE DEF step, V
  <2>q. QED BY <1>0, <1>1, FoldExists
<1>c. \A s \in SUBSET S : h[s] \in V
  <2> HIDE DEF step, V
  <2>q. QED BY <1>2 DEF IsFold
<1>3. \A s \in SUBSET S : s # {} =>
          /\ Picked(s) \in S /\ Rest(s) \in SUBSET S
          /\ h[s] = Discover(h[Rest(s)], Picked(s), answer[Picked(s)], at, at)
  <2>1. \A s \in SUBSET S : s # {} => Picked(s) \in S /\ Rest(s) \in SUBSET S
    BY <1>0, FS_Subset, RestIsSmaller
  <2> HIDE DEF V
  <2>q. QED BY <1>2, <1>c, <2>1 DEF IsFold
<1> DEFINE IsPass(g) == g = [s \in SUBSET S |->
                               IF s = {} THEN Started
                               ELSE Discover(g[Rest(s)], Picked(s), answer[Picked(s)], at, at)]
<1>4. IsPass(h)
  <2> HIDE DEF step, V
  <2>q. QED BY <1>2, <1>3 DEF IsFold
<1>5. \A g : IsPass(g) => g = h
  <2> HIDE DEF step, V
  <2> SUFFICES ASSUME NEW g, IsPass(g) PROVE g = h
    OBVIOUS
  <2>1. g = [s \in SUBSET S |-> g[s]] /\ h = [s \in SUBSET S |-> h[s]]
    BY <1>2 DEF IsFold
  <2>2. g[{}] = h[{}]
    BY <1>2 DEF IsFold
  <2>3. \A s \in SUBSET S : s # {} => g[s] = Discover(g[Rest(s)], Picked(s), answer[Picked(s)], at, at)
    OBVIOUS
  <2>4. \A s \in SUBSET S : s # {} /\ g[Rest(s)] = h[Rest(s)] => g[s] = h[s]
    BY <1>3, <2>3
  <2>5. \A s \in SUBSET S : g[s] = h[s]
    <3>1. SameStep(S, g, h)
      BY <2>2, <2>4 DEF SameStep
    <3> HIDE DEF IsPass
    <3>q. QED BY ONLY <1>0, <3>1, FoldUnique
  <2>q. QED BY <2>1, <2>5
<1>6. (CHOOSE g : IsPass(g)) = h
  <2> HIDE DEF IsPass
  <2>q. QED BY <1>4, <1>5, Zenon
<1>7. Refreshed(answer, at) = (CHOOSE g : IsPass(g))[S]
  <2>1. DOMAIN answer = S
    OBVIOUS
  <2>q. QED BY <2>1 DEF Refreshed, FoldSet, MapThenFoldSet, Picked, Rest
<1>8. h[S] \in V /\ Refreshed(answer, at) = h[S]
  <2> HIDE DEF V, step
  <2>q. QED BY <1>c, <1>6, <1>7
<1> DEFINE T == {s \in SUBSET S : Listed(h[s]) = Cardinality(s)}
<1>9. Inductive(S, T)
  <2>1. {} \in T
    BY <1>b, <1>2, FS_EmptySet DEF IsFold
  <2>2. ASSUME NEW s \in SUBSET S, s # {}, Rest(s) \in T PROVE s \in T
    <3>1. IsFiniteSet(s)
      BY <1>0, FS_Subset
    <3>2. Cardinality(s) \in Nat /\ Cardinality(Rest(s)) = Cardinality(s) - 1
      BY <2>2, <3>1, RestIsSmaller
    <3>3. Picked(s) \in S /\ h[Rest(s)] \in V
      BY <1>3, <1>c, <2>2
    <3>4. Listed(h[s]) = Listed(h[Rest(s)]) + 1
      <4> HIDE DEF V
      <4>q. QED BY <1>3, <1>a, <2>2, <3>3
    <3>5. Listed(h[Rest(s)]) = Cardinality(Rest(s))
      BY <2>2
    <3>q. QED BY <3>2, <3>4, <3>5
  <2> HIDE DEF T
  <2>3. T \in SUBSET SUBSET S
    BY DEF T
  <2>q. QED BY <2>1, <2>2, <2>3 DEF Inductive
<1>10. S \in T
  <2> HIDE DEF T
  <2>q. QED BY <1>0, <1>9, SubsetsInduct
<1>q. QED BY <1>8, <1>10

-----------------------------------------------------------------------------
(***************************************************************************)
(* The invariant: what everything is, that a run's rows are those of its   *)
(* document (OneRowEach), and that a repeat which is in hand was forced    *)
(* where its original's document and what the check saw differ, and has an *)
(* adapter where its original has one.                                     *)
(***************************************************************************)
Answers == [ModelNames -> Said]
CatalogueType ==
    /\ served \in Answers /\ models \in Rows /\ descriptors \in Seq(DescriptorRow) /\ clock \in Nat
    /\ listing \in [Discoverers -> {NotListed} \cup [at : Nat, answer : Answers]]

File == [artifact : Artifacts, manifest : Manifests \cup {NoManifest}, draft : BOOLEAN]
Entry == [stem : Nat, name : Nat \ {0}, sha : Nat, baseName : Nat, baseDigest : Nat, available : BOOLEAN]
AdapterRow == [name : Nat \ {0}, sha : Nat, baseName : Nat]
AdaptersType ==
    /\ files \in [Stems -> File] /\ registered \subseteq Entry
    /\ adapters \in Seq(AdapterRow)
    /\ \A i, j \in DOMAIN adapters : adapters[i].sha = adapters[j].sha => i = j

Profile == [context : Nat, registered : {"on", "off", "unsaid"}]
Context == [tokens : Nat \cup Contents, source : {"configured", "assumed"}]
Document == [digest : Digests, content : Contents, profile : Profile, version : Nat, machine : Nat,
             data : Nat, override : BOOLEAN, context : Context]
RunRow == [row : Nat, descriptor : Nat, suite : Suites, profile : Profile, doc : Document, adapter : Nat,
           asked : Nat, repeats : Nat, divergences : SUBSET CheckedFields, overridden : BOOLEAN,
           status : {"queued", "running", "completed", "failed"}, ended : Nat, fit : Nat, applied : SUBSET Nat]
Readings == [Callers -> [done : BOOLEAN, entries : SUBSET Entry]]
Repeats == [original : Nat, observed : Document, adapter : Nat, forced : BOOLEAN, allowed : BOOLEAN]
CreationType ==
    /\ world \in World /\ runs \in Seq(RunRow) /\ reading \in Readings
    /\ repeat \in {NoRepeat} \cup Repeats

\* What a run points at is there, and is what its document says; it is marked where
\* its prompts are replaced.
PointsAt(r, rows, store, stored) ==
    /\ r.overridden = r.doc.override
    /\ r.row \in DOMAIN rows /\ r.doc.digest \in {0, rows[r.row].digest}
    /\ r.descriptor \in DOMAIN store /\ r.doc.content = store[r.descriptor].content
    /\ \/ r.adapter = 0 /\ r.asked = 0
       \/ r.adapter \in DOMAIN stored /\ r.asked = stored[r.adapter].sha
RunsPointAtTheirRows == \A k \in DOMAIN runs : PointsAt(runs[k], models, descriptors, adapters)

RepeatIsOfItsOriginal ==
    repeat # NoRepeat =>
        /\ repeat.original \in DOMAIN runs
        /\ CheckRepeatable(runs[repeat.original].doc, repeat.observed) # {} => repeat.forced
        /\ (repeat.adapter = 0) = (runs[repeat.original].adapter = 0)

CreationInv ==
    CatalogueType /\ AdaptersType /\ CreationType /\ RunsPointAtTheirRows /\ RepeatIsOfItsOriginal

LEMMA CreationInvInit == ASSUME CreationInit PROVE CreationInv
<1> USE CatalogueAssumption, AdaptersAssumption DEF CreationInit, CatalogueInit, AdaptersInit
<1>1. CatalogueType
  <2>1. served \in Answers
    BY DEF Answers, Said
  <2>2. models \in Rows /\ descriptors \in Seq(DescriptorRow)
    BY DEF Rows, OneRowPerIdentity
  <2>3. listing \in [Discoverers -> {NotListed} \cup [at : Nat, answer : Answers]] /\ clock \in Nat
    OBVIOUS
  <2>q. QED BY <2>1, <2>2, <2>3 DEF CatalogueType
<1>2. AdaptersType
  BY DEF AdaptersType, File, Empty
<1>3. CreationType
  BY DEF CreationType, World, Readings, Callers, NotRead
<1>4. RunsPointAtTheirRows /\ RepeatIsOfItsOriginal
  BY DEF RunsPointAtTheirRows, RepeatIsOfItsOriginal
<1>q. QED BY <1>1, <1>2, <1>3, <1>4 DEF CreationInv

-----------------------------------------------------------------------------
(***************************************************************************)
(* The catalogue's steps keep its type, and its rows succeed each other.   *)
(***************************************************************************)
LEMMA RowsSucceedThemselves ==
    ASSUME CatalogueType PROVE Succeed(models, models) /\ Keeps(descriptors, descriptors)
<1>1. Len(models) \in Nat /\ Len(descriptors) \in Nat
  BY DEF CatalogueType, Rows
<1>q. QED BY <1>1 DEF Succeed, Keeps

\* A row that is enabled, disabled or given an alias keeps its identity.
LEMMA RowEdited ==
    ASSUME models \in Rows, NEW i \in DOMAIN models, NEW row \in ModelRow,
           row.name = models[i].name, row.digest = models[i].digest
    PROVE  [models EXCEPT ![i] = row] \in Rows /\ Succeed(models, [models EXCEPT ![i] = row])
<1> DEFINE new == [models EXCEPT ![i] = row]
<1>1. models \in Seq(ModelRow) /\ Len(models) \in Nat
  BY DEF Rows
<1>2. /\ new \in Seq(ModelRow) /\ Len(new) = Len(models) /\ DOMAIN new = DOMAIN models
      /\ \A j \in DOMAIN models : new[j].name = models[j].name /\ new[j].digest = models[j].digest
  BY <1>1
<1> HIDE DEF new
<1>3. OneRowPerIdentity(new)
  BY <1>2 DEF Rows, OneRowPerIdentity
<1>4. Succeed(models, new)
  BY <1>1, <1>2 DEF Succeed
<1>q. QED BY <1>2, <1>3, <1>4 DEF Rows, new

LEMMA DiscoverModelsIs ==
    ASSUME CatalogueType, NEW d \in Discoverers, DiscoverModels(d)
    PROVE  /\ models' \in Rows /\ descriptors' \in Seq(DescriptorRow)
           /\ Succeed(models, models') /\ Keeps(descriptors, descriptors')
           /\ LET said == lastDiscovery'
                  stored == Len(descriptors') - Len(descriptors)
              IN  /\ said.added + said.updated + said.unchanged = Cardinality(ModelNames)
                  /\ said.added = Len(models') - Len(models)
                  /\ said.added <= stored /\ stored <= said.added + said.updated
                  /\ said.added + said.updated = 0 => Content(models') = Content(models)
<1> DEFINE answer == listing[d].answer
           at == listing[d].at
           pass == Refreshed(answer, at)
<1>1. answer \in [ModelNames -> Said] /\ at \in Nat
  BY DEF CatalogueType, DiscoverModels, Answers
<1>2. /\ models' = pass.models /\ descriptors' = pass.descriptors
      /\ lastDiscovery' = [ok |-> TRUE, added |-> pass.added, updated |-> pass.updated,
                           unchanged |-> pass.unchanged, at |-> at]
  BY DEF DiscoverModels
<1> HIDE DEF answer, at
<1>3. pass \in Reached(models, descriptors) /\ Listed(pass) = Cardinality(ModelNames)
  BY <1>1, RefreshIs DEF CatalogueType
<1> HIDE DEF pass
<1>4. /\ pass \in Passes /\ Succeed(models, models') /\ Keeps(descriptors, descriptors')
      /\ CountsOf(models, descriptors, pass)
  BY <1>2, <1>3 DEF Reached
<1>5. models' \in Rows /\ descriptors' \in Seq(DescriptorRow)
  BY <1>2, <1>4 DEF Passes
<1>6. /\ lastDiscovery'.added = pass.added /\ lastDiscovery'.updated = pass.updated
      /\ lastDiscovery'.unchanged = pass.unchanged
  BY <1>2
<1>7. ASSUME pass.added + pass.updated = 0 PROVE Content(models') = Content(models)
  <2>1. pass.added \in Nat /\ pass.updated \in Nat
    BY <1>4 DEF Passes
  <2>2. pass.added = 0 /\ Len(models') = Len(models)
    <3>1. pass.added = Len(models') - Len(models)
      BY <1>2, <1>4 DEF CountsOf
    <3>2. Len(models) \in Nat /\ Len(models') \in Nat
      BY <1>5 DEF CatalogueType, Rows
    <3>3. pass.added = 0
      BY <1>7, <2>1
    <3>q. QED BY <3>1, <3>2, <3>3
  <2>3. DOMAIN models' = DOMAIN models
    BY <1>5, <2>2 DEF CatalogueType, Rows
  <2>4. \A i \in DOMAIN models : models'[i].name = models[i].name /\ models'[i].digest = models[i].digest
    BY <1>2, <1>4, <1>7 DEF CountsOf
  <2>q. QED BY <2>3, <2>4 DEF Content
<1>q. QED BY <1>2, <1>3, <1>4, <1>5, <1>6, <1>7 DEF Listed, CountsOf

LEMMA CatalogueStep ==
    ASSUME CatalogueType, CatalogueNext
    PROVE  CatalogueType' /\ Succeed(models, models') /\ Keeps(descriptors, descriptors')
<1>0. /\ served \in Answers /\ models \in Rows /\ descriptors \in Seq(DescriptorRow) /\ clock \in Nat
      /\ listing \in [Discoverers -> {NotListed} \cup [at : Nat, answer : Answers]]
      /\ \A i \in DOMAIN models : models[i] \in ModelRow
      /\ Succeed(models, models) /\ Keeps(descriptors, descriptors)
  BY RowsSucceedThemselves DEF CatalogueType, Rows
<1>1. CASE \E name \in ModelNames, digest \in Digests, content \in Contents : Republish(name, digest, content)
  <2>1. PICK name \in ModelNames, digest \in Digests, content \in Contents : Republish(name, digest, content)
    BY <1>1
  <2>2. [digest |-> digest, content |-> content] \in Said
    BY DEF Said
  <2>3. served' \in Answers
    BY <1>0, <2>1, <2>2 DEF Republish, Answers
  <2>q. QED BY <1>0, <2>1, <2>3 DEF Republish, CatalogueType
<1>2. CASE \E name \in ModelNames, alias \in Nat : GetModelDetail(alias, name)
  <2>1. PICK name \in ModelNames, alias \in Nat : GetModelDetail(alias, name)
    BY <1>2
  <2>2. PICK i \in GetByIdentity(models, name, served[name].digest) : models' = RecordAlias(i, alias)
    BY <2>1 DEF GetModelDetail
  <2>3. i \in DOMAIN models
    BY <2>2 DEF GetByIdentity
  <2> DEFINE row == [models[i] EXCEPT !.aliases = @ \cup {alias}]
  <2>4. row \in ModelRow /\ row.name = models[i].name /\ row.digest = models[i].digest
    BY <1>0, <2>3 DEF ModelRow
  <2>5. models' = [models EXCEPT ![i] = row]
    BY <2>2 DEF RecordAlias
  <2> HIDE DEF row
  <2>6. models' \in Rows /\ Succeed(models, models')
    BY <1>0, <2>3, <2>4, <2>5, RowEdited
  <2>q. QED BY <1>0, <2>1, <2>6 DEF GetModelDetail, CatalogueType
<1>3. CASE \E i \in DOMAIN models, on \in BOOLEAN : SetModelEnabled(i, on)
  <2>1. PICK i \in DOMAIN models, on \in BOOLEAN : SetModelEnabled(i, on)
    BY <1>3
  <2> DEFINE row == [models[i] EXCEPT !.enabled = on]
  <2>2. row \in ModelRow /\ row.name = models[i].name /\ row.digest = models[i].digest
    BY <1>0 DEF ModelRow
  <2>3. models' = [models EXCEPT ![i] = row]
    BY <2>1 DEF SetModelEnabled
  <2> HIDE DEF row
  <2>4. models' \in Rows /\ Succeed(models, models')
    BY <1>0, <2>2, <2>3, RowEdited
  <2>q. QED BY <1>0, <2>1, <2>4 DEF SetModelEnabled, CatalogueType
<1>4. CASE \E d \in Discoverers : ListModels(d)
  BY <1>0, <1>4 DEF ListModels, CatalogueType
<1>5. CASE \E d \in Discoverers : DiscoverModels(d)
  <2>1. PICK d \in Discoverers : DiscoverModels(d)
    BY <1>5
  <2>2. /\ models' \in Rows /\ descriptors' \in Seq(DescriptorRow)
        /\ Succeed(models, models') /\ Keeps(descriptors, descriptors')
    BY <2>1, DiscoverModelsIs
  <2>3. listing' = [listing EXCEPT ![d] = NotListed] /\ UNCHANGED <<served, clock>>
    BY <2>1 DEF DiscoverModels
  <2>q. QED BY <1>0, <2>2, <2>3 DEF CatalogueType
<1>6. CASE \E d \in Discoverers : DiscoveryFails(d)
  BY <1>0, <1>6 DEF DiscoveryFails, CatalogueType
<1>q. QED BY <1>1, <1>2, <1>3, <1>4, <1>5, <1>6 DEF CatalogueNext

-----------------------------------------------------------------------------
(***************************************************************************)
(* The adapters: what the directory gives, and the row of a subject.       *)
(***************************************************************************)
LEMMA EntriesAre == ASSUME AdaptersType PROVE ReadDirectory.entries \subseteq Entry
<1>1. ASSUME NEW s \in Stems, files[s].manifest # NoManifest PROVE ReadManifest(s) \in Entry
  <2> DEFINE manifest == files[s].manifest
  <2>1. manifest \in [name : Nat \ {0}, sha : Nat, baseName : Nat, baseDigest : Nat] /\ s \in Nat
    BY <1>1, AdaptersAssumption DEF AdaptersType, File
  <2>2. ReadManifest(s) = [stem |-> s, name |-> manifest.name, sha |-> manifest.sha,
                           baseName |-> manifest.baseName, baseDigest |-> manifest.baseDigest,
                           available |-> files[s].artifact = manifest.sha]
    BY DEF ReadManifest
  <2> HIDE DEF manifest
  <2>3. (files[s].artifact = manifest.sha) \in BOOLEAN
    OBVIOUS
  <2>q. QED BY <2>1, <2>2, <2>3 DEF Entry
<1>2. ReadDirectory.entries = {ReadManifest(s) : s \in {t \in Stems : files[t].manifest # NoManifest}}
  BY DEF ReadDirectory
<1>q. QED BY <1>1, <1>2

LEMMA AdaptersStep ==
    ASSUME AdaptersType, AdaptersNext PROVE AdaptersType' /\ adapters' = adapters
<1>1. CASE \E stem \in Stems, artifact \in Artifacts, manifest \in Manifests \cup {NoManifest} :
              EditDirectory(stem, artifact, manifest)
  <2>1. PICK stem \in Stems, artifact \in Artifacts, manifest \in Manifests \cup {NoManifest} :
              EditDirectory(stem, artifact, manifest)
    BY <1>1
  <2>2. /\ files' = [files EXCEPT ![stem].artifact = artifact, ![stem].manifest = manifest,
                                  ![stem].draft = @ /\ manifest = NoManifest]
        /\ UNCHANGED <<adapters, registered>>
    BY <2>1 DEF EditDirectory
  <2> DEFINE draft == files[stem].draft /\ manifest = NoManifest
             edited == [files[stem] EXCEPT !.artifact = artifact, !.manifest = manifest, !.draft = draft]
  <2>3. edited \in File
    <3>1. files[stem] \in File /\ draft \in BOOLEAN
      BY DEF AdaptersType
    <3> HIDE DEF draft
    <3>q. QED BY <3>1 DEF File
  <2>4. files' = [files EXCEPT ![stem] = edited]
    BY <2>2, Zenon
  <2> HIDE DEF edited
  <2>5. files' \in [Stems -> File]
    BY <2>3, <2>4 DEF AdaptersType
  <2>q. QED BY <2>2, <2>5 DEF AdaptersType
<1>2. CASE \E stem \in Stems : DraftManifest(stem)
  BY <1>2, ZenonT(40) DEF DraftManifest, AdaptersType, File
<1>3. CASE RegisterConfiguredAdapters
  BY <1>3, EntriesAre DEF RegisterConfiguredAdapters, RegistrationsFrom, AdaptersType
<1>q. QED BY <1>1, <1>2, <1>3 DEF AdaptersNext

\* A subject that is not refused is the bare base or an entry of what was read.
LEMMA SubjectIs ==
    ASSUME NEW entries \in SUBSET Entry, NEW base, NEW name, ~SubjectRefused(base, entries, name)
    PROVE  /\ SubjectFor(entries, name) \in Entry \cup {Bare}
           /\ (SubjectFor(entries, name) = Bare) = (name = 0)
<1>1. CASE name = 0
  BY <1>1 DEF SubjectFor
<1>2. CASE name # 0
  <2>1. Named(entries, name) \in entries
    BY <1>2 DEF SubjectRefused, CompatibleEntries, RegistrationsFrom
  <2>2. SubjectFor(entries, name) \in Entry
    BY <1>2, <2>1 DEF SubjectFor
  <2>3. SubjectFor(entries, name).name # 0 /\ Bare.name = 0
    BY <2>2 DEF Entry, Bare
  <2>q. QED BY <1>2, <2>2, <2>3
<1>q. QED BY <1>1, <1>2

\* Adapters' rows stay where they are, under their digests.
AdaptersSucceed(old, new) == \A i \in DOMAIN old : i \in DOMAIN new /\ new[i].sha = old[i].sha

LEMMA AdapterRowIs ==
    ASSUME AdaptersType, NEW subject \in Entry \cup {Bare}
    PROVE  LET rows == AdapterRowFor(subject)
               row == IF subject = Bare THEN 0 ELSE CHOOSE i \in DOMAIN rows : rows[i] = StoredRow(subject)
           IN  /\ rows \in Seq(AdapterRow) /\ AdaptersSucceed(adapters, rows)
               /\ \A i, j \in DOMAIN rows : rows[i].sha = rows[j].sha => i = j
               /\ row \in Nat /\ subject.sha \in Nat
               /\ \/ subject = Bare /\ row = 0 /\ subject.sha = 0
                  \/ subject # Bare /\ row \in DOMAIN rows /\ subject.sha = rows[row].sha
<1> DEFINE rows == AdapterRowFor(subject)
           stored == StoredRow(subject)
           touched == [i \in DOMAIN adapters |-> IF i \in RowOf(subject) THEN stored ELSE adapters[i]]
<1>1. /\ adapters \in Seq(AdapterRow) /\ Len(adapters) \in Nat /\ DOMAIN adapters = 1..Len(adapters)
      /\ \A i \in DOMAIN adapters : adapters[i] \in AdapterRow
      /\ \A i, j \in DOMAIN adapters : adapters[i].sha = adapters[j].sha => i = j
  BY DEF AdaptersType
<1>2. CASE subject = Bare
  <2>1. rows = adapters /\ subject.sha = 0
    BY <1>2 DEF AdapterRowFor, Bare
  <2>q. QED BY <1>1, <1>2, <2>1 DEF AdaptersSucceed
<1>3. CASE subject # Bare
  <2>1. subject \in Entry /\ stored \in AdapterRow /\ stored.sha = subject.sha /\ subject.sha \in Nat
    BY <1>3 DEF Entry, StoredRow, AdapterRow
  <2>2. /\ rows \in Seq(AdapterRow) /\ AdaptersSucceed(adapters, rows)
        /\ \A i, j \in DOMAIN rows : rows[i].sha = rows[j].sha => i = j
        /\ DOMAIN rows \subseteq Nat /\ \E i \in DOMAIN rows : rows[i] = stored
    <3> HIDE DEF stored
    <3>1. CASE RowOf(subject) = {}
      <4>1. rows = Append(adapters, stored)
        BY <1>3, <3>1 DEF AdapterRowFor, stored
      <4>2. /\ rows \in Seq(AdapterRow) /\ Len(rows) = Len(adapters) + 1
            /\ \A i \in DOMAIN adapters : rows[i] = adapters[i]
            /\ rows[Len(adapters) + 1] = stored /\ DOMAIN rows = 1..(Len(adapters) + 1)
        <5> HIDE DEF rows
        <5>q. QED BY <1>1, <2>1, <4>1, AppendProperties
      <4>3. \A i \in DOMAIN adapters : adapters[i].sha # stored.sha
        BY <2>1, <3>1 DEF RowOf
      <4>4. \A i \in 1..(Len(adapters) + 1) : i \in DOMAIN adapters \/ i = Len(adapters) + 1
        BY <1>1
      <4> HIDE DEF rows
      <4>5. \A i, j \in DOMAIN rows : rows[i].sha = rows[j].sha => i = j
        BY <1>1, <4>2, <4>3, <4>4
      <4>q. QED BY <1>1, <4>2, <4>5 DEF AdaptersSucceed
    <3>2. CASE RowOf(subject) # {}
      <4>1. rows = touched
        BY <1>3, <3>2 DEF AdapterRowFor, stored
      <4>2. \A i \in DOMAIN adapters : touched[i] \in AdapterRow /\ touched[i].sha = adapters[i].sha
        BY <1>1, <2>1 DEF RowOf
      <4>3. touched \in Seq(AdapterRow) /\ DOMAIN touched = DOMAIN adapters
        <5>1. touched = [i \in 1..Len(adapters) |-> touched[i]]
              /\ \A i \in 1..Len(adapters) : touched[i] \in AdapterRow
          BY <1>1, <4>2
        <5> HIDE DEF touched
        <5>q. QED BY <1>1, <5>1, SequenceOfRows
      <4>4. \E i \in DOMAIN touched : touched[i] = stored
        <5>1. PICK i \in DOMAIN adapters : i \in RowOf(subject)
          BY <3>2 DEF RowOf
        <5>q. QED BY <5>1
      <4> HIDE DEF touched, rows
      <4>q. QED BY <1>1, <4>1, <4>2, <4>3, <4>4 DEF AdaptersSucceed
    <3>q. QED BY <3>1, <3>2
  <2> DEFINE row == CHOOSE i \in DOMAIN rows : rows[i] = stored
  <2>3. row \in DOMAIN rows /\ rows[row] = stored
    <3> HIDE DEF rows, stored
    <3>q. QED BY <2>2
  <2> HIDE DEF rows, stored
  <2>q. QED BY <1>3, <2>1, <2>2, <2>3 DEF rows, stored
<1>q. QED BY <1>2, <1>3

-----------------------------------------------------------------------------
(***************************************************************************)
(* A creation, of a request or of a repeat.                                *)
(***************************************************************************)
LEMMA ContextFitIs ==
    ASSUME CreationType, NEW row, NEW profile PROVE MeasuredContextFit(row, profile) \in Nat
<1> DEFINE fits == {r \in DOMAIN runs : /\ runs[r].suite = "fit" /\ runs[r].status = "completed"
                                        /\ runs[r].row = row /\ runs[r].doc.machine = world.machine
                                        /\ runs[r].profile.registered = profile.registered}
           ends == {runs[r].ended : r \in fits}
           Newest(r) == \A q \in fits : runs[q].ended <= runs[r].ended
<1>1. \A r \in DOMAIN runs : runs[r] \in RunRow
  BY DEF CreationType
<1>2. CASE fits = {}
  BY <1>2 DEF MeasuredContextFit
<1>3. CASE fits # {}
  <2>0. fits \subseteq DOMAIN runs /\ \A r \in fits : runs[r].ended \in Nat
    BY <1>1 DEF RunRow
  <2>1. IsFiniteSet(fits)
    <3>1. fits \subseteq 1..Len(runs) /\ IsFiniteSet(1..Len(runs))
      BY FS_Interval DEF CreationType
    <3> HIDE DEF fits
    <3>q. QED BY <3>1, FS_Subset
  <2> HIDE DEF fits
  <2>2. IsFiniteSet(ends) /\ ends # {} /\ ends \subseteq Int
    <3>1. IsFiniteSet(ends)
      <4> DEFINE ended == [r \in fits |-> runs[r].ended]
      <4>1. IsFiniteSet({ended[r] : r \in fits})
        <5> HIDE DEF ended
        <5>q. QED BY <2>1, FiniteImage
      <4>q. QED BY <4>1
    <3>q. QED BY <1>3, <2>0, <3>1
  <2>3. PICK r \in fits : Newest(r)
    <3>1. Max(ends) \in ends /\ \A x \in ends : Max(ends) >= x
      <4> HIDE DEF ends
      <4>q. QED BY <2>2, Extremes
    <3>2. PICK r \in fits : Max(ends) = runs[r].ended
      BY <3>1
    <3>3. \A q \in fits : runs[q].ended \in ends
      OBVIOUS
    <3> HIDE DEF ends
    <3>4. \A q \in fits : runs[q].ended <= runs[r].ended
      BY <2>0, <3>1, <3>2, <3>3
    <3>q. QED BY <3>2, <3>4
  <2> DEFINE last == CHOOSE best \in fits : Newest(best)
  <2>4. last \in fits
    <3> HIDE DEF Newest
    <3>q. QED BY <2>3
  <2>5. MeasuredContextFit(row, profile) = runs[last].fit
    BY <1>3 DEF MeasuredContextFit, fits
  <2> HIDE DEF last
  <2>q. QED BY <1>1, <2>0, <2>4, <2>5 DEF RunRow
<1>q. QED BY <1>2, <1>3

LEMMA UsableContextIs == ASSUME NEW fit \in Nat PROVE UsableContext(fit) \in Nat
BY FitsArePositive DEF UsableContext

LEMMA ProfileIs ==
    ASSUME CreationType, NEW request, NEW row, NEW entries, request.profile \in Profile
    PROVE  LET narrowed == NarrowedProfile(request, row, entries)
               profile == ProfileAtFit(request, row, narrowed)
           IN  /\ profile \in Profile
               /\ profile.registered \in Narrowed(request.profile.registered)
               /\ request.fit = {} => profile.context = request.profile.context
<1> DEFINE mode == IF request.profile.registered = "on" /\ ~ServesBase(entries, models[row]) THEN "off"
                   ELSE request.profile.registered
           narrowed == NarrowedProfile(request, row, entries)
           profile == ProfileAtFit(request, row, narrowed)
<1>1. narrowed = [request.profile EXCEPT !.registered = mode]
  BY Zenon DEF NarrowedProfile
<1>2. mode \in {"on", "off", "unsaid"} /\ mode \in Narrowed(request.profile.registered)
  BY DEF Profile, Narrowed
<1> HIDE DEF mode, narrowed
<1>3. /\ narrowed \in Profile /\ narrowed.context = request.profile.context
      /\ narrowed.registered \in Narrowed(request.profile.registered)
  <2>1. narrowed \in Profile
    BY <1>1, <1>2 DEF Profile
  <2>2. narrowed.registered = mode /\ narrowed.context = request.profile.context
    BY <1>1 DEF Profile
  <2>q. QED BY <1>2, <2>1, <2>2
<1>4. profile \in Profile /\ profile.registered = narrowed.registered
  <2>1. UsableContext(MeasuredContextFit(row, narrowed)) \in Nat
    BY ContextFitIs, UsableContextIs
  <2>q. QED BY <1>3, <2>1 DEF ProfileAtFit, Profile
<1>5. request.fit = {} => profile = narrowed
  BY DEF ProfileAtFit
<1> HIDE DEF profile
<1>q. QED BY <1>3, <1>4, <1>5 DEF profile, narrowed

LEMMA DocumentIs ==
    ASSUME CatalogueType, CreationType, NEW row \in DOMAIN models, NEW descriptor \in DOMAIN descriptors,
           NEW profile \in Profile, NEW suite, suite \in Suites
    PROVE  FingerprintDocument(row, descriptor, profile, SuiteOf(suite), Served(profile, descriptor))
               \in Document
<1>1. models[row].digest \in Digests /\ descriptors[descriptor].content \in Contents
  <2>1. models[row] \in ModelRow /\ descriptors[descriptor] \in DescriptorRow
    BY DEF CatalogueType, Rows
  <2>q. QED BY <2>1 DEF ModelRow, DescriptorRow
<1>2. Served(profile, descriptor) \in Context
  BY <1>1 DEF Served, ResolveServedContext, Context, Profile
<1>3. SuiteOf(suite).data \in Nat
  BY DEF SuiteOf, CreationType, World
<1>q. QED BY <1>1, <1>2, <1>3 DEF FingerprintDocument, Document, CreationType, World

\* What a creation stores: a queued run of the request, which points at what is there.
IsRunOf(r, request, divergences) ==
    /\ r \in RunRow /\ r.suite = request.suite /\ r.repeats = request.repeats /\ r.divergences = divergences
    /\ r.profile.registered \in Narrowed(request.profile.registered)
    /\ request.fit = {} => r.profile.context = request.profile.context
    /\ (r.adapter = 0) = (request.adapter = 0)
    /\ r.overridden => request.allowOverride

IsInserted(r, request, profile, divergences) ==
    /\ runs' = Append(runs, r) /\ PointsAt(r, models, descriptors, adapters')
    /\ (r.adapter = 0) = (request.adapter = 0) /\ r.overridden = world.override
    /\ r.suite = request.suite /\ r.repeats = request.repeats /\ r.divergences = divergences
    /\ r.profile = profile
AdaptersFollow ==
    /\ adapters' \in Seq(AdapterRow) /\ AdaptersSucceed(adapters, adapters')
    /\ \A i, j \in DOMAIN adapters' : adapters'[i].sha = adapters'[j].sha => i = j

LEMMA InsertRunIs ==
    ASSUME CatalogueType, AdaptersType, CreationType,
           NEW request, request.suite \in Suites, request.repeats \in Nat,
           NEW divergences \in SUBSET CheckedFields,
           NEW row \in DOMAIN models, NEW descriptor \in DOMAIN descriptors, NEW profile \in Profile,
           NEW entries \in SUBSET Entry, ~SubjectRefused(models[row], entries, request.adapter),
           InsertRun(request, row, descriptor, profile, entries, divergences)
    PROVE  AdaptersFollow /\ \E r \in RunRow : IsInserted(r, request, profile, divergences)
<1> DEFINE subject == SubjectFor(entries, request.adapter)
           rows == AdapterRowFor(subject)
           adapter == IF subject = Bare THEN 0 ELSE CHOOSE i \in DOMAIN rows : rows[i] = StoredRow(subject)
           doc == FingerprintDocument(row, descriptor, profile, SuiteOf(request.suite),
                                      Served(profile, descriptor))
           r == [row |-> row, descriptor |-> descriptor, suite |-> request.suite, profile |-> profile,
                 doc |-> doc, adapter |-> adapter, asked |-> subject.sha, repeats |-> request.repeats,
                 divergences |-> divergences, overridden |-> world.override, status |-> "queued", ended |-> 0,
                 fit |-> 0, applied |-> {}]
<1>1. subject \in Entry \cup {Bare} /\ (subject = Bare) = (request.adapter = 0)
  BY SubjectIs
<1>2. adapters' = rows /\ runs' = Append(runs, r)
  BY DEF InsertRun
<1> HIDE DEF subject
<1>3. /\ rows \in Seq(AdapterRow) /\ AdaptersSucceed(adapters, rows)
      /\ \A i, j \in DOMAIN rows : rows[i].sha = rows[j].sha => i = j
      /\ adapter \in Nat /\ subject.sha \in Nat
      /\ \/ subject = Bare /\ adapter = 0 /\ subject.sha = 0
         \/ subject # Bare /\ adapter \in DOMAIN rows /\ subject.sha = rows[adapter].sha
  BY <1>1, AdapterRowIs
<1> HIDE DEF rows, adapter
<1>a. (adapter = 0) = (request.adapter = 0)
  BY <1>1, <1>3
<1>4. /\ doc \in Document /\ doc.digest = models[row].digest /\ doc.content = descriptors[descriptor].content
      /\ doc.override = world.override
  <2>1. doc \in Document
    BY DocumentIs
  <2>q. QED BY <2>1 DEF FingerprintDocument
<1> HIDE DEF doc
<1>5. row \in Nat /\ descriptor \in Nat /\ world.override \in BOOLEAN
  BY DEF CatalogueType, Rows, CreationType, World
<1>6. r \in RunRow
  BY <1>3, <1>4, <1>5 DEF RunRow
<1>7. PointsAt(r, models, descriptors, adapters')
  BY <1>2, <1>3, <1>4 DEF PointsAt
<1>8. /\ r.suite = request.suite /\ r.repeats = request.repeats /\ r.divergences = divergences
      /\ r.profile = profile /\ (r.adapter = 0) = (request.adapter = 0) /\ r.overridden = world.override
  BY <1>a
<1> HIDE DEF r
<1>q. QED BY <1>2, <1>3, <1>6, <1>7, <1>8 DEF IsInserted, AdaptersFollow

LEMMA CreateFromIs ==
    ASSUME CatalogueType, AdaptersType, CreationType,
           NEW request, request.suite \in Suites, request.repeats \in Nat, request.profile \in Profile,
           NEW divergences \in SUBSET CheckedFields, NEW entries \in SUBSET Entry,
           CreateFrom(request, entries, divergences)
    PROVE  /\ AdaptersFollow
           /\ \E r \in RunRow : /\ runs' = Append(runs, r) /\ PointsAt(r, models, descriptors, adapters')
                                /\ IsRunOf(r, request, divergences)
           /\ UNCHANGED <<catalogueVars, files, registered, world>>
<1>a. PICK row \in LookupModel(request.ref) :
          /\ MayCreate(request, row, entries)
          /\ LET profile == NarrowedProfile(request, row, entries)
             IN  \E descriptor \in LatestForModel(descriptors, row) :
                    InsertRun(request, row, descriptor, ProfileAtFit(request, row, profile), entries, divergences)
  BY Zenon DEF CreateFrom
<1> DEFINE profile == ProfileAtFit(request, row, NarrowedProfile(request, row, entries))
<1>1. PICK descriptor \in LatestForModel(descriptors, row) :
          InsertRun(request, row, descriptor, profile, entries, divergences)
  BY <1>a, Zenon
<1>2. /\ profile \in Profile
      /\ profile.registered \in Narrowed(request.profile.registered)
      /\ request.fit = {} => profile.context = request.profile.context
  BY ProfileIs
<1>3. row \in DOMAIN models /\ descriptor \in DOMAIN descriptors
  BY <1>a, <1>1 DEF LookupModel, GetByProviderModelName, LatestForModel
<1>4. ~SubjectRefused(models[row], entries, request.adapter) /\ (world.override => request.allowOverride)
  BY <1>a DEF MayCreate
<1> HIDE DEF profile
<1>5. AdaptersFollow /\ \E r \in RunRow : IsInserted(r, request, profile, divergences)
  BY <1>1, <1>2, <1>3, <1>4, InsertRunIs
<1>6. UNCHANGED <<catalogueVars, files, registered, world>>
  BY DEF CreateFrom
<1>7. PICK r \in RunRow : IsInserted(r, request, profile, divergences)
  BY <1>5
<1>8. IsRunOf(r, request, divergences)
  BY <1>2, <1>4, <1>7 DEF IsRunOf, IsInserted
<1>q. QED BY <1>5, <1>6, <1>7, <1>8 DEF IsInserted

-----------------------------------------------------------------------------
(***************************************************************************)
(* Every step keeps the invariant, and the rows a run points at.           *)
(***************************************************************************)
LEMMA PointsStay ==
    ASSUME NEW r, NEW rows, NEW rows2, NEW store, NEW store2, NEW stored, NEW stored2,
           PointsAt(r, rows, store, stored),
           Succeed(rows, rows2), Keeps(store, store2), AdaptersSucceed(stored, stored2)
    PROVE  PointsAt(r, rows2, store2, stored2)
<1>1. /\ r.row \in DOMAIN rows2
      /\ r.doc.digest \in {0, rows2[r.row].digest}
  BY DEF PointsAt, Succeed
<1>2. r.descriptor \in DOMAIN store2 /\ r.doc.content = store2[r.descriptor].content
  BY DEF PointsAt, Keeps
<1>3. \/ r.adapter = 0 /\ r.asked = 0
      \/ r.adapter \in DOMAIN stored2 /\ r.asked = stored2[r.adapter].sha
  BY DEF PointsAt, AdaptersSucceed
<1>q. QED BY <1>1, <1>2, <1>3 DEF PointsAt

\* A step that leaves the runs alone.
LEMMA RunsStay ==
    ASSUME CreationInv, CatalogueType', AdaptersType', Succeed(models, models'), Keeps(descriptors, descriptors'),
           AdaptersSucceed(adapters, adapters'), runs' = runs, world' \in World, reading' \in Readings, repeat' = repeat
    PROVE  CreationInv'
<1>1. CreationType'
  BY DEF CreationInv, CreationType
<1>2. RunsPointAtTheirRows'
  <2> SUFFICES ASSUME NEW k \in DOMAIN runs PROVE PointsAt(runs[k], models', descriptors', adapters')
    BY DEF RunsPointAtTheirRows
  <2>1. PointsAt(runs[k], models, descriptors, adapters)
    BY DEF CreationInv, RunsPointAtTheirRows
  <2>q. QED BY <2>1, PointsStay
<1>3. RepeatIsOfItsOriginal'
  BY DEF CreationInv, RepeatIsOfItsOriginal
<1>q. QED BY <1>1, <1>2, <1>3 DEF CreationInv

\* A run that is executed or completed is still of its rows and its document.
SameSubject(r, new) ==
    /\ new.row = r.row /\ new.doc = r.doc /\ new.descriptor = r.descriptor /\ new.adapter = r.adapter
    /\ new.asked = r.asked /\ new.overridden = r.overridden

LEMMA RunEdited ==
    ASSUME CreationInv, NEW k \in DOMAIN runs, NEW new \in RunRow, SameSubject(runs[k], new),
           runs' = [runs EXCEPT ![k] = new], UNCHANGED <<catalogueVars, adapterVars, world, reading, repeat>>
    PROVE  CreationInv'
<1>1. /\ runs' \in Seq(RunRow) /\ DOMAIN runs' = DOMAIN runs
      /\ \A j \in DOMAIN runs : runs'[j] = runs[j] \/ SameSubject(runs[j], runs'[j])
  BY DEF CreationInv, CreationType
<1>2. CatalogueType' /\ AdaptersType' /\ CreationType'
  BY <1>1 DEF CreationInv, CatalogueType, AdaptersType, CreationType, catalogueVars, adapterVars
<1>3. RunsPointAtTheirRows'
  <2> SUFFICES ASSUME NEW j \in DOMAIN runs PROVE PointsAt(runs'[j], models, descriptors, adapters)
    BY <1>1 DEF RunsPointAtTheirRows, catalogueVars, adapterVars
  <2>1. PointsAt(runs[j], models, descriptors, adapters)
    BY DEF CreationInv, RunsPointAtTheirRows
  <2>q. QED BY <1>1, <2>1 DEF PointsAt, SameSubject
<1>4. RepeatIsOfItsOriginal'
  BY <1>1 DEF CreationInv, RepeatIsOfItsOriginal, SameSubject
<1>q. QED BY <1>2, <1>3, <1>4 DEF CreationInv

\* A run that is added, by a request or a repeat.
LEMMA RunAdded ==
    ASSUME CreationInv, AdaptersFollow, NEW r \in RunRow, runs' = Append(runs, r),
           PointsAt(r, models, descriptors, adapters'),
           reading' \in Readings, repeat' = repeat \/ repeat' = NoRepeat,
           UNCHANGED <<catalogueVars, files, registered, world>>
    PROVE  CreationInv'
<1>1. /\ runs \in Seq(RunRow) /\ Len(runs) \in Nat /\ DOMAIN runs = 1..Len(runs)
      /\ repeat \in {NoRepeat} \cup Repeats
  BY DEF CreationInv, CreationType
<1>2. /\ runs' \in Seq(RunRow) /\ DOMAIN runs' = 1..(Len(runs) + 1)
      /\ \A k \in DOMAIN runs : runs'[k] = runs[k]
      /\ runs'[Len(runs) + 1] = r
  BY <1>1, AppendProperties
<1>3. CatalogueType' /\ AdaptersType' /\ CreationType'
  <2>1. CatalogueType'
    BY DEF CreationInv, CatalogueType, catalogueVars
  <2>2. AdaptersType'
    BY DEF CreationInv, AdaptersType, AdaptersFollow
  <2>3. CreationType'
    BY <1>1, <1>2 DEF CreationInv, CreationType
  <2>q. QED BY <2>1, <2>2, <2>3
<1>4. RunsPointAtTheirRows'
  <2> SUFFICES ASSUME NEW k \in 1..(Len(runs) + 1) PROVE PointsAt(runs'[k], models, descriptors, adapters')
    BY <1>2 DEF RunsPointAtTheirRows, catalogueVars
  <2>1. CASE k = Len(runs) + 1
    BY <1>2, <2>1
  <2>2. CASE k # Len(runs) + 1
    <3>1. k \in DOMAIN runs
      BY <1>1, <2>2
    <3>2. PointsAt(runs[k], models, descriptors, adapters)
      BY <3>1 DEF CreationInv, RunsPointAtTheirRows
    <3>3. Succeed(models, models) /\ Keeps(descriptors, descriptors) /\ AdaptersSucceed(adapters, adapters')
      BY RowsSucceedThemselves DEF CreationInv, AdaptersFollow
    <3>q. QED BY <1>2, <3>1, <3>2, <3>3, PointsStay
  <2>q. QED BY <2>1, <2>2
<1>5. RepeatIsOfItsOriginal'
  <2>1. DOMAIN runs \subseteq DOMAIN runs'
    BY <1>1, <1>2
  <2>q. QED BY <1>2, <2>1 DEF CreationInv, RepeatIsOfItsOriginal
<1>q. QED BY <1>3, <1>4, <1>5 DEF CreationInv

LEMMA ObservedIs ==
    ASSUME CatalogueType, CreationType, NEW original \in DOMAIN runs,
           NEW row \in DOMAIN models, NEW descriptor \in DOMAIN descriptors
    PROVE  ObservedDocument(runs[original], row, descriptor) \in Document
<1>1. runs[original] \in RunRow
  BY DEF CreationType
<1>2. runs[original].profile \in Profile /\ runs[original].suite \in Suites
  BY <1>1 DEF RunRow
<1>q. QED BY <1>2, DocumentIs DEF ObservedDocument

LEMMA CheckRepeatStep ==
    ASSUME CreationInv, NEW original \in DOMAIN runs, NEW force \in BOOLEAN, NEW allow \in BOOLEAN,
           CheckRepeat(original, force, allow)
    PROVE  CreationInv'
<1>1. PICK row \in LookupModel(ModelRef(runs[original])) :
      \E descriptor \in LatestForModel(descriptors, row) :
          LET observed == ObservedDocument(runs[original], row, descriptor)
          IN  /\ CheckRepeatable(runs[original].doc, observed) # {} => force
              /\ repeat' = [original |-> original, observed |-> observed,
                            adapter |-> StoredAdapterName(runs[original].adapter),
                            forced |-> force, allowed |-> allow]
  BY Zenon DEF CheckRepeat
<1>2. PICK descriptor \in LatestForModel(descriptors, row) :
          /\ CheckRepeatable(runs[original].doc, ObservedDocument(runs[original], row, descriptor)) # {} => force
          /\ repeat' = [original |-> original, observed |-> ObservedDocument(runs[original], row, descriptor),
                        adapter |-> StoredAdapterName(runs[original].adapter),
                        forced |-> force, allowed |-> allow]
  BY <1>1, Zenon
<1> DEFINE observed == ObservedDocument(runs[original], row, descriptor)
           name == StoredAdapterName(runs[original].adapter)
<1>3. row \in DOMAIN models /\ descriptor \in DOMAIN descriptors
  BY <1>1, <1>2 DEF LookupModel, GetByProviderModelName, LatestForModel
<1>4. observed \in Document
  BY <1>3, ObservedIs DEF CreationInv
<1>a. name \in Nat /\ (name = 0) = (runs[original].adapter = 0)
  <2>1. runs[original].adapter = 0 \/ runs[original].adapter \in DOMAIN adapters
    BY DEF CreationInv, RunsPointAtTheirRows, PointsAt
  <2>2. \A i \in DOMAIN adapters : adapters[i].name \in Nat \ {0}
    <3>1. \A i \in DOMAIN adapters : adapters[i] \in AdapterRow
      BY DEF CreationInv, AdaptersType
    <3>q. QED BY <3>1 DEF AdapterRow
  <2>q. QED BY <2>1, <2>2 DEF StoredAdapterName
<1> HIDE DEF observed, name
<1>5. UNCHANGED <<catalogueVars, adapterVars, world, suites, runs, reading>>
  BY DEF CheckRepeat
<1>6. CatalogueType' /\ AdaptersType' /\ RunsPointAtTheirRows'
  BY <1>5 DEF CreationInv, CatalogueType, AdaptersType, RunsPointAtTheirRows, catalogueVars, adapterVars
<1>7. /\ repeat' = [original |-> original, observed |-> observed, adapter |-> name, forced |-> force,
                    allowed |-> allow]
      /\ CheckRepeatable(runs[original].doc, observed) # {} => force
  BY <1>2 DEF observed, name
<1>8. original \in Nat
  BY DEF CreationInv, CreationType
<1>9. CreationType'
  BY <1>4, <1>5, <1>7, <1>8, <1>a DEF CreationInv, CreationType, Repeats
<1>10. RepeatIsOfItsOriginal'
  BY <1>5, <1>7, <1>a DEF RepeatIsOfItsOriginal
<1>q. QED BY <1>6, <1>9, <1>10 DEF CreationInv

\* A request is created as it was made, but for its profile.
Requested(request, context) == [request EXCEPT !.profile = RequestProfile(context)]
LEMMA RequestIs ==
    ASSUME NEW request \in Requests, NEW context \in Nat
    PROVE  /\ Requested(request, context).suite \in Suites /\ Requested(request, context).repeats = 0
           /\ Requested(request, context).profile \in Profile
<1>1. RequestProfile(context) \in Profile
  BY DEF RequestProfile, Profile, ServingMode, Entries
<1>q. QED BY <1>1 DEF Requested, Requests

LEMMA RepeatIs ==
    ASSUME CreationInv, repeat # NoRepeat
    PROVE  /\ repeat.original \in DOMAIN runs /\ repeat.original \in Nat
           /\ LET request == RepeatRequest
              IN  /\ request.suite = runs[repeat.original].suite /\ request.suite \in Suites
                  /\ request.profile = runs[repeat.original].profile /\ request.profile \in Profile
                  /\ request.repeats = repeat.original /\ request.fit = {}
                  /\ (request.adapter = 0) = (runs[repeat.original].adapter = 0)
                  /\ request.allowOverride = repeat.allowed
           /\ DivergenceDegradation \in SUBSET CheckedFields
<1>1. /\ repeat.original \in DOMAIN runs /\ repeat.original \in Nat
      /\ (repeat.adapter = 0) = (runs[repeat.original].adapter = 0)
  BY DEF CreationInv, RepeatIsOfItsOriginal, CreationType
<1>2. runs[repeat.original] \in RunRow
  BY <1>1 DEF CreationInv, CreationType
<1>3. DivergenceDegradation \in SUBSET CheckedFields
  BY DEF DivergenceDegradation, CheckRepeatable, CheckedFields
<1>q. QED BY <1>1, <1>2, <1>3 DEF RepeatRequest, RunRow

\* What a caller read, and what is left of it once it has called.
LEMMA EntriesRead ==
    ASSUME CreationType, NEW caller \in Callers
    PROVE  Entries(caller) \in SUBSET Entry /\ (Called(caller) => reading' \in Readings)
<1>1. NotRead \in [done : BOOLEAN, entries : SUBSET Entry]
  BY DEF NotRead
<1>q. QED BY <1>1 DEF CreationType, Readings, Entries, Called

LEMMA CreationStep ==
    ASSUME CreationInv, [CreationNext]_allVars
    PROVE  CreationInv' /\ Succeed(models, models') /\ AdaptersSucceed(adapters, adapters')
<1>0. /\ CatalogueType /\ AdaptersType /\ CreationType /\ world \in World /\ reading \in Readings
      /\ Succeed(models, models) /\ Keeps(descriptors, descriptors) /\ AdaptersSucceed(adapters, adapters)
      /\ \A k \in DOMAIN runs : runs[k] \in RunRow
  BY RowsSucceedThemselves DEF CreationInv, CreationType, AdaptersSucceed
<1>1. CASE CatalogueNext /\ UNCHANGED <<adapterVars, creationVars>>
  <2>1. CatalogueType' /\ Succeed(models, models') /\ Keeps(descriptors, descriptors')
    BY <1>0, <1>1, CatalogueStep
  <2>2. /\ AdaptersType' /\ AdaptersSucceed(adapters, adapters') /\ runs' = runs /\ world' \in World
        /\ reading' \in Readings /\ repeat' = repeat
    BY <1>0, <1>1 DEF AdaptersType, adapterVars, creationVars
  <2>q. QED BY <2>1, <2>2, RunsStay
<1>2. CASE AdaptersNext /\ UNCHANGED <<catalogueVars, creationVars>>
  <2>1. AdaptersType' /\ adapters' = adapters
    BY <1>0, <1>2, AdaptersStep
  <2>2. /\ CatalogueType' /\ models' = models /\ descriptors' = descriptors
        /\ runs' = runs /\ world' \in World /\ reading' \in Readings /\ repeat' = repeat
    BY <1>0, <1>2 DEF CatalogueType, catalogueVars, creationVars
  <2>q. QED BY <1>0, <2>1, <2>2, RunsStay
<1>3. CASE \/ \E w \in World : ChangeWorld(w)
           \/ \E machine \in machines : SetMachineNickname(machine)
           \/ \E caller \in Callers : ReadEntries(caller)
           \/ UNCHANGED allVars
  <2>1. UNCHANGED <<catalogueVars, adapterVars, runs, repeat>> /\ world' \in World /\ reading' \in Readings
    <3>1. \A caller \in Callers : ReadEntries(caller) => reading' \in Readings
      <4>1. [done |-> TRUE, entries |-> ReadDirectory.entries] \in [done : BOOLEAN, entries : SUBSET Entry]
        BY <1>0, EntriesAre
      <4>q. QED BY <1>0, <4>1 DEF ReadEntries, Readings
    <3>q. QED BY <1>0, <1>3, <3>1 DEF ChangeWorld, SetMachineNickname, ReadEntries, allVars, creationVars
  <2>2. CatalogueType' /\ AdaptersType' /\ models' = models /\ descriptors' = descriptors /\ adapters' = adapters
    BY <1>0, <2>1 DEF CatalogueType, AdaptersType, catalogueVars, adapterVars
  <2>q. QED BY <1>0, <2>1, <2>2, RunsStay
<1>4. CASE \E request \in Requests, context \in Nat : CreateRun(request, context)
  <2>1. PICK request \in Requests, context \in Nat : CreateRun(request, context)
    BY <1>4
  <2>2. CreateFrom(Requested(request, context), Entries("creation"), {}) /\ repeat' = repeat
    BY <2>1 DEF CreateRun, Requested
  <2>3. {} \in SUBSET CheckedFields /\ Entries("creation") \in SUBSET Entry /\ reading' \in Readings
    BY <1>0, <2>1, EntriesRead DEF CreateRun, Callers
  <2> DEFINE asked == Requested(request, context)
  <2>a. asked.suite \in Suites /\ asked.repeats \in Nat /\ asked.profile \in Profile
    BY <1>0, RequestIs
  <2> HIDE DEF asked
  <2>4. /\ AdaptersFollow /\ UNCHANGED <<catalogueVars, files, registered, world>>
        /\ \E r \in RunRow : /\ runs' = Append(runs, r) /\ PointsAt(r, models, descriptors, adapters')
                             /\ IsRunOf(r, asked, {})
    BY <1>0, <2>2, <2>3, <2>a, CreateFromIs DEF asked
  <2>q. QED BY <1>0, <2>2, <2>3, <2>4, RunAdded DEF AdaptersFollow, catalogueVars
<1>5. CASE \E r \in DOMAIN runs, force, allow \in BOOLEAN : CheckRepeat(r, force, allow)
  <2>1. UNCHANGED <<catalogueVars, adapterVars>>
    BY <1>5 DEF CheckRepeat
  <2>q. QED BY <1>0, <1>5, <2>1, CheckRepeatStep DEF catalogueVars, adapterVars
<1>6. CASE RepeatRun
  <2>2. /\ repeat # NoRepeat /\ CreateFrom(RepeatRequest, Entries("repeat"), DivergenceDegradation)
        /\ repeat' = NoRepeat
    BY <1>6 DEF RepeatRun
  <2> DEFINE request == RepeatRequest
             divergences == DivergenceDegradation
  <2>3. /\ request.suite \in Suites /\ request.repeats \in Nat /\ request.profile \in Profile
        /\ divergences \in SUBSET CheckedFields
        /\ Entries("repeat") \in SUBSET Entry /\ reading' \in Readings
    BY <1>0, <1>6, <2>2, RepeatIs, EntriesRead DEF RepeatRun, Callers
  <2> HIDE DEF request, divergences
  <2>4. /\ AdaptersFollow /\ UNCHANGED <<catalogueVars, files, registered, world>>
        /\ \E r \in RunRow : /\ runs' = Append(runs, r) /\ PointsAt(r, models, descriptors, adapters')
                             /\ IsRunOf(r, request, divergences)
    BY <1>0, <2>2, <2>3, CreateFromIs DEF request, divergences
  <2>q. QED BY <1>0, <2>2, <2>3, <2>4, RunAdded DEF AdaptersFollow, catalogueVars
<1>7. CASE RepeatIsRefused
  <2>1. UNCHANGED <<catalogueVars, adapterVars, world, runs>> /\ repeat' = NoRepeat /\ reading' \in Readings
    BY <1>0, <1>7, EntriesRead DEF RepeatIsRefused, Callers
  <2>2. CatalogueType' /\ AdaptersType' /\ CreationType' /\ RunsPointAtTheirRows' /\ RepeatIsOfItsOriginal'
    BY <2>1 DEF CreationInv, CatalogueType, AdaptersType, CreationType, RunsPointAtTheirRows, RepeatIsOfItsOriginal,
                catalogueVars, adapterVars
  <2>q. QED BY <1>0, <2>1, <2>2 DEF CreationInv, catalogueVars, adapterVars
<1>8. CASE \E r \in DOMAIN runs : ExecuteRun(r)
  <2>1. PICK k \in DOMAIN runs : ExecuteRun(k)
    BY <1>8
  <2> DEFINE applied == Applied(StoredAdapterName(runs[k].adapter))
             new == [runs[k] EXCEPT !.applied = applied, !.status = IF applied = {} THEN "failed" ELSE "running"]
  <2>2. applied \in SUBSET Nat
    BY <1>0 DEF Applied, AdaptersType, Entry
  <2>3. /\ runs' = [runs EXCEPT ![k] = new]
        /\ UNCHANGED <<catalogueVars, adapterVars, world, reading, repeat>>
    BY <2>1 DEF ExecuteRun
  <2> HIDE DEF applied
  <2>4. new \in RunRow /\ SameSubject(runs[k], new)
    BY <1>0, <2>2 DEF RunRow, SameSubject
  <2> HIDE DEF new
  <2>5. CreationInv'
    BY <2>3, <2>4, RunEdited
  <2>q. QED BY <1>0, <2>3, <2>5 DEF catalogueVars, adapterVars
<1>9. CASE \E r \in DOMAIN runs : \E fit \in Fits : CompleteRun(r, fit)
  <2>1. PICK k \in DOMAIN runs, fit \in Fits : CompleteRun(k, fit)
    BY <1>9
  <2> DEFINE ended == Cardinality({q \in DOMAIN runs : runs[q].ended > 0}) + 1
             measured == IF runs[k].suite = "fit" THEN fit ELSE 0
             new == [runs[k] EXCEPT !.status = "completed", !.ended = ended, !.fit = measured]
  <2>2. ended \in Nat /\ measured \in Nat
    <3> DEFINE before == {q \in DOMAIN runs : runs[q].ended > 0}
    <3>1. before \subseteq 1..Len(runs) /\ IsFiniteSet(1..Len(runs))
      <4>1. DOMAIN runs = 1..Len(runs) /\ Len(runs) \in Nat
        BY <1>0 DEF CreationType
      <4>q. QED BY <4>1, FS_Interval
    <3> HIDE DEF before
    <3>2. Cardinality(before) \in Nat
      BY <3>1, FS_Subset, FS_CardinalityType
    <3>q. QED BY <3>2, FitsArePositive DEF before
  <2>3. /\ runs' = [runs EXCEPT ![k] = new]
        /\ UNCHANGED <<catalogueVars, adapterVars, world, reading, repeat>>
    BY <2>1 DEF CompleteRun
  <2> HIDE DEF ended, measured
  <2>4. new \in RunRow /\ SameSubject(runs[k], new)
    BY <1>0, <2>2 DEF RunRow, SameSubject
  <2> HIDE DEF new
  <2>5. CreationInv'
    BY <2>3, <2>4, RunEdited
  <2>q. QED BY <1>0, <2>3, <2>5 DEF catalogueVars, adapterVars
<1>q. QED BY <1>1, <1>2, <1>3, <1>4, <1>5, <1>6, <1>7, <1>8, <1>9 DEF CreationNext

-----------------------------------------------------------------------------
(***************************************************************************)
(* The theorems.                                                           *)
(***************************************************************************)
THEOREM CreationInvariant == CreationSpec => []CreationInv
<1>1. CreationInit => CreationInv
  BY CreationInvInit
<1>2. CreationInv /\ [CreationNext]_allVars => CreationInv'
  BY CreationStep
<1>q. QED BY <1>1, <1>2, PTL DEF CreationSpec

\* The invariant says that a run's rows are of its document.
LEMMA InvariantIsOneRowEach == ASSUME CreationInv PROVE OneRowEach
<1>1. \A i, j \in DOMAIN models :
          models[i].name = models[j].name /\ models[i].digest = models[j].digest => i = j
  BY DEF CreationInv, CatalogueType, Rows, OneRowPerIdentity
<1>2. \A i, j \in DOMAIN adapters : adapters[i].sha = adapters[j].sha => i = j
  BY DEF CreationInv, AdaptersType
<1>3. ASSUME NEW r \in DOMAIN runs
      PROVE  /\ runs[r].doc.digest \in {0, models[runs[r].row].digest}
             /\ runs[r].doc.content = descriptors[runs[r].descriptor].content
             /\ runs[r].asked = IF runs[r].adapter = 0 THEN 0 ELSE adapters[runs[r].adapter].sha
  <2>1. PointsAt(runs[r], models, descriptors, adapters)
    BY DEF CreationInv, RunsPointAtTheirRows
  <2>2. 0 \notin DOMAIN adapters
    BY DEF CreationInv, AdaptersType
  <2>q. QED BY <2>1, <2>2 DEF PointsAt
<1>q. QED BY <1>1, <1>2, <1>3 DEF OneRowEach

LEMMA StepKeepsDigests ==
    ASSUME CreationInv, [CreationNext]_allVars PROVE DigestsStay /\ OneRowEach'
<1>1. CreationInv' /\ Succeed(models, models') /\ AdaptersSucceed(adapters, adapters')
  BY CreationStep
<1>2. OneRowEach'
  <2>1. CreationInv => OneRowEach
    BY InvariantIsOneRowEach
  <2>2. (CreationInv => OneRowEach)'
    BY InvariantIsOneRowEach, PTL
  <2>q. QED BY <1>1, <2>2
<1>q. QED BY <1>1, <1>2 DEF DigestsStay, Succeed, AdaptersSucceed

\* Whatever is discovered, upgraded, renamed or rescanned: a model's and an adapter's row
\* stand for one artifact for good, and a run's rows stay those of its document
\* (repositories/models.py, upsert_identity; services/adapters.py, adapter_row_for).
THEOREM IdentitiesStay == CreationSpec => IdentitiesAreKept
<1>1. CreationInv /\ [CreationNext]_allVars => [DigestsStay /\ OneRowEach']_allVars
  BY StepKeepsDigests
<1>q. QED BY <1>1, CreationInvariant, PTL DEF CreationSpec, IdentitiesAreKept

\* A refresh is the one step that records a success.
LEMMA RefreshesAre ==
    ASSUME [CreationNext]_allVars, Refreshes PROVE \E d \in Discoverers : DiscoverModels(d)
<1>1. lastDiscovery' # lastDiscovery /\ lastDiscovery'.ok
  BY DEF Refreshes
<1>2. CatalogueNext
  BY <1>1 DEF CreationNext, AdaptersNext, CreateFrom, CreateRun, CheckRepeat, RepeatRun, RepeatIsRefused,
              ExecuteRun, CompleteRun, ChangeWorld, SetMachineNickname, ReadEntries, catalogueVars, allVars
<1>3. ASSUME NEW d \in Discoverers, DiscoveryFails(d) PROVE FALSE
  <2>1. lastDiscovery' = [NoOutcome EXCEPT !.at = listing[d].at]
    BY <1>3 DEF DiscoveryFails
  <2>2. lastDiscovery'.ok = FALSE
    BY <2>1 DEF NoOutcome
  <2>q. QED BY <1>1, <2>2
<1>q. QED BY <1>1, <1>2, <1>3 DEF CatalogueNext, Republish, GetModelDetail, SetModelEnabled, ListModels

\* A refresh says of itself what it did, whatever the answer, the rows it found and their
\* order (services/models.py, discover_models).
THEOREM RefreshesAreCounted == CreationSpec => CountsAreTrue
<1> DEFINE Counted == Refreshes =>
          LET said == lastDiscovery'
              stored == Len(descriptors') - Len(descriptors)
          IN  /\ said.added + said.updated + said.unchanged = Cardinality(ModelNames)
              /\ said.added = Len(models') - Len(models)
              /\ said.added <= stored /\ stored <= said.added + said.updated
              /\ said.added + said.updated = 0 => Content(models') = Content(models)
<1>1. ASSUME CreationInv, [CreationNext]_allVars PROVE Counted
  BY <1>1, RefreshesAre, DiscoverModelsIs DEF CreationInv
<1>2. CreationInv /\ [CreationNext]_allVars => [Counted]_allVars
  BY <1>1
<1>3. CountsAreTrue <=> [][Counted]_allVars
  BY PTL DEF CountsAreTrue
<1> HIDE DEF Counted
<1>q. QED BY <1>2, <1>3, CreationInvariant, PTL DEF CreationSpec

\* What is stated of a run that repeats another.
Matches(copy, original) ==
    /\ copy.suite = original.suite /\ copy.profile.context = original.profile.context
    /\ copy.profile.registered \in Narrowed(original.profile.registered)
    /\ (copy.adapter = 0) = (original.adapter = 0)
    /\ copy.overridden => repeat.allowed
    /\ copy.doc.override # original.doc.override => copy.overridden \/ original.overridden
    /\ copy.divergences # {} => repeat.forced
    /\ Checked(copy.doc) = Checked(repeat.observed) =>
           copy.divergences = {f \in CheckedFields : copy.doc[f] # original.doc[f]}

\* A run that was not there before is of a request, which repeats none, or of the repeat in hand.
LEMMA NewRunIs ==
    ASSUME CreationInv, [CreationNext]_allVars, NEW new \in DOMAIN runs' \ DOMAIN runs
    PROVE  \/ runs'[new].repeats = 0
           \/ repeat # NoRepeat /\ IsRunOf(runs'[new], RepeatRequest, DivergenceDegradation)
<1>0. /\ CatalogueType /\ AdaptersType /\ CreationType /\ runs \in Seq(RunRow)
  BY DEF CreationInv, CreationType
<1>a. ASSUME NEW r \in RunRow, runs' = Append(runs, r) PROVE runs'[new] = r
  <2>1. Len(runs) \in Nat /\ DOMAIN runs = 1..Len(runs) /\ DOMAIN runs' = 1..(Len(runs) + 1)
        /\ runs'[Len(runs) + 1] = r
    BY <1>0, <1>a, AppendProperties
  <2>2. new = Len(runs) + 1
    BY <2>1
  <2>q. QED BY <2>1, <2>2
<1>1. CASE \E request \in Requests, context \in Nat : CreateRun(request, context)
  <2>1. PICK request \in Requests, context \in Nat : CreateRun(request, context)
    BY <1>1
  <2>2. /\ CreateFrom(Requested(request, context), Entries("creation"), {}) /\ {} \in SUBSET CheckedFields
        /\ Entries("creation") \in SUBSET Entry
    BY <1>0, <2>1, EntriesRead DEF CreateRun, Requested, Callers
  <2> DEFINE asked == Requested(request, context)
  <2>a. asked.suite \in Suites /\ asked.repeats = 0 /\ asked.profile \in Profile
    BY <1>0, RequestIs
  <2> HIDE DEF asked
  <2>3. PICK r \in RunRow : runs' = Append(runs, r) /\ IsRunOf(r, asked, {})
    <3>1. asked.repeats \in Nat
      BY <2>a
    <3>q. QED BY <1>0, <2>2, <2>a, <3>1, CreateFromIs DEF asked
  <2>4. r.repeats = 0
    BY <2>3, <2>a DEF IsRunOf
  <2>q. QED BY <1>a, <2>3, <2>4
<1>2. CASE RepeatRun
  <2>2. repeat # NoRepeat /\ CreateFrom(RepeatRequest, Entries("repeat"), DivergenceDegradation)
    BY <1>2 DEF RepeatRun
  <2> DEFINE request == RepeatRequest
             divergences == DivergenceDegradation
  <2>3. /\ request.suite \in Suites /\ request.repeats \in Nat /\ request.profile \in Profile
        /\ divergences \in SUBSET CheckedFields /\ Entries("repeat") \in SUBSET Entry
    BY <1>0, <2>2, RepeatIs, EntriesRead DEF Callers
  <2> HIDE DEF request, divergences
  <2>4. PICK r \in RunRow : runs' = Append(runs, r) /\ IsRunOf(r, request, divergences)
    BY <1>0, <2>2, <2>3, CreateFromIs DEF request, divergences
  <2>5. runs'[new] = r
    BY <1>a, <2>4
  <2>q. QED BY <2>2, <2>4, <2>5 DEF request, divergences
<1>3. CASE \/ CatalogueNext /\ UNCHANGED <<adapterVars, creationVars>>
           \/ AdaptersNext /\ UNCHANGED <<catalogueVars, creationVars>>
           \/ \E w \in World : ChangeWorld(w)
           \/ \E machine \in machines : SetMachineNickname(machine)
           \/ \E caller \in Callers : ReadEntries(caller)
           \/ \E r \in DOMAIN runs, force, allow \in BOOLEAN : CheckRepeat(r, force, allow)
           \/ RepeatIsRefused \/ UNCHANGED allVars
  <2>1. runs' = runs
    BY <1>3 DEF ChangeWorld, SetMachineNickname, ReadEntries, CheckRepeat, RepeatIsRefused, creationVars, allVars
  <2>q. QED BY <2>1
<1>4. CASE \E r \in DOMAIN runs : ExecuteRun(r) \/ \E fit \in Fits : CompleteRun(r, fit)
  <2>1. DOMAIN runs' = DOMAIN runs
    BY <1>4 DEF ExecuteRun, CompleteRun
  <2>q. QED BY <2>1
<1>q. QED BY <1>1, <1>2, <1>3, <1>4 DEF CreationNext

LEMMA NewRunMatches ==
    ASSUME CreationInv, [CreationNext]_allVars, NEW new \in DOMAIN runs' \ DOMAIN runs, runs'[new].repeats # 0
    PROVE  Matches(runs'[new], runs[runs'[new].repeats])
<1>1. repeat # NoRepeat /\ IsRunOf(runs'[new], RepeatRequest, DivergenceDegradation)
  BY NewRunIs
<1> DEFINE copy == runs'[new]
           original == runs[repeat.original]
           request == RepeatRequest
<1>2. /\ request.suite = original.suite /\ request.profile = original.profile
      /\ request.repeats = repeat.original /\ request.fit = {}
      /\ (request.adapter = 0) = (original.adapter = 0) /\ request.allowOverride = repeat.allowed
      /\ repeat.original \in DOMAIN runs
  BY <1>1, RepeatIs
<1>a. /\ original.overridden = original.doc.override /\ original.doc.override \in BOOLEAN
      /\ copy.overridden = copy.doc.override /\ copy.doc.override \in BOOLEAN
  <2>1. CreationInv'
    BY CreationStep
  <2>2. new \in DOMAIN runs' /\ copy \in RunRow /\ original \in RunRow
    BY <1>1, <1>2 DEF CreationInv, CreationType, IsRunOf
  <2>3. copy.overridden = copy.doc.override /\ original.overridden = original.doc.override
    BY <1>2, <2>1 DEF CreationInv, RunsPointAtTheirRows, PointsAt
  <2>q. QED BY <2>2, <2>3 DEF RunRow, Document
<1> HIDE DEF copy, request, original
<1>3. /\ copy.suite = request.suite /\ copy.repeats = request.repeats
      /\ copy.divergences = DivergenceDegradation
      /\ copy.profile.registered \in Narrowed(request.profile.registered)
      /\ copy.profile.context = request.profile.context
      /\ (copy.adapter = 0) = (request.adapter = 0) /\ (copy.overridden => request.allowOverride)
  BY <1>1, <1>2 DEF IsRunOf, copy, request
<1>4. DivergenceDegradation = {f \in CheckedFields : original.doc[f] # repeat.observed[f]}
  BY DEF DivergenceDegradation, CheckRepeatable, CheckedFields, original
<1>5. copy.divergences # {} => repeat.forced
  <2>1. DivergenceDegradation # {} => repeat.forced
    BY <1>1 DEF CreationInv, RepeatIsOfItsOriginal, DivergenceDegradation
  <2>q. QED BY <1>3, <2>1
<1>6. ASSUME Checked(copy.doc) = Checked(repeat.observed)
      PROVE  copy.divergences = {f \in CheckedFields : copy.doc[f] # original.doc[f]}
  <2>1. \A f \in CheckedFields : copy.doc[f] = repeat.observed[f]
    <3>1. \A f \in CheckedFields : Checked(copy.doc)[f] = copy.doc[f] /\ Checked(repeat.observed)[f] = repeat.observed[f]
      BY DEF Checked
    <3>q. QED BY <1>6, <3>1
  <2>q. QED BY <1>3, <1>4, <2>1
<1>7. Matches(copy, original)
  BY <1>2, <1>3, <1>5, <1>6, <1>a DEF Matches
<1>8. runs[copy.repeats] = original
  BY <1>2, <1>3 DEF original
<1>q. QED BY <1>7, <1>8 DEF copy

\* A repeat is of its original's suite and profile, drops no adapter, renders replaced prompts
\* only by leave of its own, and owns up to what differs in a checked field, whatever
\* happens between its check and its creation (services/runs.py, repeat_run).
THEOREM RepeatsOwnUp == CreationSpec => RepeatsMatch
<1> DEFINE Owned ==
      \A new \in DOMAIN runs' \ DOMAIN runs :
          runs'[new].repeats # 0 =>
             LET copy == runs'[new]
                 original == runs[copy.repeats]
             IN  /\ copy.suite = original.suite /\ copy.profile.context = original.profile.context
                 /\ copy.profile.registered \in Narrowed(original.profile.registered)
                 /\ (copy.adapter = 0) = (original.adapter = 0)
                 /\ copy.overridden => repeat.allowed
                 /\ copy.doc.override # original.doc.override => copy.overridden \/ original.overridden
                 /\ copy.divergences # {} => repeat.forced
                 /\ Checked(copy.doc) = Checked(repeat.observed) =>
                        copy.divergences =
                            {f \in CheckedFields : copy.doc[f] # original.doc[f]}
<1>1. ASSUME CreationInv, [CreationNext]_allVars PROVE Owned
  BY <1>1, NewRunMatches DEF Matches
<1>2. CreationInv /\ [CreationNext]_allVars => [Owned]_allVars
  BY <1>1
<1>3. RepeatsMatch <=> [][Owned]_allVars
  BY PTL DEF RepeatsMatch
<1> HIDE DEF Owned
<1>q. QED BY <1>2, <1>3, CreationInvariant, PTL DEF CreationSpec

\* What the runs check is one of the systems the theorems are about.
THEOREM MCIsCreation == ASSUME 1 \in ModelNames PROVE MCSpec => CreationSpec
<1>1. MCInit => CreationInit
  BY DEF MCInit
<1>2. ASSUME [MCNext]_mcVars PROVE [CreationNext]_allVars
  <2>1. CASE UNCHANGED mcVars
    BY <2>1 DEF mcVars
  <2>2. CASE EditCatalogue /\ UNCHANGED <<adapterVars, creationVars>>
    <3>1. 1 \in Nat
      OBVIOUS
    <3>q. QED BY <2>2, <3>1 DEF EditCatalogue, CatalogueNext, CreationNext
  <2>3. CASE EditAdapters /\ UNCHANGED <<catalogueVars, creationVars>>
    BY <2>3 DEF EditAdapters, AdaptersNext, CreationNext
  <2>4. CASE EditWorld
    <3>1. Worlds \subseteq World
      BY DEF Worlds, World
    <3>q. QED BY <2>4, <3>1 DEF EditWorld, CreationNext
  <2>5. CASE Discovery /\ UNCHANGED <<adapterVars, creationVars>>
    BY <2>5 DEF Discovery, CatalogueNext, CreationNext
  <2>6. CASE Creating
    <3>1. MCRequests \subseteq Requests /\ 0 \in Nat
      <4>1. /\ [kind |-> "name", name |-> 1, id |-> 0] \in [kind : {"name", "id"}, name : ModelNames, id : Nat]
            /\ [kind |-> "id", name |-> 1, id |-> 1] \in [kind : {"name", "id"}, name : ModelNames, id : Nat]
        OBVIOUS
      <4>2. {{}, {"use"}, {"use", "require"}} \subseteq SUBSET {"use", "require"}
        OBVIOUS
      <4>3. 0..2 \subseteq Nat /\ BOOLEAN \subseteq BOOLEAN
        OBVIOUS
      <4>q. QED BY <4>1, <4>2, <4>3 DEF MCRequests, Requests
    <3>q. QED BY <2>6, <3>1 DEF Creating, Reading, CreationNext
  <2>7. CASE Measuring
    BY <2>7 DEF Measuring, CreationNext
  <2>q. QED BY <1>2, <2>1, <2>2, <2>3, <2>4, <2>5, <2>6, <2>7 DEF MCNext, Edit, Work
<1>q. QED BY <1>1, <1>2, PTL DEF MCSpec, CreationSpec
=============================================================================
