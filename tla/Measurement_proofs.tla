------------------------- MODULE Measurement_proofs -------------------------
(***************************************************************************)
(* Theorems about ContextFit, for any ladder, step, number of repetitions, *)
(* deaths and exceptions, and about Telemetry, for any devices, snapshots, *)
(* limits and number of attempts.                                          *)
(***************************************************************************)
EXTENDS ContextFit, Telemetry, FiniteSetTheorems, SequenceTheorems, NaturalLemmas

(***************************************************************************)
(* The ladder and the search.                                              *)
(***************************************************************************)
LadderCase(i) == [rung |-> Ladder[i], ordinal |-> i - 1]
KeyOf(case, q) == [rung |-> case.rung, ordinal |-> case.ordinal, rep |-> q]
LadderIsStored == \A i \in DOMAIN Ladder, q \in 1..Reps : KeyOf(LadderCase(i), q) \in StoredKeys

\* A rung is skipped exactly when the model was not trained for it.
SkippedIsTooLong == \A s \in samples : s.status = "skipped" <=> s.rung > trained

LEMMA LadderIsDistinct ==
    /\ Len(Ladder) \in Nat \ {0} /\ DOMAIN Ladder = 1..Len(Ladder)
    /\ \A i \in DOMAIN Ladder : Ladder[i] \in Nat \ {0}
    /\ \A i, j \in DOMAIN Ladder : Ladder[i] = Ladder[j] => i = j
    /\ Top \in Nat \ {0} /\ Rungs \subseteq 1..Top
<1>1. Len(Ladder) \in Nat \ {0} /\ DOMAIN Ladder = 1..Len(Ladder)
  BY FitAssumption
<1>2. \A i \in DOMAIN Ladder : Ladder[i] \in Nat \ {0}
  BY FitAssumption
<1>3. \A i, j \in DOMAIN Ladder : i < j => Ladder[i] < Ladder[j]
  BY FitAssumption
<1>4. \A i, j \in DOMAIN Ladder : Ladder[i] = Ladder[j] => i = j
  BY <1>1, <1>2, <1>3
<1>5. \A i \in DOMAIN Ladder : Ladder[i] <= Ladder[Len(Ladder)]
  BY <1>1, <1>2, <1>3
<1>q. QED BY <1>1, <1>2, <1>4, <1>5 DEF Top, Rungs

LEMMA RungsCount == IsFiniteSet(Rungs) /\ Cardinality(Rungs) = Len(Ladder)
<1> DEFINE f == [i \in 1..Len(Ladder) |-> Ladder[i]]
<1>1. f \in Bijection(1..Len(Ladder), Rungs)
  BY LadderIsDistinct DEF Bijection, Injection, Surjection, Rungs, IsInjective
<1>2. IsFiniteSet(1..Len(Ladder)) /\ Cardinality(1..Len(Ladder)) = Len(Ladder)
  BY FS_Interval, LadderIsDistinct
<1>3. ExistsBijection(1..Len(Ladder), Rungs)
  BY <1>1 DEF ExistsBijection
<1>q. QED BY <1>2, <1>3, FS_Bijection

LEMMA LadderCasesAre ==
    /\ LadderCases \in Seq(Case) /\ LadderCases # <<>>
    /\ DOMAIN LadderCases = DOMAIN Ladder
    /\ \A i \in DOMAIN Ladder : LadderCases[i] = LadderCase(i) /\ LadderCase(i) \in Case
<1>1. \A i \in DOMAIN Ladder : LadderCase(i) \in Case
  BY LadderIsDistinct DEF LadderCase, Case, Rungs
<1>2. LadderCases = [i \in 1..Len(Ladder) |-> LadderCase(i)]
  BY LadderIsDistinct DEF LadderCases, LadderCase
<1>3. LadderCases \in Seq(Case)
  BY <1>1, <1>2, LadderIsDistinct
<1>4. LadderCases # <<>>
  <2>1. 1 \in DOMAIN LadderCases
    BY <1>2, LadderIsDistinct
  <2>q. QED BY <2>1
<1>q. QED BY <1>1, <1>2, <1>3, <1>4, LadderIsDistinct

LEMMA TriedIsFinite ==
    ASSUME TypeOK
    PROVE  /\ Tried \subseteq 1..Top /\ Served \subseteq Tried /\ Refused \subseteq Tried
           /\ IsFiniteSet(Tried) /\ Cardinality(Tried) \in Nat
<1>1. Tried \subseteq 1..Top /\ Served \subseteq Tried /\ Refused \subseteq Tried
  BY DEF TypeOK, Tried, Served, Refused
<1>2. IsFiniteSet(1..Top)
  BY LadderIsDistinct, FS_Interval
<1>3. IsFiniteSet(Tried)
  BY <1>1, <1>2, FS_Subset
<1>q. QED BY <1>1, <1>3, FS_CardinalityType

\* Between the largest served and the smallest refused above it nothing was sent.
LEMMA Brackets ==
    ASSUME TypeOK, Bracketed
    PROVE  /\ Low \in Served /\ (\A r \in Served : Low >= r)
           /\ High \in Refused /\ High > Low /\ (\A r \in Refused : r > Low => High <= r)
           /\ Low \in 1..Top /\ High \in 1..Top
<1>1. Served \subseteq 1..Top /\ Refused \subseteq 1..Top /\ Top \in Nat
  BY TriedIsFinite, LadderIsDistinct
<1>2. \E x \in Served : \A y \in Served : x >= y
  <2>1. Served \in SUBSET (0..Top) /\ Served # {}
    BY <1>1 DEF Bracketed
  <2>q. QED BY <1>1, <2>1, GreatestNumber
<1>3. Low \in Served /\ (\A r \in Served : Low >= r)
  BY <1>2 DEF Low, Max
<1> DEFINE above == {r \in Refused : r > Low}
<1>4. \E x \in above : \A y \in above : x <= y
  <2>1. \E r \in Refused : r > Low
    BY DEF Bracketed
  <2>2. above \in SUBSET Nat
    <3>1. \A r \in Refused : r \in Nat
      BY <1>1
    <3>q. QED BY <3>1
  <2>3. above # {}
    BY <2>1
  <2> HIDE DEF above
  <2>q. QED BY <2>2, <2>3, LeastNumber
<1>5. High \in above /\ (\A r \in above : High <= r)
  BY <1>4 DEF High, Min
<1>q. QED BY <1>1, <1>3, <1>5

LEMMA MiddleIsBelow ==
    ASSUME TypeOK, Bracketed
    PROVE  Middle \in Int /\ Middle < High /\ Middle >= Low
<1>1. Low \in Nat /\ High \in Nat /\ High > Low
  BY Brackets
<1> DEFINE gap == High - Low
<1>2. gap \in Nat \ {0} /\ Step \in Nat \ {0}
  BY <1>1, FitAssumption
<1>3. Middle = Low + (gap \div (2 * Step)) * Step
  BY DEF Middle
<1>4. High = Low + gap
  BY <1>1
<1> HIDE DEF gap
<1>5. (gap \div (2 * Step)) * Step < gap /\ (gap \div (2 * Step)) * Step \in Nat
  BY <1>2
<1>q. QED BY <1>1, <1>2, <1>3, <1>4, <1>5

LEMMA MiddleIsNew ==
    ASSUME TypeOK, SkippedIsTooLong, trained \in Nat, WorthHalving
    PROVE  Middle \in 1..Top /\ Middle \notin Tried
<1>1. Bracketed /\ Middle > Low
  BY DEF WorthHalving
<1>2. Middle \in Nat /\ Middle < High /\ Low \in Nat /\ High \in 1..Top /\ High \in Refused
  BY <1>1, MiddleIsBelow, Brackets
<1>3. SUFFICES ASSUME Middle \in Tried PROVE FALSE
  BY <1>1, <1>2, LadderIsDistinct
<1>4. High <= trained
  <2>1. PICK s \in Sent(High) : TRUE
    BY <1>2 DEF Refused
  <2>q. QED BY <1>2, <2>1 DEF Sent, SkippedIsTooLong, TypeOK
<1>5. Sent(Middle) # {}
  <2>1. PICK s \in samples : s.rung = Middle
    BY <1>3 DEF Tried
  <2>2. s.status # "skipped"
    BY <1>2, <1>4, <2>1 DEF SkippedIsTooLong
  <2>q. QED BY <2>1, <2>2 DEF Sent
<1>6. Middle \in Served \/ Middle \in Refused
  BY <1>3, <1>5 DEF Served, Refused
<1>q. QED BY <1>1, <1>2, <1>6, Brackets

(***************************************************************************)
(* One round of the test.                                                  *)
(***************************************************************************)
\* Every rung of the ladder is still to come, or has all its samples.
Remaining ==
    \A i \in DOMAIN Ladder :
        \/ \E j \in DOMAIN todo : todo[j] = LadderCase(i)
        \/ \A q \in 1..Reps : KeyOf(LadderCase(i), q) \in StoredKeys

\* The one case of a round that is not the ladder's; its total was written before
\* it is measured.
FollowUp ==
    /\ LadderIsStored /\ Len(todo) = 1 /\ todo[1].rung \notin Rungs
    /\ total = Cardinality(Tried) + (IF todo[1].rung \in Tried THEN 0 ELSE 1)

\* What has been stored since the test was entered is of rungs that are done, or
\* of earlier repetitions of the current one.
CaseOK ==
    /\ \A j, k \in DOMAIN todo : todo[j].rung = todo[k].rung => j = k
    /\ \A key \in StoredKeys \ already, j \in DOMAIN todo :
          key.rung = todo[j].rung => j = 1 /\ key.rep < rep
    /\ \A q \in 1..(rep - 1) : KeyOf(todo[1], q) \in StoredKeys
    /\ (\A j \in DOMAIN todo : \E i \in DOMAIN Ladder : todo[j] = LadderCase(i)) \/ FollowUp

RoundOK ==
    /\ already \subseteq StoredKeys
    /\ pc # "away" => row = "running"
    /\ pc \in {"ask", "end"} => todo = <<>> /\ rep = 1
    /\ pc \in {"case", "ask", "end"} => Remaining
    /\ pc = "case" => CaseOK

\* The total counts the cases that have samples, and the one that was asked for.
CountOK ==
    /\ ~LadderIsStored => total = Len(Ladder) /\ Tried \subseteq Rungs
    /\ LadderIsStored =>
          \/ total = Cardinality(Tried)
          \/ total = Cardinality(Tried) + 1 /\ WorthHalving

EndOK ==
    /\ row = "completed" \/ pc = "end" => LadderIsStored /\ NextCases = <<>>
    /\ row = "failed" \/ pc = "raised" => faults > 0

FitInv == TypeOK /\ trained \in Nat /\ SkippedIsTooLong /\ RoundOK /\ CountOK /\ EndOK

LEMMA SameSamples ==
    ASSUME UNCHANGED samples
    PROVE  /\ Tried' = Tried /\ StoredKeys' = StoredKeys
           /\ WorthHalving' = WorthHalving /\ NextCases' = NextCases
           /\ LadderIsStored' = LadderIsStored
<1>1. Tried' = Tried /\ StoredKeys' = StoredKeys
  BY DEF Tried, StoredKeys
<1>2. Served' = Served /\ Refused' = Refused
  BY <1>1 DEF Served, Refused, Sent
<1>3. Low' = Low
  BY <1>2 DEF Low
<1>4. High' = High
  BY <1>2, <1>3 DEF High
<1>5. Middle' = Middle /\ Bracketed' = Bracketed
  BY <1>2, <1>3, <1>4 DEF Middle, Bracketed
<1>6. WorthHalving' = WorthHalving
  BY <1>3, <1>4, <1>5 DEF WorthHalving
<1>q. QED BY <1>1, <1>5, <1>6 DEF NextCases, LadderIsStored

LEMMA CurrentIs ==
    ASSUME TypeOK, pc = "case"
    PROVE  /\ Len(todo) \in Nat \ {0} /\ DOMAIN todo = 1..Len(todo)
           /\ todo[1] \in Case /\ Head(todo) = todo[1]
           /\ Current = KeyOf(todo[1], rep)
           /\ \A j \in DOMAIN todo : todo[j] \in Case
           /\ Tail(todo) \in Seq(Case) /\ Len(Tail(todo)) = Len(todo) - 1
           /\ DOMAIN Tail(todo) = 1..(Len(todo) - 1)
           /\ \A j \in 1..(Len(todo) - 1) : Tail(todo)[j] = todo[j + 1]
<1>1. todo \in Seq(Case) /\ todo # <<>>
  BY DEF TypeOK
<1>2. Len(todo) \in Nat \ {0} /\ DOMAIN todo = 1..Len(todo)
  BY <1>1, EmptySeq
<1>3. Head(todo) = todo[1] /\ (\A j \in DOMAIN todo : todo[j] \in Case)
  BY <1>1, <1>2
<1>4. /\ Tail(todo) \in Seq(Case) /\ Len(Tail(todo)) = Len(todo) - 1
      /\ \A j \in 1..Len(Tail(todo)) : Tail(todo)[j] = todo[j + 1]
  BY <1>1, HeadTailProperties
<1>5. DOMAIN Tail(todo) = 1..(Len(todo) - 1)
  BY <1>4
<1>6. Current = KeyOf(todo[1], rep)
  BY <1>3 DEF Current, KeyOf
<1>q. QED BY <1>2, <1>3, <1>4, <1>5, <1>6

\* A key that was not there when the test was entered is stored by nobody else.
LEMMA NothingIsTaken ==
    ASSUME TypeOK, RoundOK, pc = "case", Current \notin already
    PROVE  ~IsTaken(Current) /\ Current \notin StoredKeys
<1>1. Current.rung = todo[1].rung /\ Current.rep = rep /\ 1 \in DOMAIN todo
  BY CurrentIs DEF KeyOf
<1>2. Current \notin StoredKeys
  <2> SUFFICES ASSUME Current \in StoredKeys PROVE FALSE
    OBVIOUS
  <2>1. Current \in StoredKeys \ already
    OBVIOUS
  <2>2. Current.rep < rep
    BY <1>1, <2>1 DEF RoundOK, CaseOK
  <2>q. QED BY <1>1, <2>2 DEF TypeOK
<1>q. QED BY <1>2 DEF IsTaken, StoredKeys

\* On to the next repetition or past the case, with the current sample stored.
LEMMA Advances ==
    ASSUME TypeOK, RoundOK, pc = "case", NextRepetition, UNCHANGED <<already, row>>,
           StoredKeys' = StoredKeys \cup {Current},
           FollowUp /\ todo' = todo => FollowUp'
    PROVE  RoundOK' /\ pc' \in {"case", "ask"}
<1>0. /\ rep \in 1..Reps /\ Reps \in Nat \ {0} /\ CaseOK /\ Remaining
      /\ already \subseteq StoredKeys /\ row' = "running"
  BY FitAssumption DEF TypeOK, RoundOK
<1>1. already' \subseteq StoredKeys'
  BY <1>0
<1>2. CASE rep < Reps
  <2>1. rep' = rep + 1 /\ UNCHANGED <<todo, pc>>
    BY <1>2 DEF NextRepetition
  <2>2. Remaining'
    BY <1>0, <2>1 DEF Remaining
  <2>3. ASSUME NEW key \in StoredKeys' \ already', NEW j \in DOMAIN todo, key.rung = todo[j].rung
        PROVE  j = 1 /\ key.rep < rep'
    <3>1. CASE key \in StoredKeys
      <4>1. j = 1 /\ key.rep < rep
        BY <1>0, <2>3, <3>1 DEF CaseOK
      <4>2. key.rep \in 1..Reps
        BY <3>1 DEF StoredKeys, Key, TypeOK
      <4>q. QED BY <1>0, <2>1, <4>1, <4>2
    <3>2. CASE key = Current
      <4>1. key.rung = todo[1].rung /\ key.rep = rep /\ 1 \in DOMAIN todo
        BY <3>2, CurrentIs DEF KeyOf
      <4>2. todo[j].rung = todo[1].rung
        BY <2>3, <4>1
      <4>3. j = 1
        BY <1>0, <4>1, <4>2 DEF CaseOK
      <4>q. QED BY <1>0, <2>1, <4>1, <4>3
    <3>q. QED BY <2>3, <3>1, <3>2
  <2>4. \A q \in 1..(rep' - 1) : KeyOf(todo[1], q) \in StoredKeys'
    <3>1. \A q \in 1..rep : q = rep \/ q \in 1..(rep - 1)
      BY <1>0
    <3>2. rep' - 1 = rep
      BY <1>0, <2>1
    <3>q. QED BY <1>0, <3>1, <3>2, CurrentIs DEF CaseOK
  <2>5. CaseOK'
    BY <1>0, <2>1, <2>3, <2>4 DEF CaseOK
  <2>q. QED BY <1>0, <1>1, <2>1, <2>2, <2>5 DEF RoundOK
<1>3. CASE ~(rep < Reps)
  <2>1. rep = Reps /\ rep' = 1 /\ todo' = Tail(todo)
        /\ pc' = IF Tail(todo) = <<>> THEN "ask" ELSE "case"
    BY <1>0, <1>3 DEF NextRepetition
  <2>2. \A j \in DOMAIN todo' : j + 1 \in DOMAIN todo /\ j \in Nat \ {0} /\ todo'[j] = todo[j + 1]
    <3> DEFINE n == Len(todo)
    <3>1. n \in Nat \ {0} /\ DOMAIN todo = 1..n
      BY CurrentIs
    <3>2. DOMAIN todo' = 1..(n - 1) /\ \A j \in 1..(n - 1) : todo'[j] = todo[j + 1]
      BY <2>1, CurrentIs
    <3> HIDE DEF n
    <3>q. QED BY <3>1, <3>2
  <2>3. \A q \in 1..Reps : KeyOf(todo[1], q) \in StoredKeys'
    <3>1. \A q \in 1..Reps : q = rep \/ q \in 1..(rep - 1)
      BY <1>0, <2>1
    <3>q. QED BY <1>0, <3>1, CurrentIs DEF CaseOK
  <2>4. Remaining'
    <3> SUFFICES ASSUME NEW i \in DOMAIN Ladder
                 PROVE  \/ \E j \in DOMAIN todo' : todo'[j] = LadderCase(i)
                        \/ \A q \in 1..Reps : KeyOf(LadderCase(i), q) \in StoredKeys'
      BY DEF Remaining
    <3>1. CASE \A q \in 1..Reps : KeyOf(LadderCase(i), q) \in StoredKeys
      BY <3>1
    <3>2. CASE \E j \in DOMAIN todo : todo[j] = LadderCase(i)
      <4>1. PICK j \in DOMAIN todo : todo[j] = LadderCase(i)
        BY <3>2
      <4>2. CASE j = 1
        BY <2>3, <4>1, <4>2
      <4>3. CASE j # 1
        <5>1. j - 1 \in DOMAIN todo' /\ todo'[j - 1] = todo[j]
          <6> DEFINE n == Len(todo)
          <6>1. n \in Nat \ {0} /\ DOMAIN todo = 1..n
            BY CurrentIs
          <6>2. DOMAIN todo' = 1..(n - 1)
            BY <2>1, CurrentIs
          <6> HIDE DEF n
          <6>3. j - 1 \in DOMAIN todo' /\ (j - 1) + 1 = j
            BY <4>3, <6>1, <6>2
          <6>q. QED BY <2>2, <6>3
        <5>q. QED BY <4>1, <5>1
      <4>q. QED BY <4>2, <4>3
    <3>q. QED BY <1>0, <3>1, <3>2 DEF Remaining
  <2>5. CASE Tail(todo) = <<>>
    BY <1>0, <1>1, <2>1, <2>4, <2>5 DEF RoundOK
  <2>6. CASE Tail(todo) # <<>>
    <3>1. \A j, k \in DOMAIN todo' : todo'[j].rung = todo'[k].rung => j = k
      <4> SUFFICES ASSUME NEW j \in DOMAIN todo', NEW k \in DOMAIN todo', todo'[j].rung = todo'[k].rung
                   PROVE  j = k
        OBVIOUS
      <4>1. j + 1 = k + 1
        BY <1>0, <2>2 DEF CaseOK
      <4>q. QED BY <2>2, <4>1
    <3>2. ASSUME NEW key \in StoredKeys' \ already', NEW j \in DOMAIN todo', key.rung = todo'[j].rung
          PROVE  FALSE
      <4>1. j + 1 \in DOMAIN todo /\ j \in Nat \ {0} /\ key.rung = todo[j + 1].rung
        BY <2>2, <3>2
      <4>2. CASE key \in StoredKeys
        <5>1. j + 1 = 1
          BY <1>0, <3>2, <4>1, <4>2 DEF CaseOK
        <5>q. QED BY <4>1, <5>1
      <4>3. CASE key = Current
        <5>1. todo[1].rung = todo[j + 1].rung /\ 1 \in DOMAIN todo
          BY <4>1, <4>3, CurrentIs DEF KeyOf
        <5>2. 1 = j + 1
          BY <1>0, <4>1, <5>1 DEF CaseOK
        <5>q. QED BY <4>1, <5>2
      <4>q. QED BY <3>2, <4>2, <4>3
    <3>3. \A q \in 1..(rep' - 1) : KeyOf(todo'[1], q) \in StoredKeys'
      BY <2>1
    <3>4. \A j \in DOMAIN todo' : \E i \in DOMAIN Ladder : todo'[j] = LadderCase(i)
      <4>1. ~FollowUp
        <5> SUFFICES ASSUME FollowUp PROVE FALSE
          OBVIOUS
        <5>1. Len(Tail(todo)) = 0
          BY CurrentIs DEF FollowUp
        <5>q. QED BY <2>6, <5>1, CurrentIs, EmptySeq
      <4>q. QED BY <1>0, <2>2, <4>1 DEF CaseOK
    <3>5. CaseOK'
      BY <3>1, <3>2, <3>3, <3>4 DEF CaseOK
    <3>q. QED BY <1>0, <1>1, <2>1, <2>4, <2>6, <3>5 DEF RoundOK
  <2>q. QED BY <2>5, <2>6
<1>q. QED BY <1>2, <1>3

(***************************************************************************)
(* The steps.                                                              *)
(***************************************************************************)
LEMMA RepetitionTypes ==
    ASSUME TypeOK, pc = "case", NextRepetition
    PROVE  /\ counted' \in Nat /\ finished' \in Nat /\ rep' \in 1..Reps
           /\ todo' \in Seq(Case) /\ pc' \in {"case", "ask"}
           /\ pc' = "case" => todo' # <<>>
<1>1. Reps \in Nat \ {0} /\ Tail(todo) \in Seq(Case)
  BY FitAssumption, CurrentIs
<1>2. CASE rep < Reps
  BY <1>1, <1>2 DEF NextRepetition, TypeOK
<1>3. CASE ~(rep < Reps)
  BY <1>1, <1>3 DEF NextRepetition, TypeOK
<1>q. QED BY <1>2, <1>3

\* A step that stores nothing leaves the counts as they are.
LEMMA NothingStored ==
    ASSUME FitInv, UNCHANGED <<samples, total, trained>>
    PROVE  SkippedIsTooLong' /\ CountOK' /\ trained' \in Nat
BY SameSamples DEF FitInv, SkippedIsTooLong, CountOK

LEMMA EnterKeeps == ASSUME FitInv, EnterTest PROVE FitInv'
<1>1. /\ row' = "running" /\ pc' = "case" /\ rep' = 1 /\ finished' = 0
      /\ already' = StoredKeys /\ todo' = LadderCases
      /\ UNCHANGED <<total, counted, samples, trained, crashes, faults>>
  BY DEF EnterTest
<1>2. StoredKeys' = StoredKeys
  BY <1>1, SameSamples
<1>3. TypeOK'
  <2>1. StoredKeys \subseteq [rung : 1..Top, ordinal : Nat, rep : 1..Reps]
    BY DEF FitInv, TypeOK, StoredKeys, Key
  <2>2. 1 \in 1..Reps
    BY FitAssumption
  <2>q. QED BY <1>1, <2>1, <2>2, LadderCasesAre DEF FitInv, TypeOK
<1>4. \A j \in DOMAIN todo' : j \in DOMAIN Ladder /\ todo'[j] = LadderCase(j)
  BY <1>1, LadderCasesAre
<1>5. RoundOK'
  <2>1. Remaining'
    BY <1>1, LadderCasesAre DEF Remaining
  <2>2. \A j, k \in DOMAIN todo' : todo'[j].rung = todo'[k].rung => j = k
    BY <1>4, LadderIsDistinct DEF LadderCase
  <2>3. StoredKeys' \ already' = {} /\ 1..(rep' - 1) = {}
    BY <1>1, <1>2
  <2>4. CaseOK'
    BY <1>4, <2>2, <2>3 DEF CaseOK
  <2>q. QED BY <1>1, <1>2, <2>1, <2>4 DEF RoundOK
<1>6. EndOK'
  BY <1>1 DEF EndOK
<1>q. QED BY <1>1, <1>3, <1>5, <1>6, NothingStored DEF FitInv

LEMMA SkipKeeps == ASSUME FitInv, SkipStored PROVE FitInv'
<1>1. /\ pc = "case" /\ Current \in already /\ NextRepetition
      /\ UNCHANGED <<row, total, samples, already, trained, crashes, faults>>
  BY DEF SkipStored
<1>2. TypeOK /\ RoundOK /\ EndOK
  BY DEF FitInv
<1>3. TypeOK'
  BY <1>1, <1>2, RepetitionTypes DEF TypeOK
<1>4. StoredKeys' = StoredKeys \cup {Current}
  BY <1>1, <1>2, SameSamples DEF RoundOK
<1>5. FollowUp /\ todo' = todo => FollowUp'
  BY <1>1, SameSamples DEF FollowUp
<1>6. RoundOK' /\ pc' \in {"case", "ask"}
  BY <1>1, <1>2, <1>4, <1>5, Advances
<1>7. EndOK'
  <2>1. row = "running"
    BY <1>1, <1>2 DEF TypeOK
  <2>q. QED BY <1>1, <1>6, <2>1 DEF EndOK
<1>q. QED BY <1>1, <1>3, <1>6, <1>7, NothingStored DEF FitInv

LEMMA StoreKeeps == ASSUME FitInv, StoreSample PROVE FitInv'
<1>1. PICK s \in PossibleStatus :
         samples' = samples \cup {[rung |-> Current.rung, ordinal |-> Current.ordinal,
                                   rep |-> rep, status |-> s]}
  BY DEF StoreSample
<1>2. /\ pc = "case" /\ Current \notin already /\ NextRepetition
      /\ UNCHANGED <<row, total, already, trained, crashes, faults>>
  BY DEF StoreSample
<1>3. TypeOK /\ RoundOK /\ CountOK /\ trained \in Nat /\ SkippedIsTooLong
  BY DEF FitInv
<1> DEFINE new == [rung |-> Current.rung, ordinal |-> Current.ordinal, rep |-> rep, status |-> s]
<1>4. /\ Current.rung = todo[1].rung /\ Current.ordinal = todo[1].ordinal /\ Current.rep = rep
      /\ todo[1] \in Case /\ 1 \in DOMAIN todo /\ Current = KeyOf(todo[1], rep)
      /\ Key(new) = Current /\ new.rung = Current.rung /\ new.status = s
  BY <1>2, <1>3, CurrentIs DEF KeyOf, Key, Current
<1>5. s \in SampleStatus /\ (s = "skipped" <=> Current.rung > trained)
  BY DEF PossibleStatus, SampleStatus
<1>6. new \in [rung : 1..Top, ordinal : Nat, rep : 1..Reps, status : SampleStatus]
  BY <1>3, <1>4, <1>5 DEF Case, TypeOK
<1> HIDE DEF new
<1>7. samples' = samples \cup {new}
  BY <1>1 DEF new
<1>8. StoredKeys' = StoredKeys \cup {Current} /\ Tried' = Tried \cup {Current.rung}
  BY <1>4, <1>7 DEF StoredKeys, Tried
<1>9. Current \notin StoredKeys
  BY <1>2, <1>3, NothingIsTaken
<1>10. TypeOK'
  BY <1>2, <1>3, <1>6, <1>7, RepetitionTypes DEF TypeOK
<1>11. SkippedIsTooLong'
  BY <1>2, <1>3, <1>4, <1>5, <1>7 DEF SkippedIsTooLong
<1>12. FollowUp => /\ LadderIsStored' /\ total = Cardinality(Tried')
                   /\ Current.rung \in Tried'
  <2> SUFFICES ASSUME FollowUp PROVE LadderIsStored' /\ total = Cardinality(Tried')
    BY <1>8
  <2>1. LadderIsStored'
    BY <1>8 DEF FollowUp, LadderIsStored
  <2>2. /\ IsFiniteSet(Tried) /\ Cardinality(Tried) \in Nat
        /\ Cardinality(Tried \cup {Current.rung}) =
              IF Current.rung \in Tried THEN Cardinality(Tried) ELSE Cardinality(Tried) + 1
    BY <1>3, TriedIsFinite, FS_AddElement
  <2>3. total = Cardinality(Tried) + (IF Current.rung \in Tried THEN 0 ELSE 1)
    BY <1>4 DEF FollowUp
  <2>4. total = Cardinality(Tried \cup {Current.rung})
    BY <2>2, <2>3
  <2>q. QED BY <1>8, <2>1, <2>4
<1>13. RoundOK' /\ pc' \in {"case", "ask"}
  <2>1. FollowUp /\ todo' = todo => FollowUp'
    <3> SUFFICES ASSUME FollowUp, todo' = todo PROVE FollowUp'
      OBVIOUS
    <3>1. total = Cardinality(Tried') /\ total \in Nat
      BY <1>3, <1>12 DEF TypeOK
    <3>2. total' = Cardinality(Tried') + (IF todo'[1].rung \in Tried' THEN 0 ELSE 1)
      BY <1>2, <1>4, <1>12, <3>1
    <3>q. QED BY <1>12, <3>2 DEF FollowUp
  <2>q. QED BY <1>2, <1>3, <1>8, <2>1, Advances
<1>14. CountOK'
  <2>1. CASE FollowUp
    BY <1>2, <1>12, <2>1 DEF CountOK
  <2>2. CASE ~FollowUp
    <3>1. PICK i \in DOMAIN Ladder : todo[1] = LadderCase(i)
      BY <1>2, <1>3, <1>4, <2>2 DEF RoundOK, CaseOK
    <3>2. ~LadderIsStored
      BY <1>3, <1>4, <1>9, <3>1 DEF LadderIsStored, TypeOK
    <3>3. total' = Len(Ladder) /\ Tried' \subseteq Rungs
      BY <1>2, <1>3, <1>4, <1>8, <3>1, <3>2 DEF CountOK, Rungs, LadderCase
    <3>4. LadderIsStored' => Rungs \subseteq Tried'
      <4> SUFFICES ASSUME LadderIsStored', NEW i_1 \in DOMAIN Ladder PROVE Ladder[i_1] \in Tried'
        BY DEF Rungs
      <4>1. KeyOf(LadderCase(i_1), 1) \in StoredKeys'
        BY FitAssumption DEF LadderIsStored
      <4>q. QED BY <4>1 DEF StoredKeys, Tried, Key, KeyOf, LadderCase
    <3>5. LadderIsStored' => total' = Cardinality(Tried')
      <4> SUFFICES ASSUME LadderIsStored' PROVE total' = Cardinality(Tried')
        OBVIOUS
      <4>1. Tried' = Rungs
        BY <3>3, <3>4
      <4>q. QED BY <3>3, <4>1, RungsCount
    <3>q. QED BY <3>3, <3>5 DEF CountOK
  <2>q. QED BY <2>1, <2>2
<1>15. EndOK'
  <2>1. row = "running"
    BY <1>2, <1>3 DEF TypeOK
  <2>q. QED BY <1>2, <1>13, <2>1 DEF EndOK
<1>q. QED BY <1>2, <1>3, <1>10, <1>11, <1>13, <1>14, <1>15 DEF FitInv

\* What a stop, a death or an exception leaves behind.
LEMMA LeaveKeeps ==
    ASSUME FitInv, UNCHANGED <<total, counted, samples, todo, rep, already, finished, trained>>,
           row' \in {row, "cancelled"}, pc' \in {"away", "raised"}, pc' = "raised" => faults' > 0 /\ row' = "running",
           crashes' \in 0..MaxCrashes, faults' \in 0..MaxFaults, faults' >= faults
    PROVE  FitInv'
<1>1. TypeOK' /\ RoundOK'
  BY SameSamples DEF FitInv, TypeOK, RoundOK
<1>2. EndOK'
  <2>1. LadderIsStored' = LadderIsStored /\ NextCases' = NextCases
    BY SameSamples
  <2>2. row' = "completed" => row = "completed"
    OBVIOUS
  <2>3. row' = "failed" => row = "failed"
    OBVIOUS
  <2>4. faults > 0 => faults' > 0
    BY DEF FitInv, TypeOK
  <2>q. QED BY <2>1, <2>2, <2>3, <2>4 DEF FitInv, EndOK
<1>q. QED BY <1>1, <1>2, NothingStored DEF FitInv

LEMMA RaiseKeeps == ASSUME FitInv, TestRaises PROVE FitInv'
<1>1. pc' = "raised" /\ UNCHANGED <<row, total, counted, samples, todo, rep, already, finished, trained, crashes>>
  BY DEF TestRaises, stored
<1>3. pc # "away"
  BY DEF TestRaises
<1>2. faults < MaxFaults /\ faults' = faults + 1
  <2>1. ~(pc = "case" /\ Current \notin already /\ IsTaken(Current))
    BY NothingIsTaken DEF FitInv
  <2>q. QED BY <2>1 DEF TestRaises
<1>q. QED BY <1>1, <1>2, <1>3, LeaveKeeps, FitAssumption DEF FitInv, TypeOK, RoundOK

LEMMA AskKeeps == ASSUME FitInv, AskNextCases PROVE FitInv'
<1>1. /\ pc = "ask" /\ UNCHANGED <<row, counted, samples, rep, already, finished, trained, crashes, faults>>
      /\ TypeOK /\ RoundOK /\ CountOK /\ EndOK /\ SkippedIsTooLong /\ trained \in Nat
  BY DEF AskNextCases, FitInv
<1>2. /\ StoredKeys' = StoredKeys /\ Tried' = Tried /\ NextCases' = NextCases
      /\ WorthHalving' = WorthHalving /\ LadderIsStored' = LadderIsStored
  BY <1>1, SameSamples
<1>3. LadderIsStored
  BY <1>1 DEF RoundOK, Remaining, LadderIsStored
<1>4. SkippedIsTooLong' /\ trained' \in Nat
  BY <1>1 DEF SkippedIsTooLong
<1>5. row = "failed" => faults > 0
  BY <1>1 DEF EndOK
<1>6. CASE NextCases = <<>>
  <2>1. pc' = "end" /\ UNCHANGED <<total, todo>>
    BY <1>6 DEF AskNextCases
  <2>2. TypeOK'
    BY <1>1, <2>1 DEF TypeOK
  <2>3. RoundOK'
    BY <1>1, <1>2, <2>1 DEF RoundOK, Remaining
  <2>4. EndOK'
    BY <1>1, <1>2, <1>3, <1>5, <1>6, <2>1 DEF EndOK
  <2>q. QED BY <1>1, <2>1, <2>2, <2>3, <2>4, NothingStored DEF FitInv
<1>7. CASE NextCases # <<>>
  <2>1. total' = Cardinality(Tried) + Len(NextCases) /\ todo' = NextCases /\ pc' = "case"
    BY <1>7 DEF AskNextCases
  <2>2. WorthHalving /\ NextCases = <<[rung |-> Middle, ordinal |-> Cardinality(Tried)]>>
    BY <1>7 DEF NextCases
  <2>3. Middle \in 1..Top /\ Middle \notin Tried
    BY <1>1, <2>2, MiddleIsNew
  <2>4. Cardinality(Tried) \in Nat /\ Len(NextCases) = 1
    BY <1>1, <2>2, TriedIsFinite
  <2>5. Len(todo') = 1 /\ DOMAIN todo' = {1} /\ todo'[1] = [rung |-> Middle, ordinal |-> Cardinality(Tried)]
    BY <2>1, <2>2
  <2>6. TypeOK'
    <3>1. row = "running"
      BY <1>1 DEF RoundOK
    <3>2. NextCases \in Seq(Case) /\ NextCases # <<>>
      BY <1>7, <2>2, <2>3, <2>4 DEF Case
    <3>q. QED BY <1>1, <2>1, <2>4, <3>1, <3>2 DEF TypeOK
  <2>7. Rungs \subseteq Tried
    <3> SUFFICES ASSUME NEW i \in DOMAIN Ladder PROVE Ladder[i] \in Tried
      BY DEF Rungs
    <3>1. KeyOf(LadderCase(i), 1) \in StoredKeys
      BY <1>3, FitAssumption DEF LadderIsStored
    <3>q. QED BY <3>1 DEF StoredKeys, Tried, Key, KeyOf, LadderCase
  <2>8. RoundOK'
    <3>1. FollowUp'
      <4>1. total' = Cardinality(Tried) + 1
        BY <2>1, <2>4
      <4>2. todo'[1].rung \notin Rungs /\ todo'[1].rung \notin Tried
        BY <2>3, <2>5, <2>7
      <4>q. QED BY <1>2, <1>3, <2>5, <4>1, <4>2 DEF FollowUp
    <3>2. \A key \in StoredKeys' : key.rung # todo'[1].rung
      BY <1>2, <2>3, <2>5 DEF StoredKeys, Tried, Key
    <3>3. 1..(rep' - 1) = {}
      BY <1>1 DEF RoundOK
    <3>4. CaseOK'
      BY <2>5, <3>1, <3>2, <3>3 DEF CaseOK
    <3>5. Remaining'
      BY <1>2, <1>3 DEF Remaining, LadderIsStored
    <3>q. QED BY <1>1, <1>2, <2>1, <3>4, <3>5 DEF RoundOK
  <2>9. CountOK'
    BY <1>2, <1>3, <2>1, <2>2, <2>4 DEF CountOK
  <2>10. EndOK'
    BY <1>1, <1>2, <1>5, <2>1 DEF EndOK
  <2>q. QED BY <1>4, <2>6, <2>8, <2>9, <2>10 DEF FitInv
<1>q. QED BY <1>6, <1>7

LEMMA FitStarts == Init => FitInv
<1> SUFFICES ASSUME Init PROVE FitInv
  OBVIOUS
<1>1. /\ row = "pending" /\ total = Len(Ladder) /\ counted = 0 /\ samples = {}
      /\ pc = "away" /\ todo = <<>> /\ rep = 1 /\ already = {} /\ finished = 0
      /\ trained \in Trained /\ crashes = 0 /\ faults = 0
  BY DEF Init
<1>2. StoredKeys = {} /\ Tried = {}
  BY <1>1 DEF StoredKeys, Tried
<1>3. ~LadderIsStored
  <2>1. 1 \in DOMAIN Ladder /\ 1 \in 1..Reps
    BY LadderIsDistinct, FitAssumption
  <2>q. QED BY <1>2, <2>1 DEF LadderIsStored
<1>4. TypeOK /\ trained \in Nat
  <2>1. <<>> \in Seq(Case)
    BY EmptySeq
  <2>q. QED BY <1>1, <2>1, FitAssumption, LadderIsDistinct DEF TypeOK
<1>q. QED BY <1>1, <1>2, <1>3, <1>4 DEF FitInv, SkippedIsTooLong, RoundOK, CountOK, EndOK

LEMMA FitSteps == FitInv /\ [Next]_vars => FitInv'
<1> SUFFICES ASSUME FitInv, [Next]_vars PROVE FitInv'
  OBVIOUS
<1>1. CASE EnterTest BY <1>1, EnterKeeps
<1>2. CASE SkipStored BY <1>2, SkipKeeps
<1>3. CASE StoreSample BY <1>3, StoreKeeps
<1>4. CASE TestRaises BY <1>4, RaiseKeeps
<1>5. CASE AskNextCases BY <1>5, AskKeeps
<1>6. CASE FinishTest
  <2>1. /\ pc \in {"end", "raised"} /\ row' = (IF pc = "end" THEN "completed" ELSE "failed")
        /\ pc' = "away"
        /\ UNCHANGED <<total, counted, samples, todo, rep, already, finished, trained, crashes, faults>>
    BY <1>6 DEF FinishTest
  <2>2. TypeOK' /\ RoundOK'
    BY <2>1, SameSamples DEF FitInv, TypeOK, RoundOK
  <2>3. EndOK'
    BY <2>1, SameSamples DEF FitInv, EndOK
  <2>q. QED BY <2>1, <2>2, <2>3, NothingStored DEF FitInv
<1>7. CASE StopTest
  BY <1>7, LeaveKeeps DEF StopTest, FitInv, TypeOK
<1>8. CASE Crash
  BY <1>8, LeaveKeeps, FitAssumption DEF Crash, stored, FitInv, TypeOK
<1>9. CASE UNCHANGED vars
  <2>1. UNCHANGED <<row, total, counted, samples, pc, todo, rep, already, finished, trained, crashes, faults>>
    BY <1>9 DEF vars, stored, local
  <2>2. TypeOK' /\ RoundOK' /\ EndOK'
    BY <2>1, SameSamples DEF FitInv, TypeOK, RoundOK, EndOK, Remaining, CaseOK, FollowUp
  <2>q. QED BY <2>1, <2>2, NothingStored DEF FitInv
<1>q. QED BY <1>1, <1>2, <1>3, <1>4, <1>5, <1>6, <1>7, <1>8, <1>9 DEF Next

(***************************************************************************)
(* The boundary.                                                           *)
(***************************************************************************)
\* A search that has nothing to ask for cannot halve its bracket on steps any more.
LEMMA BoundaryIsFound == FitInv => FitIsTight
<1> SUFFICES ASSUME FitInv, row = "completed", Bracketed
             PROVE  High - Low < 2 * Step /\ ((High - Low) % Step = 0 => High - Low = Step)
  BY DEF FitIsTight
<1>1. /\ Low \in Tried /\ High \in Tried /\ Low \in Nat /\ High \in Nat /\ High > Low
  BY Brackets, TriedIsFinite DEF FitInv
<1>2. ~WorthHalving
  <2> SUFFICES ASSUME WorthHalving PROVE FALSE
    OBVIOUS
  <2>1. Middle \notin Tried
    BY MiddleIsNew DEF FitInv
  <2>q. QED BY <2>1 DEF NextCases, FitInv, EndOK
<1>3. Step \in Nat \ {0}
  BY FitAssumption
<1> DEFINE gap == High - Low
           q == gap \div (2 * Step)
<1>4. gap \in Nat /\ gap > 0 /\ Middle = Low + q * Step /\ (gap <= Step \/ ~(Middle > Low))
  <2>1. Middle = Low + q * Step
    BY DEF Middle
  <2>2. gap \in Nat /\ gap > 0
    BY <1>1
  <2>3. ~(gap > Step) \/ ~(Middle > Low)
    BY <1>2 DEF WorthHalving
  <2> HIDE DEF gap, q
  <2>q. QED BY <1>3, <2>1, <2>2, <2>3
<1>5. q \in Nat /\ 2 * Step * q <= gap /\ gap < 2 * Step * (q + 1)
  <2>1. gap \in Nat
    BY <1>4
  <2> HIDE DEF gap
  <2>q. QED BY <1>3, <2>1
<1>6. SUFFICES gap < 2 * Step /\ (gap % Step = 0 => gap = Step)
  OBVIOUS
<1> HIDE DEF gap, q
<1>7. gap < 2 * Step
  <2>1. CASE gap <= Step
    BY <1>3, <1>4, <2>1
  <2>2. CASE ~(Middle > Low)
    <3>1. q >= 1 => q * Step >= 1
      BY <1>3, <1>5
    <3>2. q * Step \in Nat
      BY <1>3, <1>5
    <3>3. q = 0
      BY <1>1, <1>4, <1>5, <2>2, <3>1, <3>2
    <3>q. QED BY <1>3, <1>5, <3>3
  <2>q. QED BY <1>4, <2>1, <2>2
<1>8. ASSUME gap % Step = 0 PROVE gap = Step
  <2> DEFINE n == gap \div Step
  <2>1. n \in Nat /\ gap = n * Step
    BY <1>3, <1>4, <1>8
  <2> HIDE DEF n
  <2>2. n # 0
    BY <1>3, <1>4, <2>1
  <2>3. n < 2
    BY <1>3, <1>7, <2>1
  <2>q. QED BY <1>3, <2>1, <2>2, <2>3
<1>q. QED BY <1>7, <1>8

(***************************************************************************)
(* The launches.  A search that asks halves the steps between what served  *)
(* and what was refused, whatever the answer; while it asks, the answer so *)
(* far is left out, since another repetition may turn it.                  *)
(***************************************************************************)
\* The rung that is being asked for beyond the ladder; no rung is 0.
Asked == IF pc = "case" /\ FollowUp THEN todo[1].rung ELSE 0

\* The bracket, and the rungs asked for, without one rung's samples.
Between(lo, hi, m) ==
    /\ lo \in Served \ {m} /\ hi \in Refused \ {m} /\ lo < hi
    /\ \A r \in Served \ {m} : r <= lo
    /\ \A r \in Refused \ {m} : r > lo => hi <= r
Launched(m) == (Tried \ Rungs) \ {m}

\* How many whole steps fit into a bracket; it has at most its share of those of some gap
\* of the ladder.
Gap(i) == Ladder[i + 1] - Ladder[i]
Whole(gap, n) == n * Step <= gap /\ gap < (n + 1) * Step
Narrowed(steps, launches) ==
    \E i \in 1..(Len(Ladder) - 1) : Doublings(launches) * (steps - 1) <= Gap(i) - Step
Halved(m) ==
    \A lo, hi \in Nat : Between(lo, hi, m) =>
        \E n \in Nat : Whole(hi - lo, n) /\ Narrowed(n, Cardinality(Launched(m)))

\* A rung that is being asked for halves the bracket of the others.
Halves(m) ==
    \E lo, hi \in Nat : Between(lo, hi, m) /\ m > lo /\ m = lo + ((hi - lo) \div (2 * Step)) * Step

LaunchInv ==
    /\ LadderIsStored => Halved(Asked)
    /\ Asked # 0 => Halves(Asked)
    /\ FewLaunches

LEMMA DoublingsAre ==
    ASSUME NEW n \in Nat
    PROVE  /\ Doublings(0) = Step /\ Doublings(n) \in Nat
           /\ Doublings(n + 1) = 2 * Doublings(n)
<1> DEFINE Goes(h, k) == h \in [0..k -> Nat] /\ h[0] = Step /\ \A i \in 1..k : h[i] = 2 * h[i - 1]
<1>1. ASSUME NEW k \in Nat PROVE \E h : Goes(h, k) /\ Doublings(k) = h[k]
  <2> DEFINE step == [p \in (1..k) \X Nat |-> 2 * p[2]]
  <2>1. \A i \in 1..k, v \in Nat : step[<<i, v>>] = 2 * v
    OBVIOUS
  <2>2. PICK h : Climbs(h, k, Nat, Step, step)
    <3>0. \A v \in Nat : 2 * v \in Nat
      OBVIOUS
    <3> HIDE DEF step
    <3>1. \A i \in 1..k, v \in Nat : step[<<i, v>>] \in Nat
      BY <2>1, <3>0
    <3>q. QED BY <3>1, FitAssumption, ClimbExists
  <2>3. Goes(h, k)
    <3>1. \A i \in 1..k : i - 1 \in 0..k
      OBVIOUS
    <3> HIDE DEF step
    <3>q. QED BY <2>1, <2>2, <3>1 DEF Climbs
  <2> DEFINE Is(g) == g = [i \in 0..k |-> IF i = 0 THEN Step ELSE 2 * g[i - 1]]
  <2>4. Is(h)
    BY <2>3
  <2>5. \A g : Is(g) => g = h
    <3> SUFFICES ASSUME NEW g, Is(g) PROVE g = h
      OBVIOUS
    <3>1. g[0] = Step /\ \A i \in 1..k : g[i] = 2 * g[i - 1]
      OBVIOUS
    <3>2. g = [i \in 0..k |-> g[i]] /\ h = [i \in 0..k |-> h[i]]
      BY <2>3
    <3>3. \A i \in 0..k : g[i] = h[i]
      <4>1. g[0] = h[0] /\ \A i \in 1..k : g[i - 1] = h[i - 1] => g[i] = h[i]
        BY <2>3, <3>1
      <4> HIDE DEF Is
      <4>q. QED BY ONLY <4>1, k \in Nat, ClimbUnique
    <3>q. QED BY <3>2, <3>3
  <2>6. (CHOOSE g : Is(g)) = h
    <3> HIDE DEF Is
    <3>q. QED BY <2>4, <2>5, Zenon
  <2>7. Doublings(k) = h[k]
    BY <2>6 DEF Doublings
  <2>q. QED BY <2>3, <2>7
<1>2. PICK h : Goes(h, n) /\ Doublings(n) = h[n]
  BY <1>1
<1>3. PICK g : Goes(g, n + 1) /\ Doublings(n + 1) = g[n + 1]
  <2>1. n + 1 \in Nat
    OBVIOUS
  <2> HIDE DEF Goes
  <2>q. QED BY <1>1, <2>1
<1>4. PICK f : Goes(f, 0) /\ Doublings(0) = f[0]
  BY <1>1
<1>5. \A i \in 0..n : g[i] = h[i]
  <2>1. \A i \in 1..n : g[i] = 2 * g[i - 1] /\ h[i] = 2 * h[i - 1]
    BY <1>2, <1>3
  <2>2. g[0] = h[0]
    BY <1>2, <1>3
  <2> HIDE DEF Goes
  <2>q. QED BY <2>1, <2>2, ClimbUnique
<1>6. g[n + 1] = 2 * g[n]
  BY <1>3
<1>q. QED BY <1>2, <1>3, <1>4, <1>5, <1>6

\* Half of the whole steps of a bracket, rounded up, is what is left of them at most.
LEMMA HalvingNarrows ==
    ASSUME NEW lo \in Nat, NEW hi \in Nat, lo < hi, NEW n \in Nat, Whole(hi - lo, n),
           NEW m, m > lo, m = lo + ((hi - lo) \div (2 * Step)) * Step,
           NEW k \in Nat, Narrowed(n, k)
    PROVE  /\ m \in Nat /\ lo < m /\ m < hi /\ n >= 2
           /\ \E q \in Nat : Whole(m - lo, q) /\ Narrowed(q, k + 1)
           /\ \E q \in Nat : Whole(hi - m, q) /\ Narrowed(q, k + 1)
<1>1. Step \in Nat \ {0}
  BY FitAssumption
<1> DEFINE gap == hi - lo
           q == gap \div (2 * Step)
<1>2. gap \in Nat /\ n * Step <= gap /\ gap < (n + 1) * Step
  BY <1>1 DEF Whole
<1>3. q \in Nat /\ 2 * Step * q <= gap /\ gap < 2 * Step * (q + 1)
  <2> HIDE DEF gap
  <2>q. QED BY <1>1, <1>2
<1>4. m = lo + q * Step /\ hi = lo + gap
  OBVIOUS
<1> HIDE DEF gap, q
<1>5. n = 2 * q \/ n = 2 * q + 1
  <2>1. 2 * Step * q = (2 * q) * Step /\ 2 * Step * (q + 1) = (2 * q + 2) * Step
    BY <1>1, <1>3
  <2>2. 2 * q < n + 1
    <3>1. (2 * q) * Step < (n + 1) * Step
      BY <1>1, <1>2, <1>3, <2>1
    <3>q. QED BY <1>1, <1>3, <3>1
  <2>3. n < 2 * q + 2
    <3>1. n * Step < (2 * q + 2) * Step
      BY <1>1, <1>2, <1>3, <2>1
    <3>q. QED BY <1>1, <1>3, <3>1
  <2>q. QED BY <1>3, <2>2, <2>3
<1>6. n >= 2 /\ q >= 1
  <2>1. q # 0
    BY <1>1, <1>4
  <2>q. QED BY <1>3, <1>5, <2>1
<1>7. m - lo = q * Step /\ Whole(hi - m, n - q) /\ Whole(m - lo, q) /\ n - q \in Nat /\ n - q >= 1
  <2>1. n - q \in Nat /\ n - q >= 1
    BY <1>3, <1>5, <1>6
  <2>2. n * Step = q * Step + (n - q) * Step /\ (n + 1) * Step = q * Step + ((n - q) + 1) * Step
        /\ (q + 1) * Step = q * Step + Step
    BY <1>1, <1>3, <2>1
  <2>3. q * Step \in Nat /\ (n - q) * Step \in Nat /\ ((n - q) + 1) * Step \in Nat
    BY <1>1, <1>3, <2>1
  <2>4. m - lo = q * Step /\ hi - m = gap - q * Step
    BY <1>2, <1>4, <2>3
  <2>5. Whole(m - lo, q)
    BY <1>1, <2>2, <2>3, <2>4 DEF Whole
  <2>6. (n - q) * Step <= gap - q * Step /\ gap - q * Step < ((n - q) + 1) * Step
    <3> DEFINE a == q * Step
               b == (n - q) * Step
               c == ((n - q) + 1) * Step
    <3>1. a \in Nat /\ b \in Nat /\ c \in Nat /\ a + b <= gap /\ gap < a + c
      BY <1>2, <2>2, <2>3
    <3> HIDE DEF a, b, c
    <3>2. b <= gap - a /\ gap - a < c
      BY <1>2, <3>1
    <3>q. QED BY <3>2 DEF a, b, c
  <2>q. QED BY <2>1, <2>4, <2>5, <2>6 DEF Whole
<1>8. m \in Nat /\ lo < m /\ m < hi
  <2>1. q * Step \in Nat /\ q * Step >= 1 /\ (n - q) * Step \in Nat /\ (n - q) * Step >= 1
    BY <1>1, <1>3, <1>6, <1>7
  <2>2. hi - m >= 1
    BY <1>1, <1>4, <1>2, <2>1, <1>7 DEF Whole
  <2>q. QED BY <1>2, <1>4, <2>1, <2>2
<1>9. ASSUME NEW r \in Nat, 2 * (r - 1) <= n - 1 PROVE Narrowed(r, k + 1)
  <2>1. PICK i \in 1..(Len(Ladder) - 1) : Doublings(k) * (n - 1) <= Gap(i) - Step
    BY DEF Narrowed
  <2>2. Doublings(k) \in Nat /\ Doublings(k + 1) = 2 * Doublings(k)
    BY DoublingsAre
  <2>3. Gap(i) \in Int
    BY LadderIsDistinct DEF Gap
  <2> DEFINE d == Doublings(k)
             g == Gap(i)
  <2>4. d \in Nat /\ g \in Int /\ d * (n - 1) <= g - Step
    BY <2>1, <2>2, <2>3
  <2>5. Doublings(k + 1) * (r - 1) = d * (2 * (r - 1))
    <3>1. Doublings(k + 1) = 2 * d
      BY <2>2
    <3> HIDE DEF d
    <3>q. QED BY <2>4, <3>1
  <2> HIDE DEF d, g
  <2>6. d * (2 * (r - 1)) <= d * (n - 1)
    BY <1>9, <2>4
  <2>7. d * (2 * (r - 1)) <= g - Step
    BY <1>1, <2>4, <2>6
  <2>q. QED BY <2>5, <2>7 DEF Narrowed, g
<1>10. 2 * (q - 1) <= n - 1 /\ 2 * ((n - q) - 1) <= n - 1
  BY <1>3, <1>5
<1>q. QED BY <1>3, <1>6, <1>7, <1>8, <1>9, <1>10

\* What was sent below a rung that was refused was served or refused.
LEMMA SentBelow ==
    ASSUME TypeOK, SkippedIsTooLong, trained \in Nat, NEW h \in Refused, NEW r \in Tried, r < h
    PROVE  r \in Served \/ r \in Refused
<1>1. h \in Nat /\ r \in Nat
  BY TriedIsFinite, LadderIsDistinct
<1>2. h <= trained
  <2>1. PICK s \in Sent(h) : TRUE
    BY DEF Refused
  <2>q. QED BY <1>1, <2>1 DEF Sent, SkippedIsTooLong, TypeOK
<1>3. PICK s \in samples : s.rung = r
  BY DEF Tried
<1>4. s.status # "skipped"
  BY <1>1, <1>2, <1>3 DEF SkippedIsTooLong
<1>5. Sent(r) # {}
  BY <1>3, <1>4 DEF Sent
<1>q. QED BY <1>5 DEF Served, Refused

LEMMA LadderIsTried == LadderIsStored => Rungs \subseteq Tried
<1> SUFFICES ASSUME LadderIsStored, NEW i \in DOMAIN Ladder PROVE Ladder[i] \in Tried
  BY DEF Rungs
<1>1. KeyOf(LadderCase(i), 1) \in StoredKeys
  BY FitAssumption DEF LadderIsStored
<1>q. QED BY <1>1 DEF StoredKeys, Tried, Key, KeyOf, LadderCase

LEMMA LaunchedIsFinite ==
    ASSUME TypeOK, NEW m
    PROVE  IsFiniteSet(Launched(m)) /\ Cardinality(Launched(m)) \in Nat
BY TriedIsFinite, FS_Subset, FS_CardinalityType DEF Launched

\* Before anything else is asked for, the bracket is one gap of the ladder.
LEMMA LadderIsHalved ==
    FitInv /\ LadderIsStored /\ Tried \subseteq Rungs => Halved(0)
<1> SUFFICES ASSUME FitInv, LadderIsStored, Tried \subseteq Rungs,
                    NEW lo \in Nat, NEW hi \in Nat, Between(lo, hi, 0)
             PROVE  \E n \in Nat : Whole(hi - lo, n) /\ Narrowed(n, Cardinality(Launched(0)))
  BY DEF Halved
<1>0. TypeOK /\ SkippedIsTooLong /\ trained \in Nat
  BY DEF FitInv
<1>1. Served \subseteq Tried /\ Refused \subseteq Tried /\ 0 \notin Tried
  BY <1>0, TriedIsFinite, LadderIsDistinct
<1>2. lo \in Served /\ hi \in Refused /\ lo < hi /\ (\A r \in Served : r <= lo)
      /\ (\A r \in Refused : r > lo => hi <= r)
  BY <1>1 DEF Between
<1>3. PICK i \in DOMAIN Ladder, j \in DOMAIN Ladder : lo = Ladder[i] /\ hi = Ladder[j]
  BY <1>1, <1>2 DEF Rungs
<1> DEFINE N == Len(Ladder)
<1>4. N \in Nat /\ DOMAIN Ladder = 1..N /\ (\A k \in 1..N : Ladder[k] \in Nat)
      /\ (\A k, l \in 1..N : k < l => Ladder[k] < Ladder[l])
  BY LadderIsDistinct, FitAssumption
<1> HIDE DEF N
<1>5. i < j
  <2>1. ~(j < i)
    BY <1>2, <1>3, <1>4
  <2>2. i # j
    BY <1>2, <1>3
  <2>q. QED BY <1>3, <1>4, <2>1, <2>2
<1>6. i \in 1..(N - 1) /\ i + 1 \in 1..N /\ Ladder[i + 1] \in Nat /\ Ladder[i + 1] > lo
  <2>1. i \in 1..N /\ j \in 1..N
    BY <1>3, <1>4
  <2>2. i \in 1..(N - 1) /\ i + 1 \in 1..N /\ i < i + 1
    BY <1>4, <1>5, <2>1
  <2>3. Ladder[i] < Ladder[i + 1] /\ Ladder[i + 1] \in Nat /\ Ladder[i] \in Nat
    BY <1>4, <2>1, <2>2
  <2>q. QED BY <1>3, <2>2, <2>3
<1>7. Ladder[i + 1] <= hi
  <2>1. i + 1 = j \/ i + 1 < j
    BY <1>3, <1>4, <1>5, <1>6
  <2>2. i + 1 < j => Ladder[i + 1] < Ladder[j]
    BY <1>3, <1>4, <1>6
  <2>q. QED BY <1>3, <1>6, <2>1, <2>2
<1>8. Ladder[i + 1] = hi
  <2>1. SUFFICES ASSUME Ladder[i + 1] < hi PROVE FALSE
    BY <1>6, <1>7
  <2>2. Ladder[i + 1] \in Tried
    BY <1>4, <1>6, LadderIsTried DEF Rungs
  <2>3. Ladder[i + 1] \notin Served
    BY <1>2, <1>6
  <2>4. Ladder[i + 1] \in Refused
    BY <1>0, <1>2, <2>1, <2>2, <2>3, SentBelow
  <2>q. QED BY <1>2, <1>6, <2>1, <2>4
<1>9. Launched(0) = {}
  BY DEF Launched
<1>10. Cardinality(Launched(0)) = 0
  BY <1>9, FS_EmptySet
<1>11. Step \in Nat \ {0}
  BY FitAssumption
<1> DEFINE gap == hi - lo
           n == gap \div Step
<1>12. gap \in Nat
  BY <1>2
<1>13. n \in Nat /\ n * Step <= gap /\ gap < (n + 1) * Step
  <2> HIDE DEF gap
  <2>q. QED BY <1>11, <1>12
<1>14. Whole(hi - lo, n)
  BY <1>13 DEF Whole
<1>15. Narrowed(n, 0)
  <2>1. Gap(i) = gap
    BY <1>3, <1>8 DEF Gap
  <2>2. Doublings(0) = Step
    BY DoublingsAre
  <2> HIDE DEF n, gap
  <2>3. Step * (n - 1) <= gap - Step
    <3>1. Step * (n - 1) = n * Step - Step
      BY <1>11, <1>13
    <3>q. QED BY <1>11, <1>12, <1>13, <3>1
  <2>q. QED BY <1>6, <2>1, <2>2, <2>3 DEF Narrowed, N
<1> HIDE DEF n
<1>q. QED BY <1>10, <1>13, <1>14, <1>15

\* An answer halves the bracket, whichever it is and even if none came.
AnswersHalve ==
    \A m \in Nat \ {0} :
        FitInv /\ m \notin Rungs /\ Halves(m) /\ Halved(m) => Halved(0)

LEMMA AnswerHalves == AnswersHalve
<1> SUFFICES ASSUME NEW m \in Nat \ {0}, FitInv, m \notin Rungs, Halves(m), Halved(m),
                    NEW low \in Nat, NEW high \in Nat, Between(low, high, 0)
             PROVE  \E n \in Nat : Whole(high - low, n) /\ Narrowed(n, Cardinality(Launched(0)))
  BY DEF AnswersHalve, Halved
<1>0. TypeOK /\ SkippedIsTooLong /\ trained \in Nat
  BY DEF FitInv
<1>1. Served \subseteq Tried /\ Refused \subseteq Tried /\ 0 \notin Tried /\ Tried \subseteq Nat
  BY <1>0, TriedIsFinite, LadderIsDistinct
<1>2. low \in Served /\ high \in Refused /\ low < high /\ (\A r \in Served : r <= low)
      /\ (\A r \in Refused : r > low => high <= r)
  BY <1>1 DEF Between
<1>3. Served \cap Refused = {}
  BY DEF Served, Refused
<1>4. CASE m \notin Tried
  <2>1. Between(low, high, m)
    BY <1>1, <1>2, <1>4 DEF Between
  <2>2. Launched(m) = Launched(0)
    BY <1>1, <1>4 DEF Launched
  <2>q. QED BY <2>1, <2>2 DEF Halved
<1>5. CASE m \in Tried
  <2>1. PICK lo \in Nat, hi \in Nat : Between(lo, hi, m) /\ m > lo /\ m = lo + ((hi - lo) \div (2 * Step)) * Step
    BY DEF Halves
  <2>2. lo \in Served /\ hi \in Refused /\ lo # m /\ hi # m /\ lo < hi
        /\ (\A r \in Served \ {m} : r <= lo) /\ (\A r \in Refused \ {m} : r > lo => hi <= r)
    BY <2>1 DEF Between
  <2> DEFINE k == Cardinality(Launched(m))
  <2>3. k \in Nat /\ Cardinality(Launched(0)) = k + 1
    <3>1. Launched(0) = Launched(m) \cup {m} /\ m \notin Launched(m)
      BY <1>1, <1>5 DEF Launched
    <3>q. QED BY <1>0, <3>1, LaunchedIsFinite, FS_AddElement
  <2>4. PICK n \in Nat : Whole(hi - lo, n) /\ Narrowed(n, k)
    BY <2>1 DEF Halved
  <2> HIDE DEF k
  <2>5. /\ lo < m /\ m < hi
        /\ \E q \in Nat : Whole(m - lo, q) /\ Narrowed(q, k + 1)
        /\ \E q \in Nat : Whole(hi - m, q) /\ Narrowed(q, k + 1)
    BY <2>1, <2>2, <2>3, <2>4, HalvingNarrows
  <2>6. m \in Served \/ m \in Refused
    BY <1>0, <1>5, <2>2, <2>5, SentBelow
  <2>7. CASE m \in Served
    <3>1. m \notin Refused
      BY <1>3, <2>7
    <3>2. low = m
      <4>1. m <= low
        BY <1>2, <2>7
      <4>2. low # m => low <= lo
        BY <1>2, <2>2
      <4>q. QED BY <2>5, <4>1, <4>2
    <3>3. high = hi
      <4>1. high <= hi
        BY <1>2, <2>2, <2>5, <3>2
      <4>2. high # m /\ high > lo
        BY <1>2, <2>5, <3>1, <3>2
      <4>3. hi <= high
        BY <1>2, <2>2, <4>2
      <4>q. QED BY <4>1, <4>3
    <3>q. QED BY <2>3, <2>5, <3>2, <3>3
  <2>8. CASE m \in Refused
    <3>1. m \notin Served
      BY <1>3, <2>8
    <3>2. low = lo
      <4>1. low <= lo
        BY <1>2, <2>2, <3>1
      <4>2. lo <= low
        BY <1>2, <2>2
      <4>q. QED BY <4>1, <4>2
    <3>3. high = m
      <4>1. high <= m
        BY <1>2, <2>5, <2>8, <3>2
      <4>2. high # m => hi <= high
        BY <1>2, <2>2, <3>2
      <4>q. QED BY <2>5, <4>1, <4>2
    <3>q. QED BY <2>3, <2>5, <3>2, <3>3
  <2>q. QED BY <2>6, <2>7, <2>8
<1>q. QED BY <1>4, <1>5

\* A rung in hand is beyond the ladder exactly when it was asked for.
AskedIsBeyond ==
    /\ Asked # 0 <=> pc = "case" /\ todo[1].rung \notin Rungs
    /\ Asked # 0 => Asked \in Nat /\ Asked \notin Rungs /\ Asked = todo[1].rung /\ LadderIsStored /\ Len(todo) = 1

LEMMA AskedIs == FitInv => AskedIsBeyond
<1> SUFFICES ASSUME FitInv PROVE AskedIsBeyond
  OBVIOUS
<1>1. CASE pc = "case"
  <2>1. todo[1].rung \in Nat \ {0} /\ 1 \in DOMAIN todo
    BY <1>1, CurrentIs, LadderIsDistinct DEF FitInv, Case
  <2>2. todo[1].rung \notin Rungs => FollowUp
    <3>1. \A i \in DOMAIN Ladder : LadderCase(i).rung \in Rungs
      BY DEF LadderCase, Rungs
    <3>q. QED BY <1>1, <2>1, <3>1 DEF FitInv, RoundOK, CaseOK
  <2>q. QED BY <1>1, <2>1, <2>2 DEF AskedIsBeyond, Asked, FollowUp
<1>2. CASE pc # "case"
  BY <1>2 DEF AskedIsBeyond, Asked
<1>q. QED BY <1>1, <1>2

\* A repetition, or a case, is left behind: what was asked for still is, or is done.
LEMMA AskedAfter ==
    ASSUME FitInv, FitInv', pc = "case", NextRepetition
    PROVE  Asked' \in {Asked, 0}
<1>1. AskedIsBeyond /\ AskedIsBeyond'
  <2>1. FitInv' => AskedIsBeyond'
    BY AskedIs, PTL
  <2>q. QED BY <2>1, AskedIs
<1>2. SUFFICES ASSUME Asked' # 0 PROVE Asked' = Asked
  OBVIOUS
<1>3. pc' = "case" /\ todo'[1].rung \notin Rungs /\ Asked' = todo'[1].rung /\ Len(todo') = 1
  BY <1>1, <1>2 DEF AskedIsBeyond
<1>4. CASE todo' = todo
  BY <1>1, <1>3, <1>4 DEF AskedIsBeyond
<1>5. CASE todo' = Tail(todo)
  <2>1. Len(todo) = 2 /\ todo'[1] = todo[2] /\ 2 \in DOMAIN todo
    <3> DEFINE n == Len(todo)
    <3>1. n \in Nat \ {0} /\ DOMAIN todo = 1..n /\ Len(Tail(todo)) = n - 1
          /\ \A j \in 1..(n - 1) : Tail(todo)[j] = todo[j + 1]
      BY CurrentIs DEF FitInv
    <3> HIDE DEF n
    <3>2. n = 2
      BY <1>3, <1>5, <3>1
    <3>q. QED BY <1>5, <3>1, <3>2 DEF n
  <2>2. ~FollowUp
    BY <2>1 DEF FollowUp
  <2>3. todo[2].rung \in Rungs
    BY <2>1, <2>2 DEF FitInv, RoundOK, CaseOK, LadderCase, Rungs
  <2>q. QED BY <1>3, <2>1, <2>3
<1>q. QED BY <1>4, <1>5 DEF NextRepetition

\* What is between two rungs does not change with the samples of a third.
LEMMA OthersStay ==
    ASSUME NEW m, Served' \ {m} = Served \ {m}, Refused' \ {m} = Refused \ {m}, Tried' \ {m} = Tried \ {m}
    PROVE  /\ Launched(m)' = Launched(m)
           /\ Halved(m)' <=> Halved(m)
           /\ Halves(m)' <=> Halves(m)
<1>1. Launched(m)' = Launched(m)
  BY DEF Launched
<1>2. ASSUME NEW lo, NEW hi PROVE Between(lo, hi, m)' <=> Between(lo, hi, m)
  BY DEF Between
<1>q. QED BY <1>1, <1>2 DEF Halved, Halves

\* A rung without samples can be left out or not.
LEMMA UntriedIsOut ==
    ASSUME TypeOK, NEW m \in Nat, m \notin Tried
    PROVE  /\ Halved(m) <=> Halved(0)
           /\ \A lo, hi : Between(lo, hi, m) <=> lo \in Served /\ hi \in Refused /\ lo < hi
                             /\ (\A r \in Served : r <= lo) /\ (\A r \in Refused : r > lo => hi <= r)
<1>1. /\ Served \ {m} = Served /\ Refused \ {m} = Refused /\ Tried \ {m} = Tried
      /\ Served \ {0} = Served /\ Refused \ {0} = Refused /\ Tried \ {0} = Tried
  BY TriedIsFinite, LadderIsDistinct
<1>2. Launched(m) = Launched(0)
  BY <1>1 DEF Launched
<1>3. \A lo, hi : Between(lo, hi, m) <=> Between(lo, hi, 0)
  BY <1>1 DEF Between
<1>4. Halved(m) <=> Halved(0)
  BY <1>2, <1>3 DEF Halved
<1>q. QED BY <1>1, <1>4 DEF Between

\* A launch that halves something is one that a gap of the ladder has room for.
LEMMA LaunchFits ==
    ASSUME NEW k \in Nat, NEW n \in Nat, n >= 2, Narrowed(n, k)
    PROVE  \E i \in 1..(Len(Ladder) - 1) : Doublings(k) < Ladder[i + 1] - Ladder[i]
<1>1. PICK i \in 1..(Len(Ladder) - 1) : Doublings(k) * (n - 1) <= Gap(i) - Step
  BY DEF Narrowed
<1> DEFINE d == Doublings(k)
           g == Gap(i)
<1>2. Step \in Nat \ {0} /\ d \in Nat /\ g \in Int
  <2>1. d \in Nat
    BY DoublingsAre
  <2>2. g \in Int
    BY LadderIsDistinct DEF Gap
  <2>q. QED BY <2>1, <2>2, FitAssumption
<1>3. d * (n - 1) <= g - Step
  BY <1>1
<1> HIDE DEF d, g
<1>4. n - 1 >= 1
  BY <1>2
<1>5. d <= d * (n - 1)
  BY <1>2, <1>4
<1>6. d < g
  BY <1>2, <1>3, <1>4, <1>5
<1>q. QED BY <1>6 DEF d, g, Gap

\* A step that stores nothing, and asks for nothing new.
LEMMA LaunchesRest ==
    ASSUME FitInv, LaunchInv, UNCHANGED samples, Asked' \in {Asked, 0} PROVE LaunchInv'
<1> PICK m : m = Asked
  OBVIOUS
<1>1. Served' = Served /\ Refused' = Refused /\ Tried' = Tried /\ LadderIsStored' = LadderIsStored
  BY SameSamples DEF Served, Refused, Sent
<1>2. (Halved(m)' <=> Halved(m)) /\ (Halves(m)' <=> Halves(m)) /\ (Halved(0)' <=> Halved(0))
  BY <1>1, OthersStay
<1>3. FewLaunches'
  BY <1>1 DEF LaunchInv, FewLaunches
<1>4. AskedIsBeyond
  BY AskedIs
<1>5. CASE Asked' = m
  BY <1>1, <1>2, <1>3, <1>5 DEF LaunchInv
<1>6. CASE Asked' = 0 /\ m # 0
  <2>1. m \in Nat \ {0} /\ m \notin Rungs /\ LadderIsStored
    BY <1>4, <1>6 DEF AskedIsBeyond
  <2>2. Halved(m) /\ Halves(m)
    BY <1>6, <2>1 DEF LaunchInv
  <2>3. Halved(0)'
    BY <1>2, <2>1, <2>2, AnswerHalves DEF AnswersHalve
  <2>q. QED BY <1>3, <1>6, <2>3 DEF LaunchInv
<1>q. QED BY <1>5, <1>6

\* A sample is of the rung in hand alone.
LEMMA StoredIs ==
    ASSUME StoreSample
    PROVE  /\ Tried' = Tried \cup {Current.rung}
           /\ Served' \ {Current.rung} = Served \ {Current.rung}
           /\ Refused' \ {Current.rung} = Refused \ {Current.rung}
<1>1. PICK s : samples' = samples \cup {[rung |-> Current.rung, ordinal |-> Current.ordinal,
                                          rep |-> rep, status |-> s]}
  BY DEF StoreSample
<1> DEFINE new == [rung |-> Current.rung, ordinal |-> Current.ordinal, rep |-> rep, status |-> s]
           c == Current.rung
<1>2. new.rung = c
  OBVIOUS
<1> HIDE DEF new, c
<1>3. samples' = samples \cup {new}
  BY <1>1 DEF new
<1>4. Tried' = Tried \cup {c}
  BY <1>2, <1>3 DEF Tried
<1>5. \A r : r # c => Sent(r)' = Sent(r)
  BY <1>2, <1>3 DEF Sent
<1>6. Served' \ {c} = Served \ {c} /\ Refused' \ {c} = Refused \ {c}
  BY <1>4, <1>5 DEF Served, Refused
<1>q. QED BY <1>4, <1>6 DEF c

\* A sample of the ladder: nothing is launched yet.
LEMMA LadderLaunches ==
    ASSUME FitInv, FitInv', LaunchInv, StoreSample, ~FollowUp PROVE LaunchInv'
<1>1. pc = "case" /\ NextRepetition
  BY DEF StoreSample
<1>2. Asked' = 0
  BY <1>1, AskedAfter DEF Asked
<1>3. PICK i \in DOMAIN Ladder : todo[1] = LadderCase(i)
  BY <1>1, CurrentIs DEF FitInv, RoundOK, CaseOK
<1>4. Current \notin StoredKeys /\ Current = KeyOf(LadderCase(i), rep) /\ rep \in 1..Reps
  BY <1>1, <1>3, CurrentIs, NothingIsTaken DEF FitInv, TypeOK, StoreSample
<1>5. ~LadderIsStored
  BY <1>4 DEF LadderIsStored
<1>6. Tried' \subseteq Rungs
  <2>1. Tried' = Tried \cup {Current.rung}
    BY StoredIs
  <2>2. Current.rung \in Rungs
    BY <1>4 DEF KeyOf, LadderCase, Rungs
  <2>q. QED BY <1>5, <2>1, <2>2 DEF FitInv, CountOK
<1>7. (FitInv /\ LadderIsStored /\ Tried \subseteq Rungs => Halved(0))'
  BY LadderIsHalved, PTL
<1>8. LadderIsStored' => Halved(0)'
  BY <1>6, <1>7
<1>9. FewLaunches'
  BY <1>6 DEF FewLaunches
<1>q. QED BY <1>2, <1>8, <1>9 DEF LaunchInv

\* A sample of what was asked for: its own answer was left out already, and the
\* launch has the room that halving the others leaves it.
LEMMA FollowUpLaunches ==
    ASSUME FitInv, FitInv', LaunchInv, StoreSample, FollowUp PROVE LaunchInv'
<1>1. pc = "case" /\ NextRepetition
  BY DEF StoreSample
<1>2. PICK m : m = Asked
  OBVIOUS
<1>3. m = todo[1].rung /\ m \in Nat \ {0} /\ m \notin Rungs /\ LadderIsStored /\ m = Current.rung
  <2>1. todo[1].rung \in Nat \ {0} /\ Current.rung = todo[1].rung
    BY <1>1, CurrentIs, LadderIsDistinct DEF FitInv, Case, KeyOf
  <2>q. QED BY <1>1, <1>2, <2>1 DEF Asked, FollowUp
<1>4. Served' \ {m} = Served \ {m} /\ Refused' \ {m} = Refused \ {m} /\ Tried' = Tried \cup {m}
  BY <1>3, StoredIs
<1>5. Launched(m)' = Launched(m) /\ (Halved(m)' <=> Halved(m)) /\ (Halves(m)' <=> Halves(m))
  <2>1. Tried' \ {m} = Tried \ {m}
    BY <1>4
  <2>q. QED BY <1>4, <2>1, OthersStay
<1>6. Halved(m) /\ Halves(m)
  BY <1>2, <1>3 DEF LaunchInv
<1>7. FewLaunches'
  <2>1. PICK lo \in Nat, hi \in Nat : Between(lo, hi, m) /\ m > lo /\ m = lo + ((hi - lo) \div (2 * Step)) * Step
    BY <1>6 DEF Halves
  <2> DEFINE k == Cardinality(Launched(m))
  <2>2. PICK n \in Nat : Whole(hi - lo, n) /\ Narrowed(n, k)
    BY <1>6, <2>1 DEF Halved
  <2>3. IsFiniteSet(Launched(m)) /\ k \in Nat
    BY LaunchedIsFinite DEF FitInv
  <2>4. Tried' \ Rungs = Launched(m) \cup {m} /\ m \notin Launched(m)
    BY <1>3, <1>4 DEF Launched
  <2>5. Cardinality(Tried' \ Rungs) = k + 1
    BY <2>3, <2>4, FS_AddElement
  <2> HIDE DEF k
  <2>6. (k + 1) - 1 = k
    BY <2>3
  <2>7. \E i \in 1..(Len(Ladder) - 1) : Doublings(k) < Ladder[i + 1] - Ladder[i]
    <3>1. lo < hi
      BY <2>1 DEF Between
    <3>2. n >= 2
      BY <2>1, <2>2, <2>3, <3>1, HalvingNarrows
    <3>q. QED BY <2>2, <2>3, <3>2, LaunchFits
  <2>q. QED BY <2>5, <2>6, <2>7 DEF FewLaunches
<1>8. Asked' \in {m, 0}
  BY <1>1, <1>2, AskedAfter
<1>9. CASE Asked' = m
  BY <1>5, <1>6, <1>7, <1>9 DEF LaunchInv
<1>10. CASE Asked' = 0
  <2>1. AnswersHalve'
    BY AnswerHalves, PTL
  <2>2. Halved(0)'
    BY <1>3, <1>5, <1>6, <2>1 DEF AnswersHalve
  <2>q. QED BY <1>7, <1>10, <2>2 DEF LaunchInv
<1>q. QED BY <1>8, <1>9, <1>10

\* What is asked for next halves the bracket.
LEMMA AskLaunches ==
    ASSUME FitInv, FitInv', LaunchInv, AskNextCases PROVE LaunchInv'
<1>1. pc = "ask" /\ UNCHANGED samples /\ Asked = 0
  BY DEF AskNextCases, Asked
<1>2. CASE NextCases = <<>>
  <2>1. Asked' = 0
    BY <1>2 DEF AskNextCases, Asked
  <2>q. QED BY <1>1, <2>1, LaunchesRest
<1>3. CASE NextCases # <<>>
  <2>0. TypeOK /\ SkippedIsTooLong /\ trained \in Nat
    BY DEF FitInv
  <2>1. /\ WorthHalving /\ pc' = "case"
        /\ todo' = <<[rung |-> Middle, ordinal |-> Cardinality(Tried)]>>
    BY <1>3 DEF AskNextCases, NextCases
  <2>2. PICK m : m = Middle
    OBVIOUS
  <2>3. m \in Nat \ {0} /\ m \notin Tried
    BY <2>0, <2>1, <2>2, MiddleIsNew, LadderIsDistinct
  <2>4. LadderIsStored
    BY <1>1 DEF FitInv, RoundOK, Remaining, LadderIsStored
  <2>5. m \notin Rungs
    BY <2>3, <2>4, LadderIsTried
  <2>6. Asked' = m
    <3>1. FitInv' => AskedIsBeyond'
      BY AskedIs, PTL
    <3>2. todo'[1].rung = m
      BY <2>1, <2>2
    <3>q. QED BY <2>1, <2>5, <3>1, <3>2 DEF AskedIsBeyond
  <2>7. Served' = Served /\ Refused' = Refused /\ Tried' = Tried /\ LadderIsStored' = LadderIsStored
    BY <1>1, SameSamples DEF Served, Refused, Sent
  <2>8. Halved(m) /\ Halves(m)
    <3>1. Halved(m)
      BY <1>1, <2>0, <2>3, <2>4, UntriedIsOut DEF LaunchInv
    <3>2. /\ Low \in Nat /\ High \in Nat /\ Low \in Served /\ High \in Refused /\ Low < High
          /\ (\A r \in Served : r <= Low) /\ (\A r \in Refused : r > Low => High <= r)
      <4>1. Served \subseteq Nat /\ Refused \subseteq Nat
        BY <2>0, TriedIsFinite, LadderIsDistinct
      <4>q. QED BY <2>0, <2>1, <4>1, Brackets DEF WorthHalving
    <3>3. Between(Low, High, m)
      BY <2>0, <2>3, <3>2, UntriedIsOut
    <3>4. m > Low /\ m = Low + ((High - Low) \div (2 * Step)) * Step
      BY <2>1, <2>2 DEF WorthHalving, Middle
    <3>5. Halves(m)
      BY <3>2, <3>3, <3>4 DEF Halves
    <3>q. QED BY <3>1, <3>5
  <2>9. Halved(m)' /\ Halves(m)'
    BY <2>7, <2>8, OthersStay
  <2>10. FewLaunches'
    BY <2>7 DEF LaunchInv, FewLaunches
  <2>q. QED BY <2>6, <2>9, <2>10 DEF LaunchInv
<1>q. QED BY <1>2, <1>3

LEMMA LaunchesStep ==
    FitInv /\ FitInv' /\ LaunchInv /\ [Next]_vars => LaunchInv'
<1> SUFFICES ASSUME FitInv, FitInv', LaunchInv, [Next]_vars PROVE LaunchInv'
  OBVIOUS
<1>1. CASE EnterTest
  <2>1. todo'[1].rung \in Rungs /\ UNCHANGED samples
    <3>1. todo' = LadderCases /\ UNCHANGED samples
      BY <1>1 DEF EnterTest
    <3>2. 1 \in DOMAIN Ladder /\ LadderCases[1] = LadderCase(1)
      BY LadderCasesAre, LadderIsDistinct
    <3>3. LadderCase(1).rung = Ladder[1]
      BY DEF LadderCase
    <3>q. QED BY <3>1, <3>2, <3>3 DEF Rungs
  <2>2. FitInv' => AskedIsBeyond'
    BY AskedIs, PTL
  <2>3. Asked' = 0
    BY <2>1, <2>2 DEF AskedIsBeyond
  <2>q. QED BY <2>1, <2>3, LaunchesRest
<1>2. CASE SkipStored
  BY <1>2, AskedAfter, LaunchesRest DEF SkipStored
<1>3. CASE StoreSample /\ FollowUp
  BY <1>3, FollowUpLaunches
<1>4. CASE StoreSample /\ ~FollowUp
  BY <1>4, LadderLaunches
<1>5. CASE AskNextCases
  BY <1>5, AskLaunches
<1>6. ASSUME UNCHANGED samples, pc' # "case" PROVE LaunchInv'
  BY <1>6, LaunchesRest DEF Asked
<1>7. CASE UNCHANGED vars
  <2>1. Asked' = Asked /\ UNCHANGED samples
    BY <1>7, SameSamples DEF Asked, FollowUp, vars, stored, local
  <2>q. QED BY <2>1, LaunchesRest
<1>q. QED
  BY <1>1, <1>2, <1>3, <1>4, <1>5, <1>6, <1>7
  DEF Next, TestRaises, FinishTest, StopTest, Crash, stored

\* However the card answers and wherever it is interrupted, the search ends when its
\* bracket cannot be halved on steps any more, and launches no more servers than halvings
\* of one gap of the ladder, whatever the ladder (next_cases).
THEOREM Tight == Spec => []SearchIsTight
<1>1. Init => LaunchInv
  <2> SUFFICES ASSUME Init PROVE LaunchInv
    OBVIOUS
  <2>1. Tried = {} /\ Asked = 0
    BY DEF Init, Tried, Asked
  <2>2. ~LadderIsStored
    <3>1. Ladder[1] \in Rungs
      BY LadderIsDistinct DEF Rungs
    <3>q. QED BY <2>1, <3>1, LadderIsTried
  <2>q. QED BY <2>1, <2>2 DEF LaunchInv, FewLaunches
<1>2. FitInv /\ LaunchInv => SearchIsTight
  BY BoundaryIsFound DEF SearchIsTight, LaunchInv
<1>q. QED BY <1>1, <1>2, FitStarts, FitSteps, LaunchesStep, PTL DEF Spec

(***************************************************************************)
(* What a death leaves of a follow-up.                                     *)
(***************************************************************************)
\* A test that goes on has a short follow-up for each of its deaths at most, beside
\* the one in hand; one that raised may have had one in hand.
Open == Short \ (Rungs \cup {Asked})
ShortInv ==
    /\ row \notin {"failed", "cancelled"} /\ pc # "raised" => Cardinality(Open) <= crashes
    /\ pc = "raised" => Cardinality(Short \ Rungs) <= crashes + 1

LEMMA ShortIsFinite ==
    ASSUME TypeOK
    PROVE  /\ Short \subseteq 1..Top /\ IsFiniteSet(Short)
           /\ \A X, Y \in SUBSET Short : X \subseteq Y => Cardinality(X) <= Cardinality(Y)
           /\ \A X \in SUBSET Short : Cardinality(X) \in Nat
<1>1. Short \subseteq Tried /\ Tried \subseteq 1..Top /\ IsFiniteSet(Tried)
  BY TriedIsFinite DEF Short
<1>2. IsFiniteSet(Short)
  BY <1>1, FS_Subset
<1>3. \A X \in SUBSET Short : IsFiniteSet(X) /\ Cardinality(X) \in Nat
  BY <1>2, FS_Subset, FS_CardinalityType
<1>q. QED BY <1>1, <1>2, <1>3, FS_Subset

LEMMA SameShort == ASSUME UNCHANGED samples PROVE Short' = Short
BY SameSamples DEF Short

\* Past a follow-up, all its repetitions are stored.
LEMMA DoneIsWhole ==
    ASSUME FitInv, FitInv', pc = "case", NextRepetition, Current \in StoredKeys',
           StoredKeys \subseteq StoredKeys', Asked # 0, Asked' = 0
    PROVE  Asked \notin Short'
<1>1. AskedIsBeyond /\ AskedIsBeyond'
  <2>1. FitInv' => AskedIsBeyond'
    BY AskedIs, PTL
  <2>q. QED BY <2>1, AskedIs
<1>2. Asked = todo[1].rung /\ todo[1].rung \notin Rungs
  BY <1>1 DEF AskedIsBeyond
<1>3. ~(pc' = "case" /\ todo' = todo)
  BY <1>1, <1>2 DEF AskedIsBeyond
<1>4. ~(rep < Reps) /\ rep \in 1..Reps /\ Reps \in Nat
  BY <1>3, FitAssumption DEF NextRepetition, FitInv, TypeOK
<1>5. Current = KeyOf(todo[1], rep) /\ CaseOK
  BY CurrentIs DEF FitInv, RoundOK
<1>6. \A q \in 1..Reps : KeyOf(todo[1], q) \in StoredKeys'
  <2>1. \A q \in 1..Reps : q = rep \/ q \in 1..(rep - 1)
    BY <1>4
  <2>q. QED BY <1>5, <2>1 DEF CaseOK
<1>7. \A q \in 1..Reps : \E s \in samples' : s.rung = Asked /\ s.rep = q
  <2> SUFFICES ASSUME NEW q \in 1..Reps PROVE \E s \in samples' : s.rung = Asked /\ s.rep = q
    OBVIOUS
  <2>1. PICK s \in samples' : Key(s) = KeyOf(todo[1], q)
    BY <1>6 DEF StoredKeys
  <2>q. QED BY <1>2, <2>1 DEF Key, KeyOf
<1>q. QED BY <1>7 DEF Short

\* Measuring leaves nothing short but what is in hand.
LEMMA OpenFalls ==
    ASSUME FitInv, FitInv', SkipStored \/ StoreSample
    PROVE  Open' \subseteq Open
<1> DEFINE c == Current.rung
<1>1. pc = "case" /\ NextRepetition
  BY DEF SkipStored, StoreSample
<1>2. c = todo[1].rung
  BY <1>1, CurrentIs DEF FitInv, KeyOf
<1>3. /\ samples \subseteq samples' /\ Tried' \subseteq Tried \cup {c}
      /\ StoredKeys \subseteq StoredKeys' /\ Current \in StoredKeys'
  <2>1. CASE SkipStored
    BY <2>1, SameSamples DEF SkipStored, FitInv, RoundOK
  <2>2. CASE StoreSample
    <3>1. PICK s : samples' = samples \cup {[rung |-> Current.rung, ordinal |-> Current.ordinal,
                                             rep |-> rep, status |-> s]}
      BY <2>2 DEF StoreSample
    <3> DEFINE new == [rung |-> Current.rung, ordinal |-> Current.ordinal, rep |-> rep, status |-> s]
    <3>2. Key(new) = Current
      BY DEF Key, Current
    <3> HIDE DEF new
    <3>3. samples' = samples \cup {new}
      BY <3>1 DEF new
    <3>q. QED BY <2>2, <3>2, <3>3, StoredIs DEF StoredKeys
  <2>q. QED BY <2>1, <2>2
<1>4. \A r \in Short' : r # c => r \in Short
  BY <1>3 DEF Short
<1>5. Asked' \in {Asked, 0} /\ AskedIsBeyond
  BY <1>1, AskedAfter, AskedIs
<1>6. Asked # 0 => c = Asked
  BY <1>2, <1>5 DEF AskedIsBeyond
<1>7. Asked = 0 => c \in Rungs
  BY <1>1, <1>2, <1>5 DEF AskedIsBeyond
<1>8. Asked # 0 /\ Asked' = 0 => Asked \notin Short'
  BY <1>1, <1>3, DoneIsWhole
<1> HIDE DEF c
<1>9. Rungs' = Rungs
  BY DEF Rungs
<1>10. SUFFICES ASSUME NEW r \in Short', r \notin Rungs, r # Asked' PROVE r \in Short /\ r # Asked
  BY <1>9 DEF Open
<1>11. r # Asked
  BY <1>5, <1>8, <1>10
<1>12. 0 \notin Short'
  <2>1. (TypeOK => Short \subseteq 1..Top)'
    BY ShortIsFinite, PTL
  <2>q. QED BY <2>1, LadderIsDistinct DEF FitInv
<1>13. r # c
  BY <1>6, <1>7, <1>10, <1>11
<1>q. QED BY <1>4, <1>10, <1>11, <1>13

LEMMA ShortStep == FitInv /\ FitInv' /\ ShortInv /\ [Next]_vars => ShortInv'
<1> SUFFICES ASSUME FitInv, FitInv', ShortInv, [Next]_vars PROVE ShortInv'
  OBVIOUS
<1>1. /\ TypeOK /\ crashes \in Nat /\ Open \in SUBSET Short /\ Short \ Rungs \in SUBSET Short
      /\ pc # "away" => row = "running"
  BY FitAssumption DEF FitInv, TypeOK, Open, RoundOK
<1>2. Cardinality(Open) \in Nat /\ Cardinality(Short \ Rungs) \in Nat
  BY <1>1, ShortIsFinite
<1>3. \A X : X \subseteq Open => Cardinality(X) <= Cardinality(Open) /\ Cardinality(X) \in Nat
  BY <1>1, ShortIsFinite
<1>4. Cardinality(Short \ Rungs) <= Cardinality(Open) + 1
  <2>1. IsFiniteSet(Open)
    BY <1>1, ShortIsFinite, FS_Subset
  <2>2. /\ IsFiniteSet(Open \cup {Asked})
        /\ Cardinality(Open \cup {Asked}) = IF Asked \in Open THEN Cardinality(Open) ELSE Cardinality(Open) + 1
    BY <2>1, FS_AddElement
  <2>3. Short \ Rungs \subseteq Open \cup {Asked}
    BY DEF Open
  <2>4. Cardinality(Short \ Rungs) <= Cardinality(Open \cup {Asked})
    BY <2>2, <2>3, FS_Subset
  <2>q. QED BY <1>2, <2>2, <2>4
<1>5. ASSUME Open' \subseteq Open, UNCHANGED <<row, crashes>>, pc # "raised", pc' # "raised" PROVE ShortInv'
  <2>1. Cardinality(Open') <= Cardinality(Open) /\ Cardinality(Open') \in Nat
    BY <1>3, <1>5
  <2>2. crashes' = crashes /\ row' = row
    BY <1>5
  <2>q. QED BY <1>1, <1>2, <1>5, <2>1, <2>2 DEF ShortInv
<1>6. ASSUME UNCHANGED samples, Asked = 0 PROVE Open' \subseteq Open
  <2>1. Short' = Short /\ 0 \notin Short
    BY <1>1, <1>6, SameShort, ShortIsFinite, LadderIsDistinct
  <2>q. QED BY <1>6, <2>1 DEF Open, Rungs
<1>7. CASE SkipStored \/ StoreSample
  <2>1. pc = "case" /\ pc' \in {"case", "ask"} /\ UNCHANGED <<row, crashes>>
    <3>1. NextRepetition /\ pc = "case" /\ UNCHANGED <<row, crashes>>
      BY <1>7 DEF SkipStored, StoreSample
    <3>q. QED BY <1>1, <3>1, RepetitionTypes
  <2>q. QED BY <1>5, <1>7, <2>1, OpenFalls
<1>8. CASE EnterTest
  <2>1. pc = "away" /\ pc' = "case" /\ row \in {"pending", "running"} /\ row' = "running"
        /\ UNCHANGED <<samples, crashes>> /\ Asked = 0
    BY <1>8 DEF EnterTest, Asked
  <2>2. Open' \subseteq Open
    BY <1>6, <2>1
  <2>3. Cardinality(Open') <= Cardinality(Open) /\ Cardinality(Open') \in Nat
    BY <1>3, <2>2
  <2>4. Cardinality(Open) <= crashes
    BY <2>1 DEF ShortInv
  <2>q. QED BY <1>1, <1>2, <2>1, <2>3, <2>4 DEF ShortInv
<1>9. CASE AskNextCases
  <2>1. pc = "ask" /\ pc' \in {"case", "end"} /\ UNCHANGED <<row, samples, crashes>> /\ Asked = 0
    BY <1>9 DEF AskNextCases, Asked
  <2>q. QED BY <1>5, <1>6, <2>1
<1>10. CASE TestRaises
  <2>1. pc \in {"case", "ask"} /\ pc' = "raised" /\ UNCHANGED <<row, samples, crashes>>
    BY <1>10 DEF TestRaises, stored
  <2>2. Short' = Short /\ Rungs' = Rungs
    BY <2>1, SameShort DEF Rungs
  <2>q. QED BY <1>1, <1>2, <1>4, <2>1, <2>2 DEF ShortInv
<1>11. CASE FinishTest
  <2>1. pc \in {"end", "raised"} /\ pc' = "away" /\ UNCHANGED <<samples, crashes>> /\ Asked = 0
        /\ row' = IF pc = "end" THEN "completed" ELSE "failed"
    BY <1>11 DEF FinishTest, Asked
  <2>q. QED BY <1>1, <1>2, <1>3, <1>6, <2>1 DEF ShortInv
<1>12. CASE StopTest
  BY <1>12 DEF StopTest, ShortInv
<1>13. CASE Crash
  <2>1. pc # "away" /\ pc' = "away" /\ crashes' = crashes + 1 /\ UNCHANGED <<row, samples>>
    BY <1>13 DEF Crash, stored
  <2>2. Short' = Short /\ Rungs' = Rungs
    BY <2>1, SameShort DEF Rungs
  <2>3. Open' \subseteq Short \ Rungs
    BY <2>2 DEF Open
  <2>4. Cardinality(Open') <= Cardinality(Short \ Rungs) /\ Cardinality(Open') \in Nat
    BY <1>1, <2>3, ShortIsFinite
  <2>5. Cardinality(Short \ Rungs) <= crashes + 1
    BY <1>1, <1>2, <1>4, <2>1 DEF ShortInv
  <2>q. QED BY <1>1, <1>2, <2>1, <2>4, <2>5 DEF ShortInv
<1>14. CASE UNCHANGED vars
  <2>1. UNCHANGED <<row, pc, crashes>> /\ Short' = Short /\ Rungs' = Rungs /\ Asked' = Asked
    BY <1>14, SameShort, SameSamples DEF vars, stored, local, Asked, FollowUp, Rungs
  <2>q. QED BY <2>1 DEF ShortInv, Open
<1>q. QED BY <1>7, <1>8, <1>9, <1>10, <1>11, <1>12, <1>13, <1>14 DEF Next

\* However often a test was interrupted, it never collides with what it has, it goes on
\* with every repetition of its ladder that it has not, what a death cuts short for good
\* is a follow-up, at most one for each death, and its cases are counted right.
THEOREM Resume == Spec => []ResumeIsExact
<1>1. Init => ShortInv
  <2> SUFFICES ASSUME Init PROVE ShortInv
    OBVIOUS
  <2>1. samples = {} /\ pc = "away" /\ crashes = 0
    BY DEF Init
  <2>2. Open = {}
    BY <2>1 DEF Open, Short, Tried
  <2>q. QED BY <2>1, <2>2, FS_EmptySet DEF ShortInv
<1>2. FitInv /\ ShortInv => ResumeIsExact
  <2> SUFFICES ASSUME FitInv, ShortInv PROVE ResumeIsExact
    OBVIOUS
  <2>1. ResumeNeverCollides
    BY DEF FitInv, EndOK, ResumeNeverCollides
  <2>2. row = "completed" => ~WorthHalving
    <3> SUFFICES ASSUME row = "completed", WorthHalving PROVE FALSE
      OBVIOUS
    <3>1. Middle \notin Tried
      BY MiddleIsNew DEF FitInv
    <3>2. NextCases # <<>>
      BY <3>1 DEF NextCases
    <3>q. QED BY <3>2 DEF FitInv, EndOK
  <2>3. TotalIsTrue
    BY <2>2 DEF FitInv, EndOK, CountOK, TotalIsTrue
  <2>4. OnlyFollowUpsAreShort
    <3> SUFFICES ASSUME row = "completed" PROVE Short \cap Rungs = {} /\ Cardinality(Short) <= crashes
      BY DEF OnlyFollowUpsAreShort
    <3>1. LadderIsStored /\ pc = "away" /\ Asked = 0
      BY DEF FitInv, EndOK, RoundOK, Asked
    <3>2. ASSUME NEW i \in DOMAIN Ladder PROVE Ladder[i] \notin Short
      <4>1. \A q \in 1..Reps : \E s \in samples : s.rung = Ladder[i] /\ s.rep = q
        <5> SUFFICES ASSUME NEW q \in 1..Reps PROVE \E s \in samples : s.rung = Ladder[i] /\ s.rep = q
          OBVIOUS
        <5>1. PICK s \in samples : Key(s) = KeyOf(LadderCase(i), q)
          BY <3>1, <3>2 DEF LadderIsStored, StoredKeys
        <5>q. QED BY <5>1 DEF Key, KeyOf, LadderCase
      <4>q. QED BY <4>1 DEF Short
    <3>3. Short \cap Rungs = {}
      BY <3>2 DEF Rungs
    <3>4. 0 \notin Short
      BY ShortIsFinite, LadderIsDistinct DEF FitInv
    <3>5. Open = Short
      BY <3>1, <3>3, <3>4 DEF Open
    <3>q. QED BY <3>1, <3>3, <3>5 DEF ShortInv
  <2>q. QED BY <2>1, <2>3, <2>4 DEF ResumeIsExact
<1>q. QED BY <1>1, <1>2, FitStarts, FitSteps, ShortStep, PTL DEF Spec

(***************************************************************************)
(* The recorder.                                                           *)
(***************************************************************************)
Phases == {"queued", "settle", "measure", "recorded", "stopping", "aggregate", "finish"} \cup Terminal
Wait == [consecutive : Nat, best : Nat, worst : Readings, seen : Seq(BOOLEAN)]
Degradation == [attempt : Nat, best : Nat, worst : Readings]

TelemetryTypes ==
    /\ config \in Configs
    /\ phase \in Phases /\ leaving \in {"aggregate", "failed", "cancelled"}
    /\ idle \in Wait
    /\ degradations \in Seq(Degradation)
    /\ worker \in {"off", "waiting", "holding"} /\ stopped \in BOOLEAN
    /\ held.time \in Nat /\ clock \in Nat
    /\ hosts \in Seq(Nat) /\ endRows \in Nat /\ attempts \in Nat

\* The sampler's thread lives from the start of the measurement to its end; one
\* that is left behind was told to stop, and has at most the row it is writing to
\* add to those there were when the run ended.
RecorderFollowsTheRun ==
    /\ phase \in {"queued", "settle", "measure"} => worker = "off"
    /\ phase \in {"aggregate", "finish"} \cup Terminal =>
          worker # "waiting" /\ (worker = "holding" => stopped)
    /\ phase \in Terminal => Len(hosts) <= endRows + (IF worker = "holding" THEN 0 ELSE 1)

\* What an observation reads of the devices is a reading.
LEMMA BusiestIsReading ==
    ASSUME NEW snapshot \in Snapshots
    PROVE  BusiestGpuPercent(snapshot) \in Readings
<1>1. PICK visible \in SUBSET Devices : snapshot.gpus \in [visible -> Readings]
  BY DEF Snapshots
<1>2. DEFINE S == {Unsupported} \cup {snapshot.gpus[d] : d \in DOMAIN snapshot.gpus}
<1>3. S \subseteq Readings /\ Unsupported \in S
  BY <1>1 DEF Readings
<1>4. \E x \in S : \A y \in S : x >= y
  BY <1>3 DEF Readings, Unsupported
<1>5. Max(S) \in S
  BY <1>4 DEF Max
<1>q. QED BY <1>3, <1>5 DEF BusiestGpuPercent

LEMMA ObserveType ==
    ASSUME NEW waited \in Wait, NEW snapshot \in Snapshots
    PROVE  Observe(waited, snapshot) \in Wait
<1>1. BusiestGpuPercent(snapshot) \in Readings
  BY BusiestIsReading
<1>2. Busy(snapshot) \in BOOLEAN
  BY DEF Busy
<1>3. Append(waited.seen, Busy(snapshot)) \in Seq(BOOLEAN)
  BY <1>2 DEF Wait
<1>q. QED BY <1>1, <1>3 DEF Observe, Wait, Readings, Unsupported

LEMMA RecordAddsARow ==
    ASSUME Record PROVE hosts' = Append(hosts, held.time) \/ hosts' = hosts
BY Zenon DEF Record

LEMMA TelemetryTyped == TelemetrySpec => []TelemetryTypes
<1>1. TelemetryInit => TelemetryTypes
  <2>1. NotWaiting \in Wait
    BY DEF NotWaiting, Wait, Readings, Unsupported
  <2>2. <<>> \in Seq(Nat) /\ <<>> \in Seq(Degradation)
    BY EmptySeq
  <2>3. NothingHeld.time \in Nat
    BY DEF NothingHeld
  <2>4. TelemetryInit => hosts \in Seq(Nat) /\ degradations \in Seq(Degradation)
    BY <2>2, Zenon DEF TelemetryInit
  <2>5. TelemetryInit => held.time \in Nat /\ idle \in Wait
    BY <2>1, <2>3 DEF TelemetryInit
  <2>6. TelemetryInit =>
           /\ config \in Configs /\ phase = "queued" /\ leaving = "aggregate"
           /\ worker = "off" /\ stopped = FALSE /\ clock = 1 /\ endRows = 0 /\ attempts = 0
    BY Zenon DEF TelemetryInit
  <2>7. TelemetryInit => phase \in Phases BY <2>6 DEF Phases
  <2>8. TelemetryInit => stopped \in BOOLEAN BY <2>6
  <2>9. TelemetryInit => clock \in Nat /\ endRows \in Nat /\ attempts \in Nat BY <2>6
  <2>q. QED BY <2>4, <2>5, <2>6, <2>7, <2>8, <2>9 DEF TelemetryTypes
<1>2. TelemetryTypes /\ [TelemetryNext]_telemetryVars => TelemetryTypes'
  <2> SUFFICES ASSUME TelemetryTypes, [TelemetryNext]_telemetryVars PROVE TelemetryTypes'
    OBVIOUS
  <2> USE DEF TelemetryTypes, Phases, Terminal
  <2>1. CASE Claim
    BY <2>1 DEF Claim, recorderVars, NotWaiting, Wait, Readings, Unsupported
  <2>2. CASE SkipTheWait BY <2>2 DEF SkipTheWait, recorderVars
  <2>3. CASE WaitForIdle
    <3>1. PICK snapshot \in Waited, timedOut \in BOOLEAN :
             LET waited == Observe(idle, snapshot)
                 settled == waited.consecutive >= Required
             IN  /\ idle' = waited
                 /\ phase' = IF settled THEN "measure"
                             ELSE IF ~timedOut THEN "settle"
                             ELSE IF config.refuse THEN "failed" ELSE "measure"
                 /\ degradations' = IF ~settled /\ timedOut /\ ~config.refuse
                                    THEN Append(degradations, [attempt |-> attempts, best |-> waited.best,
                                                               worst |-> waited.worst])
                                    ELSE degradations
      BY <2>3 DEF WaitForIdle
    <3>2. idle' \in Wait
      BY <3>1, ObserveType, TelemetryAssumption
    <3>3. phase' \in Phases
      BY <3>1
    <3>4. degradations' \in Seq(Degradation)
      <4>1. [attempt |-> attempts, best |-> idle'.best, worst |-> idle'.worst]
               \in Degradation
        BY <3>2 DEF Wait, Degradation
      <4>2. \/ degradations' = degradations
            \/ degradations' = Append(degradations, [attempt |-> attempts, best |-> idle'.best,
                                                     worst |-> idle'.worst])
        BY <3>1
      <4>3. Append(degradations, [attempt |-> attempts, best |-> idle'.best, worst |-> idle'.worst])
               \in Seq(Degradation)
        BY <4>1, AppendProperties
      <4>q. QED BY <4>2, <4>3
    <3>q. QED BY <2>3, <3>2, <3>3, <3>4 DEF WaitForIdle, recorderVars
  <2>4. CASE StartRecorder BY <2>4 DEF StartRecorder
  <2>5. CASE NoRecorder BY <2>5 DEF NoRecorder, recorderVars
  <2>6. CASE Sample
    <3>1. clock' \in Nat /\ held'.time \in Nat
      BY <2>6 DEF Sample
    <3>q. QED BY <2>6, <3>1 DEF Sample, runVars
  <2>7. CASE Record
    <3>1. hosts' \in Seq(Nat)
      <4>1. Append(hosts, held.time) \in Seq(Nat)
        BY AppendProperties
      <4>q. QED BY <2>7, <4>1, RecordAddsARow
    <3>q. QED BY <2>7, <3>1 DEF Record, runVars, NothingHeld
  <2>8. CASE LeaveMeasurement BY <2>8 DEF LeaveMeasurement, recorderVars
  <2>9. CASE StopRecorder BY <2>9 DEF StopRecorder
  <2>10. CASE AggregateRun BY <2>10 DEF AggregateRun, recorderVars
  <2>11. CASE Finish BY <2>11 DEF Finish, recorderVars
  <2>12. CASE ReaggregateRun BY <2>12 DEF ReaggregateRun, recorderVars
  <2>13. CASE ProcessDies BY <2>13 DEF ProcessDies, NothingHeld
  <2>14. CASE UNCHANGED telemetryVars BY <2>14 DEF telemetryVars, runVars, recorderVars
  <2>q. QED BY <2>1, <2>2, <2>3, <2>4, <2>5, <2>6, <2>7, <2>8, <2>9, <2>10, <2>11, <2>12, <2>13, <2>14
            DEF TelemetryNext
<1>q. QED BY <1>1, <1>2, PTL DEF TelemetrySpec

\* However a run ends, its recording ends with it, but for the one row a thread
\* that outlived its join was already writing.
THEOREM RecordingEnds == TelemetrySpec => []RecordingEndsWithTheRun
<1>1. TelemetryInit => RecorderFollowsTheRun
  BY DEF TelemetryInit, RecorderFollowsTheRun, Terminal
<1>2. TelemetryTypes /\ TelemetryTypes' /\ RecorderFollowsTheRun /\ [TelemetryNext]_telemetryVars
        => RecorderFollowsTheRun'
  <2> SUFFICES ASSUME TelemetryTypes, TelemetryTypes', RecorderFollowsTheRun,
                      [TelemetryNext]_telemetryVars
               PROVE  RecorderFollowsTheRun'
    OBVIOUS
  <2>0. Len(hosts) \in Nat /\ Len(hosts)' \in Nat /\ endRows \in Nat
    BY DEF TelemetryTypes
  <2> USE DEF RecorderFollowsTheRun, Terminal
  <2>1. CASE Claim BY <2>1 DEF Claim, recorderVars
  <2>2. CASE SkipTheWait BY <2>2 DEF SkipTheWait, recorderVars
  <2>3. CASE WaitForIdle
    <3>1. worker = "off" /\ UNCHANGED <<worker, hosts>> /\ endRows' = Len(hosts)
      BY <2>3 DEF WaitForIdle, recorderVars
    <3>2. phase' \in {"measure", "settle", "failed"}
      BY <2>3 DEF WaitForIdle
    <3>q. QED BY <2>0, <3>1, <3>2
  <2>4. CASE StartRecorder BY <2>4 DEF StartRecorder
  <2>5. CASE NoRecorder BY <2>5 DEF NoRecorder, recorderVars
  <2>6. CASE Sample
    <3>1. phase \in {"recorded", "stopping"} /\ UNCHANGED phase
      BY <2>6 DEF Sample, runVars, TelemetryTypes, Phases
    <3>q. QED BY <3>1
  <2>7. CASE Record
    <3>1. worker = "holding" /\ worker' = (IF stopped THEN "off" ELSE "waiting")
      BY <2>7 DEF Record
    <3>2. Len(hosts)' <= Len(hosts) + 1
      BY <2>7, RecordAddsARow DEF TelemetryTypes
    <3>3. UNCHANGED <<phase, endRows, stopped>>
      BY <2>7 DEF Record, runVars
    <3>q. QED BY <2>0, <3>1, <3>2, <3>3
  <2>8. CASE LeaveMeasurement BY <2>8 DEF LeaveMeasurement, recorderVars
  <2>9. CASE StopRecorder BY <2>0, <2>9 DEF StopRecorder, TelemetryTypes
  <2>10. CASE AggregateRun BY <2>10 DEF AggregateRun, recorderVars
  <2>11. CASE Finish BY <2>0, <2>11 DEF Finish, recorderVars
  <2>12. CASE ReaggregateRun BY <2>12 DEF ReaggregateRun, recorderVars
  <2>13. CASE ProcessDies BY <2>13 DEF ProcessDies
  <2>14. CASE UNCHANGED telemetryVars BY <2>14 DEF telemetryVars, runVars, recorderVars
  <2>q. QED BY <2>1, <2>2, <2>3, <2>4, <2>5, <2>6, <2>7, <2>8, <2>9, <2>10, <2>11, <2>12, <2>13, <2>14
            DEF TelemetryNext
<1>3. TelemetryTypes /\ RecorderFollowsTheRun => RecordingEndsWithTheRun
  BY DEF TelemetryTypes, RecorderFollowsTheRun, RecordingEndsWithTheRun, Terminal
<1>q. QED BY <1>1, <1>2, <1>3, TelemetryTyped, PTL DEF TelemetrySpec

(***************************************************************************)
(* The wait for an idle machine.                                           *)
(***************************************************************************)
QuietAt(waited, n) == n >= Required /\ \A i \in (n - Required + 1)..n : ~waited.seen[i]

\* The counter of a wait is the length of its last stretch of quiet observations.
Counted(waited) ==
    /\ waited.consecutive <= Len(waited.seen)
    /\ \A i \in (Len(waited.seen) - waited.consecutive + 1)..Len(waited.seen) : ~waited.seen[i]
    /\ waited.consecutive < Len(waited.seen) => waited.seen[Len(waited.seen) - waited.consecutive]

\* No earlier stretch was long enough, and a wait that goes on has none yet.
WaitIsCounted ==
    /\ Counted(idle)
    /\ \A n \in 1..(Len(idle.seen) - 1) : ~QuietAt(idle, n)
    /\ phase = "settle" => idle.consecutive < Required

\* A wait that was given up has failed its run, or has left a note.
BusyIsAdmitted ==
    /\ config.refuse => degradations = <<>>
    /\ phase \notin {"queued", "settle"} /\ config.collector /\ config.check =>
          \/ idle.consecutive >= Required
          \/ phase = "failed" /\ config.refuse
          \/ \E i \in DOMAIN degradations :
                degradations[i].attempt = attempts /\ degradations[i].worst = idle.worst

LEMMA CountTellsQuiet ==
    ASSUME NEW waited \in Wait, Counted(waited)
    PROVE  QuietAt(waited, Len(waited.seen)) <=> waited.consecutive >= Required
<1> DEFINE n == Len(waited.seen)
           c == waited.consecutive
<1>0. n \in Nat /\ c \in Nat /\ Required \in Nat \ {0}
  BY TelemetryAssumption DEF Wait
<1>1. ASSUME c >= Required PROVE QuietAt(waited, n)
  BY <1>0, <1>1 DEF Counted, QuietAt
<1>2. ASSUME c < Required, n >= Required PROVE ~QuietAt(waited, n)
  <2>1. waited.seen[n - c]
    BY <1>0, <1>2 DEF Counted
  <2>2. n - c \in (n - Required + 1)..n
    BY <1>0, <1>2
  <2>q. QED BY <2>1, <2>2 DEF QuietAt
<1>3. ASSUME c < Required, n < Required PROVE ~QuietAt(waited, n)
  BY <1>0, <1>3 DEF QuietAt
<1>q. QED BY <1>0, <1>1, <1>2, <1>3

\* One more observation.
LEMMA ObserveAppends ==
    ASSUME NEW waited \in Wait, NEW snapshot \in Snapshots
    PROVE  LET next == Observe(waited, snapshot)
           IN  /\ Len(next.seen) = Len(waited.seen) + 1
               /\ \A i \in 1..Len(waited.seen) : next.seen[i] = waited.seen[i]
               /\ next.seen[Len(waited.seen) + 1] = Busy(snapshot)
<1>1. waited.seen \in Seq(BOOLEAN) /\ Busy(snapshot) \in BOOLEAN
  BY DEF Wait, Busy
<1>2. Observe(waited, snapshot).seen = Append(waited.seen, Busy(snapshot))
  BY DEF Observe
<1>q. QED BY <1>1, <1>2, AppendProperties

LEMMA ObserveCounts ==
    ASSUME NEW waited \in Wait, NEW snapshot \in Snapshots, Counted(waited)
    PROVE  Counted(Observe(waited, snapshot))
<1> DEFINE next == Observe(waited, snapshot)
           n == Len(waited.seen)
           c == waited.consecutive
<1> SUFFICES Counted(next)
  OBVIOUS
<1>0. n \in Nat /\ c \in Nat /\ c <= n
  BY DEF Wait, Counted
<1>1. /\ Len(next.seen) = n + 1
      /\ \A i \in 1..n : next.seen[i] = waited.seen[i]
      /\ next.seen[n + 1] = Busy(snapshot)
  BY ObserveAppends
<1>2. CASE Busy(snapshot)
  <2>1. next.consecutive = 0
    BY <1>2 DEF Observe
  <2>2. Len(next.seen) - next.consecutive = n + 1
    BY <1>0, <1>1, <2>1
  <2>3. next.seen[Len(next.seen) - next.consecutive]
    BY <1>1, <1>2, <2>2
  <2> HIDE DEF next, n, c
  <2>4. \A i \in (Len(next.seen) - next.consecutive + 1)..Len(next.seen) : ~next.seen[i]
    BY <1>0, <1>1, <2>2
  <2>q. QED BY <1>0, <1>1, <2>1, <2>3, <2>4 DEF Counted
<1>3. CASE ~Busy(snapshot)
  <2>1. next.consecutive = c + 1
    BY <1>3 DEF Observe
  <2>2. /\ \A i \in (n - c + 1)..n : ~waited.seen[i]
        /\ c < n => waited.seen[n - c]
    BY DEF Counted
  <2> HIDE DEF next, n, c
  <2>3. \A i \in (n - c + 1)..(n + 1) : ~next.seen[i]
    BY <1>0, <1>1, <1>3, <2>2
  <2>4. c + 1 < n + 1 => next.seen[n - c]
    BY <1>0, <1>1, <2>2
  <2>q. QED BY <1>0, <1>1, <2>1, <2>3, <2>4 DEF Counted
<1>q. QED BY <1>2, <1>3

LEMMA ObserveKeepsThePast ==
    ASSUME NEW waited \in Wait, NEW snapshot \in Snapshots, NEW n \in 1..Len(waited.seen)
    PROVE  QuietAt(Observe(waited, snapshot), n) <=> QuietAt(waited, n)
<1>1. Len(waited.seen) \in Nat /\ Required \in Nat \ {0}
  BY TelemetryAssumption DEF Wait
<1>2. \A i \in 1..Len(waited.seen) : Observe(waited, snapshot).seen[i] = waited.seen[i]
  BY ObserveAppends
<1>3. n >= Required => (n - Required + 1)..n \subseteq 1..Len(waited.seen)
  BY <1>1
<1>q. QED BY <1>2, <1>3 DEF QuietAt

LEMMA WaitIsCountedAlways == TelemetrySpec => []WaitIsCounted
<1>1. TelemetryInit => WaitIsCounted
  <2>1. TelemetryInit => idle = NotWaiting /\ phase = "queued"
    BY Zenon DEF TelemetryInit
  <2>2. Len(NotWaiting.seen) = 0 /\ NotWaiting.consecutive = 0
    BY DEF NotWaiting
  <2>q. QED BY <2>1, <2>2 DEF WaitIsCounted, Counted
<1>2. TelemetryTypes /\ WaitIsCounted /\ [TelemetryNext]_telemetryVars => WaitIsCounted'
  <2> SUFFICES ASSUME TelemetryTypes, WaitIsCounted, [TelemetryNext]_telemetryVars
               PROVE  WaitIsCounted'
    OBVIOUS
  <2>1. CASE Claim
    <3>1. Len(idle'.seen) = 0 /\ idle'.consecutive = 0
      BY <2>1 DEF Claim, NotWaiting
    <3>2. Required \in Nat \ {0}
      BY TelemetryAssumption
    <3>q. QED BY <3>1, <3>2 DEF WaitIsCounted, Counted
  <2>2. CASE WaitForIdle
    <3>1. PICK snapshot \in Waited :
             /\ idle' = Observe(idle, snapshot)
             /\ phase' = "settle" => ~(idle'.consecutive >= Required)
      BY <2>2 DEF WaitForIdle
    <3>2. snapshot \in Snapshots /\ Required \in Nat
      BY TelemetryAssumption
    <3>3. idle \in Wait /\ idle' \in Wait /\ Counted(idle)
      BY <3>1, <3>2, ObserveType DEF TelemetryTypes, WaitIsCounted
    <3>4. Counted(idle')
      BY <3>1, <3>2, <3>3, ObserveCounts
    <3>5. phase = "settle"
      BY <2>2 DEF WaitForIdle
    <3>6. ~QuietAt(idle, Len(idle.seen))
      BY <3>2, <3>3, <3>5, CountTellsQuiet DEF WaitIsCounted, Wait
    <3>7. Len(idle'.seen) = Len(idle.seen) + 1 /\ Len(idle.seen) \in Nat
      BY <3>1, <3>2, <3>3, ObserveAppends DEF Wait
    <3>8. \A n \in 1..Len(idle.seen) : ~QuietAt(idle, n)
      BY <3>6, <3>7 DEF WaitIsCounted
    <3>9. \A n \in 1..(Len(idle'.seen) - 1) : ~QuietAt(idle', n)
      BY <3>1, <3>2, <3>3, <3>7, <3>8, ObserveKeepsThePast
    <3>10. phase' = "settle" => idle'.consecutive < Required
      BY <3>1, <3>2, <3>3 DEF Wait
    <3>q. QED BY <3>4, <3>9, <3>10 DEF WaitIsCounted, Counted, QuietAt
  <2>3. ASSUME UNCHANGED idle, phase' = "settle" => phase = "settle" PROVE WaitIsCounted'
    BY <2>3 DEF WaitIsCounted, Counted, QuietAt
  <2>q. QED
    BY <2>1, <2>2, <2>3 DEF TelemetryNext, SkipTheWait, StartRecorder, NoRecorder, Sample, Record,
       LeaveMeasurement, StopRecorder, AggregateRun, Finish, ReaggregateRun, ProcessDies,
       telemetryVars, runVars, TelemetryTypes
<1>q. QED BY <1>1, <1>2, TelemetryTyped, PTL DEF TelemetrySpec

LEMMA BusyIsAdmittedAlways == TelemetrySpec => []BusyIsAdmitted
<1>1. TelemetryInit => BusyIsAdmitted
  BY Zenon DEF TelemetryInit, BusyIsAdmitted
<1>2. TelemetryTypes /\ BusyIsAdmitted /\ [TelemetryNext]_telemetryVars => BusyIsAdmitted'
  <2> SUFFICES ASSUME TelemetryTypes, BusyIsAdmitted, [TelemetryNext]_telemetryVars
               PROVE  BusyIsAdmitted'
    OBVIOUS
  <2>1. CASE Claim
    BY <2>1 DEF Claim, BusyIsAdmitted
  <2>2. CASE SkipTheWait
    BY <2>2 DEF SkipTheWait, BusyIsAdmitted
  <2>3. CASE WaitForIdle
    <3>0. PICK snapshot \in Waited, timedOut \in BOOLEAN :
             LET settled == idle'.consecutive >= Required
             IN  /\ idle' = Observe(idle, snapshot)
                 /\ phase' = IF settled THEN "measure"
                             ELSE IF ~timedOut THEN "settle"
                             ELSE IF config.refuse THEN "failed" ELSE "measure"
                 /\ degradations' = IF ~settled /\ timedOut /\ ~config.refuse
                                    THEN Append(degradations, [attempt |-> attempts, best |-> idle'.best,
                                                               worst |-> idle'.worst])
                                    ELSE degradations
      BY <2>3 DEF WaitForIdle
    <3>1. UNCHANGED <<config, attempts>>
      BY <2>3 DEF WaitForIdle
    <3>2. CASE idle'.consecutive >= Required \/ phase' = "settle" \/ config.refuse
      BY <3>0, <3>1, <3>2 DEF BusyIsAdmitted
    <3>3. CASE ~(idle'.consecutive >= Required) /\ phase' # "settle" /\ ~config.refuse
      <4> DEFINE note == [attempt |-> attempts, best |-> idle'.best, worst |-> idle'.worst]
      <4>1. degradations' = Append(degradations, note)
        BY <3>0, <3>3
      <4>2. note \in Degradation /\ degradations \in Seq(Degradation)
        <5>1. idle' \in Wait
          BY <3>0, ObserveType, TelemetryAssumption DEF TelemetryTypes
        <5>q. QED BY <5>1 DEF Wait, Degradation, TelemetryTypes
      <4>3. note.attempt = attempts /\ note.worst = idle'.worst
        OBVIOUS
      <4> HIDE DEF note
      <4>4. /\ Len(degradations) + 1 \in DOMAIN degradations'
            /\ degradations'[Len(degradations) + 1] = note
        <5>1. Append(degradations, note) \in Seq(Degradation)
          BY <4>2, AppendProperties
        <5>2. /\ Len(Append(degradations, note)) = Len(degradations) + 1
              /\ Append(degradations, note)[Len(degradations) + 1] = note
          BY <4>2, AppendProperties
        <5>3. DOMAIN Append(degradations, note) = 1..(Len(degradations) + 1)
          BY <5>1, <5>2
        <5>q. QED BY <4>1, <4>2, <5>2, <5>3
      <4>5. \E i \in DOMAIN degradations' :
               degradations'[i].attempt = attempts' /\ degradations'[i].worst = idle'.worst
        BY <3>1, <4>3, <4>4
      <4>q. QED BY <3>1, <3>3, <4>5 DEF BusyIsAdmitted
    <3>q. QED BY <3>2, <3>3
  <2>4. ASSUME UNCHANGED <<config, idle, degradations, attempts>>, phase # "failed",
               phase' \notin {"queued", "settle"} => phase \notin {"queued", "settle"}
        PROVE  BusyIsAdmitted'
    BY <2>4 DEF BusyIsAdmitted
  <2>5. ASSUME UNCHANGED <<config, idle, degradations, attempts, phase>> PROVE BusyIsAdmitted'
    BY <2>5 DEF BusyIsAdmitted
  <2>6. CASE StartRecorder \/ NoRecorder \/ LeaveMeasurement \/ StopRecorder \/ AggregateRun
             \/ Finish \/ ProcessDies
    <3>1. UNCHANGED <<config, idle, degradations, attempts>> /\ phase # "failed"
      BY <2>6 DEF StartRecorder, NoRecorder, LeaveMeasurement, StopRecorder, AggregateRun, Finish,
         ProcessDies
    <3>2. phase' \notin {"queued", "settle"} => phase \notin {"queued", "settle"}
      BY <2>6 DEF StartRecorder, NoRecorder, LeaveMeasurement, StopRecorder, AggregateRun, Finish,
         ProcessDies
    <3>q. QED BY <2>4, <3>1, <3>2
  <2>7. CASE Sample \/ Record \/ ReaggregateRun \/ UNCHANGED telemetryVars
    <3>1. Sample \/ Record => UNCHANGED runVars
      BY Zenon DEF Sample, Record
    <3>q. QED BY <2>5, <2>7, <3>1 DEF ReaggregateRun, telemetryVars, runVars
  <2>q. QED BY <2>1, <2>2, <2>3, <2>6, <2>7 DEF TelemetryNext
<1>q. QED BY <1>1, <1>2, TelemetryTyped, PTL DEF TelemetrySpec

\* Whatever the machine was seen doing, a run that measured it waited for it to be
\* quiet exactly as long as it was told to, or says that it did not.
THEOREM QuietMachine == TelemetrySpec => []MeasuredMachineWasQuiet
<1>1. TelemetryTypes /\ WaitIsCounted /\ BusyIsAdmitted => MeasuredMachineWasQuiet
  <2> SUFFICES ASSUME TelemetryTypes, WaitIsCounted, BusyIsAdmitted
               PROVE  MeasuredMachineWasQuiet
    OBVIOUS
  <2>1. QuietAt(idle, Len(idle.seen)) <=> idle.consecutive >= Required
    BY CountTellsQuiet DEF TelemetryTypes, WaitIsCounted
  <2>2. \A n \in 1..(Len(idle.seen) - 1) : ~QuietAt(idle, n)
    BY DEF WaitIsCounted
  <2>q. QED BY <2>1, <2>2 DEF BusyIsAdmitted, MeasuredMachineWasQuiet, QuietAt
<1>q. QED BY <1>1, TelemetryTyped, WaitIsCountedAlways, BusyIsAdmittedAlways, PTL

(***************************************************************************)
(* What is read back of a recording.                                       *)
(***************************************************************************)
DevicesRead == UNION {[visible -> Readings] : visible \in SUBSET Devices}
Observations == [time : Nat \ {0}, gpus : DevicesRead]

\* What was read of a device at an instant.
Read(d, t) == {truth[i].gpus[d] : i \in {j \in DOMAIN truth : truth[j].time = t /\ d \in DOMAIN truth[j].gpus}}

\* A thread that holds an observation has taken it.
TruthGrows ==
    /\ truth \in Seq(Observations) /\ clock \in Nat \ {0}
    /\ \A i \in DOMAIN truth : truth[i].time <= clock
    /\ worker = "holding" => \E i \in DOMAIN truth : held = truth[i]

\* A r is of a host r, says what was read then, and there is one of a device and a host r.
GpuRowsAreTrue ==
    /\ IsFiniteSet(gpus)
    /\ \A r \in gpus : /\ r.host \in DOMAIN hosts /\ r.time = hosts[r.host] /\ r.gpu \in Devices
                         /\ r.time <= clock /\ r.time \in Nat \ {0}
                         /\ r.reading \in Read(r.gpu, r.time)
    /\ \A a, b \in gpus : a.host = b.host /\ a.gpu = b.gpu => a = b

FiguresAreRead(f) ==
    /\ f.peak # Unsupported => ~config.multiGpu /\ \E t \in 1..clock : f.peak \in Read(Target, t)
    /\ f.samples \in Nat /\ f.samples <= Len(hosts)

RecordingInv == TruthGrows /\ GpuRowsAreTrue /\ FiguresAreRead(figures) /\ FiguresAreRead(metrics)

\* What was read stays read.
LEMMA ReadStays ==
    ASSUME TruthGrows, NEW o, truth' = truth \/ truth' = Append(truth, o), NEW d, NEW t
    PROVE  Read(d, t) \subseteq Read(d, t)'
<1>1. CASE truth' = truth
  BY <1>1 DEF Read
<1>2. CASE truth' = Append(truth, o)
  <2> DEFINE n == Len(truth)
  <2>1. n \in Nat /\ DOMAIN truth = 1..n /\ truth = [i \in 1..n |-> truth[i]]
    BY DEF TruthGrows
  <2>2. DOMAIN truth' = 1..n + 1 /\ \A i \in 1..n : truth'[i] = truth[i]
    BY <1>2, <2>1
  <2> HIDE DEF n
  <2>3. \A i \in DOMAIN truth : i \in DOMAIN truth' /\ truth'[i] = truth[i]
    BY <2>1, <2>2
  <2>q. QED BY <2>3 DEF Read
<1>q. QED BY <1>1, <1>2

LEMMA RowsReadBack ==
    ASSUME TelemetryTypes, GpuRowsAreTrue
    PROVE  /\ ListGpuForRun \subseteq gpus
           /\ Len(ListForRun) \in Nat /\ Len(ListForRun) <= Len(hosts) /\ Len(hosts) \in Nat
           /\ DOMAIN ListForRun = 1..Len(ListForRun) /\ DOMAIN hosts = 1..Len(hosts)
           /\ Len(hosts) <= HostLimit => Len(ListForRun) = Len(hosts)
           /\ Cardinality(gpus) <= GpuLimit => ListGpuForRun = gpus
<1> DEFINE n == Len(hosts)
           m == IF n < HostLimit THEN n ELSE HostLimit
<1>1. n \in Nat /\ m \in 0..n /\ DOMAIN hosts = 1..n /\ hosts \in Seq(Nat) /\ (n <= HostLimit => m = n)
  BY TelemetryAssumption DEF TelemetryTypes
<1>2. ListForRun = SubSeq(hosts, 1, m)
  BY DEF ListForRun
<1> HIDE DEF n, m
<1>3. \A i \in 1..m : hosts[i] \in Nat
  BY <1>1
<1>4. Len(ListForRun) = m /\ ListForRun \in Seq(Nat)
  <2>1. SubSeq(hosts, 1, m) \in Seq(Nat) /\ Len(SubSeq(hosts, 1, m)) = IF 1 <= m THEN m - 1 + 1 ELSE 0
    BY <1>1, <1>3, SubSeqProperties
  <2>q. QED BY <1>1, <1>2, <2>1
<1>5. DOMAIN ListForRun = 1..m
  BY <1>4, LenProperties
<1>6. ASSUME Cardinality(gpus) <= GpuLimit, NEW r \in gpus PROVE r \in ListGpuForRun
  <2> DEFINE before == {other \in gpus : GpuBefore(other, r)}
  <2>1. ~GpuBefore(r, r)
    <3>1. r.time \in Nat /\ r.gpu \in Devices /\ r.host \in 1..n
      BY <1>1 DEF GpuRowsAreTrue
    <3>2. Devices \subseteq Nat
      BY TelemetryAssumption
    <3> DEFINE host == r.host
    <3>3. host \in Nat
      <4>1. host \in 1..n
        BY <3>1
      <4> HIDE DEF host
      <4>q. QED BY <1>1, <4>1
    <3>4. r.gpu \in Nat
      BY <3>1, <3>2
    <3>q. QED BY <3>1, <3>3, <3>4 DEF GpuBefore
  <2>2. before \in SUBSET gpus /\ before # gpus
    BY <2>1
  <2> HIDE DEF before
  <2>3. Cardinality(before) < Cardinality(gpus) /\ Cardinality(before) \in Nat /\ Cardinality(gpus) \in Nat
    BY <2>2, FS_Subset, FS_CardinalityType DEF GpuRowsAreTrue
  <2>4. Cardinality(before) < GpuLimit
    BY <1>6, <2>3, TelemetryAssumption
  <2>q. QED BY <2>4 DEF ListGpuForRun, before
<1>7. ListGpuForRun \subseteq gpus
  BY DEF ListGpuForRun
<1>8. Cardinality(gpus) <= GpuLimit => ListGpuForRun = gpus
  BY <1>6, <1>7
<1>9. m \in Nat /\ m <= n
  BY <1>1
<1>q. QED BY <1>1, <1>4, <1>5, <1>7, <1>8, <1>9 DEF n

\* A peak is a reading of the run's own device, or none.
LEMMA PeakIsRead ==
    ASSUME TelemetryTypes, GpuRowsAreTrue, TruthGrows
    PROVE  PeakOf(LoadWindow) = Unsupported
              \/ \E r \in gpus : r.gpu = Target /\ r.reading = PeakOf(LoadWindow)
<1> DEFINE rows == {r \in UNION {LoadWindow[i] : i \in DOMAIN LoadWindow} : r.gpu = Target}
           S == {Unsupported} \cup {r.reading : r \in rows}
<1>1. rows \subseteq gpus /\ \A r \in rows : r.gpu = Target
  <2>1. \A i \in DOMAIN LoadWindow : LoadWindow[i] \subseteq gpus
    BY RowsReadBack DEF LoadWindow
  <2>q. QED BY <2>1
<1> HIDE DEF rows
<1>2. ASSUME NEW r \in rows PROVE r.reading \in Readings
  <2>1. r.reading \in Read(r.gpu, r.time)
    BY <1>1 DEF GpuRowsAreTrue
  <2>2. PICK i \in DOMAIN truth : r.gpu \in DOMAIN truth[i].gpus /\ r.reading = truth[i].gpus[r.gpu]
    BY <2>1 DEF Read
  <2>3. truth[i] \in Observations
    BY <2>2 DEF TruthGrows
  <2>4. PICK visible \in SUBSET Devices : truth[i].gpus \in [visible -> Readings]
    BY <2>3 DEF Observations, DevicesRead
  <2>q. QED BY <2>2, <2>4
<1>3. S \subseteq Readings /\ Unsupported \in S
  BY <1>2 DEF Readings
<1>4. \E x \in S : \A y \in S : x >= y
  <2> HIDE DEF S
  <2>q. QED BY <1>3 DEF Readings, Unsupported
<1>5. Max(S) \in S
  <2> HIDE DEF S
  <2>q. QED BY <1>4 DEF Max
<1>6. PeakOf(LoadWindow) = Max(S)
  BY DEF PeakOf, rows
<1>q. QED BY <1>1, <1>5, <1>6

LEMMA FiguresOfRows ==
    ASSUME TelemetryTypes, GpuRowsAreTrue, TruthGrows, NEW observed \in BOOLEAN
    PROVE  FiguresAreRead(TelemetryRows(observed))
<1> DEFINE f == TelemetryRows(observed)
<1> DEFINE n == Len(ListForRun)
<1>1. Len(LoadWindow) = n
  <2>1. n \in Nat /\ DOMAIN ListForRun = 1..n
    BY RowsReadBack
  <2> HIDE DEF n
  <2>2. LoadWindow \in [1..n -> SUBSET ListGpuForRun]
    BY <2>1 DEF LoadWindow
  <2>q. QED BY <2>1, <2>2
<1>2. CASE LoadWindow = <<>>
  <2>1. f.peak = Unsupported /\ f.samples = 0
    <3>1. f = [NoFigures EXCEPT !.residency = observed]
      BY <1>2 DEF TelemetryRows
    <3>q. QED BY <3>1 DEF NoFigures
  <2>2. Len(hosts) \in Nat
    BY RowsReadBack
  <2> HIDE DEF f
  <2>3. FiguresAreRead(f)
    BY <2>1, <2>2 DEF FiguresAreRead
  <2>q. QED BY <2>3 DEF f
<1>3. CASE LoadWindow # <<>>
  <2>1. f.peak = SummarizeGpuTelemetry.peak /\ f.samples = Len(LoadWindow)
    BY <1>3 DEF TelemetryRows, SummarizeGpuTelemetry
  <2>2. SummarizeGpuTelemetry.peak = IF config.multiGpu THEN Unsupported ELSE PeakOf(LoadWindow)
    BY DEF SummarizeGpuTelemetry
  <2>3. ASSUME f.peak # Unsupported PROVE ~config.multiGpu /\ \E t \in 1..clock : f.peak \in Read(Target, t)
    <3>1. ~config.multiGpu /\ f.peak = PeakOf(LoadWindow)
      BY <2>1, <2>2, <2>3
    <3>2. PICK r \in gpus : r.gpu = Target /\ r.reading = f.peak
      BY <2>3, <3>1, PeakIsRead
    <3>3. r.time \in 1..clock /\ f.peak \in Read(Target, r.time)
      BY <3>2 DEF GpuRowsAreTrue, TruthGrows
    <3>q. QED BY <3>1, <3>3
  <2> HIDE DEF f
  <2>q. QED BY <1>1, <2>1, <2>3, RowsReadBack DEF FiguresAreRead, f
<1>q. QED BY <1>2, <1>3

\* A series says of a device what was read of it, and all of it within the limits.
LEMMA SeriesOfRows ==
    ASSUME TelemetryTypes, RecordingInv
    PROVE  FiguresAreOfTheirDevice
<1> DEFINE there(d, i) == {r \in ListGpuForRun : r.gpu = d /\ r.host = i}
           devices == {r.gpu : r \in ListGpuForRun}
<1>0. GpuRowsAreTrue /\ TruthGrows
  BY DEF RecordingInv
<1>1. LoadSeries = [d \in devices |->
                       [i \in DOMAIN ListForRun |->
                           IF there(d, i) = {} THEN Unsupported ELSE (CHOOSE r \in there(d, i) : TRUE).reading]]
  BY DEF LoadSeries
<1> HIDE DEF devices
<1>2. ASSUME NEW d \in DOMAIN LoadSeries, NEW i \in DOMAIN LoadSeries[d], LoadSeries[d][i] # Unsupported
      PROVE  LoadSeries[d][i] \in Read(d, hosts[i])
  <2>1. d \in devices /\ i \in DOMAIN ListForRun
    BY <1>1, <1>2
  <2>2. PICK r \in there(d, i) : LoadSeries[d][i] = r.reading
    BY <1>1, <1>2, <2>1
  <2>3. r \in gpus /\ r.gpu = d /\ r.host = i
    BY <1>0, <2>2, RowsReadBack
  <2>q. QED BY <1>0, <2>2, <2>3 DEF GpuRowsAreTrue
<1>3. ASSUME Len(hosts) <= HostLimit, Cardinality(gpus) <= GpuLimit, NEW r \in gpus
      PROVE  LoadSeries[r.gpu][r.host] = r.reading
  <2>1. ListGpuForRun = gpus /\ DOMAIN ListForRun = DOMAIN hosts
    BY <1>0, <1>3, RowsReadBack
  <2>2. r.gpu \in devices /\ r.host \in DOMAIN ListForRun
    BY <1>0, <2>1 DEF devices, GpuRowsAreTrue
  <2>3. there(r.gpu, r.host) = {r}
    BY <1>0, <2>1 DEF GpuRowsAreTrue
  <2>4. (CHOOSE x \in {r} : TRUE) = r
    OBVIOUS
  <2>q. QED BY <1>1, <2>2, <2>3, <2>4
<1>4. metrics.peak # Unsupported => ~config.multiGpu /\ \E t \in 1..clock : metrics.peak \in Read(Target, t)
  BY DEF RecordingInv, FiguresAreRead
<1>5. metrics.samples <= Len(hosts)
  BY DEF RecordingInv, FiguresAreRead
<1> HIDE DEF there
<1>6. FiguresAreOfTheirDevice <=>
          /\ \A d \in DOMAIN LoadSeries : \A i \in DOMAIN LoadSeries[d] :
                LoadSeries[d][i] # Unsupported => LoadSeries[d][i] \in Read(d, hosts[i])
          /\ Len(hosts) <= HostLimit /\ Cardinality(gpus) <= GpuLimit =>
                \A r \in gpus : LoadSeries[r.gpu][r.host] = r.reading
          /\ metrics.peak # Unsupported =>
                ~config.multiGpu /\ \E t \in 1..clock : metrics.peak \in Read(Target, t)
          /\ metrics.samples <= Len(hosts)
  BY DEF FiguresAreOfTheirDevice, Read
<1>q. QED BY <1>2, <1>3, <1>4, <1>5, <1>6

-----------------------------------------------------------------------------
\* What is kept while the recording only grows.
LEMMA FiguresStay ==
    ASSUME TelemetryTypes, TelemetryTypes', TruthGrows, TruthGrows', NEW f, FiguresAreRead(f),
           NEW o, truth' = truth \/ truth' = Append(truth, o), UNCHANGED config,
           clock' >= clock, Len(hosts') >= Len(hosts)
    PROVE  FiguresAreRead(f)'
<1>1. Read(Target, 0) \subseteq Read(Target, 0)' /\ \A t : Read(Target, t) \subseteq Read(Target, t)'
  BY ReadStays
<1>2. Len(hosts) \in Nat /\ Len(hosts') \in Nat /\ clock \in Nat /\ clock' \in Nat
  BY DEF TelemetryTypes
<1>3. \A t \in 1..clock : t \in 1..clock'
  BY <1>2
<1>q. QED BY <1>1, <1>2, <1>3 DEF FiguresAreRead

\* An observation is kept with what was read before it.
LEMMA SampleRecords ==
    ASSUME TelemetryTypes, TelemetryTypes', RecordingInv, Sample
    PROVE  RecordingInv'
<1> USE DEF RecordingInv
<1>1. PICK snapshot \in Recorded, time \in {clock, clock + 1} :
        /\ clock' = time /\ held' = [time |-> time, gpus |-> snapshot.gpus] /\ truth' = Append(truth, held')
  BY DEF Sample
<1>2. UNCHANGED <<config, hosts, gpus, figures, metrics>>
  BY DEF Sample, runVars
<1>3. held' \in Observations
  <2>1. snapshot \in Snapshots
    BY TelemetryAssumption
  <2>2. snapshot.gpus \in DevicesRead
    BY <2>1 DEF Snapshots, DevicesRead
  <2>3. time \in Nat \ {0}
    BY <1>1 DEF TruthGrows
  <2>q. QED BY <1>1, <2>2, <2>3 DEF Observations
<1> DEFINE n == Len(truth)
<1>4. /\ n \in Nat /\ DOMAIN truth = 1..n /\ truth' \in Seq(Observations) /\ DOMAIN truth' = 1..n + 1
      /\ truth'[n + 1] = held' /\ \A i \in 1..n : truth'[i] = truth[i]
  BY <1>1, <1>3 DEF TruthGrows
<1> HIDE DEF n
<1>5. TruthGrows'
  <2>1. clock' \in Nat \ {0} /\ clock' >= clock /\ held'.time <= clock' /\ n + 1 \in DOMAIN truth'
    BY <1>1, <1>4 DEF TruthGrows
  <2>2. \A i \in 1..n : truth[i] \in Observations /\ truth[i].time <= clock /\ clock \in Nat
    BY <1>4 DEF TruthGrows
  <2>3. ASSUME NEW i \in 1..n + 1 PROVE truth'[i].time <= clock'
    <3>1. CASE i = n + 1
      BY <1>4, <2>1, <3>1
    <3>2. CASE i # n + 1
      <4> DEFINE at == truth[i].time
      <4>1. i \in 1..n
        BY <1>4, <3>2
      <4>2. at \in Nat /\ at <= clock /\ truth'[i].time = at
        BY <1>4, <2>2, <4>1 DEF Observations
      <4> HIDE DEF at
      <4>q. QED BY <2>1, <2>2, <4>1, <4>2
    <3>q. QED BY <3>1, <3>2
  <2>q. QED BY <1>4, <2>1, <2>3 DEF TruthGrows
<1>6. clock' >= clock /\ clock' \in Nat /\ clock \in Nat
  BY <1>1 DEF TruthGrows
<1>7. GpuRowsAreTrue'
  <2>1. \A d, t : Read(d, t) \subseteq Read(d, t)'
    BY <1>1, ReadStays
  <2>2. \A r \in gpus : r.time <= clock'
    BY <1>6 DEF GpuRowsAreTrue
  <2>3. \A r \in gpus : r.reading \in Read(r.gpu, r.time)'
    BY <2>1 DEF GpuRowsAreTrue
  <2>q. QED BY <1>2, <2>2, <2>3 DEF GpuRowsAreTrue
<1>8. Len(hosts') >= Len(hosts)
  BY <1>2 DEF TelemetryTypes
<1>9. FiguresAreRead(figures)' /\ FiguresAreRead(metrics)'
  <2>1. ASSUME NEW f, FiguresAreRead(f) PROVE FiguresAreRead(f)'
    BY <1>1, <1>2, <1>5, <1>6, <1>8, <2>1, FiguresStay
  <2>q. QED BY <1>2, <2>1 DEF FiguresAreRead
<1>q. QED BY <1>5, <1>7, <1>9

\* The rows of an observation are of a host row that was not there.
LEMMA RecordRecords ==
    ASSUME TelemetryTypes, TelemetryTypes', RecordingInv, Record
    PROVE  RecordingInv'
<1> USE DEF RecordingInv
<1> DEFINE n == Len(hosts)
           added == {[host |-> n + 1, time |-> held.time, gpu |-> d, reading |-> held.gpus[d]] : d \in DOMAIN held.gpus}
<1>1. /\ worker = "holding" /\ worker' # "holding" /\ UNCHANGED <<config, figures, metrics, truth, clock>>
      /\ \/ hosts' = Append(hosts, held.time) /\ gpus' = gpus \cup added
         \/ hosts' = hosts /\ gpus' = gpus
  BY DEF Record, runVars
<1>2. /\ n \in Nat /\ DOMAIN hosts = 1..n /\ hosts \in Seq(Nat)
  BY DEF TelemetryTypes
<1>3. PICK i \in DOMAIN truth : held = truth[i] /\ held \in Observations /\ held.time <= clock
  BY <1>1 DEF TruthGrows
<1>4. PICK visible \in SUBSET Devices : held.gpus \in [visible -> Readings]
  BY <1>3 DEF Observations, DevicesRead
<1>5. \A r \in added : /\ r.host = n + 1 /\ r.time = held.time /\ r.gpu \in Devices /\ r.gpu \in DOMAIN held.gpus
                       /\ r.reading = held.gpus[r.gpu]
                       /\ r = [host |-> n + 1, time |-> held.time, gpu |-> r.gpu, reading |-> held.gpus[r.gpu]]
  BY <1>4
<1>6. IsFiniteSet(added)
  <2> DEFINE f == [d \in visible |-> [host |-> n + 1, time |-> held.time, gpu |-> d, reading |-> held.gpus[d]]]
  <2>1. added = {f[d] : d \in visible}
    BY <1>4
  <2>2. IsFiniteSet(visible)
    BY FS_Subset, TelemetryAssumption
  <2> HIDE DEF f, added
  <2>q. QED BY <2>1, <2>2, FiniteImage
<1>7. \A r \in added : r.reading \in Read(r.gpu, r.time) /\ r.time \in Nat \ {0} /\ r.time <= clock
  <2>1. \A d \in DOMAIN held.gpus : held.gpus[d] \in Read(d, held.time)
    BY <1>3 DEF Read
  <2>2. held.time \in Nat \ {0}
    BY <1>3 DEF Observations
  <2>q. QED BY <1>3, <1>5, <2>1, <2>2
<1> HIDE DEF added
<1>8. TruthGrows'
  BY <1>1 DEF TruthGrows
<1>9. \A d, t : Read(d, t)' = Read(d, t)
  BY <1>1 DEF Read
<1>10. CASE hosts' = hosts /\ gpus' = gpus
  <2>1. GpuRowsAreTrue'
    BY <1>1, <1>9, <1>10 DEF GpuRowsAreTrue
  <2>2. FiguresAreRead(figures)' /\ FiguresAreRead(metrics)'
    BY <1>1, <1>9, <1>10 DEF FiguresAreRead
  <2>q. QED BY <1>8, <2>1, <2>2
<1>11. CASE hosts' = Append(hosts, held.time) /\ gpus' = gpus \cup added
  <2>1. /\ DOMAIN hosts' = 1..n + 1 /\ Len(hosts') = n + 1 /\ hosts'[n + 1] = held.time
        /\ \A j \in 1..n : hosts'[j] = hosts[j] /\ j \in 1..n + 1
    BY <1>2, <1>11
  <2>2. n + 1 \in DOMAIN hosts' /\ n + 1 \notin 1..n
    BY <1>2, <2>1
  <2>3. IsFiniteSet(gpus')
    BY <1>6, <1>11, FS_Union DEF GpuRowsAreTrue
  <2>4. ASSUME NEW r \in gpus'
        PROVE  /\ r.host \in DOMAIN hosts' /\ r.time = hosts'[r.host] /\ r.gpu \in Devices
               /\ r.time <= clock /\ r.time \in Nat \ {0} /\ r.reading \in Read(r.gpu, r.time)
    <3>1. CASE r \in gpus
      BY <1>2, <2>1, <3>1 DEF GpuRowsAreTrue
    <3>2. CASE r \in added
      BY <1>5, <1>7, <2>1, <2>2, <3>2
    <3>q. QED BY <1>11, <3>1, <3>2
  <2>5. ASSUME NEW a \in gpus', NEW c \in gpus', a.host = c.host, a.gpu = c.gpu PROVE a = c
    <3>1. \A r \in gpus : r.host # n + 1
      BY <1>2, <2>2 DEF GpuRowsAreTrue
    <3>2. CASE a \in gpus /\ c \in gpus
      BY <2>5, <3>2 DEF GpuRowsAreTrue
    <3>3. CASE a \in added /\ c \in added
      BY <1>5, <2>5, <3>3
    <3>q. QED BY <1>5, <1>11, <2>5, <3>1, <3>2, <3>3
  <2>6. GpuRowsAreTrue'
    BY <1>1, <1>9, <2>3, <2>4, <2>5 DEF GpuRowsAreTrue
  <2>7. clock' >= clock /\ Len(hosts') >= Len(hosts)
    BY <1>1, <1>2, <2>1 DEF TruthGrows
  <2>8. ASSUME NEW f, FiguresAreRead(f) PROVE FiguresAreRead(f)'
    BY <1>1, <1>8, <2>7, <2>8, FiguresStay
  <2>9. FiguresAreRead(figures)' /\ FiguresAreRead(metrics)'
    BY <1>1, <2>8 DEF FiguresAreRead
  <2>q. QED BY <1>8, <2>6, <2>9
<1>q. QED BY <1>1, <1>10, <1>11

\* However devices come and go, whatever is cut off by the limits and however often the
\* run is taken up again, its series and its figures say of a device what was read of it.
THEOREM FiguresAreTrue == TelemetrySpec => []FiguresAreOfTheirDevice
<1>1. TelemetryInit => RecordingInv
  <2> SUFFICES ASSUME TelemetryInit PROVE RecordingInv
    OBVIOUS
  <2>1. /\ truth = <<>> /\ clock = 1 /\ worker = "off" /\ gpus = {} /\ hosts = <<>>
        /\ figures = NoFigures /\ metrics = NoFigures
    BY DEF TelemetryInit
  <2>2. <<>> \in Seq(Observations) /\ DOMAIN <<>> = {} /\ Len(<<>>) = 0
    BY EmptySeq
  <2>3. TruthGrows
    BY <2>1, <2>2 DEF TruthGrows
  <2>4. GpuRowsAreTrue
    BY <2>1, FS_EmptySet DEF GpuRowsAreTrue
  <2>5. FiguresAreRead(NoFigures)
    BY <2>1, <2>2 DEF FiguresAreRead, NoFigures
  <2>q. QED BY <2>1, <2>3, <2>4, <2>5 DEF RecordingInv
<1>2. TelemetryTypes /\ TelemetryTypes' /\ RecordingInv /\ [TelemetryNext]_telemetryVars => RecordingInv'
  <2> SUFFICES ASSUME TelemetryTypes, TelemetryTypes', RecordingInv, [TelemetryNext]_telemetryVars
               PROVE  RecordingInv'
    OBVIOUS
  <2>1. ASSUME UNCHANGED <<config, truth, clock, hosts, gpus>>, worker' = "holding" => worker = "holding" /\ held' = held
        PROVE  /\ TruthGrows' /\ GpuRowsAreTrue'
               /\ \A f : FiguresAreRead(f) => FiguresAreRead(f)'
    <3>1. \A d, t : Read(d, t)' = Read(d, t)
      BY <2>1 DEF Read
    <3>2. TruthGrows'
      BY <2>1 DEF RecordingInv, TruthGrows
    <3>3. GpuRowsAreTrue'
      BY <2>1, <3>1 DEF RecordingInv, GpuRowsAreTrue
    <3>4. ASSUME NEW f, FiguresAreRead(f) PROVE FiguresAreRead(f)'
      BY <2>1, <3>1, <3>4 DEF FiguresAreRead
    <3>q. QED BY <3>2, <3>3, <3>4
  <2>2. ASSUME UNCHANGED <<config, truth, clock, hosts, gpus, figures, metrics>>,
               worker' = "holding" => worker = "holding" /\ held' = held
        PROVE  RecordingInv'
    <3>1. FiguresAreRead(figures)' /\ FiguresAreRead(metrics)'
      BY <2>1, <2>2 DEF RecordingInv, FiguresAreRead
    <3>q. QED BY <2>1, <2>2, <3>1 DEF RecordingInv
  <2>3. CASE Claim BY <2>2, <2>3 DEF Claim, recorderVars
  <2>4. CASE SkipTheWait BY <2>2, <2>4 DEF SkipTheWait, recorderVars
  <2>5. CASE WaitForIdle BY <2>2, <2>5 DEF WaitForIdle, recorderVars
  <2>6. CASE StartRecorder BY <2>2, <2>6 DEF StartRecorder
  <2>7. CASE NoRecorder BY <2>2, <2>7 DEF NoRecorder, recorderVars
  <2>8. CASE Sample BY <2>8, SampleRecords
  <2>9. CASE Record BY <2>9, RecordRecords
  <2>10. CASE LeaveMeasurement BY <2>2, <2>10 DEF LeaveMeasurement, recorderVars
  <2>11. CASE StopRecorder BY <2>2, <2>11 DEF StopRecorder
  <2>12. CASE AggregateRun
    <3>1. PICK observed \in BOOLEAN : figures' = TelemetryRows(observed)
      BY <2>12 DEF AggregateRun
    <3>2. /\ UNCHANGED <<config, truth, clock, hosts, gpus, worker, held>> /\ metrics' = metrics
      BY <2>12 DEF AggregateRun, recorderVars
    <3>3. FiguresAreRead(TelemetryRows(observed))
      BY FiguresOfRows DEF RecordingInv
    <3> DEFINE new == TelemetryRows(observed)
    <3> HIDE DEF new
    <3>4. FiguresAreRead(figures)'
      <4>1. FiguresAreRead(new) /\ figures' = new
        BY <3>1, <3>3 DEF new
      <4>q. QED BY <2>1, <3>2, <4>1 DEF FiguresAreRead, Read
    <3>q. QED BY <2>1, <3>2, <3>4 DEF RecordingInv, FiguresAreRead
  <2>13. CASE Finish
    <3>1. /\ UNCHANGED <<config, truth, clock, hosts, gpus, worker, held, figures>> /\ metrics' = figures
      BY <2>13 DEF Finish, recorderVars
    <3>q. QED BY <2>1, <3>1 DEF RecordingInv, FiguresAreRead
  <2>14. CASE ReaggregateRun
    <3>q. QED BY <2>1, <2>14, FiguresOfRows DEF ReaggregateRun, recorderVars, RecordingInv, FiguresAreRead
  <2>15. CASE ProcessDies BY <2>2, <2>15 DEF ProcessDies
  <2>16. CASE UNCHANGED telemetryVars BY <2>2, <2>16 DEF telemetryVars, runVars, recorderVars
  <2>q. QED BY <2>3, <2>4, <2>5, <2>6, <2>7, <2>8, <2>9, <2>10, <2>11, <2>12, <2>13, <2>14, <2>15, <2>16
            DEF TelemetryNext
<1>q. QED BY <1>1, <1>2, TelemetryTyped, SeriesOfRows, PTL DEF TelemetrySpec
=============================================================================
