--------------------------------- MODULE Jury ---------------------------------
(***************************************************************************)
(* How a jury is formed and what it makes of one answer: services/jury.py, *)
(* domain/jury.py, domain/judging.py and domain/scorers/judged.py.  Every  *)
(* juror is polled several times, in order, and may refuse; the verdicts   *)
(* of one criterion are combined into one outcome.                         *)
(***************************************************************************)
EXTENDS Agreement

CONSTANTS
    Models,       \* models that the provider may list
    Candidate,    \* the model that wrote the answer
    Requests,     \* lists of jurors that a goal or the settings may ask for
    Sizes,        \* jury sizes
    Repetitions,  \* how often each juror is asked
    References,   \* how many anchors a pairwise criterion is compared with
    Points        \* of the scale of an absolute criterion

VARIABLES
    listed,    \* the models the provider lists
    settings,  \* [requested, size, refuseSelf], fixed
    mode,      \* "absolute" or "pairwise"
    bias,      \* the position a biased juror always picks, "none" for an honest one
    jury,      \* the assembly: jurors by their place among those considered, and who could be resolved
    verdicts,  \* in the order they were given
    outcome    \* of the criterion

vars == <<listed, settings, mode, bias, jury, verdicts, outcome>>

NoJury == [jurors |-> <<>>, reduced |-> FALSE, refused |-> {}, resolved |-> <<>>]
NoOutcome == [status |-> "none", score |-> Unmeasured, median |-> Unmeasured, alpha |-> Unmeasured]

-----------------------------------------------------------------------------
\* Assembling the jury

\* Why a model may not judge.  A remote juror would need permission, but every caller
\* says of every model that it is local.
Reasons(m) ==
    {r \in {"not_installed", "self_judging"} :
        \/ r = "not_installed" /\ m \notin listed
        \/ r = "self_judging" /\ settings.refuseSelf /\ m = Candidate}

ListedInOrder ==
    [i \in 1 .. Cardinality(listed) |-> CHOOSE m \in listed : Cardinality({k \in listed : k <= m}) = i]
Considered == IF settings.requested # <<>> THEN settings.requested ELSE ListedInOrder
EligibleJurors == {i \in DOMAIN Considered : Reasons(Considered[i]) = {}}

\* The first of the eligible, as many as are asked for.
AssembleJury ==
    LET chosen == {i \in EligibleJurors : Cardinality({k \in EligibleJurors : k <= i}) <= settings.size}
    IN  [jurors |-> [i \in chosen |-> Considered[i]], reduced |-> Cardinality(chosen) < settings.size,
         refused |-> {<<Considered[i], Reasons(Considered[i])>> : i \in DOMAIN Considered \ EligibleJurors}]

\* A juror that the provider cannot resolve any more is dropped from the poll, and only
\* from the poll.
BuildJury ==
    /\ jury = NoJury /\ outcome = NoOutcome
    /\ LET assembly == AssembleJury
       IN  \E lost \in SUBSET Range(assembly.jurors) :
              jury' = [jurors |-> assembly.jurors, reduced |-> assembly.reduced, refused |-> assembly.refused,
                       resolved |-> [i \in {k \in DOMAIN assembly.jurors : assembly.jurors[k] \notin lost} |->
                                        assembly.jurors[i]]]
    /\ UNCHANGED <<listed, settings, mode, bias, verdicts, outcome>>

-----------------------------------------------------------------------------
\* Polling it

Polled == Cardinality(DOMAIN jury.resolved)
Polls == Polled * Repetitions
Ordinal(i) == ((i - 1) \div Repetitions) + 1
Repetition(i) == ((i - 1) % Repetitions) + 1

Refusals == {"provider_error", "protocol_error", "truncated"}
Refused(reason) == [grade |-> 0, choice |-> "none", refusal |-> reason]
UsableBug(v) == v.refusal \in {"none", "truncated"}
Usable(v) == v.refusal = "none" /\ (v.grade # 0 \/ v.choice # "none")

\* An answer without a whole grade within the scale is a refusal.
AbsoluteVerdicts ==
    {[grade |-> g, choice |-> "none", refusal |-> "none"] : g \in 1 .. Points}
        \cup {Refused(r) : r \in Refusals}

\* The reference of a repetition, and who is shown first: odd repetitions show the candidate.
ReferenceAt(repetition) == repetition % References
CandidateFirst(repetition) == repetition % 2 = 1

ParseChoice(position, repetition) ==
    IF position = "tie" THEN "tie"
    ELSE IF (position = "first") = CandidateFirst(repetition) THEN "candidate" ELSE "reference"

PairwiseVerdicts(repetition) ==
    IF References = 0 THEN {Refused("protocol_error")}
    ELSE {[grade |-> 0, choice |-> ParseChoice(p, repetition), refusal |-> "none"] :
             p \in IF bias = "none" THEN {"first", "second", "tie"} ELSE {bias}}
         \cup {Refused(r) : r \in Refusals}

Poll ==
    LET i == Len(verdicts) + 1
    IN  /\ jury # NoJury /\ i <= Polls
        /\ \E v \in IF mode = "pairwise" THEN PairwiseVerdicts(Repetition(i)) ELSE AbsoluteVerdicts :
              verdicts' = Append(verdicts, v)
        /\ UNCHANGED <<listed, settings, mode, bias, jury, outcome>>

-----------------------------------------------------------------------------
\* Combining the verdicts

\* The k-th lowest of some grades, by who gave them.
Lowest(grades, k) ==
    Min({g \in Range(grades) : Cardinality({i \in DOMAIN grades : grades[i] <= g}) >= k})
\* Twice the median, so that it stays whole.
TwiceMedian(grades) ==
    LET n == Cardinality(DOMAIN grades) IN  Lowest(grades, (n + 1) \div 2) + Lowest(grades, n \div 2 + 1)
NormalizeGrade(twice) == Percent(twice - 2, 2 * (Points - 1))

PairwisePoints(choice) == CASE choice = "candidate" -> 2 [] choice = "tie" -> 1 [] OTHER -> 0
\* Of all verdicts with a choice, in percent.
PairwiseWinRate(usable) ==
    Percent(SumOver(usable, LAMBDA i : PairwisePoints(verdicts[i].choice)), 2 * Cardinality(usable))

\* Measured over repetitions as units; needs two jurors and two units.
AlphaAcrossJurors ==
    LET grades == [r \in 1 .. Repetitions |-> [j \in 1 .. Polled |->
                      LET v == verdicts[(j - 1) * Repetitions + r]
                      IN  IF Usable(v) THEN v.grade ELSE 0]]
        units == {r \in DOMAIN grades : \E j \in DOMAIN grades[r] : grades[r][j] # 0}
        jurors == {j \in 1 .. Polled : \E r \in units : grades[r][j] # 0}
    IN  IF Cardinality(jurors) < 2 \/ Cardinality(units) < 2 THEN Unmeasured
        ELSE KrippendorffAlpha([r \in units |-> grades[r]], jurors)

Skipped == [NoOutcome EXCEPT !.status = "skipped"]

CombineVerdicts ==
    LET usable == {i \in DOMAIN verdicts : Usable(verdicts[i])}
        grades == [i \in usable |-> verdicts[i].grade]
    IN  IF usable = {} THEN Skipped
        ELSE IF mode = "pairwise"
             THEN [Skipped EXCEPT !.status = "scored", !.score = PairwiseWinRate(usable)]
        ELSE [status |-> "scored", score |-> NormalizeGrade(TwiceMedian(grades)),
              median |-> TwiceMedian(grades), alpha |-> AlphaAcrossJurors]

Combine ==
    /\ jury # NoJury /\ Len(verdicts) = Polls /\ outcome = NoOutcome
    /\ outcome' = CombineVerdicts
    /\ UNCHANGED <<listed, settings, mode, bias, jury, verdicts>>

-----------------------------------------------------------------------------
Init ==
    /\ listed \in SUBSET Models
    /\ settings \in [requested : Requests, size : Sizes, refuseSelf : BOOLEAN]
    /\ mode \in {"absolute", "pairwise"}
    /\ bias \in IF mode = "pairwise" THEN {"none", "first", "second"} ELSE {"none"}
    /\ jury = NoJury /\ verdicts = <<>> /\ outcome = NoOutcome

Next == BuildJury \/ Poll \/ Combine

Spec == Init /\ [][Next]_vars

-----------------------------------------------------------------------------
\* The jury, its verdicts and the outcome have their shapes.
TypeOK ==
    /\ Cardinality(DOMAIN jury.jurors) <= settings.size
    /\ DOMAIN jury.resolved \subseteq DOMAIN jury.jurors
    /\ \A i \in DOMAIN jury.resolved : jury.resolved[i] = jury.jurors[i]
    /\ Len(verdicts) <= Polls
    /\ outcome.status \in {"none", "skipped", "scored"}
    /\ outcome.status = "scored" => outcome.score \in 0 .. 100

\* No juror is the candidate where self-judging is refused or a model that was not listed,
\* and a jury that falls short says so.
JurorsAreEligible ==
    jury # NoJury =>
        /\ settings.refuseSelf => Candidate \notin Range(jury.resolved)
        /\ Range(jury.jurors) \subseteq listed
        /\ Cardinality(DOMAIN jury.jurors) < settings.size => jury.reduced

\* Refusals never count: an outcome is scored exactly when someone answered, its median is
\* between the lowest and the highest grade given, and agreement between jurors is claimed
\* only where two of them graded.
RefusalsNeverCount ==
    LET answered == {k \in DOMAIN verdicts : verdicts[k].refusal = "none"}
        given == {verdicts[i].grade : i \in answered}
        graders == {Ordinal(i) : i \in answered}
    IN  outcome # NoOutcome =>
            /\ outcome.status = "scored" <=> given # {}
            /\ outcome.median # Unmeasured =>
                   2 * Min(given) <= outcome.median /\ outcome.median <= 2 * Max(given)
            /\ outcome.alpha # Unmeasured => Cardinality(graders) >= 2 /\ outcome.alpha <= 100

\* _poll_pairwise: "a pairwise criterion is measured with the same bias control native.judge
\* uses, and asking both ways is the control".  Jurors that only ever pick a position, and
\* refuse nothing, leave the candidate at even odds.
PositionBiasCancels ==
    bias # "none" /\ outcome.status = "scored" /\ (\A i \in DOMAIN verdicts : Usable(verdicts[i]))
        => outcome.score = 50
=============================================================================
