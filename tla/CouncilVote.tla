----------------------------- MODULE CouncilVote -----------------------------
(* One run of the council (council/ and council_skill_dispatch): the models   *)
(* answer under labels dealt out at random, are asked to rank the answers,    *)
(* and the Borda count picks the winner; the rankings' mean Kendall tau says  *)
(* whether the council disagrees.  A label is a number, 1 for "A"; a ranking  *)
(* is the sequence of its labels, best first, and <<>> where none was made    *)
(* out that has every label.                                                  *)
EXTENDS Integers, Sequences, FiniteSets, FiniteSetsExt, Functions

CONSTANTS
  Rosters,     \* the lists of models a council may be configured with
  LabelPool,   \* how many labels there are
  Threshold    \* tenths of a mean tau below which the council disagrees

ASSUME CouncilAssumption == /\ \A models \in Rosters : models \in Seq(Range(models))
                            /\ LabelPool \in Nat /\ Threshold \in Int

VARIABLES
  roster,      \* the configured models, in order
  labelOf,     \* model -> label: the seats of this run
  answers,     \* label -> what its model said: a text, nothing, or an error
  rankings,    \* label -> the ranking its model gave
  verdict      \* the chairman's result
councilVars == <<roster, labelOf, answers, rankings, verdict>>

None == [winner |-> 0]
Seats == Range(labelOf)
Members == DOMAIN labelOf

(* run_council: labels for the first models of the list, shuffled; a model    *)
(* that is listed twice keeps its last label, one beyond the pool gets none.  *)
LabelsFor(models) == 1..Min({Len(models), LabelPool})
Deals(models) ==
  {[m \in {models[i] : i \in LabelsFor(models)} |->
      deal[Max({i \in LabelsFor(models) : models[i] = m})]] :
     deal \in Bijection(LabelsFor(models), LabelsFor(models))}

(* _call_member: an answer, possibly empty, or an exception with its message. *)
(* An exception without one leaves an answer that reads as an empty one.      *)
MemberAnswers(l) ==
  /\ l \in Seats \ DOMAIN answers
  /\ \E said \in {"text", "nothing", "error"} :
       answers' = [k \in DOMAIN answers \cup {l} |-> IF k = l THEN said ELSE answers[k]]
  /\ UNCHANGED <<roster, labelOf, rankings, verdict>>

AllAnswered == DOMAIN answers = Seats
Shown == {l \in Seats : answers[l] # "error"}
Complete(r) == r # <<>>
Orders(S) == {r \in [1..Cardinality(S) -> S] : Range(r) = S}

(* _collect_rankings, _rank_one, parse_ranking: with fewer than two answers   *)
(* nobody is asked; otherwise every seated model is, whether it answered or   *)
(* not, and only an order of every label counts.                              *)
Ranks(l) ==
  /\ AllAnswered /\ verdict = None
  /\ Cardinality(Shown) >= 2 /\ l \in Seats \ DOMAIN rankings
  /\ \E r \in Orders(Seats) \cup {<<>>} :
       rankings' = [k \in DOMAIN rankings \cup {l} |-> IF k = l THEN r ELSE rankings[k]]
  /\ UNCHANGED <<roster, labelOf, answers, verdict>>

(* _borda_count, _pick_winner                                                 *)
Used == {l \in DOMAIN rankings : Complete(rankings[l])}
PlaceOf(r, a) == CHOOSE i \in DOMAIN r : r[i] = a

(* Mutant: the points grow with the place.                                    *)
Points_ByPlace(i) == i - 1

Points(i) == Cardinality(Seats) - i
Score(a) == SumFunction([l \in Used |-> Points(PlaceOf(rankings[l], a))])
Outranks(a, b) == Score(a) > Score(b) \/ (Score(a) = Score(b) /\ a < b)
PickWinner == CHOOSE a \in Seats : \A b \in Seats \ {a} : Outranks(a, b)

(* compute_confidence: the mean of _kendall_tau over the pairs of rankings,   *)
(* as its numerator and denominator.                                          *)
PairsOf(S) == {p \in SUBSET S : Cardinality(p) = 2}
Agree(r, s, p) == \A a, b \in p :
  PlaceOf(r, a) < PlaceOf(r, b) <=> PlaceOf(s, a) < PlaceOf(s, b)
Tau(q) == SumFunction([p \in PairsOf(Seats) |->
  IF \A k, l \in q : Agree(rankings[k], rankings[l], p) THEN 1 ELSE -1])
TauSum == SumFunction([q \in PairsOf(Used) |-> Tau(q)])
TauPairs == Cardinality(PairsOf(Used)) * Cardinality(PairsOf(Seats))

(* Mutant: where there is no pair of rankings, their tau counts as zero.      *)
ShouldEscalate_Unpaired ==
  /\ Cardinality(Seats) >= 2
  /\ 10 * TauSum < Threshold * Max({1, TauPairs})

ShouldEscalate ==
  /\ Cardinality(Used) >= 2 /\ Cardinality(Seats) >= 2
  /\ 10 * TauSum < Threshold * TauPairs

(* run_chairman: the synthesis model sees the answers that are not empty,     *)
(* best first; when it fails the winner's own answer is the result.  There is *)
(* no verdict, but an exception, when the synthesis model cannot be made, a   *)
(* run that ends before this step, and for a council of no models, which has  *)
(* no winner to pick.                                                         *)
Concludes(synthesisFails) ==
  /\ AllAnswered /\ verdict = None /\ Seats # {}
  /\ Cardinality(Shown) < 2 \/ DOMAIN rankings = Seats
  /\ verdict' = [winner |-> PickWinner,
                 model |-> CHOOSE m \in Members : labelOf[m] = PickWinner,
                 result |-> IF ~synthesisFails THEN "synthesis" ELSE
                            IF answers[PickWinner] = "text" THEN "text" ELSE "nothing",
                 used |-> Cardinality(Used), escalate |-> ShouldEscalate]
  /\ UNCHANGED <<roster, labelOf, answers, rankings>>

Empty == [l \in {} |-> <<>>]

CouncilInit ==
  /\ roster \in Rosters /\ labelOf \in Deals(roster)
  /\ answers = Empty /\ rankings = Empty /\ verdict = None

(* gather: the results are kept in seat order whatever order they come in.    *)
InSeatOrder(l, done) == \A k \in Seats : k < l => k \in DOMAIN done

CouncilNext ==
  \/ \E l \in Seats : InSeatOrder(l, answers) /\ MemberAnswers(l)
  \/ \E l \in Seats : InSeatOrder(l, rankings) /\ Ranks(l)
  \/ \E fails \in BOOLEAN : Concludes(fails)
CouncilSpec == CouncilInit /\ [][CouncilNext]_councilVars
-----------------------------------------------------------------------------
Prefer(a, b) == {l \in Used : PlaceOf(rankings[l], a) < PlaceOf(rankings[l], b)}
Beaten(a) == \A b \in Seats \ {a} : 2 * Cardinality(Prefer(b, a)) > verdict.used
Pairings(n) == (n * (n - 1)) \div 2
(* Over the labels: two rankings agree about a pair of labels when they are   *)
(* on the same side of it.                                                    *)
Margin(p) == LET sides == {Prefer(x[1], x[2]) : x \in {y \in p \X p : y[1] # y[2]}}
                 agreeing == SumFunction([S \in sides |-> Pairings(Cardinality(S))])
             IN 2 * agreeing - Pairings(verdict.used)
Consensus == SumFunction([p \in PairsOf(Seats) |-> Margin(p)])

(* What the rankings say is what the council concludes: the winner is never   *)
(* one that every other answer beats in a majority of the rankings, is first  *)
(* wherever it is first in all of them, and is the answer of the model it is  *)
(* resolved to; the council disagrees exactly when the sides taken on the     *)
(* pairs of labels say so, counted label by label and not ranking by ranking, *)
(* so never when there is one ranking or all are alike and always when two    *)
(* rankings are each other's reverse.                                         *)
VotesAreCounted ==
  verdict # None =>
    /\ Used # {} /\ Cardinality(Seats) > 1 => ~Beaten(verdict.winner)
    /\ \A a \in Seats :
         Used # {} /\ (\A l \in Used : rankings[l][1] = a) => verdict.winner = a
    /\ labelOf[verdict.model] = verdict.winner
    /\ verdict.escalate <=>
         /\ verdict.used >= 2 /\ Cardinality(Seats) >= 2
         /\ 10 * Consensus < Threshold * Pairings(verdict.used) * Pairings(Cardinality(Seats))
=============================================================================
