---------------------------- MODULE ScorePreview ----------------------------
(***************************************************************************)
(* A reviewer fills in a form and is shown the score of the answers so far *)
(* (preview_score of evaluations_service.py).                              *)
(***************************************************************************)
EXTENDS Scoring

CONSTANTS
  Forms,
  Values      \* the numbers that answers are, a range's ends or not

VARIABLES form, answers

\* A form every question of which has a range.
FormFits(f) ==
  /\ f.weight \in [Questions \cup Sections -> Nat]
  /\ f.range \in [Questions -> [min : Int, max : Int]]
  /\ \A q \in Questions :
       f.range[q].min < f.range[q].max => Unit % (f.range[q].max - f.range[q].min) = 0
  /\ f.passMark \in Int

PreviewAssumption ==
  /\ ScoringAssumption
  /\ IsFiniteSet(Questions) /\ IsFiniteSet(Sections)
  /\ Values \subseteq Int
  /\ None \notin [min : Int, max : Int]
  /\ \A f \in Forms : FormFits(f)

vars == <<form, answers>>

\* The reviewer sets an answer or takes it back.
SetAnswer(q, value) ==
  /\ answers' = [answers EXCEPT ![q] = value]
  /\ UNCHANGED form

Init ==
  /\ form \in Forms
  /\ answers = [q \in Questions |-> None]

Next == \E q \in Questions, value \in Values \cup {None} : SetAnswer(q, value)

Spec == Init /\ [][Next]_vars

-----------------------------------------------------------------------------
(* Properties *)

\* Scores are points of the scale where every question has a range, whatever
\* numbers are sent and however they are rounded.
ScoreInScale == OverallScore(form, answers) \in 0 .. 100 * Scale

AtFull(q) == answers[q] # None /\ Normalize(form, answers, q) = Unit * Scale

\* Full answers to all visible questions yield the full score, whichever
\* questions and sections are hidden.
FullMarks ==
  /\ \E s \in Sections : Visible(form, answers, s) # {}
  /\ \A s \in Sections : \A q \in Visible(form, answers, s) : AtFull(q)
  => OverallScore(form, answers) = 100 * Scale

WeightsArePositive ==
  \A f \in Forms : \A x \in Questions \cup Sections : f.weight[x] > 0

\* The step changes the answer to q only, and hides or shows no question.
Changes(q) ==
  /\ answers'[q] # answers[q]
  /\ \A p \in Questions : IsVisible(form, answers, p) = IsVisible(form, answers, p)'

Improves(q) ==
  /\ Changes(q)
  /\ answers'[q] # None
  /\ answers[q] = None \/ answers'[q] > answers[q]

\* A better answer, or a first one, never lowers the score.
BetterScoresMore ==
  \A q \in Questions :
    Improves(q) => OverallScore(form, answers)' >= OverallScore(form, answers)

\* A better answer, or a first one, never turns a pass into a failure.
BetterKeepsPass ==
  \A q \in Questions :
    Improves(q) /\ PassFail(form, answers) => PassFail(form, answers)'

\* What is stored for a hidden question does not count.
HiddenDoesNotCount ==
  \A q \in Questions :
    Changes(q) /\ ~IsVisible(form, answers, q)
      => OverallScore(form, answers)' = OverallScore(form, answers)

\* Scores are points of the scale, and full answers make the full score where
\* everything weighs something; a better answer lowers no score and takes no pass
\* away; and what is stored for a hidden question does not count.
ScoresHold ==
  /\ [](ScoreInScale /\ (WeightsArePositive => FullMarks))
  /\ [][BetterScoresMore /\ BetterKeepsPass /\ HiddenDoesNotCount]_vars
=============================================================================
