------------------------------ MODULE Scoring -------------------------------
(***************************************************************************)
(* How the answers to a form become a score and a verdict                  *)
(* (scoring_service.py).                                                   *)
(*                                                                         *)
(* The code computes with floats.  Here a question's normalized answer is  *)
(* counted in 1/Unit points and a rounded score in 1/100 points, exactly;  *)
(* float error is left out.  A form is a record:                           *)
(*   section        the section of each question                           *)
(*   weight         of each question and each section                      *)
(*   range          min and max of a question's validation, or None        *)
(*   showIf         [key, operator, value] of a question, or None          *)
(*   critical       the questions and sections that are                    *)
(*   passMark, policy                                                      *)
(* A boolean question has the range 0..1; a question without a range is a  *)
(* select whose number counts as points.  answers maps a question to its   *)
(* value, or to None where the record or its value is missing.             *)
(***************************************************************************)
EXTENDS Integers, FiniteSets, FiniteSetsExt

CONSTANTS
  Questions,
  Sections,
  None,
  Scale,      \* scoringStrategy.scale
  Unit        \* a multiple of every max - min

ScoringAssumption ==
  /\ Questions \cap Sections = {} /\ None \notin Questions \cup Int
  /\ Scale \in Nat \ {0} /\ Unit \in Nat \ {0}

Compare(operator, a, b) ==
  CASE operator = "eq" -> a = b
    [] operator = "neq" -> a # b
    [] operator = "gt" -> a > b
    [] operator = "lt" -> a < b
    [] OTHER -> TRUE

\* A question whose condition asks for a missing answer is hidden.
IsVisible(form, answers, q) ==
  LET cond == form.showIf[q] IN
  \/ cond = None
  \/ /\ answers[cond.key] # None
     /\ Compare(cond.operator, answers[cond.key], cond.value)

Visible(form, answers, s) ==
  {q \in Questions : form.section[q] = s /\ IsVisible(form, answers, q)}

Clamp(value, low, high) == Min({Max({value, low}), high})

\* _scale_value
ScaleValue(value, low, high) ==
  IF high <= low THEN Clamp(value, 0, Scale) * Unit
  ELSE (Clamp(value, low, high) - low) * Scale * (Unit \div (high - low))

\* _normalize_answer
Normalize(form, answers, q) ==
  LET value == answers[q]
      range == form.range[q]
  IN
  CASE value = None -> 0
    [] value # None /\ range = None -> value * Unit
    [] OTHER -> ScaleValue(value, range.min, range.max)

\* _apply_rounding of num / den; Python rounds halves to even.
Round(num, den, policy) ==
  LET down == num \div den
      rest == 2 * (num % den)
      up == \/ policy = "ceil" /\ rest > 0
            \/ /\ policy \notin {"ceil", "floor"}
               /\ rest > den \/ (rest = den /\ down % 2 = 1)
  IN
  IF up THEN down + 1 ELSE down

\* Mutant: questions that are not answered do not weigh.
SectionScore_Answered(form, answers, s) ==
  LET qs == {q \in Visible(form, answers, s) : answers[q] # None}
      total == SumFunctionOnSet(form.weight, qs)
      raw == SumFunction([q \in qs |-> Normalize(form, answers, q) * form.weight[q]])
  IN
  IF total > 0 THEN Round(100 * raw, Unit * total, form.policy) ELSE 0

\* An unanswered question adds nothing and weighs all the same.
SectionScore(form, answers, s) ==
  LET qs == Visible(form, answers, s)
      total == SumFunctionOnSet(form.weight, qs)
      raw == SumFunction([q \in qs |-> Normalize(form, answers, q) * form.weight[q]])
  IN
  IF total > 0 THEN Round(100 * raw, Unit * total, form.policy) ELSE 0

\* Sections without a visible question are skipped.
Scored(form, answers) == {s \in Sections : Visible(form, answers, s) # {}}

\* overallScore: the rounded section scores by weight, rounded again.
OverallScore(form, answers) ==
  LET scored == Scored(form, answers)
      total == SumFunctionOnSet(form.weight, scored)
      sum == SumFunction([s \in scored |-> SectionScore(form, answers, s) * form.weight[s]])
  IN
  IF total > 0 THEN Round(sum, total, form.policy) ELSE 0

CriticalFailure(form, answers) ==
  \E s \in Scored(form, answers) :
    \/ s \in form.critical /\ SectionScore(form, answers, s) < 100 * form.passMark
    \/ \E q \in Visible(form, answers, s) \cap form.critical :
         Normalize(form, answers, q) < Unit * form.passMark

PassFail(form, answers) ==
  ~CriticalFailure(form, answers) /\ OverallScore(form, answers) >= 100 * form.passMark
=============================================================================
