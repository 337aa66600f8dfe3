--------------------------- MODULE ReviewAnswers ----------------------------
(***************************************************************************)
(* The answers of one evaluation through the rounds of its review          *)
(* (evaluations_service.py): QA adjusts the answers of the AI, or its own  *)
(* of an earlier round; the verifier approves, modifies or rejects; each   *)
(* layer of answers is scored (Scoring).                                   *)
(*                                                                         *)
(* Who may act, where a submission goes next and the states in between are *)
(* ReviewWorkflow's: here a submission goes either way.  AI answers are    *)
(* those of rows that the retired API left behind.                         *)
(***************************************************************************)
EXTENDS Scoring

CONSTANTS Forms, Values

VARIABLES
  form,
  state,      \* workflowState: "QA", "VERIFIER" or "LOCKED"
  ai,         \* aiResponseData: the value of each question
  qa,         \* qaAdjustedData
  ver,        \* verifierFinalData: feedback of a rejection, or what is final
  final,      \* finalScore
  passFail,
  edited      \* history: the last value that QA sent for each question

answersVars == <<form, state, ai, qa, ver, final, passFail, edited>>

Answer == [value : Values, reason : BOOLEAN]

Answers == [Questions -> Answer \cup {None}]

NoAnswers == [q \in Questions |-> None]

\* The answers of a layer as Scoring takes them.
ValuesOf(answers) ==
  [q \in Questions |-> IF answers[q] = None THEN None ELSE answers[q].value]

Layer(answers) ==
  [answers |-> answers, score |-> OverallScore(form, ValuesOf(answers)),
   passFail |-> PassFail(form, ValuesOf(answers))]

\* Every layer of answers that can be stored.
Layers ==
  [answers : Answers, score : {OverallScore(f, ValuesOf(a)) : f \in Forms, a \in Answers},
   passFail : BOOLEAN]

AnswersAssumption ==
  /\ ScoringAssumption
  /\ Values \subseteq Int
  /\ None \notin Answer \cup Layers

\* A request changes some questions: the others keep what they have.
Changes == UNION {[qs -> Answer] : qs \in SUBSET Questions}

AiAnswers ==
  [q \in Questions |-> IF ai[q] = None THEN None ELSE [value |-> ai[q], reason |-> FALSE]]

\* Mutant: every round starts from the answers of the AI.
Baseline_Ai == AiAnswers

\* Earlier QA answers are the baseline; empty ones are not.
Baseline == IF qa # None /\ qa.answers # NoAnswers THEN qa.answers ELSE AiAnswers

\* Whether the change to q has a reason, of its own or of an earlier round.
Reasoned(change, q) ==
  change[q].reason \/ (Baseline[q] # None /\ Baseline[q].reason)

OverridesAi(change, q) == ai[q] # None /\ change[q].value # ai[q]

\* Overriding an answer of the AI takes a reason.
MayAdjust(change) ==
  \A q \in DOMAIN change : OverridesAi(change, q) => Reasoned(change, q)

\* An answer that agrees with the AI's carries no reason.
Adjusted(change) ==
  [q \in Questions |->
     IF q \notin DOMAIN change THEN Baseline[q]
     ELSE [value |-> change[q].value,
           reason |-> ~(ai[q] # None /\ ai[q] = change[q].value) /\ Reasoned(change, q)]]

QaSubmit(change, toVerifier) ==
  LET layer == Layer(Adjusted(change)) IN
  /\ state = "QA"
  /\ MayAdjust(change)
  /\ qa' = layer
  /\ edited' = [q \in Questions |-> IF q \in DOMAIN change THEN change[q].value ELSE edited[q]]
  /\ IF toVerifier
     THEN /\ state' = "VERIFIER"
          /\ ver' = None
          /\ UNCHANGED <<final, passFail>>
     ELSE /\ state' = "LOCKED"
          /\ ver' = layer
          /\ final' = layer.score
          /\ passFail' = layer.passFail
  /\ UNCHANGED <<form, ai>>

\* The layer never holds the criticalFailure key that is looked up.
Approves(score) == score >= 100 * form.passMark

VerifierApprove ==
  /\ state = "VERIFIER"
  /\ state' = "LOCKED"
  /\ final' = qa.score
  /\ passFail' = Approves(qa.score)
  /\ ver' = [qa EXCEPT !.passFail = passFail']
  /\ UNCHANGED <<form, ai, qa, edited>>

\* Each of the verifier's answers carries a reason.
Merged(change) ==
  [q \in Questions |-> IF q \in DOMAIN change THEN change[q] ELSE qa.answers[q]]

Commented(change) == \A q \in DOMAIN change : change[q].reason

VerifierModify(change) ==
  /\ state = "VERIFIER"
  /\ Commented(change)
  /\ state' = "LOCKED"
  /\ ver' = Layer(Merged(change))
  /\ final' = ver'.score
  /\ passFail' = ver'.passFail
  /\ UNCHANGED <<form, ai, qa, edited>>

\* Comments become a layer with the score of the QA layer.
VerifierReject(change) ==
  /\ state = "VERIFIER"
  /\ Commented(change)
  /\ state' = "QA"
  /\ ver' = IF change = <<>> THEN ver ELSE [qa EXCEPT !.answers = Merged(change)]
  /\ UNCHANGED <<form, ai, qa, final, passFail, edited>>

\* re_audit_ai clears every layer; the job it sends brings no answers back.
ReAudit ==
  /\ state' = "QA"
  /\ ai' = NoAnswers
  /\ qa' = None /\ ver' = None
  /\ final' = None /\ passFail' = None
  /\ edited' = NoAnswers
  /\ UNCHANGED form

AnswersInit ==
  /\ form \in Forms
  /\ state = "QA"
  /\ ai \in [Questions -> Values \cup {None}]
  /\ qa = None /\ ver = None
  /\ final = None /\ passFail = None
  /\ edited = NoAnswers

AnswersNext ==
  \/ \E change \in Changes :
       \/ \E toVerifier \in BOOLEAN : QaSubmit(change, toVerifier)
       \/ VerifierModify(change)
       \/ VerifierReject(change)
  \/ VerifierApprove \/ ReAudit

AnswersSpec == AnswersInit /\ [][AnswersNext]_answersVars

-----------------------------------------------------------------------------
\* What get_evaluation shows as the verdict: no layer has the key criticalFailure
\* set, so the final score decides.
Shown == IF final = None THEN passFail ELSE Approves(final)

(* Properties *)

Locked == state = "LOCKED"

\* "value changed without overrideReason": after any number of rounds an answer
\* that is not the AI's has a reason, in the QA layer and in what is final.
OverridesAreReasoned ==
  \A layer \in {qa, ver} \ {None} : \A q \in Questions :
    /\ ai[q] # None
    /\ layer.answers[q] # None
    /\ layer.answers[q].value # ai[q]
    => layer.answers[q].reason

\* A later round does not "silently drop earlier QA adjustments when only a
\* subset is edited": each question has the last value QA gave it, or the AI's.
EditsAreKept ==
  qa # None =>
    ValuesOf(qa.answers) = [q \in Questions |-> IF edited[q] # None THEN edited[q] ELSE ai[q]]

\* The final score is that of the final answers, however they became final.
FinalScoreMatches == Locked => final = OverallScore(form, ValuesOf(ver.answers))

\* Unless something critical fails, the verdict that is stored and the one that
\* is shown are both that of the final answers.
VerdictIsScored ==
  Locked /\ ~CriticalFailure(form, ValuesOf(ver.answers))
    => {passFail, Shown} = {PassFail(form, ValuesOf(ver.answers))}

\* Any rounds of review lose no edit, excuse no override, and end with the score
\* and the verdict of the final answers.
AnswersHold ==
  OverridesAreReasoned /\ EditsAreKept /\ FinalScoreMatches /\ VerdictIsScored
=============================================================================
