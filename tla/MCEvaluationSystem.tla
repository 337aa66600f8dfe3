------------------------ MODULE MCEvaluationSystem -------------------------
(***************************************************************************)
(* Small instances of EvaluationSystem, and of what QueueViews shows of    *)
(* it.  The scores, with the default thresholds of EscalationRule (15, 10, *)
(* [0, 40] and [90, 100]) and the pass mark 70, make every decision go     *)
(* both ways: 35 fails and 95 passes inside the verifier ranges, 80 passes *)
(* outside them, 80 and 95 are just not far enough apart to escalate, and  *)
(* any two open an audit case.                                             *)
(***************************************************************************)
EXTENDS QueueViews, TLC

CONSTANTS e1, e2, q1, q2, v1, v2, a1, w1, w2, b1, b2

MCScores == {35, 80, 95}
MCScoresTwo == {80, 95}
MCVerifierRanges == {<<0, 40>>, <<90, 100>>}
MCLegacyScores == {35, 80}

\* Reviewers of one role are interchangeable; so are workers and backfills.
MCSymmetry == Permutations(QaUsers) \cup Permutations(VerifierUsers)
              \cup Permutations(Workers)
MCSymmetryTwo == Permutations(Evals) \cup Permutations(Workers)
                 \cup Permutations(Backfills)
=============================================================================
