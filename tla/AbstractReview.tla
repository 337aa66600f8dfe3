-------------------------- MODULE AbstractReview ---------------------------
(***************************************************************************)
(* What the evaluation workflow promises, without queues, jobs, workers,   *)
(* escalations or transactions: every conversation's evaluation moves      *)
(* through stages; in a reviewing stage at most one person owns it; only   *)
(* owned work is handed on, sent back or locked; a verdict is given by     *)
(* locking and is gone only when the evaluation is started over.           *)
(*                                                                         *)
(* Several evaluations may move in one step (a scan or a round robin is    *)
(* one transaction), each by a move of its own.                            *)
(***************************************************************************)
CONSTANTS Evals, Users, NoUser

VARIABLES stage, owner, verdict

abstract == <<stage, owner, verdict>>

Stage == {"absent", "automatic", "qa", "verifier", "locked"}
Reviewing == {"qa", "verifier"}

Becomes(e, s, o, v) == stage'[e] = s /\ owner'[e] = o /\ verdict'[e] = v

Stays(e) == Becomes(e, stage[e], owner[e], verdict[e])

\* A conversation is received: for the automatic stage, or directly for QA.
Arrive(e) ==
  /\ stage[e] = "absent"
  /\ \/ Becomes(e, "automatic", NoUser, "none")
     \/ \E o \in Users \cup {NoUser} : Becomes(e, "qa", o, "none")

\* The automatic stage ends in QA, for somebody or for anybody.
Route(e) ==
  /\ stage[e] = "automatic"
  /\ \E o \in Users \cup {NoUser} : Becomes(e, "qa", o, "none")

\* Work is claimed, or given to somebody (else).
Take(e) ==
  /\ stage[e] \in Reviewing
  /\ \E o \in Users : Becomes(e, stage[e], o, "none")

\* The owner in QA hands on to verification.
HandOn(e) ==
  /\ stage[e] = "qa"
  /\ owner[e] # NoUser
  /\ \E o \in Users \cup {NoUser} : Becomes(e, "verifier", o, "none")

\* The owner in verification sends the work back to QA.
SendBack(e) ==
  /\ stage[e] = "verifier"
  /\ owner[e] # NoUser
  /\ Becomes(e, "qa", NoUser, "none")

\* The owner locks the evaluation with a verdict.
Lock(e) ==
  /\ stage[e] \in Reviewing
  /\ owner[e] # NoUser
  /\ \E v \in {"pass", "fail"} : Becomes(e, "locked", NoUser, v)

\* A re-audit (or a retry) starts the evaluation over.
Restart(e) ==
  /\ stage[e] # "absent"
  /\ Becomes(e, "automatic", NoUser, "none")

Move(e) ==
  \/ Stays(e) \/ Arrive(e) \/ Route(e) \/ Take(e) \/ HandOn(e)
  \/ SendBack(e) \/ Lock(e) \/ Restart(e)

Init ==
  /\ stage \in [Evals -> {"absent", "automatic", "qa"}]
  /\ owner = [e \in Evals |-> NoUser]
  /\ verdict = [e \in Evals |-> "none"]

Next ==
  /\ stage' \in [Evals -> Stage]
  /\ \A e \in Evals : Move(e)

Spec == Init /\ [][Next]_abstract
=============================================================================
