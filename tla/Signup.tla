------------------------------- MODULE Signup -------------------------------
(***************************************************************************)
(* How a workspace is signed up for (auth_service.py): a code is sent to   *)
(* an e-mail address, the code is verified, the verification is used up by *)
(* the signup, whose run of the provisioning ends with a session of the    *)
(* new administrator.  Codes and verifications are keys of Redis that      *)
(* expire; tenants are rows of the master database.  Requests overlap      *)
(* between any two calls to Redis or the database, and may crash there.    *)
(*                                                                         *)
(* What provisioning does is TenantProvisioning's; here it succeeds or     *)
(* raises.  Codes are random numbers; that two are equal is left out.      *)
(***************************************************************************)
EXTENDS Naturals, FiniteSets

CONSTANTS
  Emails, Slugs,
  Codes,      \* bounds the codes sent
  None,       \* a missing key, row or owner
  Requests    \* slots of overlapping requests

Tenant == [email : Emails, status : {"PROVISIONING", "ACTIVE"}, session : BOOLEAN]

ASSUME SignupAssumption ==
  /\ None \notin Emails \cup Codes \cup Tenant

VARIABLES
  sent,       \* the address each code was sent to
  otp,        \* signup_otp keys
  verified,   \* signup_verified keys
  tenant,     \* tenants, by slug, with their administrator
  proved,     \* history: the codes that verified each address
  request

vars == <<sent, otp, verified, tenant, proved, request>>

Idle == [op |-> "idle"]

Taken == {s \in Slugs : tenant[s] # None}

Continue(r, op) == request' = [request EXCEPT ![r].op = op]

End(r) == request' = [request EXCEPT ![r] = Idle]

Begin(r, record) ==
  /\ request[r] = Idle
  /\ request' = [request EXCEPT ![r] = record]
  /\ UNCHANGED <<sent, otp, verified, tenant, proved>>

-----------------------------------------------------------------------------
(* The code *)

\* signup_send_otp: a newer code replaces the older one.
SendOtp(e, c) ==
  /\ sent[c] = None
  /\ sent' = [sent EXCEPT ![c] = e]
  /\ otp' = [otp EXCEPT ![e] = c]
  /\ UNCHANGED <<verified, tenant, proved, request>>

\* The five minutes of a code, and the fifteen of a verification, are over.
ExpireOtp(e) ==
  /\ otp[e] # None
  /\ otp' = [otp EXCEPT ![e] = None]
  /\ UNCHANGED <<sent, verified, tenant, proved, request>>

ExpireVerified(e) ==
  /\ verified[e]
  /\ verified' = [verified EXCEPT ![e] = FALSE]
  /\ UNCHANGED <<sent, otp, tenant, proved, request>>

\* signup_verify_otp raises on a missing code and on another one.
ReadOtp(r, e, c) ==
  /\ otp[e] = c
  /\ Begin(r, [op |-> "delete", email |-> e, code |-> c])

\* The key is deleted whatever it holds by now.
DeleteOtp(r) ==
  /\ request[r].op = "delete"
  /\ otp' = [otp EXCEPT ![request[r].email] = None]
  /\ Continue(r, "mark")
  /\ UNCHANGED <<sent, verified, tenant, proved>>

MarkVerified(r) ==
  LET q == request[r] IN
  /\ q.op = "mark"
  /\ verified' = [verified EXCEPT ![q.email] = TRUE]
  /\ proved' = [proved EXCEPT ![q.email] = @ \cup {q.code}]
  /\ End(r)
  /\ UNCHANGED <<sent, otp, tenant>>

-----------------------------------------------------------------------------
(* The signup *)

\* Mutant: the verification is not looked for.
ReadVerified_Skipped(r, e, s) == Begin(r, [op |-> "take", email |-> e, slug |-> s])

ReadVerified(r, e, s) ==
  /\ verified[e]
  /\ Begin(r, [op |-> "take", email |-> e, slug |-> s])

\* A slug that is taken raises and leaves the verification.
TakeVerified(r) ==
  LET q == request[r] IN
  /\ q.op = "take"
  /\ IF q.slug \in Taken
     THEN End(r) /\ UNCHANGED verified
     ELSE /\ verified' = [verified EXCEPT ![q.email] = FALSE]
          /\ Continue(r, "insert")
  /\ UNCHANGED <<sent, otp, tenant, proved>>

\* tenants.slug is unique: the later of two inserts fails.
InsertTenant(r) ==
  LET q == request[r] IN
  /\ q.op = "insert"
  /\ IF q.slug \in Taken
     THEN End(r) /\ UNCHANGED tenant
     ELSE /\ tenant' = [tenant EXCEPT ![q.slug] =
               [email |-> q.email, status |-> "PROVISIONING", session |-> FALSE]]
          /\ Continue(r, "provision")
  /\ UNCHANGED <<sent, otp, verified, proved>>

\* Mutant: a failure of the provisioning is logged and no more.
Provision_Swallowed(r) ==
  LET s == request[r].slug IN
  /\ request[r].op = "provision"
  /\ \E status \in {"PROVISIONING", "ACTIVE"} :
       tenant' = [tenant EXCEPT ![s].status = status]
  /\ Continue(r, "issue")
  /\ UNCHANGED <<sent, otp, verified, proved>>

\* tenant_provision raises, and the tenant stays as it is, or activates it.
Provision(r) ==
  LET s == request[r].slug IN
  /\ request[r].op = "provision"
  /\ \/ End(r) /\ UNCHANGED tenant
     \/ /\ tenant' = [tenant EXCEPT ![s].status = "ACTIVE"]
        /\ Continue(r, "issue")
  /\ UNCHANGED <<sent, otp, verified, proved>>

IssueSession(r) ==
  /\ request[r].op = "issue"
  /\ tenant' = [tenant EXCEPT ![request[r].slug].session = TRUE]
  /\ End(r)
  /\ UNCHANGED <<sent, otp, verified, proved>>

\* The API process stops: what was written stays.
Crash(r) ==
  /\ request[r] # Idle
  /\ End(r)
  /\ UNCHANGED <<sent, otp, verified, tenant, proved>>

-----------------------------------------------------------------------------
Init ==
  /\ sent = [c \in Codes |-> None]
  /\ otp = [e \in Emails |-> None]
  /\ verified = [e \in Emails |-> FALSE]
  /\ tenant = [s \in Slugs |-> None]
  /\ proved = [e \in Emails |-> {}]
  /\ request = [r \in Requests |-> Idle]

Verification(r) ==
  \/ \E e \in Emails, c \in Codes : ReadOtp(r, e, c)
  \/ DeleteOtp(r) \/ MarkVerified(r)

SignupRequest(r) ==
  \/ \E e \in Emails, s \in Slugs : ReadVerified(r, e, s)
  \/ TakeVerified(r) \/ InsertTenant(r) \/ Provision(r) \/ IssueSession(r)

Next ==
  \/ \E e \in Emails :
       \/ \E c \in Codes : SendOtp(e, c)
       \/ ExpireOtp(e) \/ ExpireVerified(e)
  \/ \E r \in Requests : Verification(r) \/ SignupRequest(r) \/ Crash(r)

Spec == Init /\ [][Next]_vars

-----------------------------------------------------------------------------
(* Properties *)

\* Keys and rows hold what their writers give them; a request knows its step.
TypeOK ==
  /\ sent \in [Codes -> Emails \cup {None}]
  /\ otp \in [Emails -> Codes \cup {None}]
  /\ verified \in [Emails -> BOOLEAN]
  /\ tenant \in [Slugs -> Tenant \cup {None}]
  /\ proved \in [Emails -> SUBSET Codes]
  /\ request \in [Requests ->
       {Idle}
       \cup [op : {"delete", "mark"}, email : Emails, code : Codes]
       \cup [op : {"take", "insert", "provision", "issue"}, email : Emails, slug : Slugs]]

\* A workspace belongs to an address that verified a code that was sent to it,
\* whichever requests of whichever addresses overlap.
SignupNeedsCode ==
  \A s \in Taken : \E c \in proved[tenant[s].email] : sent[c] = tenant[s].email

\* A workspace is never taken over by a later signup, and one that is active
\* stays so.
SlugIsKept ==
  [][\A s \in Taken : /\ tenant'[s] # None
                      /\ tenant'[s].email = tenant[s].email
                      /\ tenant[s].status = "ACTIVE" => tenant'[s].status = "ACTIVE"]_vars

\* A signup whose provisioning failed, or is under way, hands out no session.
SessionNeedsProvisioning ==
  \A s \in Taken : tenant[s].session => tenant[s].status = "ACTIVE"
=============================================================================
