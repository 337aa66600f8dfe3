---------------------------- MODULE TenantProofs ----------------------------
(***************************************************************************)
(* Proofs about what administrates one tenant: its signup (Signup), its    *)
(* provisioning (TenantProvisioning) and its configuration (Forms,         *)
(* Routing, TenantSettings); for every set of addresses, rows, keys and    *)
(* overlapping requests or threads.  What holds only while the requests    *)
(* come one at a time is proved for one slot of requests (OneSlot), and    *)
(* what runs one by one for one thread (OneThread).                        *)
(***************************************************************************)
EXTENDS Signup, FiniteSetTheorems, TLAPS

CONSTANTS
  Processes, Slots, MaxPasswords, MayFailIn,                        \* TenantProvisioning
  FormIds, Keys, Channels, Departments, NoDepartment, NoForm, MaxForms,  \* Forms
  Mappings, Users, NoRow, Reorganised,                                   \* Routing
  Rules, Points                                                          \* TenantSettings

VARIABLES
  status, stored, configured, minted, role, database, schema, form,
  pool, thread,                                                       \* TenantProvisioning
  forms, formRequest,                                                 \* Forms
  dept, mapping, setting, member, audit, routingRequest,              \* Routing
  rule, blind, llm, settingsRequest                                   \* TenantSettings

Setup == INSTANCE TenantProvisioning

Form == INSTANCE Forms WITH request <- formRequest

Routes == INSTANCE Routing WITH request <- routingRequest

Settings == INSTANCE TenantSettings WITH request <- settingsRequest

-----------------------------------------------------------------------------
(* Signup *)

Verifying == [op : {"delete", "mark"}, email : Emails, code : Codes]

SigningUp == [op : {"take", "insert", "provision", "issue"}, email : Emails, slug : Slugs]

\* A request that provisions, or that issues a session, has its tenant's row.
OwnTenant ==
  \A r \in Requests :
    /\ request[r].op = "provision" => request[r].slug \in Taken
    /\ request[r].op = "issue" => /\ request[r].slug \in Taken
                                 /\ tenant[request[r].slug].status = "ACTIVE"

\* A code that is stored or in a request's hands was sent to its address.
CodesAreSent ==
  /\ \A e \in Emails : otp[e] # None => sent[otp[e]] = e
  /\ \A r \in Requests :
       request[r].op \in {"delete", "mark"} => sent[request[r].code] = request[r].email

Proved(e) == \E c \in proved[e] : sent[c] = e

\* Every verification, every signup under way and every tenant goes back to a
\* code of its address.
AddressesAreProved ==
  /\ \A e \in Emails : verified[e] => Proved(e)
  /\ \A r \in Requests :
       request[r].op \in {"take", "insert", "provision", "issue"} => Proved(request[r].email)
  /\ \A s \in Taken : Proved(tenant[s].email)

IInv == TypeOK /\ OwnTenant /\ CodesAreSent /\ AddressesAreProved /\ SessionNeedsProvisioning

USE SignupAssumption

-----------------------------------------------------------------------------
(* Types *)

\* The step of a request goes to the next one, or ends.
LEMMA RequestSteps ==
  ASSUME TypeOK, NEW r \in Requests
  PROVE  /\ End(r) => request' \in [Requests -> {Idle} \cup Verifying \cup SigningUp]
         /\ request[r].op = "delete" /\ Continue(r, "mark")
              => request' \in [Requests -> {Idle} \cup Verifying \cup SigningUp]
         /\ \A op \in {"insert", "provision", "issue"} :
              request[r] \in SigningUp /\ Continue(r, op)
                => request' \in [Requests -> {Idle} \cup Verifying \cup SigningUp]
<1> DEFINE Kinds == {Idle} \cup Verifying \cup SigningUp
<1>1. request \in [Requests -> Kinds]
  BY DEF TypeOK, Verifying, SigningUp
<1>2. ASSUME End(r) PROVE request' \in [Requests -> Kinds]
  BY <1>1, <1>2 DEF End
<1>3. ASSUME request[r].op = "delete", Continue(r, "mark")
      PROVE  request' \in [Requests -> Kinds]
  <2>1. request[r] \in Verifying
    BY <1>1, <1>3 DEF Verifying, SigningUp, Idle
  <2>2. [request[r] EXCEPT !.op = "mark"] \in Verifying
    BY <2>1 DEF Verifying
  <2> QED BY <1>1, <1>3, <2>2 DEF Continue
<1>4. ASSUME NEW op \in {"insert", "provision", "issue"}, request[r] \in SigningUp,
             Continue(r, op)
      PROVE  request' \in [Requests -> Kinds]
  <2>1. [request[r] EXCEPT !.op = op] \in SigningUp
    BY <1>4 DEF SigningUp
  <2> QED BY <1>1, <1>4, <2>1 DEF Continue
<1> QED BY <1>2, <1>3, <1>4

LEMMA RequestKinds ==
  ASSUME TypeOK, NEW r \in Requests
  PROVE  /\ request[r].op \in {"delete", "mark"} => request[r] \in Verifying
         /\ request[r].op \in {"take", "insert", "provision", "issue"}
              => request[r] \in SigningUp
  BY DEF TypeOK, Verifying, SigningUp, Idle

LEMMA TypeStep ==
  ASSUME TypeOK, OwnTenant, [Next]_vars
  PROVE  TypeOK'
<1> DEFINE Kinds == {Idle} \cup Verifying \cup SigningUp
<1>1. TypeOK <=> /\ sent \in [Codes -> Emails \cup {None}]
                 /\ otp \in [Emails -> Codes \cup {None}]
                 /\ verified \in [Emails -> BOOLEAN]
                 /\ tenant \in [Slugs -> Tenant \cup {None}]
                 /\ proved \in [Emails -> SUBSET Codes]
                 /\ request \in [Requests -> Kinds]
  BY DEF TypeOK, Verifying, SigningUp
<1>2. ASSUME NEW e \in Emails, NEW c \in Codes, SendOtp(e, c) PROVE TypeOK'
  BY <1>2 DEF TypeOK, SendOtp
<1>3. ASSUME NEW e \in Emails, ExpireOtp(e) PROVE TypeOK'
  BY <1>3 DEF TypeOK, ExpireOtp
<1>4. ASSUME NEW e \in Emails, ExpireVerified(e) PROVE TypeOK'
  BY <1>4 DEF TypeOK, ExpireVerified
<1>5. ASSUME NEW r \in Requests, NEW e \in Emails, NEW c \in Codes, ReadOtp(r, e, c)
      PROVE  TypeOK'
  <2>1. [op |-> "delete", email |-> e, code |-> c] \in Verifying
    BY DEF Verifying
  <2>2. request' \in [Requests -> Kinds]
    BY <1>1, <1>5, <2>1 DEF ReadOtp, Begin
  <2> QED BY <1>5, <2>2 DEF TypeOK, ReadOtp, Begin, Verifying, SigningUp
<1>6. ASSUME NEW r \in Requests, DeleteOtp(r) PROVE TypeOK'
  <2>1. request' \in [Requests -> Kinds]
    BY <1>6, RequestSteps DEF DeleteOtp
  <2> QED BY <1>6, <2>1 DEF TypeOK, DeleteOtp, Verifying, SigningUp
<1>7. ASSUME NEW r \in Requests, MarkVerified(r) PROVE TypeOK'
  <2>1. request[r] \in Verifying
    BY <1>7, RequestKinds DEF MarkVerified
  <2>2. request' \in [Requests -> Kinds]
    BY <1>7, RequestSteps DEF MarkVerified
  <2>3. request[r].email \in Emails /\ request[r].code \in Codes
    BY <2>1 DEF Verifying
  <2> QED BY <1>7, <2>2, <2>3 DEF TypeOK, MarkVerified, Verifying, SigningUp
<1>8. ASSUME NEW r \in Requests, NEW e \in Emails, NEW s \in Slugs, ReadVerified(r, e, s)
      PROVE  TypeOK'
  <2>1. [op |-> "take", email |-> e, slug |-> s] \in SigningUp
    BY DEF SigningUp
  <2>2. request' \in [Requests -> Kinds]
    BY <1>1, <1>8, <2>1 DEF ReadVerified, Begin
  <2> QED BY <1>8, <2>2 DEF TypeOK, ReadVerified, Begin, Verifying, SigningUp
<1>9. ASSUME NEW r \in Requests, TakeVerified(r) PROVE TypeOK'
  <2>1. request[r] \in SigningUp
    BY <1>9, RequestKinds DEF TakeVerified
  <2>2. request' \in [Requests -> Kinds]
    BY <1>9, <2>1, RequestSteps DEF TakeVerified
  <2> QED BY <1>9, <2>2 DEF TypeOK, TakeVerified, Verifying, SigningUp
<1>10. ASSUME NEW r \in Requests, InsertTenant(r) PROVE TypeOK'
  <2>1. request[r] \in SigningUp
    BY <1>10, RequestKinds DEF InsertTenant
  <2>2. request' \in [Requests -> Kinds]
    BY <1>10, <2>1, RequestSteps DEF InsertTenant
  <2>3. [email |-> request[r].email, status |-> "PROVISIONING", session |-> FALSE] \in Tenant
    BY <2>1 DEF SigningUp, Tenant
  <2> QED BY <1>10, <2>2, <2>3 DEF TypeOK, InsertTenant, Verifying, SigningUp
<1>11. ASSUME NEW r \in Requests, Provision(r) PROVE TypeOK'
  <2>1. request[r] \in SigningUp
    BY <1>11, RequestKinds DEF Provision
  <2>2. request' \in [Requests -> Kinds]
    BY <1>11, <2>1, RequestSteps DEF Provision
  <2>3. [tenant[request[r].slug] EXCEPT !.status = "ACTIVE"] \in Tenant
    <3>1. request[r].slug \in Slugs
      BY <2>1 DEF SigningUp
    <3>2. tenant[request[r].slug] \in Tenant
      BY <1>1, <1>11, <3>1 DEF OwnTenant, Taken, Provision
    <3> QED BY <3>2 DEF Tenant
  <2>4. tenant' \in [Slugs -> Tenant \cup {None}]
    BY <1>1, <1>11, <2>1, <2>3 DEF Provision, SigningUp
  <2> QED BY <1>11, <2>2, <2>4 DEF TypeOK, Provision, Verifying, SigningUp
<1>12. ASSUME NEW r \in Requests, IssueSession(r) PROVE TypeOK'
  <2>1. request[r] \in SigningUp
    BY <1>12, RequestKinds DEF IssueSession
  <2>2. request' \in [Requests -> Kinds]
    BY <1>12, RequestSteps DEF IssueSession
  <2>3. [tenant[request[r].slug] EXCEPT !.session = TRUE] \in Tenant
    <3>1. request[r].slug \in Slugs
      BY <2>1 DEF SigningUp
    <3>2. tenant[request[r].slug] \in Tenant
      BY <1>1, <1>12, <3>1 DEF OwnTenant, Taken, IssueSession
    <3> QED BY <3>2 DEF Tenant
  <2>4. tenant' \in [Slugs -> Tenant \cup {None}]
    BY <1>1, <1>12, <2>1, <2>3 DEF IssueSession, SigningUp
  <2> QED BY <1>12, <2>2, <2>4 DEF TypeOK, IssueSession, Verifying, SigningUp
<1>13. ASSUME NEW r \in Requests, Crash(r) PROVE TypeOK'
  <2>1. request' \in [Requests -> Kinds]
    BY <1>13, RequestSteps DEF Crash
  <2> QED BY <1>13, <2>1 DEF TypeOK, Crash, Verifying, SigningUp
<1>14. CASE UNCHANGED vars
  BY <1>14 DEF TypeOK, vars
<1> QED
  BY <1>2, <1>3, <1>4, <1>5, <1>6, <1>7, <1>8, <1>9, <1>10, <1>11, <1>12, <1>13, <1>14
  DEF Next, Verification, SignupRequest

-----------------------------------------------------------------------------
(* Whose tenant a request works on *)

\* Tenants are kept by every step: a row is neither removed nor given away.
LEMMA TenantStep ==
  ASSUME TypeOK, OwnTenant, [Next]_vars
  PROVE  \A s \in Taken : /\ tenant'[s] # None
                          /\ tenant'[s].email = tenant[s].email
                          /\ tenant[s].status = "ACTIVE" => tenant'[s].status = "ACTIVE"
<1> SUFFICES ASSUME NEW s \in Taken
             PROVE  /\ tenant'[s] # None
                    /\ tenant'[s].email = tenant[s].email
                    /\ tenant[s].status = "ACTIVE" => tenant'[s].status = "ACTIVE"
  OBVIOUS
<1>1. s \in Slugs /\ tenant[s] \in Tenant /\ tenant[s] # None
  BY DEF Taken, TypeOK
<1>2. tenant \in [Slugs -> Tenant \cup {None}]
  BY DEF TypeOK
<1>3. CASE UNCHANGED tenant
  BY <1>1, <1>3
<1>4. ASSUME NEW r \in Requests, InsertTenant(r), ~UNCHANGED tenant
      PROVE  tenant'[s] = tenant[s]
  BY <1>1, <1>2, <1>4 DEF InsertTenant
<1>5. ASSUME NEW r \in Requests, Provision(r) \/ IssueSession(r)
      PROVE  /\ tenant'[s] # None
             /\ tenant'[s].email = tenant[s].email
             /\ tenant[s].status = "ACTIVE" => tenant'[s].status = "ACTIVE"
  <2>1. CASE Provision(r) /\ ~UNCHANGED tenant /\ s = request[r].slug
    <3>1. tenant'[s] = [tenant[s] EXCEPT !.status = "ACTIVE"]
      BY <1>1, <1>2, <2>1 DEF Provision
    <3>2. tenant'[s] \in Tenant
      BY <1>1, <3>1 DEF Tenant
    <3> QED BY <1>1, <3>1, <3>2, SignupAssumption DEF Tenant
  <2>2. CASE IssueSession(r) /\ s = request[r].slug
    <3>1. tenant'[s] = [tenant[s] EXCEPT !.session = TRUE]
      BY <1>1, <1>2, <2>2 DEF IssueSession
    <3>2. tenant'[s] \in Tenant
      BY <1>1, <3>1 DEF Tenant
    <3> QED BY <1>1, <3>1, <3>2, SignupAssumption DEF Tenant
  <2>3. CASE s # request[r].slug
    <3>1. tenant'[s] = tenant[s]
      BY <1>1, <1>2, <1>5, <2>3 DEF Provision, IssueSession
    <3> QED BY <1>1, <3>1
  <2> QED BY <1>1, <1>3, <1>5, <2>1, <2>2, <2>3
<1> QED
  BY <1>1, <1>3, <1>4, <1>5
  DEF Next, Verification, SignupRequest, vars, SendOtp, ExpireOtp, ExpireVerified,
      ReadOtp, DeleteOtp, MarkVerified, ReadVerified, TakeVerified, Begin, Crash

\* A request that comes to provision has inserted the row; one that comes to
\* issue has activated it.
LEMMA OwnTenantStep ==
  ASSUME TypeOK, OwnTenant, [Next]_vars
  PROVE  OwnTenant'
<1> SUFFICES ASSUME NEW r \in Requests
             PROVE  /\ request'[r].op = "provision" => request'[r].slug \in Taken'
                    /\ request'[r].op = "issue"
                         => /\ request'[r].slug \in Taken'
                            /\ tenant'[request'[r].slug].status = "ACTIVE"
  BY DEF OwnTenant
<1>1. Taken \subseteq Taken' /\ \A s \in Taken : tenant[s].status = "ACTIVE"
                                                  => tenant'[s].status = "ACTIVE"
  BY TenantStep DEF Taken
<1>2. CASE request'[r] = request[r]
  BY <1>1, <1>2 DEF OwnTenant
<1>3. ASSUME NEW q \in Requests, InsertTenant(q), q = r, request'[r] # request[r]
      PROVE  request'[r].op \in {"idle", "provision"} /\ (request'[r].op = "provision" =>
               request'[r].slug \in Taken')
  <2>1. request[r] \in SigningUp /\ request[r].slug \in Slugs
    BY <1>3, RequestKinds DEF InsertTenant, SigningUp
  <2>2. CASE request[r].slug \in Taken
    BY <1>3, <2>2 DEF InsertTenant, End, Idle, TypeOK
  <2>3. CASE request[r].slug \notin Taken
    <3>1. request'[r] = [request[r] EXCEPT !.op = "provision"]
      BY <1>3, <2>3 DEF InsertTenant, Continue, TypeOK
    <3>2. request'[r].op = "provision" /\ request'[r].slug = request[r].slug
      BY <2>1, <3>1 DEF SigningUp
    <3>3. tenant'[request[r].slug]
            = [email |-> request[r].email, status |-> "PROVISIONING", session |-> FALSE]
      BY <1>3, <2>1, <2>3 DEF InsertTenant, TypeOK
    <3>4. tenant'[request[r].slug] \in Tenant
      BY <2>1, <3>3 DEF SigningUp, Tenant
    <3> QED BY <2>1, <3>2, <3>4, SignupAssumption DEF Taken
  <2> QED BY <2>2, <2>3
<1>4. ASSUME NEW q \in Requests, Provision(q), q = r, request'[r] # request[r]
      PROVE  /\ request'[r].op \in {"idle", "issue"}
             /\ request'[r].op = "issue" => /\ request'[r].slug \in Taken'
                                            /\ tenant'[request'[r].slug].status = "ACTIVE"
  <2>1. request[r] \in SigningUp /\ request[r].slug \in Slugs /\ request[r].slug \in Taken
    BY <1>4, RequestKinds DEF Provision, SigningUp, OwnTenant
  <2>2. CASE End(r)
    BY <2>2 DEF End, Idle, TypeOK
  <2>3. CASE Continue(r, "issue") /\ tenant' = [tenant EXCEPT ![request[r].slug].status = "ACTIVE"]
    <3>1. request'[r] = [request[r] EXCEPT !.op = "issue"]
      BY <2>3 DEF Continue, TypeOK
    <3>2. request'[r].op = "issue" /\ request'[r].slug = request[r].slug
      BY <2>1, <3>1 DEF SigningUp
    <3>3. tenant[request[r].slug] \in Tenant
      BY <2>1 DEF Taken, TypeOK
    <3>4. tenant'[request[r].slug] = [tenant[request[r].slug] EXCEPT !.status = "ACTIVE"]
      BY <2>1, <2>3 DEF TypeOK
    <3>5. tenant'[request[r].slug].status = "ACTIVE"
      BY <3>3, <3>4 DEF Tenant
    <3> QED BY <1>1, <2>1, <3>2, <3>5
  <2> QED BY <1>4, <2>2, <2>3 DEF Provision
<1>5. ASSUME NEW q \in Requests, q = r, request'[r] # request[r],
             \/ Verification(q) \/ TakeVerified(q) \/ IssueSession(q) \/ Crash(q)
             \/ \E e \in Emails, s \in Slugs : ReadVerified(q, e, s)
      PROVE  request'[r].op \notin {"provision", "issue"}
  <2>1. CASE End(r)
    BY <2>1 DEF End, Idle, TypeOK
  <2>2. CASE DeleteOtp(r)
    <3>1. request[r] \in Verifying
      BY <2>2, RequestKinds DEF DeleteOtp
    <3>2. request'[r] = [request[r] EXCEPT !.op = "mark"]
      BY <2>2 DEF DeleteOtp, Continue, TypeOK
    <3> QED BY <3>1, <3>2 DEF Verifying
  <2>3. CASE TakeVerified(r) /\ ~End(r)
    <3>1. request[r] \in SigningUp
      BY <2>3, RequestKinds DEF TakeVerified
    <3>2. request'[r] = [request[r] EXCEPT !.op = "insert"]
      BY <2>3 DEF TakeVerified, Continue, TypeOK
    <3> QED BY <3>1, <3>2 DEF SigningUp
  <2>4. CASE \/ \E e \in Emails, c \in Codes : ReadOtp(r, e, c)
             \/ \E e \in Emails, s \in Slugs : ReadVerified(r, e, s)
    BY <2>4 DEF ReadOtp, ReadVerified, Begin, TypeOK
  <2> QED
    BY <1>5, <2>1, <2>2, <2>3, <2>4 DEF Verification, MarkVerified, IssueSession, Crash
<1>6. ASSUME NEW q \in Requests, Verification(q) \/ SignupRequest(q) \/ Crash(q), q # r
      PROVE  request'[r] = request[r]
  BY <1>6 DEF Verification, SignupRequest, Crash, ReadOtp, DeleteOtp, MarkVerified,
     ReadVerified, TakeVerified, InsertTenant, Provision, IssueSession, Begin, Continue,
     End, TypeOK
<1>7. CASE UNCHANGED request
  BY <1>2, <1>7
<1>8. CASE \E q \in Requests : Verification(q) \/ SignupRequest(q) \/ Crash(q)
  BY <1>2, <1>3, <1>4, <1>5, <1>6, <1>8 DEF SignupRequest
<1> QED
  BY <1>7, <1>8 DEF Next, vars, SendOtp, ExpireOtp, ExpireVerified

-----------------------------------------------------------------------------
(* Codes go back to the address they were sent to *)

\* A code is sent once, and a proof once given is not taken back.
LEMMA HistoryStep ==
  ASSUME TypeOK, [Next]_vars
  PROVE  /\ \A c \in Codes : sent[c] # None => sent'[c] = sent[c]
         /\ \A e \in Emails : proved[e] \subseteq proved'[e]
<1>1. sent \in [Codes -> Emails \cup {None}] /\ proved \in [Emails -> SUBSET Codes]
  BY DEF TypeOK
<1>2. \A c \in Codes : sent[c] # None => sent'[c] = sent[c]
  BY <1>1 DEF Next, Verification, SignupRequest, vars, SendOtp, ExpireOtp, ExpireVerified,
     ReadOtp, DeleteOtp, MarkVerified, ReadVerified, TakeVerified, InsertTenant, Provision,
     IssueSession, Crash, Begin
<1>3. \A e \in Emails : proved[e] \subseteq proved'[e]
  <2>1. ASSUME NEW r \in Requests, MarkVerified(r)
        PROVE  \A e \in Emails : proved[e] \subseteq proved'[e]
    BY <1>1, <2>1 DEF MarkVerified
  <2>2. CASE UNCHANGED proved
    BY <2>2
  <2> QED
    BY <2>1, <2>2 DEF Next, Verification, SignupRequest, vars, SendOtp, ExpireOtp,
       ExpireVerified, ReadOtp, DeleteOtp, ReadVerified, TakeVerified, InsertTenant,
       Provision, IssueSession, Crash, Begin
<1> QED BY <1>2, <1>3

LEMMA ProvedStep ==
  ASSUME TypeOK, [Next]_vars, NEW e \in Emails, Proved(e)
  PROVE  Proved(e)'
<1>1. PICK c \in proved[e] : sent[c] = e
  BY DEF Proved
<1>2. c \in Codes /\ sent[c] # None
  BY <1>1, SignupAssumption DEF TypeOK
<1> QED BY <1>1, <1>2, HistoryStep DEF Proved

\* What a request holds after a step: it began one, moved on with the same
\* address, or ended.
LEMMA RequestStep ==
  ASSUME TypeOK, [Next]_vars, NEW r \in Requests, request'[r] # request[r]
  PROVE  \/ request'[r] = Idle
         \/ \E e \in Emails, c \in Codes :
              /\ otp[e] = c
              /\ request'[r] = [op |-> "delete", email |-> e, code |-> c]
              /\ UNCHANGED sent
         \/ \E e \in Emails, s \in Slugs :
              /\ verified[e]
              /\ request'[r] = [op |-> "take", email |-> e, slug |-> s]
         \/ /\ request[r] \in Verifying /\ request[r].op = "delete"
            /\ request'[r] = [request[r] EXCEPT !.op = "mark"]
         \/ /\ request[r] \in SigningUp
            /\ \E op \in {"insert", "provision", "issue"} :
                 request'[r] = [request[r] EXCEPT !.op = op]
<1>1. PICK q \in Requests : Verification(q) \/ SignupRequest(q) \/ Crash(q)
  BY DEF Next, vars, SendOtp, ExpireOtp, ExpireVerified
<1>2. q = r
  BY <1>1 DEF Verification, SignupRequest, Crash, ReadOtp, DeleteOtp, MarkVerified,
     ReadVerified, TakeVerified, InsertTenant, Provision, IssueSession, Begin, Continue,
     End, TypeOK
<1>3. ASSUME NEW e \in Emails, NEW c \in Codes, ReadOtp(r, e, c)
      PROVE  /\ otp[e] = c
             /\ request'[r] = [op |-> "delete", email |-> e, code |-> c]
             /\ UNCHANGED sent
  BY <1>3 DEF ReadOtp, Begin, TypeOK
<1>4. ASSUME NEW e \in Emails, NEW s \in Slugs, ReadVerified(r, e, s)
      PROVE  /\ verified[e]
             /\ request'[r] = [op |-> "take", email |-> e, slug |-> s]
  BY <1>4 DEF ReadVerified, Begin, TypeOK
<1>5. CASE DeleteOtp(r)
  <2>1. request'[r] = [request[r] EXCEPT !.op = "mark"]
    BY <1>5 DEF DeleteOtp, Continue, TypeOK
  <2> QED BY <1>5, <2>1, RequestKinds DEF DeleteOtp
<1>6. CASE End(r)
  BY <1>6 DEF End, TypeOK
<1>7. CASE (TakeVerified(r) \/ InsertTenant(r) \/ Provision(r)) /\ ~End(r)
  <2>1. request[r] \in SigningUp
    BY <1>7, RequestKinds DEF TakeVerified, InsertTenant, Provision
  <2>2. \E op \in {"insert", "provision", "issue"} : Continue(r, op)
    BY <1>7 DEF TakeVerified, InsertTenant, Provision
  <2> QED BY <2>1, <2>2 DEF Continue, TypeOK
<1>8. CASE MarkVerified(r) \/ IssueSession(r) \/ Crash(r)
  BY <1>6, <1>8 DEF MarkVerified, IssueSession, Crash
<1> QED
  BY <1>1, <1>2, <1>3, <1>4, <1>5, <1>6, <1>7, <1>8 DEF Verification, SignupRequest

LEMMA CodesAreSentStep ==
  ASSUME TypeOK, CodesAreSent, [Next]_vars
  PROVE  CodesAreSent'
<1>1. ASSUME NEW e \in Emails, otp'[e] # None PROVE sent'[otp'[e]] = e
  <2>1. otp \in [Emails -> Codes \cup {None}] /\ sent \in [Codes -> Emails \cup {None}]
    BY DEF TypeOK
  <2>2. ASSUME NEW f \in Emails, NEW c \in Codes, SendOtp(f, c) PROVE sent'[otp'[e]] = e
    <3>1. CASE e = f
      BY <2>1, <2>2, <3>1 DEF SendOtp
    <3>2. CASE e # f
      <4>1. otp'[e] = otp[e] /\ otp[e] \in Codes /\ sent[otp[e]] = e
        BY <1>1, <2>1, <2>2, <3>2 DEF SendOtp, CodesAreSent
      <4> QED BY <4>1, HistoryStep, SignupAssumption
    <3> QED BY <3>1, <3>2
  <2>3. ASSUME otp'[e] = otp[e] PROVE sent'[otp'[e]] = e
    <3>1. otp[e] \in Codes /\ sent[otp[e]] = e
      BY <1>1, <2>1, <2>3 DEF CodesAreSent
    <3> QED BY <2>3, <3>1, HistoryStep, SignupAssumption
  <2>4. ASSUME NEW f \in Emails, ExpireOtp(f) PROVE otp'[e] = otp[e]
    BY <1>1, <2>1, <2>4 DEF ExpireOtp
  <2>5. ASSUME NEW r \in Requests, DeleteOtp(r) PROVE otp'[e] = otp[e]
    BY <1>1, <2>1, <2>5 DEF DeleteOtp
  <2> QED
    BY <2>2, <2>3, <2>4, <2>5 DEF Next, Verification, SignupRequest, vars, ExpireVerified,
       ReadOtp, MarkVerified, ReadVerified, TakeVerified, InsertTenant, Provision,
       IssueSession, Crash, Begin
<1>2. ASSUME NEW r \in Requests, request'[r].op \in {"delete", "mark"}
      PROVE  sent'[request'[r].code] = request'[r].email
  <2>1. ASSUME request[r] \in Verifying,
               request'[r].code = request[r].code, request'[r].email = request[r].email
        PROVE  sent'[request'[r].code] = request'[r].email
    <3>1. request[r].code \in Codes /\ request[r].email \in Emails
      BY <2>1 DEF Verifying
    <3>2. sent[request[r].code] = request[r].email
      BY <2>1 DEF Verifying, CodesAreSent
    <3> QED BY <2>1, <3>1, <3>2, HistoryStep, SignupAssumption
  <2>2. CASE request'[r] = request[r]
    BY <1>2, <2>1, <2>2, RequestKinds
  <2>3. CASE \E e \in Emails, c \in Codes :
               /\ otp[e] = c
               /\ request'[r] = [op |-> "delete", email |-> e, code |-> c]
               /\ UNCHANGED sent
    BY <2>3, SignupAssumption DEF CodesAreSent
  <2>4. CASE request[r] \in Verifying /\ request'[r] = [request[r] EXCEPT !.op = "mark"]
    BY <2>1, <2>4 DEF Verifying
  <2>5. request'[r] # Idle
    BY <1>2 DEF Idle
  <2>6. ~ \E e \in Emails, s \in Slugs :
              /\ verified[e]
              /\ request'[r] = [op |-> "take", email |-> e, slug |-> s]
    <3>1. ASSUME NEW e \in Emails, NEW s \in Slugs,
                 request'[r] = [op |-> "take", email |-> e, slug |-> s]
          PROVE  FALSE
      BY <1>2, <3>1
    <3> QED BY <3>1
  <2>7. ~ /\ request[r] \in SigningUp
          /\ \E op \in {"insert", "provision", "issue"} :
               request'[r] = [request[r] EXCEPT !.op = op]
    BY <1>2 DEF SigningUp
  <2> QED BY <2>2, <2>3, <2>4, <2>5, <2>6, <2>7, RequestStep
<1> QED BY <1>1, <1>2 DEF CodesAreSent

LEMMA AddressesAreProvedStep ==
  ASSUME TypeOK, CodesAreSent, AddressesAreProved, OwnTenant, [Next]_vars
  PROVE  AddressesAreProved'
<1> DEFINE Now(e) == \E c \in proved'[e] : sent'[c] = e
<1>0. \A e \in Emails : Proved(e) => Now(e)
  BY ProvedStep DEF Proved
<1>1. ASSUME NEW e \in Emails, verified'[e] PROVE Now(e)
  <2>1. verified \in [Emails -> BOOLEAN]
    BY DEF TypeOK
  <2>2. CASE verified[e]
    BY <1>0, <2>2 DEF AddressesAreProved
  <2>3. ASSUME NEW r \in Requests, MarkVerified(r), ~verified[e] PROVE Now(e)
    <3>1. request[r] \in Verifying /\ sent[request[r].code] = request[r].email
      BY <2>3, RequestKinds DEF MarkVerified, CodesAreSent
    <3>2. request[r].email = e
      BY <1>1, <2>1, <2>3, <3>1 DEF MarkVerified, Verifying
    <3>3. request[r].code \in proved'[e] /\ sent'[request[r].code] = e
      BY <2>3, <3>1, <3>2 DEF MarkVerified, Verifying, TypeOK
    <3> QED BY <3>3 DEF Proved
  <2>4. ASSUME \/ \E f \in Emails : ExpireVerified(f)
               \/ \E r \in Requests : TakeVerified(r)
        PROVE  verified[e]
    BY <1>1, <2>1, <2>4 DEF ExpireVerified, TakeVerified
  <2> QED
    BY <1>1, <2>2, <2>3, <2>4 DEF Next, Verification, SignupRequest, vars, SendOtp,
       ExpireOtp, ReadOtp, DeleteOtp, ReadVerified, InsertTenant, Provision,
       IssueSession, Crash, Begin
<1>2. ASSUME NEW r \in Requests, request'[r].op \in {"take", "insert", "provision", "issue"}
      PROVE  Now(request'[r].email)
  <2>1. ASSUME request[r] \in SigningUp, request'[r].email = request[r].email
        PROVE  Now(request'[r].email)
    <3>1. request[r].email \in Emails /\ Proved(request[r].email)
      BY <2>1 DEF SigningUp, AddressesAreProved
    <3> QED BY <1>0, <2>1, <3>1 DEF Proved
  <2>2. CASE request'[r] = request[r]
    BY <1>2, <2>1, <2>2, RequestKinds
  <2>3. ASSUME NEW e \in Emails, NEW s \in Slugs, verified[e],
               request'[r] = [op |-> "take", email |-> e, slug |-> s]
        PROVE  Now(request'[r].email)
    <3>1. Proved(e) /\ request'[r].email = e
      BY <2>3 DEF AddressesAreProved
    <3> QED BY <1>0, <3>1 DEF Proved
  <2>4. ASSUME request[r] \in SigningUp, NEW op \in {"insert", "provision", "issue"},
               request'[r] = [request[r] EXCEPT !.op = op]
        PROVE  Now(request'[r].email)
    BY <2>1, <2>4 DEF SigningUp
  <2>5. request'[r] # Idle
    BY <1>2 DEF Idle
  <2>6. ASSUME request[r] \in Verifying, request'[r] = [request[r] EXCEPT !.op = "mark"]
        PROVE  FALSE
    BY <1>2, <2>6 DEF Verifying
  <2>7. ASSUME NEW e \in Emails, NEW c \in Codes,
               request'[r] = [op |-> "delete", email |-> e, code |-> c]
        PROVE  FALSE
    BY <1>2, <2>7
  <2> QED BY <2>2, <2>3, <2>4, <2>5, <2>6, <2>7, RequestStep
<1>3. ASSUME NEW s \in Taken' PROVE Now(tenant'[s].email)
  <2>1. CASE s \in Taken
    <3>1. tenant'[s].email = tenant[s].email
      BY <2>1, TenantStep
    <3>2. tenant[s].email \in Emails
      BY <2>1 DEF Taken, TypeOK, Tenant
    <3>3. Proved(tenant[s].email)
      BY <2>1 DEF AddressesAreProved
    <3> QED BY <1>0, <3>1, <3>2, <3>3 DEF Proved
  <2>2. ASSUME NEW r \in Requests, InsertTenant(r), s \notin Taken
        PROVE  Now(tenant'[s].email)
    <3>1. request[r].email \in Emails /\ request[r].slug \in Slugs /\ Proved(request[r].email)
      BY <2>2, RequestKinds DEF InsertTenant, SigningUp, AddressesAreProved
    <3>2. tenant'[s].email = request[r].email
      BY <1>3, <2>2, <3>1 DEF InsertTenant, Taken, TypeOK
    <3> QED BY <1>0, <3>1, <3>2 DEF Proved
  <2>3. ASSUME s \notin Taken, NEW r \in Requests, Provision(r) \/ IssueSession(r)
        PROVE  FALSE
    BY <1>3, <2>3 DEF Provision, IssueSession, OwnTenant, Taken, TypeOK
  <2>4. ASSUME s \notin Taken, UNCHANGED tenant PROVE FALSE
    BY <1>3, <2>4 DEF Taken
  <2> QED
    BY <2>1, <2>2, <2>3, <2>4 DEF Next, Verification, SignupRequest, vars, SendOtp,
       ExpireOtp, ExpireVerified, ReadOtp, DeleteOtp, MarkVerified, ReadVerified,
       TakeVerified, Crash, Begin
<1> QED BY <1>1, <1>2, <1>3 DEF AddressesAreProved, Proved

-----------------------------------------------------------------------------
(* Sessions *)

LEMMA SessionStep ==
  ASSUME TypeOK, OwnTenant, SessionNeedsProvisioning, [Next]_vars
  PROVE  SessionNeedsProvisioning'
<1> SUFFICES ASSUME NEW s \in Taken', tenant'[s].session
             PROVE  tenant'[s].status = "ACTIVE"
  BY DEF SessionNeedsProvisioning
<1>1. s \in Slugs /\ tenant \in [Slugs -> Tenant \cup {None}]
  BY DEF Taken, TypeOK
<1>2. CASE tenant'[s] = tenant[s]
  BY <1>2, <1>1 DEF SessionNeedsProvisioning, Taken
<1>3. ASSUME NEW r \in Requests, InsertTenant(r), tenant'[s] # tenant[s]
      PROVE  FALSE
  <2>1. tenant'[s] = [email |-> request[r].email, status |-> "PROVISIONING", session |-> FALSE]
    BY <1>1, <1>3 DEF InsertTenant
  <2> QED BY <2>1
<1>4. ASSUME NEW r \in Requests, Provision(r) \/ IssueSession(r), tenant'[s] # tenant[s]
      PROVE  tenant'[s].status = "ACTIVE"
  <2>1. request[r].slug = s /\ s \in Taken /\ tenant[s] \in Tenant
    BY <1>1, <1>4 DEF Provision, IssueSession, OwnTenant, Taken
  <2>2. CASE Provision(r)
    <3>1. tenant'[s] = [tenant[s] EXCEPT !.status = "ACTIVE"]
      BY <1>1, <1>4, <2>1, <2>2 DEF Provision
    <3> QED BY <2>1, <3>1 DEF Tenant
  <2>3. CASE IssueSession(r)
    <3>1. tenant'[s] = [tenant[s] EXCEPT !.session = TRUE]
      BY <1>1, <2>1, <2>3 DEF IssueSession
    <3>2. tenant[s].status = "ACTIVE"
      BY <2>1, <2>3 DEF IssueSession, OwnTenant
    <3> QED BY <2>1, <3>1, <3>2 DEF Tenant
  <2> QED BY <1>4, <2>2, <2>3
<1>5. CASE UNCHANGED tenant
  BY <1>2, <1>5
<1> QED
  BY <1>2, <1>3, <1>4, <1>5 DEF Next, Verification, SignupRequest, vars, SendOtp,
     ExpireOtp, ExpireVerified, ReadOtp, DeleteOtp, MarkVerified, ReadVerified,
     TakeVerified, Crash, Begin

-----------------------------------------------------------------------------
(* The invariant, and the theorems *)

LEMMA InitInv == Init => IInv
<1> SUFFICES ASSUME Init PROVE IInv
  OBVIOUS
<1>1. TypeOK
  BY DEF Init, TypeOK
<1>2. Taken = {}
  BY DEF Init, Taken
<1>3. \A r \in Requests : request[r].op = "idle"
  BY DEF Init, Idle
<1>4. OwnTenant
  BY <1>3 DEF OwnTenant
<1>5. CodesAreSent
  BY <1>3 DEF Init, CodesAreSent
<1>6. AddressesAreProved
  BY <1>2, <1>3 DEF Init, AddressesAreProved
<1>7. SessionNeedsProvisioning
  BY <1>2 DEF SessionNeedsProvisioning
<1> QED BY <1>1, <1>4, <1>5, <1>6, <1>7 DEF IInv

LEMMA InvStep == IInv /\ [Next]_vars => IInv'
<1> SUFFICES ASSUME IInv, [Next]_vars PROVE IInv'
  OBVIOUS
<1> QED
  BY TypeStep, OwnTenantStep, CodesAreSentStep, AddressesAreProvedStep, SessionStep DEF IInv

LEMMA Invariance == Spec => []IInv
  BY InitInv, InvStep, PTL DEF Spec

\* Keys and rows hold what their writers give them, however requests of
\* verification and of signup overlap, expire and crash.
THEOREM TypeCorrect == Spec => []TypeOK
<1>1. IInv => TypeOK
  BY DEF IInv
<1> QED BY <1>1, Invariance, PTL

\* Nobody gets a workspace for an address without a code sent to that address:
\* the chain from code to verification to signup holds across Redis and the
\* master database.
THEOREM CodesAreNeeded == Spec => []SignupNeedsCode
<1>1. IInv => SignupNeedsCode
  BY DEF IInv, AddressesAreProved, Proved, SignupNeedsCode
<1> QED BY <1>1, Invariance, PTL

\* No session is handed out for a workspace whose provisioning failed or is
\* under way.
THEOREM SessionsNeedProvisioning == Spec => []SessionNeedsProvisioning
<1>1. IInv => SessionNeedsProvisioning
  BY DEF IInv
<1> QED BY <1>1, Invariance, PTL

\* No later or overlapping signup takes a workspace over, and none falls back
\* from being active.
THEOREM SlugsAreKept == Spec => SlugIsKept
<1> DEFINE Kept == \A s \in Taken : /\ tenant'[s] # None
                                    /\ tenant'[s].email = tenant[s].email
                                    /\ tenant[s].status = "ACTIVE"
                                         => tenant'[s].status = "ACTIVE"
<1>1. IInv /\ [Next]_vars => [Kept]_vars
  BY TenantStep DEF IInv
<1>2. Spec => [][Kept]_vars
  BY <1>1, Invariance, PTL DEF Spec
<1> QED BY <1>2 DEF SlugIsKept
-----------------------------------------------------------------------------
(* TenantProvisioning *)

Run == [stage : Setup!Stages, password : 0 .. minted, engine : 0 .. minted, connecting : BOOLEAN]

\* A thread at a stage is a run of the code.
LEMMA Running ==
  ASSUME Setup!TypeOK, NEW t \in Setup!Threads, thread[t].stage # "idle"
  PROVE  thread[t] \in Run /\ t[1] \in Processes
  BY DEF Setup!TypeOK, Run, Setup!Idle, Setup!Threads

LEMMA StageChange ==
  ASSUME Setup!TypeOK, NEW t \in Setup!Threads, thread[t].stage # "idle", NEW stage \in Setup!Stages,
         Setup!Goto(t, stage)
  PROVE  /\ thread' \in [Setup!Threads -> {Setup!Idle} \cup Run]
         /\ \A s \in Setup!Threads : thread'[s] = IF s = t THEN [thread[t] EXCEPT !.stage = stage]
                                            ELSE thread[s]
         /\ thread'[t].stage = stage
         /\ thread'[t].password = thread[t].password
         /\ thread'[t].engine = thread[t].engine
  <1>1. thread[t] \in Run
    BY Running
  <1>2. [thread[t] EXCEPT !.stage = stage] \in Run
    BY <1>1 DEF Run
  <1>3. thread' = [thread EXCEPT ![t] = [thread[t] EXCEPT !.stage = stage]]
    BY DEF Setup!Goto
  <1>4. thread \in [Setup!Threads -> {Setup!Idle} \cup Run]
    BY DEF Setup!TypeOK, Run
  <1> QED
    BY <1>1, <1>2, <1>3, <1>4 DEF Run

LEMMA ProvisioningInit ==
  ASSUME Setup!ProvisioningAssumption, Setup!Init
  PROVE  Setup!TypeOK
  <1>1. minted = 0 /\ 0 \in 0 .. minted /\ minted \in 0 .. MaxPasswords
    BY DEF Setup!ProvisioningAssumption, Setup!Init
  <1>2. pool \in [Processes -> 0 .. minted] /\ thread \in [Setup!Threads -> {Setup!Idle} \cup Run]
    BY <1>1 DEF Setup!Init, Setup!Empty
  <1> QED
    BY <1>1, <1>2 DEF Setup!Init, Setup!TypeOK, Run, Setup!Empty

\* A step that generates no password.
LEMMA SamePasswords ==
  ASSUME Setup!TypeOK, minted' = minted,
         status' \in Setup!TenantStatus \cup {"NONE"}, stored' \in 0 .. minted, role' \in 0 .. minted,
         configured' \in BOOLEAN, database' \in BOOLEAN, schema' \in BOOLEAN,
         form' \in BOOLEAN, pool' \in [Processes -> 0 .. minted],
         thread' \in [Setup!Threads -> {Setup!Idle} \cup Run]
  PROVE  Setup!TypeOK'
  BY DEF Setup!TypeOK, Run

\* A run begins with a password of its own.
LEMMA NewPassword ==
  ASSUME Setup!ProvisioningAssumption, Setup!TypeOK, NEW t \in Setup!Threads, NEW connecting \in BOOLEAN,
         minted < MaxPasswords, minted' = minted + 1,
         thread' = [thread EXCEPT ![t] = Setup!At("role", minted + 1, Setup!Empty, connecting)],
         status' \in Setup!TenantStatus \cup {"NONE"}, UNCHANGED <<stored, configured, Setup!server, pool>>
  PROVE  Setup!TypeOK'
  <1>1. minted \in Nat /\ minted + 1 \in 0 .. MaxPasswords /\ 0 .. minted \subseteq 0 .. minted'
    BY DEF Setup!TypeOK, Setup!ProvisioningAssumption
  <1>2. Setup!At("role", minted + 1, Setup!Empty, connecting) \in Run'
    BY <1>1 DEF Setup!At, Run, Setup!Stages, Setup!Empty
  <1>3. \A s \in Setup!Threads : thread[s] \in {Setup!Idle} \cup Run => thread[s] \in {Setup!Idle} \cup Run'
    BY <1>1 DEF Run
  <1>4. thread' \in [Setup!Threads -> {Setup!Idle} \cup Run']
    BY <1>2, <1>3 DEF Setup!TypeOK, Run
  <1>5. pool' \in [Processes -> 0 .. minted']
    BY <1>1 DEF Setup!TypeOK
  <1> QED
    BY <1>1, <1>4, <1>5 DEF Setup!TypeOK, Setup!server, Run

LEMMA BeginTypes ==
  ASSUME Setup!ProvisioningAssumption, Setup!TypeOK, NEW t \in Setup!Threads,
         Setup!Signup(t) \/ Setup!Connect(t) \/ Setup!ReadRow(t)
  PROVE  Setup!TypeOK'
  <1>1. CASE Setup!Signup(t)
    BY <1>1, NewPassword DEF Setup!Signup, Setup!TenantStatus
  <1>2. ASSUME NEW q \in {Setup!Idle} \cup Run, thread' = [thread EXCEPT ![t] = q],
               UNCHANGED <<Setup!master, Setup!server, minted, pool>>
        PROVE  Setup!TypeOK'
    BY <1>2 DEF Setup!TypeOK, Setup!master, Setup!server, Run
  <1>0. minted \in Nat /\ Setup!Empty \in 0 .. minted /\ stored \in 0 .. minted
    BY DEF Setup!TypeOK, Setup!ProvisioningAssumption, Setup!Empty
  <1>3. ASSUME NEW stage \in Setup!Stages, NEW engine \in 0 .. minted
        PROVE  Setup!At(stage, Setup!Empty, engine, TRUE) \in Run
    BY <1>0, <1>3 DEF Setup!At, Run
  <1>4. CASE Setup!Connect(t)
    <2>1. Setup!At("read", Setup!Empty, Setup!Empty, TRUE) \in Run
      BY <1>0, <1>3 DEF Setup!Stages
    <2> QED
      BY <1>2, <1>4, <2>1 DEF Setup!Connect
  <1>5. CASE Setup!ReadRow(t)
    <2>1. CASE Setup!NeedsProvisioning
      <3>1. /\ minted < MaxPasswords /\ minted' = minted + 1
            /\ thread' = [thread EXCEPT ![t] = Setup!At("role", minted + 1, Setup!Empty, TRUE)]
            /\ UNCHANGED <<status, stored, configured, Setup!server, pool>>
        BY <1>5, <2>1 DEF Setup!ReadRow, Setup!master
      <3>2. status' \in Setup!TenantStatus \cup {"NONE"}
        BY <3>1 DEF Setup!TypeOK
      <3> QED
        BY <3>1, <3>2, NewPassword
    <2>2. CASE ~Setup!NeedsProvisioning
      <3>1. Setup!At("insert", Setup!Empty, stored, TRUE) \in Run
        BY <1>0, <1>3 DEF Setup!Stages
      <3> QED
        BY <1>2, <1>5, <2>2, <3>1 DEF Setup!ReadRow
    <2> QED
      BY <2>1, <2>2
  <1> QED
    BY <1>1, <1>4, <1>5

\* The steps of a run, of the pools and of the administrator.
LEMMA RunTypes ==
  ASSUME Setup!ProvisioningAssumption, Setup!TypeOK, NEW t \in Setup!Threads,
         Setup!Provision(t) \/ Setup!Insert(t) \/ Setup!Fail(t)
  PROVE  Setup!TypeOK'
  <1>0. /\ thread \in [Setup!Threads -> {Setup!Idle} \cup Run]
        /\ thread[t].stage # "idle" => thread[t] \in Run /\ t[1] \in Processes
    BY Running DEF Setup!TypeOK, Run
  <1>1. ASSUME thread' = [thread EXCEPT ![t] = Setup!Idle]
        PROVE  thread' \in [Setup!Threads -> {Setup!Idle} \cup Run]
    BY <1>0, <1>1
  <1>2. ASSUME UNCHANGED <<Setup!master, Setup!server, minted, pool>>,
               thread' \in [Setup!Threads -> {Setup!Idle} \cup Run]
        PROVE  Setup!TypeOK'
    BY <1>2, SamePasswords DEF Setup!master, Setup!server, Setup!TypeOK
  <1>3. CASE Setup!Fail(t) \/ Setup!LockedOut(t)
    BY <1>1, <1>2, <1>3 DEF Setup!Fail, Setup!LockedOut
  <1>4. CASE Setup!CreateRole(t)
    <2>1. thread[t].password \in 0 .. minted
      BY <1>0, <1>4 DEF Setup!CreateRole, Run
    <2>2. thread' \in [Setup!Threads -> {Setup!Idle} \cup Run]
      BY <1>4, StageChange DEF Setup!CreateRole, Setup!Stages
    <2> QED
      BY <1>4, <2>1, <2>2, SamePasswords DEF Setup!CreateRole, Setup!RoleAfter, Setup!master,
         Setup!TypeOK
  <1>5. CASE Setup!CreateDatabase(t)
    <2>1. thread' \in [Setup!Threads -> {Setup!Idle} \cup Run]
      BY <1>5, StageChange DEF Setup!CreateDatabase, Setup!Stages
    <2> QED
      BY <1>5, <2>1, SamePasswords DEF Setup!CreateDatabase, Setup!master, Setup!TypeOK
  <1>6. CASE Setup!Persist(t)
    <2>1. thread[t].password \in 0 .. minted
      BY <1>0, <1>6 DEF Setup!Persist, Run
    <2>2. thread' \in [Setup!Threads -> {Setup!Idle} \cup Run]
      BY <1>6, StageChange DEF Setup!Persist, Setup!Stages
    <2> QED
      BY <1>6, <2>1, <2>2, SamePasswords DEF Setup!Persist, Setup!server, Setup!TypeOK
  <1>7. CASE Setup!CreateSchema(t)
    <2>1. thread' \in [Setup!Threads -> {Setup!Idle} \cup Run]
      BY <1>7, StageChange DEF Setup!CreateSchema, Setup!Stages
    <2> QED
      BY <1>7, <2>1, SamePasswords DEF Setup!CreateSchema, Setup!master, Setup!TypeOK
  <1>8. CASE Setup!TakeEngine(t)
    <2> DEFINE e == IF pool[t[1]] = Setup!Empty THEN stored ELSE pool[t[1]]
    <2>1. thread[t] \in Run /\ t[1] \in Processes
      BY <1>0, <1>8 DEF Setup!TakeEngine
    <2>2. e \in 0 .. minted
      BY <2>1 DEF Setup!TypeOK
    <2>3. thread' = [thread EXCEPT ![t] = [thread[t] EXCEPT !.stage = "seed", !.engine = e]]
      BY <1>0, <1>8 DEF Setup!TakeEngine
    <2> HIDE DEF e
    <2>4. [thread[t] EXCEPT !.stage = "seed", !.engine = e] \in Run
      BY <2>1, <2>2 DEF Run, Setup!Stages
    <2>5. thread' \in [Setup!Threads -> {Setup!Idle} \cup Run]
      BY <1>0, <2>3, <2>4
    <2> QED
      BY <1>2, <1>8, <2>5 DEF Setup!TakeEngine
  <1>9. ASSUME thread[t].stage # "idle" PROVE Setup!Pooled(t) \in [Processes -> 0 .. minted]
    <2>1. thread[t].engine \in 0 .. minted
      BY <1>0, <1>9 DEF Run
    <2> QED
      BY <1>0, <1>9, <2>1 DEF Setup!Pooled, Setup!TypeOK
  <1>10. CASE Setup!Seed(t)
    <2>1. thread' \in [Setup!Threads -> {Setup!Idle} \cup Run]
      BY <1>10, StageChange DEF Setup!Seed, Setup!Stages
    <2> QED
      BY <1>9, <1>10, <2>1, SamePasswords DEF Setup!Seed, Setup!master, Setup!TypeOK
  <1>11. CASE Setup!Insert(t)
    BY <1>1, <1>9, <1>11, SamePasswords DEF Setup!Insert, Setup!master, Setup!server,
       Setup!TypeOK
  <1>12. CASE Setup!Activate(t)
    <2>2. Setup!Empty \in 0 .. minted
      BY DEF Setup!ProvisioningAssumption, Setup!TypeOK, Setup!Empty
    <2>3. Setup!At("read", Setup!Empty, Setup!Empty, TRUE) \in Run
      BY <2>2 DEF Setup!At, Run, Setup!Stages
    <2>4. thread' \in [Setup!Threads -> {Setup!Idle} \cup Run]
      BY <1>0, <1>12, <2>3 DEF Setup!Activate
    <2> QED
      BY <1>12, <2>4, SamePasswords DEF Setup!Activate, Setup!server, Setup!TypeOK,
         Setup!TenantStatus
  <1> QED
    BY <1>3, <1>4, <1>5, <1>6, <1>7, <1>8, <1>10, <1>11, <1>12 DEF Setup!Provision

LEMMA ProvisioningStep ==
  ASSUME Setup!ProvisioningAssumption
  PROVE  Setup!TypeOK /\ [Setup!Next]_(Setup!vars) => Setup!TypeOK'
  <1> SUFFICES ASSUME Setup!TypeOK, [Setup!Next]_(Setup!vars) PROVE Setup!TypeOK'
    OBVIOUS
  <1>0. minted \in Nat /\ Setup!Empty \in 0 .. minted
    BY DEF Setup!TypeOK, Setup!ProvisioningAssumption, Setup!Empty
  <1>1. ASSUME NEW p \in Processes, Setup!Reap(p) \/ Setup!Restart(p) PROVE Setup!TypeOK'
    <2>1. pool' \in [Processes -> 0 .. minted]
      BY <1>0, <1>1 DEF Setup!Reap, Setup!Restart, Setup!TypeOK
    <2>2. thread' \in [Setup!Threads -> {Setup!Idle} \cup Run]
      BY <1>1 DEF Setup!Reap, Setup!Restart, Setup!TypeOK, Run
    <2> QED
      BY <1>1, <2>1, <2>2, SamePasswords DEF Setup!Reap, Setup!Restart, Setup!master,
         Setup!server, Setup!TypeOK
  <1>2. ASSUME NEW s \in {"ACTIVE", "SUSPENDED"}, Setup!SetStatus(s) PROVE Setup!TypeOK'
    BY <1>2 DEF Setup!SetStatus, Setup!server, Setup!TypeOK, Setup!TenantStatus
  <1>3. CASE UNCHANGED Setup!vars
    BY <1>3 DEF Setup!vars, Setup!TypeOK
  <1> QED
    BY <1>1, <1>2, <1>3, BeginTypes, RunTypes DEF Setup!Next

LEMMA ProvisioningInvariance == ASSUME Setup!ProvisioningAssumption
                                PROVE  Setup!Spec => []Setup!TypeOK
  <1>1. Setup!Init => Setup!TypeOK
    BY ProvisioningInit
  <1>2. Setup!TypeOK /\ [Setup!Next]_(Setup!vars) => Setup!TypeOK'
    BY ProvisioningStep
  <1> QED
    BY <1>1, <1>2, PTL DEF Setup!Spec

-----------------------------------------------------------------------------
(* What a run has behind it exists: nothing is ever dropped. *)

Reached(run) ==
  /\ run.stage \in {"persist", "schema", "engine", "seed", "activate"} => database
  /\ run.stage \in {"engine", "seed", "activate"} => schema
  /\ run.stage = "activate" => form

AllReached == \A t \in Setup!Threads : Reached(thread[t])

LEMMA ReachedStep ==
  ASSUME Setup!TypeOK, AllReached, Setup!ConfiguredIsComplete, [Setup!Next]_(Setup!vars)
  PROVE  AllReached' /\ Setup!ConfiguredIsComplete'
  <1>0. Reached(Setup!Idle) /\ Reached(Setup!At("read", Setup!Empty, Setup!Empty, TRUE))
    BY DEF Reached, Setup!Idle, Setup!At
  <1>1. ASSUME UNCHANGED <<database, schema, form, configured>>,
               \A s \in Setup!Threads : thread'[s] = thread[s] \/ Reached(thread'[s])
        PROVE  AllReached' /\ Setup!ConfiguredIsComplete'
    BY <1>1 DEF AllReached, Reached, Setup!ConfiguredIsComplete
  <1>2. ASSUME NEW t \in Setup!Threads, NEW q, thread' = [thread EXCEPT ![t] = q], Reached(q),
               UNCHANGED <<database, schema, form, configured>>
        PROVE  AllReached' /\ Setup!ConfiguredIsComplete'
    <2>1. \A s \in Setup!Threads : thread'[s] = thread[s] \/ thread'[s] = q
      BY <1>2 DEF Setup!TypeOK
    <2> QED
      BY <1>1, <1>2, <2>1
  <1>3. ASSUME NEW t \in Setup!Threads,
               Setup!Signup(t) \/ Setup!Connect(t) \/ Setup!ReadRow(t) \/ Setup!Insert(t) \/ Setup!LockedOut(t) \/ Setup!Fail(t)
        PROVE  AllReached' /\ Setup!ConfiguredIsComplete'
    <2>1. \E q : Reached(q) /\ thread' = [thread EXCEPT ![t] = q]
      <3>1. /\ Reached(Setup!At("role", minted + 1, Setup!Empty, FALSE))
            /\ Reached(Setup!At("role", minted + 1, Setup!Empty, TRUE))
            /\ Reached(Setup!At("insert", Setup!Empty, stored, TRUE))
        BY DEF Reached, Setup!At
      <3> QED
        BY <1>0, <1>3, <3>1 DEF Setup!Signup, Setup!Connect, Setup!ReadRow, Setup!Insert,
           Setup!LockedOut, Setup!Fail
    <2>2. UNCHANGED <<database, schema, form, configured>>
      BY <1>3 DEF Setup!Signup, Setup!Connect, Setup!ReadRow, Setup!Insert, Setup!LockedOut,
         Setup!Fail, Setup!master, Setup!server
    <2> QED
      BY <1>2, <2>1, <2>2
  <1>4. ASSUME NEW t \in Setup!Threads,
               Setup!CreateRole(t) \/ Setup!CreateDatabase(t) \/ Setup!Persist(t) \/ Setup!CreateSchema(t)
        PROVE  AllReached' /\ Setup!ConfiguredIsComplete'
    <2>1. PICK stage \in {"database", "persist", "schema", "engine"} :
            /\ Setup!Goto(t, stage) /\ thread[t].stage # "idle"
            /\ stage = "persist" => database'
            /\ stage \in {"schema", "engine"} => thread[t].stage \in {"persist", "schema"}
            /\ stage = "engine" => schema'
      BY <1>4 DEF Setup!CreateRole, Setup!CreateDatabase, Setup!Persist, Setup!CreateSchema
    <2>2. /\ database => database'
          /\ schema => schema'
          /\ form => form'
          /\ configured' => configured
      BY <1>4 DEF Setup!CreateRole, Setup!CreateDatabase, Setup!Persist, Setup!CreateSchema,
         Setup!master, Setup!server
    <2>3. stage \in Setup!Stages
      BY DEF Setup!Stages
    <2>4. /\ \A s \in Setup!Threads \ {t} : thread'[s] = thread[s]
          /\ thread'[t].stage = stage
      BY <2>1, <2>3, StageChange
    <2>5. Reached(thread[t])'
      <3>1. Reached(thread[t])
        BY DEF AllReached
      <3>2. /\ stage \in {"persist", "schema", "engine"} => database'
            /\ stage = "engine" => schema'
        BY <2>1, <2>2, <3>1 DEF Reached
      <3> QED
        BY <2>4, <3>2 DEF Reached
    <2>6. ASSUME NEW s \in Setup!Threads, s # t PROVE Reached(thread[s])'
      <3>1. thread'[s] = thread[s] /\ Reached(thread[s])
        BY <2>4, <2>6 DEF AllReached
      <3> QED
        BY <2>2, <3>1 DEF Reached
    <2>7. AllReached'
      BY <2>5, <2>6 DEF AllReached
    <2>8. Setup!ConfiguredIsComplete'
      BY <2>2 DEF Setup!ConfiguredIsComplete
    <2> QED
      BY <2>7, <2>8
  <1>5. ASSUME NEW t \in Setup!Threads, Setup!TakeEngine(t)
        PROVE  AllReached' /\ Setup!ConfiguredIsComplete'
    <2>1. PICK q : q = [thread[t] EXCEPT !.stage = "seed",
                          !.engine = IF pool[t[1]] = Setup!Empty THEN stored ELSE pool[t[1]]]
      OBVIOUS
    <2>2. thread[t] \in Run /\ thread[t].stage = "engine" /\ Reached(thread[t])
      BY <1>5, Running DEF Setup!TakeEngine, AllReached
    <2>3. q.stage = "seed"
      BY <2>1, <2>2 DEF Run
    <2>4. thread' = [thread EXCEPT ![t] = q]
      BY <1>5, <2>1 DEF Setup!TakeEngine, Setup!TypeOK
    <2>5. UNCHANGED <<database, schema, form, configured>>
      BY <1>5 DEF Setup!TakeEngine, Setup!master, Setup!server
    <2> QED
      BY <1>2, <2>2, <2>3, <2>4, <2>5 DEF Reached
  <1>6. ASSUME NEW t \in Setup!Threads, Setup!Seed(t)
        PROVE  AllReached' /\ Setup!ConfiguredIsComplete'
    <2>1. /\ schema /\ form' /\ UNCHANGED <<database, schema, configured>>
          /\ Reached(thread[t]) /\ thread[t].stage = "seed"
      BY <1>6 DEF Setup!Seed, Setup!master, AllReached
    <2>2. /\ thread'[t].stage = "activate"
          /\ \A s \in Setup!Threads \ {t} : thread'[s] = thread[s]
      BY <1>6, StageChange DEF Setup!Seed, Setup!Stages
    <2>3. ASSUME NEW s \in Setup!Threads PROVE Reached(thread[s])'
      BY <2>1, <2>2 DEF AllReached, Reached
    <2> QED
      BY <2>1, <2>3 DEF AllReached, Setup!ConfiguredIsComplete
  <1>7. ASSUME NEW t \in Setup!Threads, Setup!Activate(t)
        PROVE  AllReached' /\ Setup!ConfiguredIsComplete'
    <2>1. UNCHANGED <<database, schema, form>> /\ database /\ schema /\ form
      BY <1>7 DEF Setup!Activate, Setup!server, AllReached, Reached
    <2>2. \A s \in Setup!Threads :
            thread'[s] \in {thread[s], Setup!Idle, Setup!At("read", Setup!Empty, Setup!Empty, TRUE)}
      BY <1>7 DEF Setup!Activate, Setup!TypeOK
    <2>3. AllReached'
      BY <2>1 DEF AllReached, Reached
    <2> QED
      BY <2>1, <2>3 DEF Setup!ConfiguredIsComplete
  <1>8. ASSUME NEW p \in Processes, Setup!Reap(p) \/ Setup!Restart(p)
        PROVE  AllReached' /\ Setup!ConfiguredIsComplete'
    <2>1. \A s \in Setup!Threads : thread'[s] \in {thread[s], Setup!Idle}
      BY <1>8 DEF Setup!Reap, Setup!Restart
    <2> QED
      BY <1>0, <1>1, <1>8, <2>1 DEF Setup!Reap, Setup!Restart, Setup!master, Setup!server
  <1>9. ASSUME NEW s, Setup!SetStatus(s) PROVE AllReached' /\ Setup!ConfiguredIsComplete'
    BY <1>1, <1>9 DEF Setup!SetStatus, Setup!server
  <1>10. CASE UNCHANGED Setup!vars
    BY <1>1, <1>10 DEF Setup!vars
  <1> QED
    BY <1>3, <1>4, <1>5, <1>6, <1>7, <1>8, <1>9, <1>10 DEF Setup!Next, Setup!Provision

\* However provisionings of signups and connections overlap, fail at any stage
\* and start again, a tenant that counts as configured has its database, its
\* tables and the starter form.
THEOREM ProvisioningIsComplete ==
  ASSUME Setup!ProvisioningAssumption
  PROVE  Setup!Spec => [](Setup!TypeOK /\ Setup!ConfiguredIsComplete)
  <1>1. Setup!Init => AllReached /\ Setup!ConfiguredIsComplete
    BY DEF Setup!Init, AllReached, Reached, Setup!Idle, Setup!ConfiguredIsComplete
  <1>2. Setup!TypeOK /\ AllReached /\ Setup!ConfiguredIsComplete /\ [Setup!Next]_(Setup!vars)
        => AllReached' /\ Setup!ConfiguredIsComplete'
    BY ReachedStep
  <1> QED
    BY <1>1, <1>2, ProvisioningInvariance, PTL DEF Setup!Spec

-----------------------------------------------------------------------------
(* One thread: the password it generates is the role's from CREATE USER    *)
(* on, the stored one from its commit on, and that of every engine built   *)
(* after it.                                                               *)

KnowsPassword(run) ==
  /\ run.stage \in {"role", "database", "persist"} => stored = Setup!Empty
  /\ run.stage \in {"role", "database", "persist", "schema", "engine", "seed", "activate"}
       => run.password # Setup!Empty
  /\ run.stage \in {"database", "persist", "schema", "engine", "seed", "activate"}
       => role = run.password
  /\ run.stage \in {"schema", "engine", "seed", "activate"} => stored = run.password
  /\ run.stage \in {"seed", "insert"} => run.engine = stored /\ stored # Setup!Empty

PasswordInv ==
  /\ status = "NONE" => stored = Setup!Empty /\ \A t \in Setup!Threads : thread[t] = Setup!Idle
  /\ stored = Setup!Empty => \A p \in Processes : pool[p] = Setup!Empty
  /\ stored \in {Setup!Empty, role}
  /\ \A p \in Processes : pool[p] \in {Setup!Empty, role}
  /\ \A t \in Setup!Threads : KnowsPassword(thread[t])

LEMMA PasswordStep ==
  ASSUME Setup!ProvisioningAssumption, Setup!OneThread
  PROVE  Setup!TypeOK /\ PasswordInv /\ [Setup!Next]_(Setup!vars) => PasswordInv'
  <1> SUFFICES ASSUME Setup!TypeOK, PasswordInv, [Setup!Next]_(Setup!vars) PROVE PasswordInv'
    OBVIOUS
  <1>0. KnowsPassword(Setup!Idle) /\ KnowsPassword(Setup!At("read", Setup!Empty, Setup!Empty, TRUE))
    BY DEF KnowsPassword, Setup!Idle, Setup!At
  <1>1. ASSUME NEW t \in Setup!Threads, thread[t].stage # "idle"
        PROVE  /\ KnowsPassword(thread[t]) /\ thread[t] \in Run /\ t[1] \in Processes
               /\ status # "NONE"
    BY <1>1, Running DEF PasswordInv, Setup!Idle
  \* A step that leaves passwords and pools alone.
  <1>2. ASSUME UNCHANGED <<stored, role, pool>>, status' # "NONE",
               \A t \in Setup!Threads : KnowsPassword(thread'[t])
        PROVE  PasswordInv'
    <2>1. \A t \in Setup!Threads : KnowsPassword(thread[t])'
      BY <1>2 DEF KnowsPassword
    <2> QED
      BY <1>2, <2>1 DEF PasswordInv
  <1>3. ASSUME NEW t \in Setup!Threads, NEW q, thread' = [thread EXCEPT ![t] = q], KnowsPassword(q),
               UNCHANGED <<stored, role, pool>>, status' # "NONE"
        PROVE  PasswordInv'
    <2>1. \A s \in Setup!Threads : thread'[s] = q
      BY <1>3 DEF Setup!OneThread, Setup!TypeOK
    <2> QED
      BY <1>2, <1>3, <2>1
  <1>4. ASSUME NEW t \in Setup!Threads, Setup!Signup(t) PROVE PasswordInv'
    <2>1. minted + 1 # Setup!Empty
      BY DEF Setup!TypeOK, Setup!ProvisioningAssumption, Setup!Empty
    <2>2. KnowsPassword(Setup!At("role", minted + 1, Setup!Empty, FALSE))
      BY <1>4, <2>1 DEF KnowsPassword, Setup!At, Setup!Signup, PasswordInv
    <2> QED
      BY <1>3, <1>4, <2>2 DEF Setup!Signup, Setup!server
  <1>5. ASSUME NEW t \in Setup!Threads, Setup!Connect(t) PROVE PasswordInv'
    BY <1>0, <1>3, <1>5 DEF Setup!Connect, Setup!master, Setup!server
  <1>6. ASSUME NEW t \in Setup!Threads, Setup!ReadRow(t) PROVE PasswordInv'
    <2>1. minted + 1 # Setup!Empty
      BY DEF Setup!TypeOK, Setup!ProvisioningAssumption, Setup!Empty
    <2>2. Setup!NeedsProvisioning => KnowsPassword(Setup!At("role", minted + 1, Setup!Empty, TRUE))
      BY <2>1 DEF KnowsPassword, Setup!At, Setup!NeedsProvisioning
    <2>3. ~Setup!NeedsProvisioning => KnowsPassword(Setup!At("insert", Setup!Empty, stored, TRUE))
      BY DEF KnowsPassword, Setup!At, Setup!NeedsProvisioning
    <2>4. \E q : KnowsPassword(q) /\ thread' = [thread EXCEPT ![t] = q]
      BY <1>0, <1>6, <2>2, <2>3 DEF Setup!ReadRow
    <2> QED
      BY <1>1, <1>3, <1>6, <2>4 DEF Setup!ReadRow, Setup!master, Setup!server
  <1>7. ASSUME NEW t \in Setup!Threads, thread[t].stage \in {"seed", "insert"}, pool' = Setup!Pooled(t)
        PROVE  /\ \A p \in Processes : pool'[p] \in {Setup!Empty, role}
               /\ stored # Setup!Empty
    <2>1. thread[t].engine = stored /\ stored # Setup!Empty /\ t[1] \in Processes
      BY <1>1, <1>7 DEF KnowsPassword
    <2>2. \A p \in Processes : pool'[p] \in {pool[p], stored}
      BY <1>7, <2>1 DEF Setup!Pooled, Setup!TypeOK
    <2> QED
      BY <2>1, <2>2 DEF PasswordInv
  <1>8. ASSUME NEW t \in Setup!Threads, Setup!Insert(t) PROVE PasswordInv'
    <2>1. /\ thread' = [thread EXCEPT ![t] = Setup!Idle] /\ UNCHANGED <<status, stored, role>>
          /\ pool' = Setup!Pooled(t) /\ thread[t].stage = "insert"
      BY <1>8 DEF Setup!Insert, Setup!master, Setup!server
    <2>2. (\A s \in Setup!Threads : thread'[s] = Setup!Idle) /\ status # "NONE"
      BY <1>1, <2>1 DEF Setup!OneThread, Setup!TypeOK
    <2>3. \A s \in Setup!Threads : KnowsPassword(thread[s])'
      BY <2>2 DEF KnowsPassword, Setup!Idle
    <2>4. /\ \A p \in Processes : pool'[p] \in {Setup!Empty, role}
          /\ stored # Setup!Empty
      BY <1>7, <2>1
    <2> QED
      BY <2>1, <2>3, <2>4 DEF PasswordInv
  <1>9. ASSUME NEW t \in Setup!Threads, NEW stage \in Setup!Stages, Setup!Goto(t, stage), thread[t].stage # "idle"
        PROVE  /\ \A s \in Setup!Threads : thread'[s] = thread'[t]
               /\ thread'[t].stage = stage
               /\ thread'[t].password = thread[t].password
               /\ thread'[t].engine = thread[t].engine
    <2>1. \A s \in Setup!Threads : s = t
      BY DEF Setup!OneThread
    <2>2. /\ thread'[t].stage = stage
          /\ thread'[t].password = thread[t].password
          /\ thread'[t].engine = thread[t].engine
      BY <1>9, StageChange
    <2> QED
      BY <2>1, <2>2
  <1>10. ASSUME NEW t \in Setup!Threads, Setup!CreateRole(t) PROVE PasswordInv'
    <2>1. /\ role' = thread[t].password /\ UNCHANGED <<status, stored, pool>>
          /\ stored = Setup!Empty /\ thread[t].password # Setup!Empty /\ status # "NONE"
          /\ Setup!Goto(t, "database") /\ thread[t].stage # "idle"
      BY <1>1, <1>10 DEF Setup!CreateRole, Setup!RoleAfter, Setup!master, KnowsPassword
    <2>2. /\ \A s \in Setup!Threads : thread'[s] = thread'[t]
          /\ thread'[t].stage = "database" /\ thread'[t].password = thread[t].password
      BY <1>9, <2>1 DEF Setup!Stages
    <2>3. \A s \in Setup!Threads : KnowsPassword(thread[s])'
      BY <2>1, <2>2 DEF KnowsPassword
    <2> QED
      BY <2>1, <2>3 DEF PasswordInv
  <1>11. ASSUME NEW t \in Setup!Threads, Setup!CreateDatabase(t) \/ Setup!CreateSchema(t)
         PROVE  PasswordInv'
    <2>1. PICK stage \in {"persist", "engine"} :
            /\ Setup!Goto(t, stage) /\ thread[t].stage # "idle"
            /\ thread[t].stage = IF stage = "persist" THEN "database" ELSE "schema"
      BY <1>11 DEF Setup!CreateDatabase, Setup!CreateSchema
    <2>2. UNCHANGED <<status, stored, role, pool>>
      BY <1>11 DEF Setup!CreateDatabase, Setup!CreateSchema, Setup!master
    <2>3. /\ \A s \in Setup!Threads : thread'[s] = thread'[t]
          /\ thread'[t].stage = stage /\ thread'[t].password = thread[t].password
      BY <1>9, <2>1 DEF Setup!Stages
    <2>4. KnowsPassword(thread'[t])
      BY <1>1, <2>1, <2>3 DEF KnowsPassword
    <2> QED
      BY <1>1, <1>2, <2>1, <2>2, <2>3, <2>4
  <1>12. ASSUME NEW t \in Setup!Threads, Setup!Persist(t) PROVE PasswordInv'
    <2>1. /\ stored' = thread[t].password /\ UNCHANGED <<status, role, pool>>
          /\ role = thread[t].password /\ thread[t].password # Setup!Empty
          /\ Setup!Goto(t, "schema") /\ thread[t].stage # "idle" /\ stored = Setup!Empty
      BY <1>1, <1>12 DEF Setup!Persist, Setup!server, KnowsPassword
    <2>2. /\ \A s \in Setup!Threads : thread'[s] = thread'[t]
          /\ thread'[t].stage = "schema" /\ thread'[t].password = thread[t].password
      BY <1>9, <2>1 DEF Setup!Stages
    <2>3. \A s \in Setup!Threads : KnowsPassword(thread[s])'
      BY <2>1, <2>2 DEF KnowsPassword
    <2>4. status # "NONE"
      BY <1>1, <2>1
    <2> QED
      BY <2>1, <2>3, <2>4 DEF PasswordInv
  <1>13. ASSUME NEW t \in Setup!Threads, Setup!TakeEngine(t) PROVE PasswordInv'
    <2>1. /\ KnowsPassword(thread[t]) /\ thread[t] \in Run /\ t[1] \in Processes
          /\ thread[t].stage = "engine" /\ status # "NONE"
      BY <1>1, <1>13 DEF Setup!TakeEngine
    <2>2. stored = role /\ stored # Setup!Empty
      BY <2>1 DEF KnowsPassword
    <2>3. (IF pool[t[1]] = Setup!Empty THEN stored ELSE pool[t[1]]) = stored
      BY <2>1, <2>2 DEF PasswordInv
    <2>4. thread' = [thread EXCEPT ![t] = [thread[t] EXCEPT !.stage = "seed", !.engine = stored]]
      BY <1>13, <2>3 DEF Setup!TakeEngine, Setup!TypeOK
    <2>5. KnowsPassword([thread[t] EXCEPT !.stage = "seed", !.engine = stored])
      BY <2>1, <2>2 DEF KnowsPassword, Run
    <2> QED
      BY <1>3, <1>13, <2>1, <2>4, <2>5 DEF Setup!TakeEngine, Setup!master, Setup!server
  <1>14. ASSUME NEW t \in Setup!Threads, Setup!Seed(t) PROVE PasswordInv'
    <2>1. /\ UNCHANGED <<status, stored, role>> /\ status # "NONE"
          /\ pool' = Setup!Pooled(t) /\ thread[t].stage = "seed"
          /\ Setup!Goto(t, "activate")
          /\ KnowsPassword(thread[t])
      BY <1>1, <1>14 DEF Setup!Seed, Setup!master
    <2>2. /\ \A s \in Setup!Threads : thread'[s] = thread'[t]
          /\ thread'[t].stage = "activate" /\ thread'[t].password = thread[t].password
      BY <1>9, <2>1 DEF Setup!Stages
    <2>3. \A s \in Setup!Threads : KnowsPassword(thread[s])'
      BY <2>1, <2>2 DEF KnowsPassword
    <2>4. /\ \A p \in Processes : pool'[p] \in {Setup!Empty, role}
          /\ stored # Setup!Empty
      BY <1>7, <2>1
    <2> QED
      BY <2>1, <2>3, <2>4 DEF PasswordInv
  <1>15. ASSUME NEW t \in Setup!Threads, Setup!Activate(t) PROVE PasswordInv'
    <2>1. \E q : KnowsPassword(q) /\ thread' = [thread EXCEPT ![t] = q]
      BY <1>0, <1>15 DEF Setup!Activate
    <2> QED
      BY <1>3, <1>15, <2>1 DEF Setup!Activate, Setup!server
  <1>16. ASSUME NEW t \in Setup!Threads, Setup!LockedOut(t) \/ Setup!Fail(t)
         PROVE  PasswordInv'
    <2>1. thread[t].stage # "idle"
      BY <1>16 DEF Setup!LockedOut, Setup!Fail, Setup!ProvisioningAssumption, Setup!Stages
    <2> QED
      BY <1>0, <1>1, <1>3, <1>16, <2>1 DEF Setup!LockedOut, Setup!Fail, Setup!master,
         Setup!server
  <1>17. ASSUME NEW p \in Processes, Setup!Reap(p) \/ Setup!Restart(p) PROVE PasswordInv'
    <2>1. /\ UNCHANGED <<status, stored, role>>
          /\ pool' = [pool EXCEPT ![p] = Setup!Empty]
          /\ \A t \in Setup!Threads : thread'[t] \in {thread[t], Setup!Idle}
      BY <1>17 DEF Setup!Reap, Setup!Restart, Setup!master, Setup!server
    <2>2. \A q \in Processes : pool'[q] \in {pool[q], Setup!Empty}
      BY <2>1 DEF Setup!TypeOK
    <2>3. \A t \in Setup!Threads : KnowsPassword(thread'[t])
      BY <1>0, <2>1 DEF PasswordInv
    <2>4. \A t \in Setup!Threads : KnowsPassword(thread[t])'
      BY <2>1, <2>3 DEF KnowsPassword
    <2> QED
      BY <2>1, <2>2, <2>4 DEF PasswordInv
  <1>18. ASSUME NEW s \in {"ACTIVE", "SUSPENDED"}, Setup!SetStatus(s) PROVE PasswordInv'
    BY <1>2, <1>18 DEF Setup!SetStatus, Setup!server, PasswordInv
  <1>19. CASE UNCHANGED Setup!vars
    BY <1>19 DEF Setup!vars, PasswordInv, KnowsPassword
  <1> QED
    BY <1>4, <1>5, <1>6, <1>8, <1>10, <1>11, <1>12, <1>13, <1>14, <1>15, <1>16, <1>17, <1>18,
       <1>19
       DEF Setup!Next, Setup!Provision

\* One thread at a time, whatever fails and restarts: the password in the
\* master database and those of the engines in the pools open the database.
THEOREM PasswordsStayCurrent ==
  ASSUME Setup!ProvisioningAssumption, Setup!OneThread
  PROVE  Setup!Spec => []Setup!PasswordsAreCurrent
  <1>1. Setup!Init => PasswordInv
    BY DEF Setup!Init, PasswordInv, KnowsPassword, Setup!Idle
  <1>2. Setup!TypeOK /\ PasswordInv /\ [Setup!Next]_(Setup!vars) => PasswordInv'
    BY PasswordStep
  <1>3. PasswordInv => Setup!PasswordsAreCurrent
    BY DEF PasswordInv, Setup!PasswordsAreCurrent
  <1> QED
    BY <1>1, <1>2, <1>3, ProvisioningInvariance, PTL DEF Setup!Spec

\* What the code promises of provisioning: runs that overlap complete the tenant,
\* and one at a time they leave the passwords current.
THEOREM ProvisioningAlwaysHolds ==
  ASSUME Setup!ProvisioningAssumption
  PROVE  Setup!Spec => []Setup!ProvisioningHolds
  <1>1. CASE Setup!OneThread
    <2>1. Setup!TypeOK /\ Setup!ConfiguredIsComplete /\ Setup!PasswordsAreCurrent
            => Setup!ProvisioningHolds
      BY DEF Setup!ProvisioningHolds
    <2>2. Setup!Spec => []Setup!PasswordsAreCurrent
      BY <1>1, PasswordsStayCurrent
    <2> QED
      BY <2>1, <2>2, ProvisioningIsComplete, PTL
  <1>2. CASE ~Setup!OneThread
    <2>1. Setup!TypeOK /\ Setup!ConfiguredIsComplete => Setup!ProvisioningHolds
      BY <1>2 DEF Setup!ProvisioningHolds
    <2> QED
      BY <2>1, ProvisioningIsComplete, PTL
  <1> QED
    BY <1>1, <1>2

-----------------------------------------------------------------------------
(* Forms: the rows and the requests *)

LEMMA FormCount == ASSUME NEW S PROVE Form!Cardinality(S) = Cardinality(S)
  BY DEF Form!Cardinality, Cardinality

\* Without the number in a request for a new form.
FormTypes ==
  /\ forms \in [FormIds -> Form!Form \cup {NoForm}]
  /\ formRequest \in [Requests -> Form!Request]
  /\ \A r \in Requests :
       formRequest[r].op \in Form!Action \cup {"update"} => formRequest[r].form \in Form!Rows

LEMMA FormRequestKinds ==
  ASSUME FormTypes, NEW r \in Requests
  PROVE  /\ formRequest[r].op = "create" =>
              formRequest[r] \in [op : {"create"}, key : Keys, version : Nat,
                                  department : Departments \cup {NoDepartment},
                                  channels : SUBSET Channels \ {{}}]
         /\ formRequest[r].op = "update" =>
              formRequest[r] \in [op : {"update"}, form : FormIds,
                                  channels : SUBSET Channels \ {{}}]
         /\ formRequest[r].op \in Form!Action =>
              formRequest[r] \in [op : Form!Action, form : FormIds]
  BY DEF FormTypes, Form!Request, Form!Idle, Form!Action

FormsOf(key) == {f \in Form!Rows : forms[f].key = key}

VersionCount(key) == Cardinality(FormsOf(key))

\* The versions of a key are 1, 2, ... n; a request for a new form has the number
\* that followed the last one when it read them.
DenseKey(key) ==
  /\ IsFiniteSet(FormsOf(key))
  /\ Form!VersionsOf(key) = 1 .. VersionCount(key)

NumberFits(r) ==
  \A key \in Keys :
    formRequest[r].op = "create" /\ formRequest[r].key = key =>
      formRequest[r].version \in 1 .. VersionCount(key) + 1

FormsInv ==
  /\ FormTypes
  /\ \A key \in Keys : DenseKey(key)
  /\ \A r \in Requests : NumberFits(r)
  /\ Form!PublishedIsDated

LEMMA VersionsAreCounted ==
  ASSUME FormsInv, NEW key \in Keys
  PROVE  VersionCount(key) \in Nat /\ Form!NextVersion(key) = VersionCount(key) + 1
  <1>1. VersionCount(key) \in Nat /\ Form!VersionsOf(key) = 1 .. VersionCount(key)
    BY FS_CardinalityType DEF FormsInv, DenseKey, VersionCount
  <1> DEFINE n == VersionCount(key)
  <1>2. Form!VersionsOf(key) \cup {0} = 0 .. n
    BY <1>1
  <1> HIDE DEF n
  <1>3. n \in Nat
    BY <1>1 DEF n
  <1>4. Form!Max(0 .. n) = n
    <2>1. n \in 0 .. n /\ \A y \in 0 .. n : n >= y
      BY <1>3
    <2>2. \A x \in 0 .. n : (\A y \in 0 .. n : x >= y) => x = n
      BY <1>3, <2>1
    <2> QED
      BY <2>1, <2>2 DEF Form!Max
  <1> QED
    BY <1>1, <1>2, <1>4 DEF Form!NextVersion, n

\* What a step does to the rows: nothing, a new row, or columns other than key
\* and number.
SameVersions ==
  /\ Form!Rows' = Form!Rows
  /\ \A f \in Form!Rows : forms'[f].key = forms[f].key /\ forms'[f].version = forms[f].version

LEMMA VersionsStay ==
  ASSUME SameVersions, NEW key
  PROVE  /\ FormsOf(key)' = FormsOf(key)
         /\ Form!VersionsOf(key)' = Form!VersionsOf(key)
         /\ VersionCount(key)' = VersionCount(key)
  <1>1. FormsOf(key)' = FormsOf(key)
    BY DEF SameVersions, FormsOf
  <1>2. Form!VersionsOf(key)' = Form!VersionsOf(key)
    BY DEF SameVersions, Form!VersionsOf
  <1> QED
    BY <1>1, <1>2 DEF VersionCount

LEMMA ChangedForms ==
  ASSUME NEW row \in Form!Form, NEW action \in Form!Action
  PROVE  /\ Form!Changed(row, action) \in Form!Form
         /\ Form!Changed(row, action).key = row.key
         /\ Form!Changed(row, action).version = row.version
         /\ Form!Changed(row, action).channels = row.channels
         /\ (row.status = "PUBLISHED" => row.published)
            => (Form!Changed(row, action).status = "PUBLISHED"
                => Form!Changed(row, action).published)
  BY DEF Form!Changed, Form!Action, Form!Form, Form!Status

LEMMA NewForms ==
  ASSUME FormTypes, NEW r \in Requests, formRequest[r].op = "create"
  PROVE  /\ Form!NewForm(r) \in Form!Form
         /\ Form!NewForm(r).key = formRequest[r].key
         /\ Form!NewForm(r).version = formRequest[r].version
         /\ Form!NewForm(r).status = "DRAFT"
  BY FormRequestKinds DEF Form!NewForm, Form!Form, Form!Status

\* A request that may be under way with the rows there are.
Fits(q) ==
  /\ q \in Form!Request
  /\ q.op \in Form!Action \cup {"update"} => q.form \in Form!Rows
  /\ \A key \in Keys :
       q.op = "create" /\ q.key = key => q.version \in 1 .. VersionCount(key) + 1

LEMMA RequestsFit ==
  ASSUME FormTypes
  PROVE  FormsInv <=> /\ \A key \in Keys : DenseKey(key)
                      /\ \A r \in Requests : Fits(formRequest[r])
                      /\ Form!PublishedIsDated
  BY DEF FormsInv, FormTypes, Fits, NumberFits

LEMMA FormRequestStep ==
  ASSUME FormsInv, NEW r \in Requests, NEW q, Fits(q), UNCHANGED forms,
         formRequest' = [formRequest EXCEPT ![r] = q]
  PROVE  FormsInv'
  <1>1. FormTypes'
    BY DEF FormsInv, FormTypes, Fits, Form!Rows
  <1>2. \A s \in Requests : formRequest'[s] = IF s = r THEN q ELSE formRequest[s]
    BY DEF FormsInv, FormTypes
  <1>3. \A key : FormsOf(key)' = FormsOf(key) /\ VersionCount(key)' = VersionCount(key)
    BY DEF FormsOf, VersionCount, Form!Rows
  <1>4. \A key \in Keys : DenseKey(key)'
    BY <1>3 DEF FormsInv, DenseKey, Form!VersionsOf, Form!Rows
  <1>5. \A s \in Requests : NumberFits(s)'
    BY <1>2, <1>3 DEF FormsInv, Fits, NumberFits
  <1>6. Form!PublishedIsDated'
    BY DEF FormsInv, Form!PublishedIsDated, Form!Published, Form!Rows
  <1> QED
    BY <1>1, <1>4, <1>5, <1>6 DEF FormsInv

LEMMA FormBegins ==
  ASSUME FormsInv, NEW r \in Requests, Form!Begin(r) \/ Form!Fail(r)
  PROVE  FormsInv'
  <1>1. ASSUME NEW key \in Keys, NEW department \in Departments \cup {NoDepartment},
               NEW channels \in SUBSET Channels \ {{}},
               Form!BeginCreate(r, key, department, channels)
        PROVE  FormsInv'
    <2> DEFINE q == [op |-> "create", key |-> key, version |-> Form!NextVersion(key),
                     department |-> department, channels |-> channels]
    <2>1. VersionCount(key) \in Nat /\ q.version = VersionCount(key) + 1
      BY VersionsAreCounted
    <2>2. Fits(q)
      BY <2>1 DEF Fits, Form!Request, Form!Action
    <2> QED
      BY <1>1, <2>2, FormRequestStep DEF Form!BeginCreate
  <1>2. ASSUME NEW f \in FormIds, NEW channels \in SUBSET Channels \ {{}},
               Form!BeginUpdate(r, f, channels)
        PROVE  FormsInv'
    <2>1. Fits([op |-> "update", form |-> f, channels |-> channels])
      BY <1>2 DEF Fits, Form!Request, Form!BeginUpdate
    <2> QED
      BY <1>2, <2>1, FormRequestStep DEF Form!BeginUpdate
  <1>3. ASSUME NEW f \in FormIds, NEW action \in Form!Action, Form!BeginStatus(r, f, action)
        PROVE  FormsInv'
    <2>1. Fits([op |-> action, form |-> f])
      BY <1>3 DEF Fits, Form!Request, Form!BeginStatus, Form!Action
    <2> QED
      BY <1>3, <2>1, FormRequestStep DEF Form!BeginStatus
  <1>4. Fits(Form!Idle)
    BY DEF Fits, Form!Request, Form!Idle, Form!Action
  <1> QED
    BY <1>1, <1>2, <1>3, <1>4, FormRequestStep DEF Form!Begin, Form!Fail

\* A row changes and keeps its key and number.
LEMMA RowChanges ==
  ASSUME Form!FormsAssumption, FormsInv, NEW r \in Requests, NEW f \in Form!Rows,
         NEW row \in Form!Form,
         row.key = forms[f].key, row.version = forms[f].version,
         row.status = "PUBLISHED" => row.published,
         forms' = [forms EXCEPT ![f] = row],
         formRequest' = [formRequest EXCEPT ![r] = Form!Idle]
  PROVE  FormsInv'
  <1>1. /\ forms' \in [FormIds -> Form!Form \cup {NoForm}]
        /\ f \in FormIds
        /\ \A g \in FormIds : forms'[g] = IF g = f THEN row ELSE forms[g]
    BY DEF FormsInv, FormTypes, Form!Rows
  <1>2. Form!Rows' = Form!Rows
    BY <1>1 DEF Form!Rows, Form!FormsAssumption
  <1>3. SameVersions
    BY <1>1, <1>2 DEF SameVersions, Form!Rows
  <1>4. \A s \in Requests : formRequest'[s] = IF s = r THEN Form!Idle ELSE formRequest[s]
    BY DEF FormsInv, FormTypes
  <1>5. FormTypes'
    BY <1>1, <1>2, <1>4 DEF FormsInv, FormTypes, Form!Request, Form!Idle, Form!Action
  <1>6. \A key \in Keys : DenseKey(key)'
    BY <1>3, VersionsStay DEF FormsInv, DenseKey
  <1>7. \A s \in Requests : NumberFits(s)'
    BY <1>3, <1>4, VersionsStay DEF FormsInv, NumberFits, Form!Idle
  <1>8. Form!PublishedIsDated'
    BY <1>1, <1>2 DEF FormsInv, Form!PublishedIsDated, Form!Published, Form!Rows
  <1> QED
    BY <1>5, <1>6, <1>7, <1>8 DEF FormsInv

LEMMA FormCommits ==
  ASSUME Form!FormsAssumption, FormsInv, NEW r \in Requests,
         Form!CommitUpdate(r) \/ Form!CommitStatus(r)
  PROVE  FormsInv'
  <1> DEFINE f == formRequest[r].form
  <1>1. f \in Form!Rows /\ forms[f] \in Form!Form /\ f \in FormIds
    BY DEF Form!CommitUpdate, Form!CommitStatus, FormsInv, FormTypes, Form!Rows
  <1>2. forms[f].status = "PUBLISHED" => forms[f].published
    BY <1>1 DEF FormsInv, Form!PublishedIsDated, Form!Published
  <1>3. CASE Form!CommitUpdate(r)
    <2> DEFINE row == [forms[f] EXCEPT !.channels = formRequest[r].channels]
    <2>1. formRequest[r].channels \in SUBSET Channels \ {{}}
      BY <1>3, FormRequestKinds DEF Form!CommitUpdate, FormsInv
    <2>2. /\ row \in Form!Form /\ row.key = forms[f].key /\ row.version = forms[f].version
          /\ row.status = forms[f].status /\ row.published = forms[f].published
      BY <1>1, <2>1 DEF Form!Form
    <2>3. forms' = [forms EXCEPT ![f] = row]
      BY <1>3 DEF Form!CommitUpdate
    <2> HIDE DEF row, f
    <2> QED
      BY <1>1, <1>2, <1>3, <2>2, <2>3, RowChanges DEF Form!CommitUpdate
  <1>4. CASE Form!CommitStatus(r)
    <2> DEFINE row == Form!Changed(forms[f], formRequest[r].op)
    <2>1. /\ row \in Form!Form /\ row.key = forms[f].key /\ row.version = forms[f].version
          /\ row.status = "PUBLISHED" => row.published
      BY <1>1, <1>2, <1>4, ChangedForms DEF Form!CommitStatus
    <2>2. forms' = [forms EXCEPT ![f] = row]
      BY <1>4 DEF Form!CommitStatus
    <2> HIDE DEF row, f
    <2> QED
      BY <1>1, <1>4, <2>1, <2>2, RowChanges DEF Form!CommitStatus
  <1> QED
    BY <1>3, <1>4
\* A new row takes the number after the last one: the unique key refuses every
\* other that a request may have read.
LEMMA FormCreated ==
  ASSUME Form!FormsAssumption, FormsInv, NEW r \in Requests, NEW f \in FormIds,
         Form!CommitCreate(r, f)
  PROVE  FormsInv'
  <1> DEFINE key == formRequest[r].key
             new == Form!NewForm(r)
             n == VersionCount(key)
  <1>1. /\ key \in Keys /\ formRequest[r].version \in Nat /\ new \in Form!Form
        /\ new.key = key /\ new.version = formRequest[r].version /\ new.status = "DRAFT"
    BY FormRequestKinds, NewForms DEF Form!CommitCreate, FormsInv
  <1>2. /\ f \notin Form!Rows
        /\ forms' = [forms EXCEPT ![f] = new]
        /\ formRequest' = [formRequest EXCEPT ![r] = Form!Idle]
    BY DEF Form!CommitCreate, Form!Rows
  <1>3. n \in Nat /\ IsFiniteSet(FormsOf(key)) /\ Form!VersionsOf(key) = 1 .. n
    BY <1>1, FS_CardinalityType DEF FormsInv, DenseKey, VersionCount
  <1>4. formRequest[r].version = n + 1
    <2>1. formRequest[r].version \in 1 .. n + 1
      BY <1>1 DEF FormsInv, NumberFits, Form!CommitCreate
    <2>2. formRequest[r].version \notin 1 .. n
      BY <1>3 DEF Form!CommitCreate, Form!UniqueKey
    <2> HIDE DEF n
    <2> QED
      BY <1>3, <2>1, <2>2
  <1> HIDE DEF key, new
  <1>5. /\ forms' \in [FormIds -> Form!Form \cup {NoForm}]
        /\ \A g \in FormIds : forms'[g] = IF g = f THEN new ELSE forms[g]
        /\ new # NoForm
    BY <1>1, <1>2 DEF FormsInv, FormTypes, Form!FormsAssumption
  <1>6. Form!Rows' = Form!Rows \cup {f}
    BY <1>5 DEF Form!Rows
  <1>7. \A k : FormsOf(k)' = IF k = key THEN FormsOf(k) \cup {f} ELSE FormsOf(k)
    BY <1>1, <1>2, <1>5, <1>6 DEF FormsOf, Form!Rows
  <1>8. \A k : VersionCount(k)' = IF k = key THEN n + 1 ELSE VersionCount(k)
    <2>1. f \notin FormsOf(key)
      BY <1>2 DEF FormsOf
    <2>2. Cardinality(FormsOf(key) \cup {f}) = n + 1
      BY <1>3, <2>1, FS_AddElement DEF VersionCount
    <2> QED
      BY <1>7, <2>2 DEF VersionCount
  <1>9. \A k : Form!VersionsOf(k)' = IF k = key THEN Form!VersionsOf(k) \cup {n + 1}
                                    ELSE Form!VersionsOf(k)
    <2>1. \A k : Form!VersionsOf(k) = {forms[g].version : g \in FormsOf(k)}
      BY DEF Form!VersionsOf, FormsOf
    <2>2. \A k : Form!VersionsOf(k)' = {forms'[g].version : g \in FormsOf(k)'}
      BY DEF Form!VersionsOf, FormsOf
    <2>3. \A k : \A g \in FormsOf(k) : g # f /\ forms'[g] = forms[g]
      BY <1>2, <1>5 DEF FormsOf, Form!Rows
    <2>4. forms'[f].version = n + 1
      BY <1>1, <1>4, <1>5
    <2> HIDE DEF n
    <2> QED
      BY <1>7, <2>1, <2>2, <2>3, <2>4
  <1>10. \A k \in Keys : DenseKey(k)'
    <2>1. ASSUME NEW k \in Keys PROVE IsFiniteSet(FormsOf(k))' 
      BY <1>3, <1>7, FS_AddElement DEF FormsInv, DenseKey
    <2>2. (1 .. n) \cup {n + 1} = 1 .. n + 1
      <3> HIDE DEF n
      <3> QED
        BY <1>3
    <2>3. \A k \in Keys : Form!VersionsOf(k)' = 1 .. VersionCount(k)'
      BY <1>3, <1>8, <1>9, <2>2 DEF FormsInv, DenseKey
    <2> QED
      BY <2>1, <2>3 DEF DenseKey
  <1>11. \A s \in Requests : formRequest'[s] = IF s = r THEN Form!Idle ELSE formRequest[s]
    BY <1>2 DEF FormsInv, FormTypes
  <1>12. FormTypes'
    <2>1. formRequest' \in [Requests -> Form!Request]
      BY <1>2 DEF FormsInv, FormTypes, Form!Request
    <2>2. \A s \in Requests : formRequest'[s].op \in Form!Action \cup {"update"} =>
            formRequest'[s] = formRequest[s]
      BY <1>11 DEF Form!Idle, Form!Action
    <2> QED
      BY <1>5, <1>6, <2>1, <2>2 DEF FormsInv, FormTypes
  <1>13. \A s \in Requests : NumberFits(s)'
    <2>1. SUFFICES ASSUME NEW s \in Requests, NEW k \in Keys, s # r,
                          formRequest[s].version \in 1 .. VersionCount(k) + 1
                   PROVE  formRequest[s].version \in 1 .. VersionCount(k)' + 1
      BY <1>11 DEF FormsInv, NumberFits, Form!Idle
    <2>2. VersionCount(k) \in Nat
      BY FS_CardinalityType DEF FormsInv, DenseKey, VersionCount
    <2>3. VersionCount(k)' = VersionCount(k) \/ VersionCount(k)' = VersionCount(k) + 1
      BY <1>8
    <2> QED
      BY <2>1, <2>2, <2>3
  <1>14. Form!PublishedIsDated'
    BY <1>1, <1>5, <1>6 DEF FormsInv, Form!PublishedIsDated, Form!Published, Form!Rows
  <1> QED
    BY <1>10, <1>12, <1>13, <1>14 DEF FormsInv

LEMMA FormsStart ==
  ASSUME Form!FormsAssumption, Form!Init
  PROVE  FormsInv
  <1>1. Form!Rows = {} /\ FormTypes
    BY DEF Form!Init, FormTypes, Form!Rows, Form!Request, Form!Idle, Form!Action
  <1>2. \A key : FormsOf(key) = {} /\ Form!VersionsOf(key) = {}
    BY <1>1 DEF FormsOf, Form!VersionsOf
  <1>3. IsFiniteSet({}) /\ Cardinality({}) = 0 /\ 1 .. 0 = {}
    BY FS_EmptySet
  <1>4. \A key \in Keys : DenseKey(key)
    BY <1>2, <1>3 DEF DenseKey, VersionCount
  <1>5. \A r \in Requests : NumberFits(r)
    BY DEF Form!Init, NumberFits, Form!Idle
  <1> QED
    BY <1>1, <1>4, <1>5 DEF FormsInv, Form!PublishedIsDated, Form!Published

LEMMA FormsKept ==
  ASSUME Form!FormsAssumption, FormsInv, [Form!Next]_(Form!vars)
  PROVE  FormsInv'
  <1>1. ASSUME NEW r \in Requests, Form!Begin(r) \/ Form!Commit(r) \/ Form!Fail(r)
        PROVE  FormsInv'
    BY <1>1, FormBegins, FormCommits, FormCreated DEF Form!Commit
  <1>2. CASE UNCHANGED Form!vars
    <2>1. forms' = forms /\ formRequest' = formRequest
      BY <1>2 DEF Form!vars
    <2>2. FormTypes' /\ SameVersions /\ Form!PublishedIsDated'
      BY <2>1 DEF FormsInv, FormTypes, SameVersions, Form!Rows, Form!PublishedIsDated,
                  Form!Published
    <2>3. \A key \in Keys : DenseKey(key)'
      BY <2>2, VersionsStay DEF FormsInv, DenseKey
    <2>4. \A r \in Requests : NumberFits(r)'
      BY <2>1, <2>2, VersionsStay DEF FormsInv, NumberFits
    <2> QED
      BY <2>2, <2>3, <2>4 DEF FormsInv
  <1> QED
    BY <1>1, <1>2 DEF Form!Next

\* However creations, updates and status changes of forms overlap and fail, the
\* versions of a key are 1, 2, ... n, each held by one form, open requests name
\* forms that exist, and a published form has its date.
THEOREM FormsAreNumbered ==
  ASSUME Form!FormsAssumption
  PROVE  Form!Spec => [](Form!TypeOK /\ Form!VersionsAreDense /\ Form!PublishedIsDated)
  <1>1. FormsInv => Form!TypeOK /\ Form!VersionsAreDense /\ Form!PublishedIsDated
    BY FormCount DEF FormsInv, FormTypes, DenseKey, VersionCount, FormsOf,
                     Form!TypeOK, Form!VersionsAreDense
  <1> QED
    BY <1>1, FormsStart, FormsKept, PTL DEF Form!Spec

-----------------------------------------------------------------------------
(* Forms: one request at a time *)

\* What the only request has checked of its form still holds.
FormFits(q) ==
  /\ q.op = "update" => forms[q.form].status \in Form!Editable
  /\ q.op \in Form!Action => forms[q.form].status \in Form!AppliesTo(q.op)
  /\ q.op = "publish" => Form!NoClash(q.form)

SerialForms ==
  /\ FormsInv
  /\ Form!OneFormPerChannel
  /\ Form!ArchivedIsDated
  /\ \A r \in Requests : FormFits(formRequest[r])

ArchiveDated(row) == row.archived <=> row.status = "ARCHIVED"

\* A row changes: it is published only without a clash, and then as it was.
LEMMA SerialRowChanges ==
  ASSUME Form!FormsAssumption, SerialForms, NEW f \in Form!Rows, NEW row \in Form!Form,
         ArchiveDated(row),
         row.status = "PUBLISHED" =>
           /\ row.channels = forms[f].channels /\ row.department = forms[f].department
           /\ f \in Form!Published \/ Form!NoClash(f),
         forms' = [forms EXCEPT ![f] = row]
  PROVE  Form!OneFormPerChannel' /\ Form!ArchivedIsDated' /\ Form!PublishedIsFrozen
  <1>1. /\ f \in FormIds
        /\ \A g \in FormIds : forms'[g] = IF g = f THEN row ELSE forms[g]
    BY DEF SerialForms, FormsInv, FormTypes, Form!Rows
  <1>2. Form!Rows' = Form!Rows /\ Form!Rows \subseteq FormIds
    BY <1>1 DEF Form!Rows, Form!FormsAssumption
  <1>3. Form!ArchivedIsDated'
    BY <1>1, <1>2 DEF SerialForms, Form!ArchivedIsDated, ArchiveDated
  <1>4. Form!PublishedIsFrozen
    BY <1>1, <1>2 DEF Form!PublishedIsFrozen, Form!Published
  <1>5. \A g \in Form!Published' \ {f} : g \in Form!Published /\ forms'[g] = forms[g]
    BY <1>1, <1>2 DEF Form!Published
  <1>6. \A g \in Form!Published \ {f} :
          f \in Form!Published' /\ forms[f].department = forms[g].department =>
            forms[f].channels \cap forms[g].channels = {}
    <2>1. ASSUME NEW g \in Form!Published \ {f}, Form!NoClash(f),
                 forms[f].department = forms[g].department
          PROVE  forms[f].channels \cap forms[g].channels = {}
      BY <2>1 DEF Form!NoClash, Form!Competes
    <2>2. ASSUME NEW g \in Form!Published \ {f}, f \in Form!Published,
                 forms[f].department = forms[g].department
          PROVE  forms[f].channels \cap forms[g].channels = {}
      BY <2>2 DEF SerialForms, Form!OneFormPerChannel
    <2>3. f \in Form!Published' => f \in Form!Published \/ Form!NoClash(f)
      BY <1>1 DEF Form!Published
    <2> QED
      BY <2>1, <2>2, <2>3
  <1>7. f \in Form!Published' =>
          forms'[f].channels = forms[f].channels /\ forms'[f].department = forms[f].department
    BY <1>1 DEF Form!Published
  <1>8. Form!OneFormPerChannel'
    <2> SUFFICES ASSUME NEW g \in Form!Published', NEW h \in Form!Published', g # h,
                        forms'[g].department = forms'[h].department
                 PROVE  forms'[g].channels \cap forms'[h].channels = {}
      BY DEF Form!OneFormPerChannel
    <2>1. CASE g = f
      BY <1>5, <1>6, <1>7, <2>1
    <2>2. CASE h = f
      BY <1>5, <1>6, <1>7, <2>2
    <2>3. CASE g # f /\ h # f
      BY <1>5, <2>3 DEF SerialForms, Form!OneFormPerChannel
    <2> QED
      BY <2>1, <2>2, <2>3
  <1> QED
    BY <1>3, <1>4, <1>8

\* The steps of the only request.
FormTurn(r) ==
  /\ Form!OneFormPerChannel' /\ Form!ArchivedIsDated' /\ Form!PublishedIsFrozen
  /\ FormFits(formRequest[r])'

LEMMA FormsStill ==
  ASSUME SerialForms, UNCHANGED forms
  PROVE  /\ Form!OneFormPerChannel' /\ Form!ArchivedIsDated' /\ Form!PublishedIsFrozen
         /\ \A f : Form!NoClash(f) => Form!NoClash(f)'
  BY DEF SerialForms, Form!OneFormPerChannel, Form!ArchivedIsDated, Form!PublishedIsFrozen,
         Form!NoClash, Form!Competes, Form!Published, Form!Rows

LEMMA FormEnds ==
  ASSUME FormsInv, NEW r \in Requests,
         formRequest' = [formRequest EXCEPT ![r] = Form!Idle]
  PROVE  FormFits(formRequest[r])'
  BY DEF FormsInv, FormTypes, FormFits, Form!Idle, Form!Action

LEMMA SerialBegins ==
  ASSUME SerialForms, NEW r \in Requests, Form!Begin(r) \/ Form!Fail(r)
  PROVE  FormTurn(r)
  <1>0. FormsInv /\ UNCHANGED forms
    BY DEF SerialForms, Form!Begin, Form!Fail, Form!BeginCreate, Form!BeginUpdate,
           Form!BeginStatus
  <1>1. ASSUME NEW q, formRequest' = [formRequest EXCEPT ![r] = q], FormFits(q)
        PROVE  FormTurn(r)
    <2>1. formRequest'[r] = q
      BY <1>0, <1>1 DEF FormsInv, FormTypes
    <2>2. FormFits(q)'
      BY <1>0, <1>1, FormsStill DEF FormFits
    <2>3. FormFits(formRequest[r])'
      BY <2>1, <2>2 DEF FormFits
    <2> QED
      BY <1>0, <2>3, FormsStill DEF FormTurn
  <1>2. ASSUME NEW key \in Keys, NEW department \in Departments \cup {NoDepartment},
               NEW channels \in SUBSET Channels \ {{}},
               Form!BeginCreate(r, key, department, channels)
        PROVE  FormTurn(r)
    <2>1. FormFits([op |-> "create", key |-> key, version |-> Form!NextVersion(key),
                    department |-> department, channels |-> channels])
      BY DEF FormFits, Form!Action
    <2> QED
      BY <1>1, <1>2, <2>1 DEF Form!BeginCreate
  <1>3. ASSUME NEW f \in FormIds, NEW channels \in SUBSET Channels \ {{}},
               Form!BeginUpdate(r, f, channels)
        PROVE  FormTurn(r)
    <2>1. FormFits([op |-> "update", form |-> f, channels |-> channels])
      BY <1>3 DEF FormFits, Form!Action, Form!BeginUpdate
    <2> QED
      BY <1>1, <1>3, <2>1 DEF Form!BeginUpdate
  <1>4. ASSUME NEW f \in FormIds, NEW action \in Form!Action, Form!BeginStatus(r, f, action)
        PROVE  FormTurn(r)
    <2>1. FormFits([op |-> action, form |-> f])
      BY <1>4 DEF FormFits, Form!Action, Form!BeginStatus
    <2> QED
      BY <1>1, <1>4, <2>1 DEF Form!BeginStatus
  <1>5. FormFits(Form!Idle)
    BY DEF FormFits, Form!Idle, Form!Action
  <1> QED
    BY <1>1, <1>2, <1>3, <1>4, <1>5 DEF Form!Begin, Form!Fail

LEMMA SerialCreates ==
  ASSUME Form!FormsAssumption, SerialForms, NEW r \in Requests, NEW f \in FormIds,
         Form!CommitCreate(r, f)
  PROVE  FormTurn(r)
  <1> DEFINE new == Form!NewForm(r)
  <1>0. FormsInv /\ FormTypes
    BY DEF SerialForms, FormsInv
  <1>1. /\ forms' = [forms EXCEPT ![f] = new] /\ f \notin Form!Rows
        /\ formRequest' = [formRequest EXCEPT ![r] = Form!Idle]
    BY DEF Form!CommitCreate, Form!Rows
  <1>2. new \in Form!Form /\ new.status = "DRAFT" /\ ~new.archived
    BY <1>0, NewForms DEF Form!CommitCreate, Form!NewForm
  <1> HIDE DEF new
  <1>3. \A g \in FormIds : forms'[g] = IF g = f THEN new ELSE forms[g]
    BY <1>0, <1>1 DEF FormTypes
  <1>4. /\ Form!Rows' = Form!Rows \cup {f}
        /\ \A g \in Form!Rows : forms'[g] = forms[g]
    BY <1>1, <1>2, <1>3 DEF Form!Rows, Form!FormsAssumption
  <1>5. Form!Published' = Form!Published
    BY <1>2, <1>3, <1>4 DEF Form!Published
  <1>6. \A g \in Form!Published : forms'[g] = forms[g]
    BY <1>4 DEF Form!Published
  <1>7. Form!OneFormPerChannel' /\ Form!PublishedIsFrozen
    BY <1>5, <1>6 DEF SerialForms, Form!OneFormPerChannel, Form!PublishedIsFrozen
  <1>8. Form!ArchivedIsDated'
    BY <1>2, <1>3, <1>4 DEF SerialForms, Form!ArchivedIsDated
  <1> QED
    BY <1>0, <1>1, <1>7, <1>8, FormEnds DEF FormTurn

LEMMA ChangedInTurn ==
  ASSUME NEW row \in Form!Form, NEW action \in Form!Action,
         row.status \in Form!AppliesTo(action), ArchiveDated(row)
  PROVE  /\ ArchiveDated(Form!Changed(row, action))
         /\ Form!Changed(row, action).status = "PUBLISHED" => action = "publish"
         /\ Form!Changed(row, action).department = row.department
         /\ Form!Changed(row, action).channels = row.channels
  <1>1. CASE action = "publish"
    BY <1>1 DEF Form!Changed, Form!Form, ArchiveDated, Form!AppliesTo
  <1>2. CASE action = "unpublish"
    BY <1>2 DEF Form!Changed, Form!Form, ArchiveDated, Form!AppliesTo
  <1>3. CASE action = "deprecate"
    BY <1>3 DEF Form!Changed, Form!Form, ArchiveDated, Form!AppliesTo
  <1>4. CASE action = "archive"
    BY <1>4 DEF Form!Changed, Form!Form, ArchiveDated
  <1>5. CASE action = "restore"
    BY <1>5 DEF Form!Changed, Form!Form, ArchiveDated
  <1> QED
    BY <1>1, <1>2, <1>3, <1>4, <1>5 DEF Form!Action

LEMMA SerialFormCommits ==
  ASSUME Form!FormsAssumption, SerialForms, NEW r \in Requests,
         Form!CommitUpdate(r) \/ Form!CommitStatus(r)
  PROVE  FormTurn(r)
  <1> DEFINE f == formRequest[r].form
  <1>0. FormsInv /\ FormTypes /\ FormFits(formRequest[r])
    BY DEF SerialForms, FormsInv
  <1>1. /\ f \in Form!Rows /\ forms[f] \in Form!Form /\ ArchiveDated(forms[f])
        /\ formRequest' = [formRequest EXCEPT ![r] = Form!Idle]
    BY <1>0 DEF Form!CommitUpdate, Form!CommitStatus, FormTypes, Form!Rows, SerialForms,
                Form!ArchivedIsDated, ArchiveDated
  <1>2. CASE Form!CommitUpdate(r)
    <2> DEFINE row == [forms[f] EXCEPT !.channels = formRequest[r].channels]
    <2>1. formRequest[r].channels \in SUBSET Channels \ {{}}
      BY <1>0, <1>2, FormRequestKinds DEF Form!CommitUpdate
    <2>2. row \in Form!Form /\ row.status = forms[f].status /\ row.archived = forms[f].archived
      BY <1>1, <2>1 DEF Form!Form
    <2>3. forms' = [forms EXCEPT ![f] = row]
      BY <1>2 DEF Form!CommitUpdate
    <2>4. forms[f].status # "PUBLISHED"
      BY <1>0, <1>2 DEF Form!CommitUpdate, FormFits, Form!Editable
    <2> HIDE DEF row, f
    <2>5. Form!OneFormPerChannel' /\ Form!ArchivedIsDated' /\ Form!PublishedIsFrozen
      BY <1>1, <2>2, <2>3, <2>4, SerialRowChanges DEF ArchiveDated
    <2> QED
      BY <1>0, <1>1, <2>5, FormEnds DEF FormTurn
  <1>3. CASE Form!CommitStatus(r)
    <2> DEFINE action == formRequest[r].op
               row == Form!Changed(forms[f], action)
    <2>1. /\ action \in Form!Action /\ forms[f].status \in Form!AppliesTo(action)
          /\ action = "publish" => Form!NoClash(f)
      BY <1>0, <1>3 DEF Form!CommitStatus, FormFits
    <2>2. forms' = [forms EXCEPT ![f] = row]
      BY <1>3 DEF Form!CommitStatus
    <2> HIDE DEF f, action
    <2>3. /\ row \in Form!Form /\ ArchiveDated(row)
          /\ row.status = "PUBLISHED" => action = "publish"
          /\ row.department = forms[f].department /\ row.channels = forms[f].channels
      BY <1>1, <2>1, ChangedForms, ChangedInTurn
    <2> HIDE DEF row
    <2>4. Form!OneFormPerChannel' /\ Form!ArchivedIsDated' /\ Form!PublishedIsFrozen
      BY <1>1, <2>1, <2>2, <2>3, SerialRowChanges
    <2> QED
      BY <1>0, <1>1, <2>4, FormEnds DEF FormTurn
  <1> QED
    BY <1>2, <1>3

LEMMA SerialFormSteps ==
  ASSUME Form!FormsAssumption, SerialForms, Form!Next
  PROVE  \E r \in Requests : FormTurn(r)
  BY SerialBegins, SerialCreates, SerialFormCommits DEF Form!Next, Form!Commit

LEMMA SerialFormsKept ==
  ASSUME Form!FormsAssumption, Form!OneSlot, SerialForms, [Form!Next]_(Form!vars)
  PROVE  SerialForms'
  <1>1. FormsInv'
    BY FormsKept DEF SerialForms
  <1>2. CASE Form!Next
    <2>1. PICK r \in Requests : FormTurn(r)
      BY <1>2, SerialFormSteps
    <2>2. \A s \in Requests : s = r
      BY DEF Form!OneSlot
    <2>3. ASSUME NEW s \in Requests PROVE FormFits(formRequest[s])'
      BY <2>1, <2>2 DEF FormTurn
    <2> QED
      BY <1>1, <2>1, <2>3 DEF SerialForms, FormTurn
  <1>3. CASE UNCHANGED Form!vars
    <2>1. forms' = forms /\ formRequest' = formRequest
      BY <1>3 DEF Form!vars
    <2>2. \A s \in Requests : FormFits(formRequest[s])'
      BY <2>1, FormsStill DEF SerialForms, FormFits
    <2> QED
      BY <1>1, <2>1, <2>2, FormsStill DEF SerialForms
  <1> QED
    BY <1>2, <1>3

LEMMA SerialFormsInvariance ==
  ASSUME Form!FormsAssumption, Form!OneSlot
  PROVE  Form!Spec => []SerialForms
  <1>1. ASSUME Form!Init PROVE SerialForms
    <2>1. Form!Rows = {} /\ Form!Published = {}
      BY <1>1 DEF Form!Init, Form!Rows, Form!Published
    <2>2. \A r \in Requests : FormFits(formRequest[r])
      BY <1>1 DEF Form!Init, FormFits, Form!Idle, Form!Action
    <2> QED
      BY <1>1, <2>1, <2>2, FormsStart
      DEF SerialForms, Form!OneFormPerChannel, Form!ArchivedIsDated
  <1> QED
    BY <1>1, SerialFormsKept, PTL DEF Form!Spec

\* One request at a time, a department's channel has one published form, and
\* archivedAt tells the archived forms from the others.
THEOREM ChannelsHaveOneForm ==
  ASSUME Form!FormsAssumption, Form!OneSlot
  PROVE  Form!Spec => [](Form!OneFormPerChannel /\ Form!ArchivedIsDated)
  <1>1. SerialForms => Form!OneFormPerChannel /\ Form!ArchivedIsDated
    BY DEF SerialForms
  <1> QED
    BY <1>1, SerialFormsInvariance, PTL

\* One request at a time, a published form's channels do not change.
THEOREM PublishedFormsStay ==
  ASSUME Form!FormsAssumption, Form!OneSlot
  PROVE  Form!Spec => [][Form!PublishedIsFrozen]_(Form!vars)
  <1>1. SerialForms /\ [Form!Next]_(Form!vars) => [Form!PublishedIsFrozen]_(Form!vars)
    BY SerialFormSteps DEF FormTurn
  <1> QED
    BY <1>1, SerialFormsInvariance, PTL DEF Form!Spec

\* What the code promises of forms: dense versions and dated publications however
\* requests overlap; one published form of a channel, whose channels stay, and
\* dated archives while they come one at a time.
THEOREM FormsAlwaysHold ==
  ASSUME Form!FormsAssumption
  PROVE  Form!Spec => /\ []Form!FormsHold
                      /\ [][Form!OneSlot => Form!PublishedIsFrozen]_(Form!vars)
  <1>1. CASE Form!OneSlot
    <2>1. /\ Form!TypeOK /\ Form!VersionsAreDense /\ Form!PublishedIsDated
          /\ Form!OneFormPerChannel /\ Form!ArchivedIsDated
          => Form!FormsHold
      BY DEF Form!FormsHold
    <2>2. Form!Spec => /\ [](Form!OneFormPerChannel /\ Form!ArchivedIsDated)
                       /\ [][Form!PublishedIsFrozen]_(Form!vars)
      BY <1>1, ChannelsHaveOneForm, PublishedFormsStay
    <2>3. Form!PublishedIsFrozen => (Form!OneSlot => Form!PublishedIsFrozen)
      OBVIOUS
    <2> QED
      BY <2>1, <2>2, <2>3, FormsAreNumbered, PTL
  <1>2. CASE ~Form!OneSlot
    <2>1. Form!TypeOK /\ Form!VersionsAreDense /\ Form!PublishedIsDated => Form!FormsHold
      BY <1>2 DEF Form!FormsHold
    <2>2. Form!OneSlot => Form!PublishedIsFrozen
      BY <1>2
    <2> QED
      BY <2>1, <2>2, FormsAreNumbered, PTL
  <1> QED
    BY <1>1, <1>2

-----------------------------------------------------------------------------
(* Routing: the configuration's rows and the requests *)

\* A row with the columns of one table, written by a session that has loaded it.
LEMMA WrittenDepartment ==
  ASSUME NEW loaded \in Routes!Department, NEW new \in Routes!Department,
         NEW current \in Routes!Department
  PROVE  Routes!Written(loaded, new, current) \in Routes!Department
  <1> DEFINE w == Routes!Written(loaded, new, current)
             Pick(c) == IF new[c] = loaded[c] THEN current[c] ELSE new[c]
  <1>1. w = [c \in {"channels", "active"} |-> Pick(c)]
    BY DEF Routes!Written, Routes!Department
  <1>2. w = [channels |-> Pick("channels"), active |-> Pick("active")]
    BY <1>1
  <1> HIDE DEF w
  <1> QED
    BY <1>2 DEF Routes!Department, w

LEMMA WrittenMapping ==
  ASSUME NEW loaded \in Routes!Mapping, NEW new \in Routes!Mapping,
         NEW current \in Routes!Mapping
  PROVE  Routes!Written(loaded, new, current) \in Routes!Mapping
  <1> DEFINE w == Routes!Written(loaded, new, current)
             Pick(c) == IF new[c] = loaded[c] THEN current[c] ELSE new[c]
  <1>1. w = [c \in {"key", "channel", "department", "active"} |-> Pick(c)]
    BY DEF Routes!Written, Routes!Mapping
  <1>2. w = [key |-> Pick("key"), channel |-> Pick("channel"),
             department |-> Pick("department"), active |-> Pick("active")]
    BY <1>1
  <1> HIDE DEF w
  <1> QED
    BY <1>2 DEF Routes!Mapping, w

LEMMA WrittenSetting ==
  ASSUME NEW loaded \in Routes!Setting, NEW new \in Routes!Setting,
         NEW current \in Routes!Setting
  PROVE  /\ Routes!Written(loaded, new, current) \in Routes!Setting
         /\ Routes!Written(loaded, new, current).fallback \in {current.fallback, new.fallback}
         /\ loaded = current => Routes!Written(loaded, new, current) = new
  <1> DEFINE w == Routes!Written(loaded, new, current)
             Pick(c) == IF new[c] = loaded[c] THEN current[c] ELSE new[c]
  <1>1. w = [c \in {"enforce", "mode", "fallback"} |-> Pick(c)]
    BY DEF Routes!Written, Routes!Setting
  <1>2. w = [enforce |-> Pick("enforce"), mode |-> Pick("mode"), fallback |-> Pick("fallback")]
    BY <1>1
  <1>3. new = [enforce |-> new.enforce, mode |-> new.mode, fallback |-> new.fallback]
    BY DEF Routes!Setting
  <1> HIDE DEF w
  <1> QED
    BY <1>2, <1>3 DEF Routes!Setting, w

RouteTypes ==
  /\ dept \in [Departments -> Routes!Department \cup {NoRow}]
  /\ mapping \in [Mappings -> Routes!Mapping \cup {NoRow}]
  /\ setting \in Routes!Setting \cup {NoRow}
  /\ member \in [Users -> Departments \cup {None}]
  /\ audit \in [Mappings -> Routes!Mapping \cup {NoRow}]

\* A request that may be under way.  The tenant's row of settings does not go away:
\* who has loaded one finds one.
RouteOpen(q) ==
  /\ q.op \in {"idle", "department", "dissolve", "move", "mapping", "unmap", "settings",
               "upload", "routed"}
  /\ q.op = "department" => /\ q.id \in Departments /\ q.new \in Routes!Department
                            /\ q.loaded \in Routes!Department \cup {NoRow}
  /\ q.op = "dissolve" => q.id \in Departments
  /\ q.op = "move" => q.id \in Users /\ q.to \in Departments \cup {None}
  /\ q.op = "mapping" => /\ q.id \in Mappings /\ q.new \in Routes!Mapping
                         /\ q.loaded \in Routes!Mapping \cup {NoRow}
  /\ q.op = "unmap" => q.id \in Mappings
  /\ q.op = "settings" => /\ q.new \in Routes!Setting
                          /\ q.loaded \in Routes!Setting \cup {NoRow}
                          /\ q.loaded # NoRow => setting # NoRow

UniqueMappings ==
  \A m, n \in Routes!Rows : m # n =>
    /\ mapping[m].key # mapping[n].key
    /\ <<mapping[m].channel, mapping[m].department>>
         # <<mapping[n].channel, mapping[n].department>>

NamedExist ==
  /\ \A m \in Routes!Rows : dept[mapping[m].department] # NoRow
  /\ setting # NoRow /\ setting.fallback # None => dept[setting.fallback] # NoRow
  /\ \A u \in Users : member[u] # None => dept[member[u]] # NoRow

RouteInv ==
  /\ RouteTypes
  /\ routingRequest = [r \in Requests |-> routingRequest[r]]
  /\ \A r \in Requests : RouteOpen(routingRequest[r])
  /\ UniqueMappings
  /\ NamedExist

\* What every step does.
RouteStep(r) ==
  /\ RouteTypes' /\ UniqueMappings' /\ NamedExist'
  /\ setting # NoRow => setting' # NoRow
  /\ \E q : RouteOpen(q) /\ routingRequest' = [routingRequest EXCEPT ![r] = q]

LEMMA RouteIdle == RouteOpen(Routes!Idle)
  BY DEF RouteOpen, Routes!Idle

LEMMA RouteStays ==
  ASSUME RouteInv, UNCHANGED Routes!config
  PROVE  RouteTypes' /\ UniqueMappings' /\ NamedExist' /\ setting' = setting
  BY DEF RouteInv, RouteTypes, UniqueMappings, NamedExist, Routes!config, Routes!Rows

\* An active department is a row.
LEMMA ActiveExist ==
  ASSUME RouteInv
  PROVE  \A d \in Routes!ActiveDepartments : d \in Departments /\ dept[d] # NoRow
  BY DEF Routes!ActiveDepartments

LEMMA RouteBegins ==
  ASSUME Routes!RoutingAssumption, RouteInv, NEW r \in Requests
  PROVE  /\ \A d \in Departments, row \in Routes!Department :
              Routes!BeginCreateDepartment(r, d, row) \/ Routes!BeginUpdateDepartment(r, d, row)
                => RouteStep(r)
         /\ \A d \in Departments : Routes!BeginDeleteDepartment(r, d) => RouteStep(r)
         /\ \A u \in Users, d \in Departments \cup {None} : Routes!BeginMove(r, u, d) => RouteStep(r)
         /\ \A m \in Mappings, row \in Routes!Mapping :
              Routes!BeginCreateMapping(r, m, row) \/ Routes!BeginUpdateMapping(r, m, row)
                => RouteStep(r)
         /\ \A m \in Mappings : Routes!BeginDeleteMapping(r, m) => RouteStep(r)
         /\ \A enforce \in BOOLEAN, mode \in Routes!Modes, d \in Departments \cup {None} :
              Routes!BeginSettings(r, enforce, mode, d) => RouteStep(r)
         /\ Routes!BeginUpload(r) => RouteStep(r)
  <1>1. ASSUME NEW q, RouteOpen(q), Routes!Begin(r, q) PROVE RouteStep(r)
    BY <1>1, RouteStays DEF RouteStep, Routes!Begin
  <1>2. ASSUME NEW d \in Departments, NEW row \in Routes!Department,
               Routes!BeginCreateDepartment(r, d, row) \/ Routes!BeginUpdateDepartment(r, d, row)
        PROVE  RouteStep(r)
    <2>1. /\ RouteOpen([op |-> "department", id |-> d, loaded |-> NoRow, new |-> row])
          /\ RouteOpen([op |-> "department", id |-> d, loaded |-> dept[d], new |-> row])
      BY DEF RouteOpen, RouteInv, RouteTypes
    <2> QED
      BY <1>1, <1>2, <2>1 DEF Routes!BeginCreateDepartment, Routes!BeginUpdateDepartment
  <1>3. ASSUME NEW d \in Departments, Routes!BeginDeleteDepartment(r, d) PROVE RouteStep(r)
    <2>1. RouteOpen([op |-> "dissolve", id |-> d])
      BY DEF RouteOpen
    <2> QED
      BY <1>1, <1>3, <2>1 DEF Routes!BeginDeleteDepartment
  <1>4. ASSUME NEW u \in Users, NEW d \in Departments \cup {None}, Routes!BeginMove(r, u, d)
        PROVE  RouteStep(r)
    <2>1. RouteOpen([op |-> "move", id |-> u, to |-> d])
      BY DEF RouteOpen
    <2> QED
      BY <1>1, <1>4, <2>1 DEF Routes!BeginMove
  <1>5. ASSUME NEW m \in Mappings, NEW row \in Routes!Mapping,
               Routes!BeginCreateMapping(r, m, row) \/ Routes!BeginUpdateMapping(r, m, row)
        PROVE  RouteStep(r)
    <2>1. /\ RouteOpen([op |-> "mapping", id |-> m, loaded |-> NoRow, new |-> row])
          /\ RouteOpen([op |-> "mapping", id |-> m, loaded |-> mapping[m], new |-> row])
      BY DEF RouteOpen, RouteInv, RouteTypes
    <2> QED
      BY <1>1, <1>5, <2>1 DEF Routes!BeginCreateMapping, Routes!BeginUpdateMapping
  <1>6. ASSUME NEW m \in Mappings, Routes!BeginDeleteMapping(r, m) PROVE RouteStep(r)
    <2>1. RouteOpen([op |-> "unmap", id |-> m])
      BY DEF RouteOpen
    <2> QED
      BY <1>1, <1>6, <2>1 DEF Routes!BeginDeleteMapping
  <1>7. ASSUME NEW enforce \in BOOLEAN, NEW mode \in Routes!Modes,
               NEW d \in Departments \cup {None}, Routes!BeginSettings(r, enforce, mode, d)
        PROVE  RouteStep(r)
    <2> DEFINE fallback == IF mode = "FALLBACK_DEPARTMENT" THEN d ELSE None
    <2>1. [enforce |-> enforce, mode |-> mode, fallback |-> fallback] \in Routes!Setting
      BY DEF Routes!Setting
    <2> HIDE DEF fallback
    <2>2. RouteOpen([op |-> "settings", loaded |-> setting,
                     new |-> [enforce |-> enforce, mode |-> mode, fallback |-> fallback]])
      BY <2>1 DEF RouteOpen, RouteInv, RouteTypes
    <2> QED
      BY <1>1, <1>7, <2>2 DEF Routes!BeginSettings, fallback
  <1>8. ASSUME Routes!BeginUpload(r) PROVE RouteStep(r)
    <2>1. RouteOpen([op |-> "upload", known |-> dept])
      BY DEF RouteOpen
    <2> QED
      BY <1>1, <1>8, <2>1 DEF Routes!BeginUpload
  <1> QED
    BY <1>2, <1>3, <1>4, <1>5, <1>6, <1>7, <1>8

\* Departments change; those that are named stay.
LEMMA DepartmentCommits ==
  ASSUME Routes!RoutingAssumption, RouteInv, NEW r \in Requests,
         Routes!CommitDepartment(r) \/ Routes!CommitDeleteDepartment(r)
  PROVE  RouteStep(r)
  <1> DEFINE q == routingRequest[r]
  <1>1. RouteOpen(q) /\ routingRequest' = [routingRequest EXCEPT ![r] = Routes!Idle]
    BY DEF RouteInv, Routes!CommitDepartment, Routes!CommitDeleteDepartment, Routes!End
  <1>2. CASE Routes!CommitDepartment(r)
    <2>1. /\ q.id \in Departments /\ q.new \in Routes!Department
          /\ q.loaded \in Routes!Department \cup {NoRow}
          /\ UNCHANGED <<mapping, setting, member, audit>>
      BY <1>1, <1>2 DEF RouteOpen, Routes!CommitDepartment
    <2> DEFINE old == dept[q.id]
               row == CASE q.loaded = NoRow /\ old = NoRow -> q.new
                        [] q.loaded # NoRow /\ old # NoRow -> Routes!Written(q.loaded, q.new, old)
                        [] OTHER -> old
    <2>2. dept' = [dept EXCEPT ![q.id] = row]
      BY <1>2 DEF Routes!CommitDepartment
    <2>3. old \in Routes!Department \cup {NoRow}
      BY <2>1 DEF RouteInv, RouteTypes
    <2>4. row \in Routes!Department \cup {NoRow} /\ (old # NoRow => row # NoRow)
      <3>1. NoRow \notin Routes!Department
        BY DEF Routes!RoutingAssumption
      <3> HIDE DEF q, old
      <3>2. q.loaded # NoRow /\ old # NoRow
              => Routes!Written(q.loaded, q.new, old) \in Routes!Department
        BY <2>1, <2>3, WrittenDepartment
      <3> QED
        BY <2>1, <2>3, <3>1, <3>2
    <2> HIDE DEF q, row
    <2>5. dept' \in [Departments -> Routes!Department \cup {NoRow}]
          /\ \A d \in Departments : dept[d] # NoRow => dept'[d] # NoRow
      BY <2>1, <2>2, <2>4 DEF RouteInv, RouteTypes
    <2>6. RouteTypes' /\ UniqueMappings'
      BY <2>1, <2>5 DEF RouteInv, RouteTypes, UniqueMappings, Routes!Rows
    <2>7. NamedExist'
      BY <2>1, <2>5 DEF RouteInv, RouteTypes, NamedExist, Routes!Rows, Routes!Mapping,
                        Routes!Setting
    <2> QED
      BY <1>1, <2>1, <2>6, <2>7, RouteIdle DEF RouteStep
  <1>3. CASE Routes!CommitDeleteDepartment(r)
    <2> DEFINE d == q.id
    <2>1. d \in Departments
      BY <1>1, <1>3 DEF RouteOpen, Routes!CommitDeleteDepartment
    <2>2. CASE \E m \in Routes!Rows : mapping[m].department = d
      <3>1. UNCHANGED Routes!config
        BY <1>3, <2>2 DEF Routes!CommitDeleteDepartment
      <3> QED
        BY <1>1, <3>1, RouteStays, RouteIdle DEF RouteStep
    <2>3. CASE ~ \E m \in Routes!Rows : mapping[m].department = d
      <3>1. /\ dept' = [dept EXCEPT ![d] = NoRow]
            /\ member' = [u \in Users |-> IF member[u] = d THEN None ELSE member[u]]
            /\ setting' = IF setting # NoRow /\ setting.fallback = d
                          THEN [setting EXCEPT !.fallback = None] ELSE setting
            /\ UNCHANGED <<mapping, audit>>
        BY <1>3, <2>3 DEF Routes!CommitDeleteDepartment
      <3> HIDE DEF d
      <3>2. /\ setting' \in Routes!Setting \cup {NoRow}
            /\ setting # NoRow => setting' # NoRow
            /\ setting' # NoRow /\ setting'.fallback # None =>
                 /\ setting # NoRow /\ setting'.fallback = setting.fallback
                 /\ setting.fallback # d
        <4>1. NoRow \notin Routes!Setting /\ setting \in Routes!Setting \cup {NoRow}
          BY DEF Routes!RoutingAssumption, RouteInv, RouteTypes
        <4>2. setting # NoRow => /\ [setting EXCEPT !.fallback = None] \in Routes!Setting
                                 /\ [setting EXCEPT !.fallback = None].fallback = None
          BY <4>1 DEF Routes!Setting
        <4> QED
          BY <3>1, <4>1, <4>2
      <3>3. RouteTypes' /\ UniqueMappings'
        BY <3>1, <3>2 DEF RouteInv, RouteTypes, UniqueMappings, Routes!Rows
      <3>4. \A m \in Routes!Rows' : dept'[mapping'[m].department] # NoRow
        BY <2>3, <3>1 DEF RouteInv, RouteTypes, NamedExist, Routes!Rows, Routes!Mapping
      <3>5. setting' # NoRow /\ setting'.fallback # None => dept'[setting'.fallback] # NoRow
        BY <3>1, <3>2 DEF RouteInv, RouteTypes, NamedExist, Routes!Setting
      <3>6. \A u \in Users : member'[u] # None => dept'[member'[u]] # NoRow
        BY <3>1 DEF RouteInv, RouteTypes, NamedExist
      <3> QED
        BY <1>1, <3>2, <3>3, <3>4, <3>5, <3>6, RouteIdle DEF RouteStep, NamedExist
    <2> QED
      BY <2>2, <2>3
  <1> QED
    BY <1>2, <1>3

LEMMA MoveCommits ==
  ASSUME Routes!RoutingAssumption, RouteInv, NEW r \in Requests, Routes!CommitMove(r)
  PROVE  RouteStep(r)
  <1> DEFINE q == routingRequest[r]
             to == IF q.to = None \/ dept[q.to] # NoRow THEN q.to ELSE member[q.id]
  <1>1. /\ routingRequest' = [routingRequest EXCEPT ![r] = Routes!Idle]
        /\ UNCHANGED <<dept, mapping, setting, audit>>
        /\ member' = [member EXCEPT ![q.id] = to]
    BY DEF Routes!CommitMove, Routes!End
  <1>2. q.id \in Users /\ q.to \in Departments \cup {None}
    BY DEF RouteInv, RouteOpen, Routes!CommitMove
  <1> HIDE DEF q
  <1>3. to \in Departments \cup {None} /\ (to # None => dept[to] # NoRow)
    BY <1>2 DEF RouteInv, RouteTypes, NamedExist
  <1> HIDE DEF to
  <1>4. RouteTypes' /\ UniqueMappings'
    BY <1>1, <1>2, <1>3 DEF RouteInv, RouteTypes, UniqueMappings, Routes!Rows
  <1>5. NamedExist'
    BY <1>1, <1>2, <1>3 DEF RouteInv, RouteTypes, NamedExist, Routes!Rows
  <1> QED
    BY <1>1, <1>4, <1>5, RouteIdle DEF RouteStep

\* The unique constraints and the foreign key refuse what a session that has read
\* older rows would write.
LEMMA MappingWritten ==
  ASSUME Routes!RoutingAssumption, RouteInv, NEW m \in Mappings, NEW row \in Routes!Mapping,
         Routes!Accepts(m, row), mapping' = [mapping EXCEPT ![m] = row],
         UNCHANGED <<dept, setting, member>>
  PROVE  /\ mapping' \in [Mappings -> Routes!Mapping \cup {NoRow}]
         /\ UniqueMappings' /\ NamedExist'
  <1>1. /\ mapping' \in [Mappings -> Routes!Mapping \cup {NoRow}]
        /\ \A n \in Mappings : mapping'[n] = IF n = m THEN row ELSE mapping[n]
    BY DEF RouteInv, RouteTypes
  <1>2. Routes!Rows' = Routes!Rows \cup {m} /\ Routes!Rows \subseteq Mappings
    BY <1>1 DEF Routes!Rows, Routes!RoutingAssumption
  <1>3. \A n \in Routes!Rows \ {m} :
          /\ mapping[n].key # row.key
          /\ mapping[n].channel # row.channel \/ mapping[n].department # row.department
    BY DEF Routes!Accepts, Routes!KeyTaken, Routes!PairTaken
  <1>4. \A n, k \in Routes!Rows' : n # k =>
          /\ mapping'[n].key # mapping'[k].key
          /\ <<mapping'[n].channel, mapping'[n].department>>
               # <<mapping'[k].channel, mapping'[k].department>>
    <2> SUFFICES ASSUME NEW n \in Routes!Rows', NEW k \in Routes!Rows', n # k
                 PROVE  /\ mapping'[n].key # mapping'[k].key
                        /\ \/ mapping'[n].channel # mapping'[k].channel
                           \/ mapping'[n].department # mapping'[k].department
      OBVIOUS
    <2>1. CASE n # m /\ k # m
      <3>1. mapping'[n] = mapping[n] /\ mapping'[k] = mapping[k]
            /\ n \in Routes!Rows /\ k \in Routes!Rows
        BY <1>1, <1>2, <2>1
      <3> QED
        BY <3>1 DEF RouteInv, UniqueMappings
    <2>2. CASE n = m
      BY <1>1, <1>2, <1>3, <2>2
    <2>3. CASE k = m
      BY <1>1, <1>2, <1>3, <2>3
    <2> QED
      BY <2>1, <2>2, <2>3
  <1>5. dept[row.department] # NoRow
    BY DEF Routes!Accepts
  <1>6. NamedExist'
    BY <1>1, <1>2, <1>5 DEF RouteInv, NamedExist
  <1> QED
    BY <1>1, <1>4, <1>6 DEF UniqueMappings

LEMMA MappingCommits ==
  ASSUME Routes!RoutingAssumption, RouteInv, NEW r \in Requests, Routes!CommitMapping(r)
  PROVE  RouteStep(r)
  <1> DEFINE q == routingRequest[r]
             row == IF q.loaded = NoRow \/ mapping[q.id] = NoRow THEN q.new
                    ELSE Routes!Written(q.loaded, q.new, mapping[q.id])
             accepted == /\ (q.loaded = NoRow) = (mapping[q.id] = NoRow)
                         /\ Routes!Accepts(q.id, row)
  <1>1. /\ routingRequest' = [routingRequest EXCEPT ![r] = Routes!Idle]
        /\ UNCHANGED <<dept, setting, member>>
        /\ IF accepted
           THEN /\ mapping' = [mapping EXCEPT ![q.id] = row]
                /\ audit' = [audit EXCEPT ![q.id] = q.new]
           ELSE UNCHANGED <<mapping, audit>>
    BY DEF Routes!CommitMapping, Routes!End
  <1>2. /\ q.id \in Mappings /\ q.new \in Routes!Mapping
        /\ q.loaded \in Routes!Mapping \cup {NoRow}
    BY DEF RouteInv, RouteOpen, Routes!CommitMapping
  <1> HIDE DEF q
  <1>3. row \in Routes!Mapping
    BY <1>2, WrittenMapping DEF RouteInv, RouteTypes
  <1> HIDE DEF row
  <1>4. CASE accepted
    <2>1. /\ mapping' = [mapping EXCEPT ![q.id] = row]
          /\ audit' = [audit EXCEPT ![q.id] = q.new]
          /\ Routes!Accepts(q.id, row)
      BY <1>1, <1>4
    <2>2. /\ mapping' \in [Mappings -> Routes!Mapping \cup {NoRow}]
          /\ UniqueMappings' /\ NamedExist'
      BY <1>1, <1>2, <1>3, <2>1, MappingWritten
    <2>3. RouteTypes'
      BY <1>1, <1>2, <2>1, <2>2 DEF RouteInv, RouteTypes
    <2> QED
      BY <1>1, <2>2, <2>3, RouteIdle DEF RouteStep
  <1>5. CASE ~accepted
    <2>1. UNCHANGED Routes!config
      BY <1>1, <1>5 DEF Routes!config
    <2> QED
      BY <1>1, <2>1, RouteStays, RouteIdle DEF RouteStep
  <1> QED
    BY <1>4, <1>5

LEMMA MappingDeletes ==
  ASSUME Routes!RoutingAssumption, RouteInv, NEW r \in Requests, Routes!CommitDeleteMapping(r)
  PROVE  RouteStep(r)
  <1> DEFINE m == routingRequest[r].id
  <1>1. /\ routingRequest' = [routingRequest EXCEPT ![r] = Routes!Idle]
        /\ UNCHANGED <<dept, setting, member>>
        /\ mapping' = [mapping EXCEPT ![m] = NoRow]
        /\ audit' = [audit EXCEPT ![m] = NoRow]
    BY DEF Routes!CommitDeleteMapping, Routes!End
  <1>2. m \in Mappings
    BY DEF RouteInv, RouteOpen, Routes!CommitDeleteMapping
  <1> HIDE DEF m
  <1>3. /\ Routes!Rows' = Routes!Rows \ {m}
        /\ \A n \in Routes!Rows' : mapping'[n] = mapping[n]
    BY <1>1, <1>2 DEF RouteInv, RouteTypes, Routes!Rows
  <1>4. RouteTypes'
    BY <1>1, <1>2 DEF RouteInv, RouteTypes
  <1>5. UniqueMappings'
    BY <1>3 DEF RouteInv, UniqueMappings
  <1>6. NamedExist'
    BY <1>1, <1>3 DEF RouteInv, NamedExist
  <1> QED
    BY <1>1, <1>4, <1>5, <1>6, RouteIdle DEF RouteStep

LEMMA SettingsCommits ==
  ASSUME Routes!RoutingAssumption, RouteInv, NEW r \in Requests, Routes!CommitSettings(r)
  PROVE  RouteStep(r)
  <1> DEFINE q == routingRequest[r]
  <1>1. /\ routingRequest' = [routingRequest EXCEPT ![r] = Routes!Idle]
        /\ UNCHANGED <<dept, mapping, member, audit>>
        /\ setting' =
             IF q.new.fallback # None /\ dept[q.new.fallback] = NoRow THEN setting
             ELSE CASE q.loaded = NoRow /\ setting = NoRow -> q.new
                    [] q.loaded # NoRow -> Routes!Written(q.loaded, q.new, setting)
                    [] OTHER -> setting
    BY DEF Routes!CommitSettings, Routes!End
  <1>2. /\ q.new \in Routes!Setting /\ q.loaded \in Routes!Setting \cup {NoRow}
        /\ q.loaded # NoRow => setting # NoRow
        /\ setting \in Routes!Setting \cup {NoRow} /\ NoRow \notin Routes!Setting
    BY DEF RouteInv, RouteTypes, RouteOpen, Routes!CommitSettings, Routes!RoutingAssumption
  <1> HIDE DEF q
  <1> DEFINE written == Routes!Written(q.loaded, q.new, setting)
  <1>3. q.loaded # NoRow => /\ written \in Routes!Setting
                            /\ written.fallback \in {setting.fallback, q.new.fallback}
    BY <1>2, WrittenSetting
  <1> HIDE DEF written
  <1>4. \/ setting' = setting
        \/ /\ q.new.fallback = None \/ dept[q.new.fallback] # NoRow
           /\ setting' = q.new
        \/ /\ q.new.fallback = None \/ dept[q.new.fallback] # NoRow
           /\ q.loaded # NoRow /\ setting' = written
    <2>1. CASE q.new.fallback # None /\ dept[q.new.fallback] = NoRow
      BY <1>1, <2>1
    <2>2. CASE ~(q.new.fallback # None /\ dept[q.new.fallback] = NoRow)
      <3>1. CASE q.loaded # NoRow
        BY <1>1, <2>2, <3>1 DEF written
      <3>2. CASE q.loaded = NoRow
        BY <1>1, <2>2, <3>2
      <3> QED
        BY <3>1, <3>2
    <2> QED
      BY <2>1, <2>2
  <1>5. /\ setting' \in Routes!Setting \cup {NoRow}
        /\ setting # NoRow => setting' # NoRow
        /\ setting' # NoRow /\ setting'.fallback # None => dept[setting'.fallback] # NoRow
    BY <1>2, <1>3, <1>4 DEF RouteInv, NamedExist
  <1>6. RouteTypes' /\ UniqueMappings'
    BY <1>1, <1>5 DEF RouteInv, RouteTypes, UniqueMappings, Routes!Rows
  <1>7. NamedExist'
    BY <1>1, <1>5 DEF RouteInv, NamedExist, Routes!Rows
  <1> QED
    BY <1>1, <1>5, <1>6, <1>7, RouteIdle DEF RouteStep

LEMMA UploadSteps ==
  ASSUME RouteInv, NEW r \in Requests, Routes!UploadRequest(r), ~Routes!BeginUpload(r)
  PROVE  RouteStep(r)
  <1>1. ASSUME NEW q, RouteOpen(q), UNCHANGED Routes!config,
               routingRequest' = [routingRequest EXCEPT ![r] = q]
        PROVE  RouteStep(r)
    BY <1>1, RouteStays DEF RouteStep
  <1>2. CASE Routes!EndUpload(r)
    BY <1>1, <1>2, RouteIdle DEF Routes!EndUpload, Routes!End
  <1>3. ASSUME NEW key, NEW channel, NEW hint, Routes!Resolve(r, key, channel, hint)
        PROVE  RouteStep(r)
    <2>1. \A to : RouteOpen([op |-> "routed", channel |-> channel, hint |-> hint, to |-> to])
      BY DEF RouteOpen
    <2> QED
      BY <1>1, <1>3, <2>1 DEF Routes!Resolve
  <1> QED
    BY <1>2, <1>3 DEF Routes!UploadRequest

LEMMA RouteSteps ==
  ASSUME Routes!RoutingAssumption, RouteInv, Routes!Next
  PROVE  \E r \in Requests : RouteStep(r)
  <1>1. ASSUME NEW r \in Requests, Routes!DepartmentRequest(r) PROVE RouteStep(r)
    BY <1>1, RouteBegins, DepartmentCommits, MoveCommits DEF Routes!DepartmentRequest
  <1>2. ASSUME NEW r \in Requests, Routes!MappingRequest(r) PROVE RouteStep(r)
    BY <1>2, RouteBegins, MappingCommits, MappingDeletes DEF Routes!MappingRequest
  <1>3. ASSUME NEW r \in Requests, Routes!SettingsRequest(r) PROVE RouteStep(r)
    BY <1>3, RouteBegins, SettingsCommits DEF Routes!SettingsRequest
  <1>4. ASSUME NEW r \in Requests, Routes!UploadRequest(r) PROVE RouteStep(r)
    BY <1>4, RouteBegins, UploadSteps
  <1> QED
    BY <1>1, <1>2, <1>3, <1>4 DEF Routes!Next

LEMMA RoutesKept ==
  ASSUME Routes!RoutingAssumption, RouteInv, [Routes!Next]_(Routes!vars)
  PROVE  RouteInv'
  <1>1. CASE Routes!Next
    <2>1. PICK r \in Requests : RouteStep(r)
      BY <1>1, RouteSteps
    <2>2. PICK q : RouteOpen(q) /\ routingRequest' = [routingRequest EXCEPT ![r] = q]
      BY <2>1 DEF RouteStep
    <2>3. \A s \in Requests : routingRequest'[s] = IF s = r THEN q ELSE routingRequest[s]
      BY <2>2 DEF RouteInv
    <2>4. \A s \in Requests : RouteOpen(routingRequest'[s])
      BY <2>2, <2>3 DEF RouteInv
    <2>5. \A s \in Requests : RouteOpen(routingRequest[s])'
      BY <2>1, <2>4 DEF RouteStep, RouteOpen
    <2>6. routingRequest' = [s \in Requests |-> routingRequest'[s]]
      BY <2>2 DEF RouteInv
    <2> QED
      BY <2>1, <2>5, <2>6 DEF RouteInv, RouteStep
  <1>2. CASE UNCHANGED Routes!vars
    <2>1. UNCHANGED Routes!config /\ UNCHANGED routingRequest /\ UNCHANGED setting
      BY <1>2 DEF Routes!vars, Routes!config
    <2>2. \A s \in Requests : RouteOpen(routingRequest[s])'
      BY <2>1 DEF RouteInv, RouteOpen
    <2> QED
      BY <2>1, <2>2, RouteStays DEF RouteInv
  <1> QED
    BY <1>1, <1>2

LEMMA RouteInvariance ==
  ASSUME Routes!RoutingAssumption
  PROVE  Routes!Spec => []RouteInv
  <1>1. Routes!Init => RouteInv
    BY RouteIdle
    DEF Routes!Init, RouteInv, RouteTypes, UniqueMappings, NamedExist, Routes!Rows
  <1> QED
    BY <1>1, RoutesKept, PTL DEF Routes!Spec

\* However the requests that change departments, mappings, settings and users
\* overlap, an application key has one mapping, so has a channel of a department,
\* and the departments that mappings, users and settings name exist.
THEOREM MappingsStayUnambiguous ==
  ASSUME Routes!RoutingAssumption
  PROVE  Routes!Spec => [](Routes!TypeOK /\ Routes!MappingsAreUnambiguous)
  <1>1. RouteInv => Routes!TypeOK
    BY DEF RouteInv, RouteTypes, RouteOpen, Routes!TypeOK
  <1>2. RouteInv => Routes!MappingsAreUnambiguous
    BY DEF RouteInv, UniqueMappings, NamedExist, Routes!MappingsAreUnambiguous,
       Routes!Settings
  <1> QED
    BY <1>1, <1>2, RouteInvariance, PTL

-----------------------------------------------------------------------------
(* Routing: one request at a time *)

LEMMA RouteCount == ASSUME NEW S PROVE Routes!Cardinality(S) = Cardinality(S)
  BY DEF Routes!Cardinality, Cardinality

LEMMA WrittenAlone ==
  ASSUME NEW new \in Routes!Mapping, NEW current \in Routes!Mapping
  PROVE  Routes!Written(current, new, current) = new
  <1> DEFINE w == Routes!Written(current, new, current)
  <1>1. w = [c \in {"key", "channel", "department", "active"} |-> new[c]]
    BY DEF Routes!Written, Routes!Mapping
  <1>2. new = [c \in {"key", "channel", "department", "active"} |-> new[c]]
    BY DEF Routes!Mapping
  <1> HIDE DEF w
  <1> QED
    BY <1>1, <1>2 DEF w

\* Where a route leads: to an active department, one with the channel unless the
\* upload has named it.
Served(d, channel, hint) ==
  d \in Routes!ActiveDepartments /\ (d # hint => channel \in dept[d].channels)

\* What the only request has read is still so when it goes on.
RouteFits(q) ==
  /\ q.op = "dissolve" => Reorganised /\ \A u \in Users : member[u] # q.id
  /\ q.op = "mapping" => q.loaded = mapping[q.id]
  /\ q.op = "settings" =>
       /\ q.loaded = setting
       /\ q.new.mode = "FALLBACK_DEPARTMENT" <=> q.new.fallback # None
  /\ q.op = "upload" => q.known = dept
  /\ q.op = "routed" =>
       \A d \in Departments : q.to = d => Served(d, q.channel, q.hint)

SerialRoutes ==
  /\ \A r \in Requests : RouteFits(routingRequest[r])
  /\ Routes!AuditIsCurrent
  /\ ~Reorganised => Routes!FallbackIsSet

\* What a turn of the only request keeps.
RouteTurn ==
  SerialRoutes' /\ Routes!StaffedIsKept

LEMMA RouteFitsIdle == RouteFits(Routes!Idle) /\ RouteFits(Routes!Idle)'
  BY DEF RouteFits, Routes!Idle

\* Rows stay, and the only request becomes one that fits them.
LEMMA RowsKeepRoutes ==
  ASSUME Routes!RoutingAssumption, Routes!OneSlot, RouteInv, SerialRoutes, UNCHANGED Routes!config,
         NEW r \in Requests, NEW q, RouteFits(q), RouteFits(q)',
         routingRequest' = [routingRequest EXCEPT ![r] = q]
  PROVE  RouteTurn
  <1>1. \A s \in Requests : routingRequest'[s] = q
    BY DEF Routes!OneSlot, RouteInv
  <1>2. Routes!StaffedIsKept
    BY DEF Routes!StaffedIsKept, Routes!config, RouteInv, NamedExist, Routes!RoutingAssumption
  <1> QED
    BY <1>1, <1>2 DEF RouteTurn, SerialRoutes, Routes!config, Routes!AuditIsCurrent,
       Routes!FallbackIsSet, Routes!Settings

LEMMA RouteFitsStays ==
  ASSUME NEW q, RouteFits(q), UNCHANGED Routes!config
  PROVE  RouteFits(q)'
  BY DEF RouteFits, Routes!config, Served, Routes!ActiveDepartments

\* The configuration decides: by the definition of a route.
LEMMA ConfigurationRoutes == Routes!ConfigurationDecides
  <1> SUFFICES ASSUME NEW key \in Keys \cup {None}, NEW channel \in Channels,
                      Routes!Settings.enforce \/ Routes!MappedTo(key, channel) # {},
                      NEW hint \in Departments \cup {None}
               PROVE  Routes!Route(dept, key, channel, hint)
                        = Routes!Route(dept, key, channel, None)
    BY DEF Routes!ConfigurationDecides
  <1>1. CASE Routes!MappedTo(key, channel) # {}
    BY <1>1 DEF Routes!Route
  <1>2. CASE Routes!MappedTo(key, channel) = {} /\ Routes!Settings.enforce
    BY <1>2 DEF Routes!Route
  <1> QED
    BY <1>1, <1>2

\* A route over the departments as they are leads to one that serves it.
LEMMA RoutesServe ==
  ASSUME Routes!RoutingAssumption, RouteTypes,
         NEW key \in Keys \cup {None}, NEW channel \in Channels,
         NEW hint \in Departments \cup {None}, NEW d \in Departments,
         Routes!Route(dept, key, channel, hint) = d
  PROVE  Served(d, channel, hint)
  <1>1. ASSUME NEW e, Routes!Validated(dept, e, channel) = d
        PROVE  Served(d, channel, hint)
    BY <1>1 DEF Routes!Validated, Routes!RoutingAssumption, Served, Routes!ActiveDepartments
  <1>2. ASSUME Routes!Legacy(dept, channel, hint) = d PROVE Served(d, channel, hint)
    <2> DEFINE having == {e \in Routes!ActiveDepartments : channel \in dept[e].channels}
    <2>1. CASE hint \in Routes!ActiveDepartments
      BY <1>2, <2>1 DEF Routes!Legacy, Routes!ActiveDepartments, Served
    <2>2. CASE hint \notin Routes!ActiveDepartments /\ Routes!Cardinality(having) = 1
      <3>1. Cardinality(having) = 1
        BY <2>2, RouteCount
      <3>2. having # {}
        <4>1. Cardinality({}) = 0
          BY FS_EmptySet
        <4> HIDE DEF having
        <4> QED
          BY <3>1, <4>1
      <3>3. d = CHOOSE e \in having : TRUE
        BY <1>2, <2>2 DEF Routes!Legacy, Routes!ActiveDepartments
      <3> QED
        BY <3>2, <3>3 DEF Served
    <2>3. CASE hint \notin Routes!ActiveDepartments /\ Routes!Cardinality(having) # 1
      BY <1>2, <2>3 DEF Routes!Legacy, Routes!ActiveDepartments, Routes!RoutingAssumption
    <2> QED
      BY <2>1, <2>2, <2>3
  <1>3. CASE Routes!MappedTo(key, channel) # {}
    BY <1>1, <1>3 DEF Routes!Route
  <1>4. CASE Routes!MappedTo(key, channel) = {} /\ ~Routes!Settings.enforce
    BY <1>2, <1>4 DEF Routes!Route
  <1>5. CASE Routes!MappedTo(key, channel) = {} /\ Routes!Settings.enforce
    <2>1. Routes!Settings.mode \in Routes!Modes
      BY DEF Routes!Settings, RouteTypes, Routes!Setting, Routes!Modes
    <2>2. d # None /\ d # "rejected"
      BY DEF Routes!RoutingAssumption
    <2>3. Routes!Validated(dept, Routes!Settings.fallback, channel) = d
      BY <1>5, <2>1, <2>2 DEF Routes!Route, Routes!Modes
    <2> QED
      BY <1>1, <2>3
  <1> QED
    BY <1>3, <1>4, <1>5

LEMMA RouteBeginsAlone ==
  ASSUME Routes!RoutingAssumption, Routes!OneSlot, RouteInv, SerialRoutes, NEW r \in Requests
  PROVE  /\ \A d \in Departments, row \in Routes!Department :
              Routes!BeginCreateDepartment(r, d, row) \/ Routes!BeginUpdateDepartment(r, d, row)
                => RouteTurn
         /\ \A d \in Departments : Routes!BeginDeleteDepartment(r, d) => RouteTurn
         /\ \A u \in Users, d \in Departments \cup {None} : Routes!BeginMove(r, u, d) => RouteTurn
         /\ \A m \in Mappings, row \in Routes!Mapping :
              Routes!BeginCreateMapping(r, m, row) \/ Routes!BeginUpdateMapping(r, m, row)
                => RouteTurn
         /\ \A m \in Mappings : Routes!BeginDeleteMapping(r, m) => RouteTurn
         /\ \A enforce \in BOOLEAN, mode \in Routes!Modes, d \in Departments \cup {None} :
              Routes!BeginSettings(r, enforce, mode, d) => RouteTurn
         /\ Routes!BeginUpload(r) => RouteTurn
  <1>1. ASSUME NEW q, RouteFits(q), Routes!Begin(r, q) PROVE RouteTurn
    <2>1. UNCHANGED Routes!config /\ routingRequest' = [routingRequest EXCEPT ![r] = q]
      BY <1>1 DEF Routes!Begin
    <2>2. RouteFits(q)'
      BY <1>1, <2>1, RouteFitsStays
    <2> QED
      BY <1>1, <2>1, <2>2, RowsKeepRoutes
  <1>2. ASSUME NEW d \in Departments, NEW row \in Routes!Department,
               Routes!BeginCreateDepartment(r, d, row) \/ Routes!BeginUpdateDepartment(r, d, row)
        PROVE  RouteTurn
    <2>1. /\ RouteFits([op |-> "department", id |-> d, loaded |-> NoRow, new |-> row])
          /\ RouteFits([op |-> "department", id |-> d, loaded |-> dept[d], new |-> row])
      BY DEF RouteFits
    <2> QED
      BY <1>1, <1>2, <2>1 DEF Routes!BeginCreateDepartment, Routes!BeginUpdateDepartment
  <1>3. ASSUME NEW d \in Departments, Routes!BeginDeleteDepartment(r, d) PROVE RouteTurn
    <2>1. RouteFits([op |-> "dissolve", id |-> d])
      BY <1>3 DEF RouteFits, Routes!BeginDeleteDepartment
    <2> QED
      BY <1>1, <1>3, <2>1 DEF Routes!BeginDeleteDepartment
  <1>4. ASSUME NEW u \in Users, NEW d \in Departments \cup {None}, Routes!BeginMove(r, u, d)
        PROVE  RouteTurn
    <2>1. RouteFits([op |-> "move", id |-> u, to |-> d])
      BY DEF RouteFits
    <2> QED
      BY <1>1, <1>4, <2>1 DEF Routes!BeginMove
  <1>5. ASSUME NEW m \in Mappings, NEW row \in Routes!Mapping,
               Routes!BeginCreateMapping(r, m, row) \/ Routes!BeginUpdateMapping(r, m, row)
        PROVE  RouteTurn
    <2>1. /\ mapping[m] = NoRow =>
                RouteFits([op |-> "mapping", id |-> m, loaded |-> NoRow, new |-> row])
          /\ RouteFits([op |-> "mapping", id |-> m, loaded |-> mapping[m], new |-> row])
      BY DEF RouteFits
    <2> QED
      BY <1>1, <1>5, <2>1 DEF Routes!BeginCreateMapping, Routes!BeginUpdateMapping
  <1>6. ASSUME NEW m \in Mappings, Routes!BeginDeleteMapping(r, m) PROVE RouteTurn
    <2>1. RouteFits([op |-> "unmap", id |-> m])
      BY DEF RouteFits
    <2> QED
      BY <1>1, <1>6, <2>1 DEF Routes!BeginDeleteMapping
  <1>7. ASSUME NEW enforce \in BOOLEAN, NEW mode \in Routes!Modes,
               NEW d \in Departments \cup {None}, Routes!BeginSettings(r, enforce, mode, d)
        PROVE  RouteTurn
    <2> DEFINE fallback == IF mode = "FALLBACK_DEPARTMENT" THEN d ELSE None
    <2>1. mode = "FALLBACK_DEPARTMENT" <=> fallback # None
      BY <1>7 DEF Routes!BeginSettings, Routes!ActiveDepartments, Routes!RoutingAssumption
    <2> HIDE DEF fallback
    <2>2. RouteFits([op |-> "settings", loaded |-> setting,
                     new |-> [enforce |-> enforce, mode |-> mode, fallback |-> fallback]])
      BY <2>1 DEF RouteFits
    <2> QED
      BY <1>1, <1>7, <2>2 DEF Routes!BeginSettings, fallback
  <1>8. ASSUME Routes!BeginUpload(r) PROVE RouteTurn
    <2>1. RouteFits([op |-> "upload", known |-> dept])
      BY DEF RouteFits
    <2> QED
      BY <1>1, <1>8, <2>1 DEF Routes!BeginUpload
  <1> QED
    BY <1>2, <1>3, <1>4, <1>5, <1>6, <1>7, <1>8
\* With the request gone, what a commit owes are the tables.
LEMMA RouteCommitsAlone ==
  ASSUME Routes!OneSlot, RouteInv, NEW r \in Requests, Routes!End(r),
         Routes!AuditIsCurrent', ~Reorganised => Routes!FallbackIsSet', Routes!StaffedIsKept
  PROVE  RouteTurn
  <1>1. \A s \in Requests : routingRequest'[s] = Routes!Idle
    BY DEF Routes!OneSlot, RouteInv, Routes!End
  <1>2. \A s \in Requests : RouteFits(routingRequest[s])'
    BY <1>1, RouteFitsIdle
  <1> QED
    BY <1>2 DEF RouteTurn, SerialRoutes

\* Nothing that is named goes: so users' departments stay with the users.
LEMMA StaffStays ==
  ASSUME Routes!RoutingAssumption, RouteInv, NEW r \in Requests, RouteStep(r),
         UNCHANGED member \/ UNCHANGED dept
  PROVE  Routes!StaffedIsKept
  BY DEF Routes!RoutingAssumption, RouteInv, RouteStep, NamedExist, Routes!StaffedIsKept

LEMMA DepartmentCommitsAlone ==
  ASSUME Routes!RoutingAssumption, Routes!OneSlot, RouteInv, SerialRoutes, NEW r \in Requests,
         RouteStep(r),
         \/ Routes!CommitDepartment(r) \/ Routes!CommitDeleteDepartment(r)
         \/ Routes!CommitMove(r)
  PROVE  RouteTurn
  <1> DEFINE q == routingRequest[r]
  <1>1. RouteFits(q) /\ Routes!End(r) /\ UNCHANGED <<mapping, audit>>
    BY DEF SerialRoutes, Routes!CommitDepartment, Routes!CommitDeleteDepartment,
       Routes!CommitMove, Routes!config
  <1>2. Routes!AuditIsCurrent'
    BY <1>1 DEF SerialRoutes, Routes!AuditIsCurrent
  <1>3. ASSUME UNCHANGED setting, Routes!StaffedIsKept PROVE RouteTurn
    BY <1>1, <1>2, <1>3, RouteCommitsAlone DEF SerialRoutes, Routes!FallbackIsSet, Routes!Settings
  <1>4. CASE Routes!CommitDepartment(r) \/ Routes!CommitMove(r)
    BY <1>3, <1>4, StaffStays DEF Routes!CommitDepartment, Routes!CommitMove
  <1>5. CASE Routes!CommitDeleteDepartment(r)
    <2>1. Reorganised /\ \A u \in Users : member[u] # q.id
      BY <1>1, <1>5 DEF RouteFits, Routes!CommitDeleteDepartment
    <2>2. dept' = dept \/ dept' = [dept EXCEPT ![q.id] = NoRow]
      BY <1>5 DEF Routes!CommitDeleteDepartment, Routes!config
    <2>3. Routes!StaffedIsKept
      BY <2>1, <2>2 DEF Routes!StaffedIsKept, RouteInv, RouteTypes, NamedExist,
         Routes!RoutingAssumption
    <2> QED
      BY <1>1, <1>2, <2>1, <2>3, RouteCommitsAlone
  <1> QED
    BY <1>4, <1>5

LEMMA MappingCommitsAlone ==
  ASSUME Routes!RoutingAssumption, Routes!OneSlot, RouteInv, SerialRoutes, NEW r \in Requests,
         RouteStep(r), Routes!CommitMapping(r) \/ Routes!CommitDeleteMapping(r)
  PROVE  RouteTurn
  <1> DEFINE q == routingRequest[r]
  <1>1. RouteFits(q) /\ RouteOpen(q) /\ Routes!End(r) /\ UNCHANGED <<dept, setting, member>>
    BY DEF SerialRoutes, RouteInv, Routes!CommitMapping, Routes!CommitDeleteMapping
  <1>2. ASSUME Routes!AuditIsCurrent' PROVE RouteTurn
    BY <1>1, <1>2, RouteCommitsAlone, StaffStays
    DEF SerialRoutes, Routes!FallbackIsSet, Routes!Settings
  <1>3. ASSUME NEW m \in Mappings, NEW row, mapping' = [mapping EXCEPT ![m] = row],
               audit' = [audit EXCEPT ![m] = row]
        PROVE  RouteTurn
    <2>1. Routes!AuditIsCurrent'
      BY <1>3 DEF SerialRoutes, RouteInv, RouteTypes, Routes!AuditIsCurrent
    <2> QED
      BY <1>2, <2>1
  <1>4. CASE UNCHANGED <<mapping, audit>>
    BY <1>2, <1>4 DEF SerialRoutes, Routes!AuditIsCurrent
  <1>5. CASE Routes!CommitDeleteMapping(r)
    <2>1. /\ q.id \in Mappings /\ mapping' = [mapping EXCEPT ![q.id] = NoRow]
          /\ audit' = [audit EXCEPT ![q.id] = NoRow]
      BY <1>1, <1>5 DEF RouteOpen, Routes!CommitDeleteMapping
    <2> QED
      BY <1>3, <2>1
  <1>6. CASE Routes!CommitMapping(r) /\ ~UNCHANGED <<mapping, audit>>
    <2>1. /\ q.id \in Mappings /\ q.new \in Routes!Mapping /\ q.loaded = mapping[q.id]
          /\ mapping[q.id] \in Routes!Mapping \cup {NoRow}
      BY <1>1, <1>6 DEF RouteOpen, RouteFits, RouteInv, RouteTypes, Routes!CommitMapping
    <2> DEFINE row == IF q.loaded = NoRow \/ mapping[q.id] = NoRow THEN q.new
                      ELSE Routes!Written(q.loaded, q.new, mapping[q.id])
    <2>2. row = q.new
      BY <2>1, WrittenAlone
    <2>3. /\ mapping' = [mapping EXCEPT ![q.id] = row]
          /\ audit' = [audit EXCEPT ![q.id] = q.new]
      BY <1>6 DEF Routes!CommitMapping
    <2> HIDE DEF row
    <2> QED
      BY <1>3, <2>1, <2>2, <2>3
  <1> QED
    BY <1>4, <1>5, <1>6

LEMMA SettingsCommitsAlone ==
  ASSUME Routes!RoutingAssumption, Routes!OneSlot, RouteInv, SerialRoutes, NEW r \in Requests,
         RouteStep(r), Routes!CommitSettings(r)
  PROVE  RouteTurn
  <1> DEFINE q == routingRequest[r]
  <1>1. /\ q.op = "settings" /\ RouteFits(q) /\ RouteOpen(q) /\ Routes!End(r)
        /\ UNCHANGED <<dept, mapping, member, audit>>
    BY DEF SerialRoutes, RouteInv, Routes!CommitSettings
  <1>2. /\ q.loaded = setting /\ q.new \in Routes!Setting
        /\ q.new.mode = "FALLBACK_DEPARTMENT" <=> q.new.fallback # None
        /\ setting \in Routes!Setting \cup {NoRow}
    BY <1>1 DEF RouteFits, RouteOpen, RouteInv, RouteTypes
  <1>3. NoRow \notin Routes!Setting
    BY DEF Routes!RoutingAssumption
  <1>4. setting' = setting \/ setting' = q.new
    <2>1. CASE setting = NoRow
      BY <1>2, <2>1 DEF Routes!CommitSettings
    <2>2. CASE setting # NoRow
      <3>1. Routes!Written(q.loaded, q.new, setting) = q.new
        BY <1>2, <2>2, WrittenSetting
      <3> QED
        BY <1>2, <2>2, <3>1 DEF Routes!CommitSettings
    <2> QED
      BY <2>1, <2>2
  <1>5. ~Reorganised => Routes!FallbackIsSet'
    BY <1>2, <1>3, <1>4 DEF SerialRoutes, Routes!FallbackIsSet, Routes!Settings
  <1> QED
    BY <1>1, <1>5, RouteCommitsAlone, StaffStays DEF SerialRoutes, Routes!AuditIsCurrent

LEMMA UploadsAlone ==
  ASSUME Routes!RoutingAssumption, Routes!OneSlot, RouteInv, SerialRoutes, NEW r \in Requests
  PROVE  /\ \A key \in Keys \cup {None}, channel \in Channels,
               hint \in Departments \cup {None} : Routes!Resolve(r, key, channel, hint) => RouteTurn
         /\ Routes!EndUpload(r) => RouteTurn
  <1>1. ASSUME NEW key \in Keys \cup {None}, NEW channel \in Channels,
               NEW hint \in Departments \cup {None}, Routes!Resolve(r, key, channel, hint)
        PROVE  RouteTurn
    <2> DEFINE to == Routes!Route(dept, key, channel, hint)
               q == [op |-> "routed", channel |-> channel, hint |-> hint, to |-> to]
    <2>1. routingRequest[r].op = "upload" /\ RouteFits(routingRequest[r])
      BY <1>1 DEF Routes!Resolve, SerialRoutes
    <2>2. UNCHANGED Routes!config /\ routingRequest' = [routingRequest EXCEPT ![r] = q]
      BY <1>1, <2>1 DEF Routes!Resolve, RouteFits
    <2>3. \A d \in Departments : to = d => Served(d, channel, hint)
      BY RoutesServe DEF RouteInv
    <2> HIDE DEF to
    <2>4. RouteFits(q)
      BY <2>3 DEF RouteFits
    <2>5. PICK p : p = q
      OBVIOUS
    <2>6. RouteFits(p)'
      BY <2>2, <2>4, <2>5, RouteFitsStays
    <2> QED
      BY <2>2, <2>4, <2>5, <2>6, RowsKeepRoutes
  <1>2. ASSUME Routes!EndUpload(r) PROVE RouteTurn
    BY <1>2, RouteFitsIdle, RowsKeepRoutes DEF Routes!EndUpload, Routes!End
  <1> QED
    BY <1>1, <1>2
LEMMA RouteTurns ==
  ASSUME Routes!RoutingAssumption, Routes!OneSlot, RouteInv, SerialRoutes, Routes!Next
  PROVE  RouteTurn
  <1>1. ASSUME NEW r \in Requests, Routes!DepartmentRequest(r) PROVE RouteTurn
    BY <1>1, RouteBeginsAlone, DepartmentCommits, MoveCommits, DepartmentCommitsAlone
    DEF Routes!DepartmentRequest
  <1>2. ASSUME NEW r \in Requests, Routes!MappingRequest(r) PROVE RouteTurn
    BY <1>2, RouteBeginsAlone, MappingCommits, MappingDeletes, MappingCommitsAlone
    DEF Routes!MappingRequest
  <1>3. ASSUME NEW r \in Requests, Routes!SettingsRequest(r) PROVE RouteTurn
    BY <1>3, RouteBeginsAlone, SettingsCommits, SettingsCommitsAlone DEF Routes!SettingsRequest
  <1>4. ASSUME NEW r \in Requests, Routes!UploadRequest(r) PROVE RouteTurn
    BY <1>4, RouteBeginsAlone, UploadsAlone DEF Routes!UploadRequest
  <1> QED
    BY <1>1, <1>2, <1>3, <1>4 DEF Routes!Next

LEMMA SerialRoutesInvariance ==
  ASSUME Routes!RoutingAssumption, Routes!OneSlot
  PROVE  Routes!Spec => [](RouteInv /\ SerialRoutes)
  <1>1. Routes!Init => SerialRoutes
    BY RouteFitsIdle
    DEF Routes!Init, SerialRoutes, Routes!AuditIsCurrent, Routes!FallbackIsSet, Routes!Settings
  <1>2. RouteInv /\ SerialRoutes /\ [Routes!Next]_(Routes!vars) => SerialRoutes'
    <2> SUFFICES ASSUME RouteInv, SerialRoutes, [Routes!Next]_(Routes!vars) PROVE SerialRoutes'
      OBVIOUS
    <2>1. CASE Routes!Next
      BY <2>1, RouteTurns DEF RouteTurn
    <2>2. CASE UNCHANGED Routes!vars
      <3>1. UNCHANGED Routes!config /\ UNCHANGED routingRequest
        BY <2>2 DEF Routes!vars, Routes!config
      <3>2. \A r \in Requests : RouteFits(routingRequest[r])'
        BY <3>1 DEF SerialRoutes, RouteFits, Routes!config, Served, Routes!ActiveDepartments
      <3> QED
        BY <3>1, <3>2 DEF SerialRoutes, Routes!config, Routes!AuditIsCurrent,
           Routes!FallbackIsSet, Routes!Settings
    <2> QED
      BY <2>1, <2>2
  <1> QED
    BY <1>1, <1>2, RouteInvariance, PTL DEF Routes!Spec

\* One request at a time, an upload's route leads to an active department, one with
\* its channel unless it named another, and where the configuration speaks it
\* decides; the newest audit entry of a mapping shows the mapping as it is.
THEOREM RoutesLeadToWork ==
  ASSUME Routes!RoutingAssumption, Routes!OneSlot
  PROVE  Routes!Spec => [](/\ Routes!RoutedIsActive
                           /\ Routes!ConfigurationDecides
                           /\ Routes!AuditIsCurrent)
  <1>1. SerialRoutes => Routes!RoutedIsActive
    BY DEF SerialRoutes, RouteFits, Served, Routes!RoutedIsActive
  <1>2. SerialRoutes => Routes!AuditIsCurrent
    BY DEF SerialRoutes
  <1>3. Routes!ConfigurationDecides
    BY ConfigurationRoutes
  <1> QED
    BY <1>1, <1>2, <1>3, SerialRoutesInvariance, PTL

\* One request at a time, while departments are neither deactivated nor deleted,
\* the fallback department is set exactly in the mode that needs it.
THEOREM FallbacksAreSet ==
  ASSUME Routes!RoutingAssumption, Routes!OneSlot, ~Reorganised
  PROVE  Routes!Spec => []Routes!FallbackIsSet
  <1>1. SerialRoutes => Routes!FallbackIsSet
    BY DEF SerialRoutes
  <1> QED
    BY <1>1, SerialRoutesInvariance, PTL

\* One request at a time, a department with users is not deleted.
THEOREM StaffedDepartmentsStay ==
  ASSUME Routes!RoutingAssumption, Routes!OneSlot
  PROVE  Routes!Spec => [][Routes!StaffedIsKept]_(Routes!vars)
  <1>1. RouteInv /\ SerialRoutes /\ [Routes!Next]_(Routes!vars)
          => [Routes!StaffedIsKept]_(Routes!vars)
    BY RouteTurns DEF RouteTurn
  <1> QED
    BY <1>1, SerialRoutesInvariance, PTL DEF Routes!Spec

\* What the code promises of the routing configuration: mappings are unambiguous
\* however requests overlap; one at a time, the audit trail is current and a
\* department with users stays.
THEOREM MappingsAlwaysHold ==
  ASSUME Routes!RoutingAssumption
  PROVE  Routes!Spec => /\ []Routes!MappingsHold
                        /\ [][Routes!OneSlot => Routes!StaffedIsKept]_(Routes!vars)
  <1>1. CASE Routes!OneSlot
    <2>1. Routes!TypeOK /\ Routes!MappingsAreUnambiguous /\ Routes!AuditIsCurrent
            => Routes!MappingsHold
      BY DEF Routes!MappingsHold
    <2>2. Routes!Spec => /\ [](/\ Routes!RoutedIsActive
                               /\ Routes!ConfigurationDecides
                               /\ Routes!AuditIsCurrent)
                         /\ [][Routes!StaffedIsKept]_(Routes!vars)
      BY <1>1, RoutesLeadToWork, StaffedDepartmentsStay
    <2>3. Routes!StaffedIsKept => (Routes!OneSlot => Routes!StaffedIsKept)
      OBVIOUS
    <2> QED
      BY <2>1, <2>2, <2>3, MappingsStayUnambiguous, PTL
  <1>2. CASE ~Routes!OneSlot
    <2>1. Routes!TypeOK /\ Routes!MappingsAreUnambiguous => Routes!MappingsHold
      BY <1>2 DEF Routes!MappingsHold
    <2>2. Routes!OneSlot => Routes!StaffedIsKept
      BY <1>2
    <2> QED
      BY <2>1, <2>2, MappingsStayUnambiguous, PTL
  <1> QED
    BY <1>1, <1>2

\* What it promises of routes, one request at a time: the configuration decides,
\* the route leads to an active department, and the fallback is set exactly in its
\* mode while departments stay.
THEOREM RoutesAlwaysHold ==
  ASSUME Routes!RoutingAssumption
  PROVE  Routes!Spec => []Routes!RoutesHold
  <1>1. CASE ~Routes!OneSlot
    <2>1. Routes!RoutesHold
      BY <1>1 DEF Routes!RoutesHold
    <2> QED
      BY <2>1, PTL
  <1>2. CASE Routes!OneSlot /\ Reorganised
    <2>1. Routes!RoutedIsActive /\ Routes!ConfigurationDecides /\ Routes!AuditIsCurrent
            => Routes!RoutesHold
      BY <1>2 DEF Routes!RoutesHold
    <2>2. Routes!Spec => [](/\ Routes!RoutedIsActive
                            /\ Routes!ConfigurationDecides
                            /\ Routes!AuditIsCurrent)
      BY <1>2, RoutesLeadToWork
    <2> QED
      BY <2>1, <2>2, PTL
  <1>3. CASE Routes!OneSlot /\ ~Reorganised
    <2>1. /\ Routes!RoutedIsActive /\ Routes!ConfigurationDecides /\ Routes!AuditIsCurrent
          /\ Routes!FallbackIsSet
          => Routes!RoutesHold
      BY DEF Routes!RoutesHold
    <2>2. Routes!Spec => /\ [](/\ Routes!RoutedIsActive
                               /\ Routes!ConfigurationDecides
                               /\ Routes!AuditIsCurrent)
                         /\ []Routes!FallbackIsSet
      BY <1>3, RoutesLeadToWork, FallbacksAreSet
    <2> QED
      BY <2>1, <2>2, PTL
  <1> QED
    BY <1>1, <1>2, <1>3

-----------------------------------------------------------------------------
(* Settings: the rows and the requests *)

LEMMA SettingsCount == ASSUME NEW S PROVE Settings!Cardinality(S) = Cardinality(S)
  BY DEF Settings!Cardinality, Cardinality

LEMMA WrittenRule ==
  ASSUME NEW loaded \in Settings!Rule, NEW new \in Settings!Rule, NEW current \in Settings!Rule
  PROVE  /\ Settings!Written(loaded, new, current) \in Settings!Rule
         /\ loaded = current => Settings!Written(loaded, new, current) = new
  <1> DEFINE w == Settings!Written(loaded, new, current)
             Pick(c) == IF new[c] = loaded[c] THEN current[c] ELSE new[c]
  <1>1. w = [c \in {"start", "end"} |-> Pick(c)]
    BY DEF Settings!Written, Settings!Rule
  <1>2. w = [start |-> Pick("start"), end |-> Pick("end")]
    BY <1>1
  <1>3. new = [start |-> new.start, end |-> new.end]
    BY DEF Settings!Rule
  <1> HIDE DEF w
  <1> QED
    BY <1>2, <1>3 DEF Settings!Rule, w

LEMMA WrittenConfig ==
  ASSUME NEW loaded \in Settings!Config, NEW new \in Settings!Config,
         NEW current \in Settings!Config
  PROVE  /\ Settings!Written(loaded, new, current) \in Settings!Config
         /\ new.key /\ current.key => Settings!Written(loaded, new, current).key
         /\ loaded = current => Settings!Written(loaded, new, current) = new
  <1> DEFINE w == Settings!Written(loaded, new, current)
             Pick(c) == IF new[c] = loaded[c] THEN current[c] ELSE new[c]
  <1>1. w = [c \in {"provider", "endpoint", "key"} |-> Pick(c)]
    BY DEF Settings!Written, Settings!Config
  <1>2. w = [provider |-> Pick("provider"), endpoint |-> Pick("endpoint"), key |-> Pick("key")]
    BY <1>1
  <1>3. new = [provider |-> new.provider, endpoint |-> new.endpoint, key |-> new.key]
    BY DEF Settings!Config
  <1> HIDE DEF w
  <1>4. w \in Settings!Config /\ w.key = Pick("key")
    BY <1>2 DEF Settings!Config
  <1>5. loaded = current => w = new
    BY <1>2, <1>3
  <1>6. new.key /\ current.key => Pick("key")
    OBVIOUS
  <1> QED
    BY <1>4, <1>5, <1>6 DEF w

LEMMA PatchedRule ==
  ASSUME NEW row \in Settings!Rule, NEW patch \in Settings!RulePatches
  PROVE  Settings!Patched(row, patch) \in Settings!Rule
  <1> DEFINE new == Settings!Patched(row, patch)
             Pick(c) == IF c \in DOMAIN patch THEN patch[c] ELSE row[c]
  <1>1. new = [c \in {"start", "end"} |-> Pick(c)]
    BY DEF Settings!Patched, Settings!Rule
  <1>2. new = [start |-> Pick("start"), end |-> Pick("end")]
    BY <1>1
  <1>3. PICK columns \in SUBSET {"start", "end"} : patch \in [columns -> Points]
    BY DEF Settings!RulePatches
  <1>4. Pick("start") \in Points /\ Pick("end") \in Points
    BY <1>3 DEF Settings!Rule
  <1> HIDE DEF new, Pick
  <1> QED
    BY <1>2, <1>4 DEF Settings!Rule, new

LEMMA DefaultIsOrdered ==
  ASSUME Settings!SettingsAssumption
  PROVE  Settings!DefaultRule \in Settings!Rule /\ Settings!Ordered(Settings!DefaultRule)
  BY DEF Settings!SettingsAssumption, Settings!DefaultRule, Settings!Rule, Settings!Ordered

\* A request that may be under way.  No row goes away, and what is to be written
\* for the language model has a key.
BlindRequests == [op : {"insert", "fill", "blind"}, loaded : Settings!Buckets \cup {NoRow},
                  buckets : {"none", "custom", NoRow}]

SettingsOpen(q) ==
  /\ q.op \in {"idle", "create", "rule", "insert", "fill", "blind", "llm"}
  /\ q.op \in {"create", "rule"} => q.patch \in Settings!RulePatches
  /\ q.op = "rule" => q.row \in Settings!RuleRows /\ q.loaded \in Settings!Rule
  /\ q.op \in {"insert", "fill", "blind"} =>
       q \in BlindRequests
  /\ q.op = "llm" => /\ q.loaded \in Settings!Config \cup {NoRow}
                     /\ q.loaded # NoRow => llm # NoRow
                     /\ q.new \in Settings!Config /\ q.new.key

SettingsTypes ==
  /\ rule \in [Rules -> Settings!Rule \cup {NoRow}]
  /\ blind \in Settings!Buckets \cup {NoRow}
  /\ llm \in Settings!Config \cup {NoRow}

SettingsInv ==
  /\ SettingsTypes
  /\ settingsRequest = [r \in Requests |-> settingsRequest[r]]
  /\ \A r \in Requests : SettingsOpen(settingsRequest[r])
  /\ Settings!ConfigHasKey

\* What every step does.
SettingsStep(r) ==
  /\ SettingsTypes' /\ Settings!ConfigHasKey'
  /\ Settings!RuleRows \subseteq Settings!RuleRows'
  /\ llm # NoRow => llm' # NoRow
  /\ \E q : /\ SettingsOpen(q)'
            /\ settingsRequest' = [settingsRequest EXCEPT ![r] = q]

LEMMA SettingsIdle == SettingsOpen(Settings!Idle) /\ SettingsOpen(Settings!Idle)'
  BY DEF SettingsOpen, Settings!Idle

LEMMA SettingsStay ==
  ASSUME SettingsInv, UNCHANGED <<rule, blind, llm>>
  PROVE  /\ SettingsTypes' /\ Settings!ConfigHasKey'
         /\ Settings!RuleRows' = Settings!RuleRows
  BY DEF SettingsInv, SettingsTypes, Settings!ConfigHasKey, Settings!RuleRows

LEMMA SettingsBegin ==
  ASSUME Settings!SettingsAssumption, SettingsInv, NEW r \in Requests, NEW q,
         SettingsOpen(q), Settings!Begin(r, q)
  PROVE  SettingsStep(r)
  <1>1. UNCHANGED <<rule, blind, llm>>
    BY DEF Settings!Begin
  <1>2. SettingsOpen(q)'
    BY <1>1, SettingsStay DEF SettingsOpen
  <1> QED
    BY <1>1, <1>2, SettingsStay DEF SettingsStep, Settings!Begin

LEMMA RuleSteps ==
  ASSUME Settings!SettingsAssumption, SettingsInv, NEW r \in Requests, Settings!RuleRequest(r)
  PROVE  SettingsStep(r)
  <1> DEFINE q == settingsRequest[r]
  <1>0. SettingsOpen(q) /\ NoRow \notin Settings!Rule
    BY DEF SettingsInv, Settings!SettingsAssumption
  <1>1. ASSUME NEW patch \in Settings!RulePatches, Settings!GetRule(r, patch)
        PROVE  SettingsStep(r)
    <2>1. SettingsOpen([op |-> "create", patch |-> patch])
      BY DEF SettingsOpen
    <2>2. \A i \in Settings!RuleRows :
            SettingsOpen([op |-> "rule", row |-> i, loaded |-> rule[i], patch |-> patch])
      BY DEF SettingsOpen, SettingsInv, SettingsTypes, Settings!RuleRows
    <2> QED
      BY <1>1, <2>1, <2>2, SettingsBegin DEF Settings!GetRule
  <1>2. ASSUME Settings!CreateRule(r) PROVE SettingsStep(r)
    <2>0. PICK patch : patch = q.patch
      OBVIOUS
    <2>1. PICK i \in Rules \ Settings!RuleRows :
            /\ rule' = [rule EXCEPT ![i] = Settings!DefaultRule]
            /\ settingsRequest' = [settingsRequest EXCEPT ![r] =
                 [op |-> "rule", row |-> i, loaded |-> Settings!DefaultRule, patch |-> patch]]
      BY <1>2, <2>0 DEF Settings!CreateRule, Settings!Continue
    <2>2. patch \in Settings!RulePatches /\ UNCHANGED <<blind, llm>>
      BY <1>0, <1>2, <2>0 DEF Settings!CreateRule, SettingsOpen
    <2> HIDE DEF q
    <2>3. /\ rule' \in [Rules -> Settings!Rule \cup {NoRow}]
          /\ Settings!RuleRows \subseteq Settings!RuleRows' /\ i \in Settings!RuleRows'
      BY <1>0, <2>1, DefaultIsOrdered DEF SettingsInv, SettingsTypes, Settings!RuleRows
    <2>4. SettingsOpen([op |-> "rule", row |-> i, loaded |-> Settings!DefaultRule,
                        patch |-> patch])'
      BY <2>2, <2>3, DefaultIsOrdered DEF SettingsOpen
    <2>5. SettingsTypes' /\ Settings!ConfigHasKey' /\ llm' = llm
      BY <2>2, <2>3 DEF SettingsInv, SettingsTypes, Settings!ConfigHasKey
    <2> QED
      BY <2>1, <2>3, <2>4, <2>5 DEF SettingsStep
  <1>3. ASSUME Settings!PatchRule(r) PROVE SettingsStep(r)
    <2> DEFINE new == Settings!Patched(q.loaded, q.patch)
               row == Settings!Written(q.loaded, new, rule[q.row])
    <2>1. /\ q.row \in Settings!RuleRows /\ q.row \in Rules /\ rule[q.row] \in Settings!Rule
          /\ q.loaded \in Settings!Rule /\ q.patch \in Settings!RulePatches
      BY <1>0, <1>3 DEF Settings!PatchRule, SettingsOpen, SettingsInv, SettingsTypes,
                        Settings!RuleRows
    <2>2. /\ rule' = IF Settings!Ordered(new) THEN [rule EXCEPT ![q.row] = row] ELSE rule
          /\ settingsRequest' = [settingsRequest EXCEPT ![r] = Settings!Idle]
          /\ UNCHANGED <<blind, llm>>
      BY <1>3 DEF Settings!PatchRule, Settings!End
    <2> HIDE DEF q
    <2>3. new \in Settings!Rule
      BY <2>1, PatchedRule
    <2> HIDE DEF new
    <2>4. row \in Settings!Rule
      BY <2>1, <2>3, WrittenRule
    <2> HIDE DEF row
    <2>5. /\ rule' \in [Rules -> Settings!Rule \cup {NoRow}]
          /\ Settings!RuleRows \subseteq Settings!RuleRows'
      BY <1>0, <2>1, <2>2, <2>4 DEF SettingsInv, SettingsTypes, Settings!RuleRows
    <2> QED
      BY <2>2, <2>5, SettingsIdle
      DEF SettingsStep, SettingsInv, SettingsTypes, Settings!ConfigHasKey
  <1> QED
    BY <1>1, <1>2, <1>3 DEF Settings!RuleRequest

LEMMA BlindSteps ==
  ASSUME Settings!SettingsAssumption, SettingsInv, NEW r \in Requests, Settings!BlindRequest(r)
  PROVE  SettingsStep(r)
  <1> DEFINE q == settingsRequest[r]
  <1>0. SettingsOpen(q)
    BY DEF SettingsInv
  <1>1. ASSUME NEW buckets \in {"none", "custom", NoRow}, Settings!GetBlind(r, buckets)
        PROVE  SettingsStep(r)
    <2> DEFINE op == CASE blind = NoRow -> "insert" [] blind = "none" -> "fill"
                       [] OTHER -> "blind"
    <2>1. op \in {"insert", "fill", "blind"}
      BY DEF SettingsInv, SettingsTypes, Settings!SettingsAssumption, Settings!Buckets
    <2> HIDE DEF op
    <2>2. SettingsOpen([op |-> op, loaded |-> blind, buckets |-> buckets])
      BY <2>1 DEF SettingsOpen, BlindRequests, SettingsInv, SettingsTypes
    <2> QED
      BY <1>1, <2>2, SettingsBegin DEF Settings!GetBlind, op
  <1>2. UNCHANGED <<rule, llm>> => /\ Settings!ConfigHasKey'
                                   /\ Settings!RuleRows' = Settings!RuleRows
    BY DEF SettingsInv, Settings!ConfigHasKey, Settings!RuleRows
  <1>3. ASSUME Settings!FillBlind(r) PROVE SettingsStep(r)
    <2>1. q.op \in {"insert", "fill"} /\ UNCHANGED <<rule, llm>>
      BY <1>3 DEF Settings!FillBlind
    <2>2. CASE q.op = "insert" /\ blind # NoRow
      BY <1>2, <1>3, <2>1, <2>2, SettingsIdle
      DEF Settings!FillBlind, Settings!End, SettingsStep, SettingsInv, SettingsTypes
    <2>3. CASE ~(q.op = "insert" /\ blind # NoRow)
      <3> DEFINE next == [q EXCEPT !.op = "blind", !.loaded = "default"]
      <3>1. blind' = "default" /\ settingsRequest' = [settingsRequest EXCEPT ![r] = next]
        BY <1>3, <2>3 DEF Settings!FillBlind, Settings!Continue
      <3>2. q \in BlindRequests
        BY <1>0, <2>1 DEF SettingsOpen
      <3> HIDE DEF q
      <3>3. next \in BlindRequests /\ next.op = "blind"
        BY <3>2 DEF BlindRequests, Settings!Buckets
      <3> HIDE DEF next
      <3>4. PICK n : n = next
        OBVIOUS
      <3>5. SettingsOpen(n)'
        BY <3>3, <3>4 DEF SettingsOpen, BlindRequests
      <3>6. SettingsTypes' /\ llm' = llm
        BY <2>1, <3>1 DEF SettingsInv, SettingsTypes, Settings!Buckets
      <3> QED
        BY <1>2, <2>1, <3>1, <3>4, <3>5, <3>6 DEF SettingsStep
    <2> QED
      BY <2>2, <2>3
  <1>4. ASSUME Settings!PatchBlind(r) PROVE SettingsStep(r)
    <2>1. /\ blind' = IF q.buckets \in {NoRow, q.loaded} THEN blind ELSE q.buckets
          /\ settingsRequest' = [settingsRequest EXCEPT ![r] = Settings!Idle]
          /\ UNCHANGED <<rule, llm>>
      BY <1>4 DEF Settings!PatchBlind, Settings!End
    <2>3. q.buckets \in {"none", "custom", NoRow}
      <3>1. q.op = "blind"
        BY <1>4 DEF Settings!PatchBlind
      <3> HIDE DEF q
      <3> QED
        BY <1>0, <3>1 DEF SettingsOpen, BlindRequests
    <2> HIDE DEF q
    <2>2. blind' \in Settings!Buckets \cup {NoRow}
      BY <2>1, <2>3 DEF SettingsInv, SettingsTypes, Settings!Buckets
    <2> QED
      BY <1>2, <2>1, <2>2, SettingsIdle DEF SettingsStep, SettingsInv, SettingsTypes
  <1> QED
    BY <1>1, <1>3, <1>4 DEF Settings!BlindRequest

\* A first save needs a key, a later one keeps it.
LEMMA ConfigSteps ==
  ASSUME Settings!SettingsAssumption, SettingsInv, NEW r \in Requests,
         Settings!ConfigRequest(r)
  PROVE  SettingsStep(r)
  <1> DEFINE q == settingsRequest[r]
  <1>0. SettingsOpen(q) /\ NoRow \notin Settings!Config /\ llm \in Settings!Config \cup {NoRow}
    BY DEF SettingsInv, SettingsTypes, Settings!SettingsAssumption
  <1>1. ASSUME NEW provider \in Settings!Providers, NEW given \in Settings!Endpoints,
               NEW key \in BOOLEAN, Settings!SaveConfig(r, provider, given, key)
        PROVE  SettingsStep(r)
    <2> DEFINE endpoint == Settings!ValidEndpoint(provider, given)
               keyed == key \/ (llm # NoRow /\ llm.key)
    <2>1. endpoint # NoRow /\ (llm = NoRow => key)
      BY <1>1 DEF Settings!SaveConfig, Settings!MaySave
    <2>2. endpoint \in Settings!Endpoints
      BY <2>1 DEF Settings!ValidEndpoint, Settings!Endpoints
    <2>3. keyed = TRUE
      BY <2>1 DEF SettingsInv, Settings!ConfigHasKey
    <2>4. Settings!Begin(r, [op |-> "llm", loaded |-> llm,
                             new |-> [provider |-> provider, endpoint |-> endpoint,
                                      key |-> keyed]])
      BY <1>1 DEF Settings!SaveConfig
    <2> HIDE DEF endpoint, keyed
    <2>5. SettingsOpen([op |-> "llm", loaded |-> llm,
                        new |-> [provider |-> provider, endpoint |-> endpoint, key |-> keyed]])
      BY <1>0, <2>2, <2>3 DEF SettingsOpen, Settings!Config
    <2> QED
      BY <2>4, <2>5, SettingsBegin
  <1>2. ASSUME Settings!CommitConfig(r) PROVE SettingsStep(r)
    <2>1. /\ llm' = IF q.loaded # NoRow THEN Settings!Written(q.loaded, q.new, llm)
                    ELSE IF llm = NoRow THEN q.new ELSE llm
          /\ settingsRequest' = [settingsRequest EXCEPT ![r] = Settings!Idle]
          /\ UNCHANGED <<rule, blind>>
      BY <1>2 DEF Settings!CommitConfig, Settings!End
    <2>2. /\ q.loaded \in Settings!Config \cup {NoRow}
          /\ q.loaded # NoRow => llm # NoRow
          /\ q.new \in Settings!Config /\ q.new.key
      BY <1>0, <1>2 DEF Settings!CommitConfig, SettingsOpen
    <2> HIDE DEF q
    <2> DEFINE w == Settings!Written(q.loaded, q.new, llm)
    <2>3. llm # NoRow => llm \in Settings!Config /\ llm.key
      BY <1>0 DEF SettingsInv, Settings!ConfigHasKey
    <2>4. q.loaded # NoRow => w \in Settings!Config /\ w.key
      BY <2>2, <2>3, WrittenConfig
    <2> HIDE DEF w
    <2>5. llm' = IF q.loaded # NoRow THEN w ELSE IF llm = NoRow THEN q.new ELSE llm
      BY <2>1 DEF w
    <2>6. llm' \in Settings!Config /\ llm'.key
      BY <2>2, <2>3, <2>4, <2>5
    <2>7. SettingsTypes' /\ Settings!ConfigHasKey' /\ Settings!RuleRows' = Settings!RuleRows
      BY <2>1, <2>6 DEF SettingsInv, SettingsTypes, Settings!ConfigHasKey, Settings!RuleRows
    <2>8. llm' # NoRow
      BY <1>0, <2>6
    <2> QED
      BY <2>1, <2>7, <2>8, SettingsIdle DEF SettingsStep
  <1> QED
    BY <1>1, <1>2 DEF Settings!ConfigRequest

LEMMA SettingsSteps ==
  ASSUME Settings!SettingsAssumption, SettingsInv, Settings!Next
  PROVE  \E r \in Requests : SettingsStep(r)
  BY RuleSteps, BlindSteps, ConfigSteps DEF Settings!Next

LEMMA SettingsKept ==
  ASSUME Settings!SettingsAssumption, SettingsInv, [Settings!Next]_(Settings!vars)
  PROVE  SettingsInv'
  <1>1. CASE Settings!Next
    <2>1. PICK r \in Requests : SettingsStep(r)
      BY <1>1, SettingsSteps
    <2>2. PICK q : SettingsOpen(q)' /\ settingsRequest' = [settingsRequest EXCEPT ![r] = q]
      BY <2>1 DEF SettingsStep
    <2>3. \A s \in Requests : settingsRequest'[s] = IF s = r THEN q ELSE settingsRequest[s]
      BY <2>2 DEF SettingsInv
    <2>4. ASSUME NEW s \in Requests PROVE SettingsOpen(settingsRequest[s])'
      <3>1. CASE s = r
        BY <2>2, <2>3, <3>1 DEF SettingsOpen
      <3>2. CASE s # r
        <4>1. settingsRequest'[s] = settingsRequest[s]
          BY <2>3, <3>2
        <4>2. PICK c : c = settingsRequest[s]
          OBVIOUS
        <4>3. SettingsOpen(c)
          BY <4>2 DEF SettingsInv
        <4>4. Settings!RuleRows \subseteq Settings!RuleRows' /\ (llm # NoRow => llm' # NoRow)
          BY <2>1 DEF SettingsStep
        <4>5. SettingsOpen(c)'
          BY <4>3, <4>4 DEF SettingsOpen
        <4> QED
          BY <4>1, <4>2, <4>5 DEF SettingsOpen
      <3> QED
        BY <3>1, <3>2
    <2>5. settingsRequest' = [s \in Requests |-> settingsRequest'[s]]
      BY <2>2 DEF SettingsInv
    <2> QED
      BY <2>1, <2>4, <2>5 DEF SettingsInv, SettingsStep
  <1>2. CASE UNCHANGED Settings!vars
    <2>1. UNCHANGED <<rule, blind, llm>> /\ UNCHANGED settingsRequest
      BY <1>2 DEF Settings!vars
    <2>2. \A s \in Requests : SettingsOpen(settingsRequest[s])'
      BY <2>1, SettingsStay DEF SettingsInv, SettingsOpen
    <2> QED
      BY <2>1, <2>2, SettingsStay DEF SettingsInv
  <1> QED
    BY <1>1, <1>2

LEMMA SettingsInvariance ==
  ASSUME Settings!SettingsAssumption
  PROVE  Settings!Spec => []SettingsInv
  <1>1. Settings!Init => SettingsInv
    BY DefaultIsOrdered, SettingsIdle
    DEF Settings!Init, SettingsInv, SettingsTypes, Settings!ConfigHasKey, Settings!Buckets
  <1> QED
    BY <1>1, SettingsKept, PTL DEF Settings!Spec

\* However saves of the language model's configuration overlap, and next to every
\* other request about settings, a configuration that is stored has a key:
\* "apiKey is required on first save".
THEOREM ConfigurationsHaveKeys ==
  ASSUME Settings!SettingsAssumption
  PROVE  Settings!Spec => [](Settings!TypeOK /\ Settings!ConfigHasKey)
  <1>1. SettingsInv => Settings!TypeOK /\ Settings!ConfigHasKey
    BY DEF SettingsInv, SettingsTypes, SettingsOpen, Settings!TypeOK
  <1> QED
    BY <1>1, SettingsInvariance, PTL

-----------------------------------------------------------------------------
(* Settings: one request at a time *)

\* What the only request has loaded is what is stored, what it found missing still
\* is, and the endpoint that it will write fits the provider.
SettingsFit(q) ==
  /\ q.op = "create" => Settings!RuleRows = {}
  /\ q.op = "rule" => q.loaded = rule[q.row]
  /\ q.op = "insert" => blind = NoRow
  /\ q.op = "fill" => blind = "none"
  /\ q.op = "llm" => q.loaded = llm /\ Settings!Fits(q.new.provider, q.new.endpoint)

OneRule == \A i, j \in Settings!RuleRows : i = j

SerialSettings ==
  /\ SettingsInv
  /\ OneRule
  /\ Settings!RangesAreOrdered
  /\ Settings!EndpointFitsProvider
  /\ \A r \in Requests : SettingsFit(settingsRequest[r])

\* The steps of the only request: the rows stay in order, and it goes on with what
\* they are.
SettingsTurn(r) ==
  /\ OneRule' /\ Settings!RangesAreOrdered' /\ Settings!EndpointFitsProvider'
  /\ SettingsFit(settingsRequest[r])'

LEMMA RulesStay ==
  ASSUME SerialSettings, UNCHANGED rule
  PROVE  OneRule' /\ Settings!RangesAreOrdered' /\ Settings!RuleRows' = Settings!RuleRows
  BY DEF SerialSettings, OneRule, Settings!RangesAreOrdered, Settings!RuleRows

LEMMA EndpointStays ==
  ASSUME SerialSettings, UNCHANGED llm
  PROVE  Settings!EndpointFitsProvider'
  BY DEF SerialSettings, Settings!EndpointFitsProvider

LEMMA SettingsEnd ==
  ASSUME SettingsInv, NEW r \in Requests,
         settingsRequest' = [settingsRequest EXCEPT ![r] = Settings!Idle]
  PROVE  SettingsFit(settingsRequest[r])'
  BY DEF SettingsInv, SettingsFit, Settings!Idle

LEMMA RuleTurns ==
  ASSUME Settings!SettingsAssumption, SerialSettings, NEW r \in Requests,
         Settings!RuleRequest(r)
  PROVE  SettingsTurn(r)
  <1> DEFINE q == settingsRequest[r]
  <1>0. SettingsInv /\ SettingsOpen(q) /\ SettingsFit(q) /\ NoRow \notin Settings!Rule
    BY DEF SerialSettings, SettingsInv, Settings!SettingsAssumption
  <1>1. ASSUME NEW patch \in Settings!RulePatches, Settings!GetRule(r, patch)
        PROVE  SettingsTurn(r)
    <2>1. UNCHANGED <<rule, blind, llm>>
      BY <1>1 DEF Settings!GetRule, Settings!Begin
    <2>2. SettingsFit(settingsRequest[r])'
      BY <1>0, <1>1, <2>1, RulesStay
      DEF Settings!GetRule, Settings!Begin, SettingsInv, SettingsFit
    <2> QED
      BY <2>1, <2>2, RulesStay, EndpointStays DEF SettingsTurn
  <1>2. ASSUME Settings!CreateRule(r) PROVE SettingsTurn(r)
    <2>0. PICK patch : patch = q.patch
      OBVIOUS
    <2>1. PICK i \in Rules \ Settings!RuleRows :
            /\ rule' = [rule EXCEPT ![i] = Settings!DefaultRule]
            /\ settingsRequest' = [settingsRequest EXCEPT ![r] =
                 [op |-> "rule", row |-> i, loaded |-> Settings!DefaultRule, patch |-> patch]]
      BY <1>2, <2>0 DEF Settings!CreateRule, Settings!Continue
    <2>2. Settings!RuleRows = {} /\ UNCHANGED <<blind, llm>>
      BY <1>0, <1>2 DEF Settings!CreateRule, SettingsFit
    <2>3. /\ Settings!RuleRows' = {i} /\ rule'[i] = Settings!DefaultRule
          /\ Settings!Ordered(Settings!DefaultRule)
      BY <1>0, <2>1, <2>2, DefaultIsOrdered DEF SettingsInv, SettingsTypes, Settings!RuleRows
    <2>4. settingsRequest'[r] =
            [op |-> "rule", row |-> i, loaded |-> Settings!DefaultRule, patch |-> patch]
      BY <1>0, <2>1 DEF SettingsInv
    <2>5. SettingsFit(settingsRequest[r])'
      BY <2>3, <2>4 DEF SettingsFit
    <2>6. OneRule' /\ Settings!RangesAreOrdered'
      BY <2>3 DEF OneRule, Settings!RangesAreOrdered, Settings!Ordered
    <2> QED
      BY <2>2, <2>5, <2>6, EndpointStays DEF SettingsTurn
  <1>3. ASSUME Settings!PatchRule(r) PROVE SettingsTurn(r)
    <2> DEFINE new == Settings!Patched(q.loaded, q.patch)
               row == Settings!Written(q.loaded, new, rule[q.row])
    <2>1. /\ q.row \in Settings!RuleRows /\ q.row \in Rules /\ rule[q.row] \in Settings!Rule
          /\ q.loaded \in Settings!Rule /\ q.patch \in Settings!RulePatches
          /\ q.loaded = rule[q.row]
      BY <1>0, <1>3 DEF Settings!PatchRule, SettingsOpen, SettingsInv, SettingsTypes,
                        Settings!RuleRows, SettingsFit
    <2>2. /\ rule' = IF Settings!Ordered(new) THEN [rule EXCEPT ![q.row] = row] ELSE rule
          /\ settingsRequest' = [settingsRequest EXCEPT ![r] = Settings!Idle]
          /\ UNCHANGED <<blind, llm>>
      BY <1>3 DEF Settings!PatchRule, Settings!End
    <2> HIDE DEF q
    <2>3. new \in Settings!Rule
      BY <2>1, PatchedRule
    <2> HIDE DEF new
    <2>4. row = new
      BY <2>1, <2>3, WrittenRule
    <2> HIDE DEF row
    <2>5. CASE ~Settings!Ordered(new)
      BY <1>0, <2>2, <2>5, RulesStay, EndpointStays, SettingsEnd DEF SettingsTurn
    <2>6. CASE Settings!Ordered(new)
      <3>1. /\ rule' = [rule EXCEPT ![q.row] = new]
            /\ \A i \in Rules : rule'[i] = IF i = q.row THEN new ELSE rule[i]
        BY <1>0, <2>2, <2>4, <2>6 DEF SettingsInv, SettingsTypes
      <3>2. Settings!RuleRows' = Settings!RuleRows
        BY <1>0, <2>1, <2>3, <3>1 DEF Settings!RuleRows
      <3>3. \A i \in Settings!RuleRows' : Settings!Ordered(rule'[i])
        BY <2>6, <3>1, <3>2 DEF SerialSettings, Settings!RangesAreOrdered, Settings!RuleRows
      <3>4. OneRule' /\ Settings!RangesAreOrdered'
        BY <3>2, <3>3 DEF SerialSettings, OneRule, Settings!RangesAreOrdered, Settings!Ordered
      <3> QED
        BY <1>0, <2>2, <3>4, EndpointStays, SettingsEnd DEF SettingsTurn
    <2> QED
      BY <2>5, <2>6
  <1> QED
    BY <1>1, <1>2, <1>3 DEF Settings!RuleRequest

\* An administrator's buckets are replaced by a request that sets buckets.
LEMMA BlindTurns ==
  ASSUME Settings!SettingsAssumption, SerialSettings, NEW r \in Requests,
         Settings!BlindRequest(r)
  PROVE  SettingsTurn(r) /\ Settings!BucketsAreKept
  <1> DEFINE q == settingsRequest[r]
  <1>0. SettingsInv /\ SettingsFit(q) /\ UNCHANGED <<rule, llm>>
    BY DEF SerialSettings, Settings!BlindRequest, Settings!GetBlind, Settings!Begin,
           Settings!FillBlind, Settings!PatchBlind
  <1>1. SettingsFit(settingsRequest[r])' => SettingsTurn(r)
    BY <1>0, RulesStay, EndpointStays DEF SettingsTurn
  <1>2. ASSUME NEW buckets \in {"none", "custom", NoRow}, Settings!GetBlind(r, buckets)
        PROVE  SettingsTurn(r) /\ Settings!BucketsAreKept
    <2> DEFINE op == CASE blind = NoRow -> "insert" [] blind = "none" -> "fill"
                       [] OTHER -> "blind"
    <2>1. /\ blind' = blind
          /\ settingsRequest'[r] = [op |-> op, loaded |-> blind, buckets |-> buckets]
      BY <1>0, <1>2 DEF Settings!GetBlind, Settings!Begin, SettingsInv
    <2>2. /\ op \in {"insert", "fill", "blind"}
          /\ op = "insert" => blind = NoRow
          /\ op = "fill" => blind = "none"
      BY <1>0 DEF SettingsInv, SettingsTypes, Settings!SettingsAssumption, Settings!Buckets
    <2> HIDE DEF op
    <2>3. SettingsFit(settingsRequest[r])'
      BY <2>1, <2>2 DEF SettingsFit
    <2> QED
      BY <1>1, <2>1, <2>3 DEF Settings!BucketsAreKept
  <1>3. ASSUME Settings!FillBlind(r) PROVE SettingsTurn(r) /\ Settings!BucketsAreKept
    <2>1. q.op \in {"insert", "fill"} /\ blind \in {NoRow, "none"}
      BY <1>0, <1>3 DEF Settings!FillBlind, SettingsFit
    <2>2. Settings!BucketsAreKept
      BY <2>1 DEF Settings!BucketsAreKept, Settings!SettingsAssumption, Settings!Buckets
    <2>3. settingsRequest'[r].op \in {"idle", "blind"}
      <3>1. q \in BlindRequests
        BY <1>0, <2>1 DEF SettingsInv, SettingsOpen
      <3>2. [q EXCEPT !.op = "blind", !.loaded = "default"].op = "blind"
        BY <3>1 DEF BlindRequests
      <3>3. CASE settingsRequest' = [settingsRequest EXCEPT ![r] = Settings!Idle]
        BY <1>0, <3>3 DEF Settings!Idle, SettingsInv
      <3>4. CASE settingsRequest' = [settingsRequest EXCEPT ![r] =
                                       [q EXCEPT !.op = "blind", !.loaded = "default"]]
        BY <1>0, <3>2, <3>4 DEF SettingsInv
      <3> QED
        BY <1>3, <3>3, <3>4 DEF Settings!FillBlind, Settings!End, Settings!Continue
    <2>4. SettingsFit(settingsRequest[r])'
      BY <2>3 DEF SettingsFit
    <2> QED
      BY <1>1, <2>2, <2>4
  <1>4. ASSUME Settings!PatchBlind(r) PROVE SettingsTurn(r) /\ Settings!BucketsAreKept
    <2>1. /\ q.op = "blind" /\ settingsRequest'[r] = Settings!Idle
          /\ blind' = IF q.buckets \in {NoRow, q.loaded} THEN blind ELSE q.buckets
      BY <1>0, <1>4 DEF Settings!PatchBlind, Settings!End, SettingsInv
    <2>2. Settings!BucketsAreKept
      BY <2>1 DEF Settings!BucketsAreKept
    <2>3. SettingsFit(settingsRequest[r])'
      BY <2>1 DEF SettingsFit, Settings!Idle
    <2> QED
      BY <1>1, <2>2, <2>3
  <1> QED
    BY <1>2, <1>3, <1>4 DEF Settings!BlindRequest

LEMMA ValidEndpoints ==
  ASSUME NEW provider \in Settings!Providers, NEW given \in Settings!Endpoints,
         Settings!ValidEndpoint(provider, given) # NoRow
  PROVE  Settings!Fits(provider, Settings!ValidEndpoint(provider, given))
  BY DEF Settings!ValidEndpoint, Settings!Fits, Settings!Providers, Settings!Endpoints

LEMMA ConfigTurns ==
  ASSUME Settings!SettingsAssumption, SerialSettings, NEW r \in Requests,
         Settings!ConfigRequest(r)
  PROVE  SettingsTurn(r)
  <1> DEFINE q == settingsRequest[r]
  <1>0. SettingsInv /\ SettingsOpen(q) /\ SettingsFit(q) /\ UNCHANGED <<rule, blind>>
    BY DEF SerialSettings, SettingsInv, Settings!ConfigRequest, Settings!SaveConfig,
           Settings!Begin, Settings!CommitConfig
  <1>1. ASSUME NEW provider \in Settings!Providers, NEW given \in Settings!Endpoints,
               NEW key \in BOOLEAN, Settings!SaveConfig(r, provider, given, key)
        PROVE  SettingsTurn(r)
    <2> DEFINE endpoint == Settings!ValidEndpoint(provider, given)
               keyed == key \/ (llm # NoRow /\ llm.key)
    <2>1. /\ llm' = llm
          /\ settingsRequest'[r] = [op |-> "llm", loaded |-> llm,
               new |-> [provider |-> provider, endpoint |-> endpoint, key |-> keyed]]
      BY <1>0, <1>1 DEF Settings!SaveConfig, Settings!Begin, SettingsInv
    <2>2. Settings!Fits(provider, endpoint)
      BY <1>1, ValidEndpoints DEF Settings!SaveConfig, Settings!MaySave
    <2> HIDE DEF endpoint, keyed
    <2>3. PICK e, new : /\ Settings!Fits(provider, e) /\ new.provider = provider /\ new.endpoint = e
                        /\ settingsRequest'[r] = [op |-> "llm", loaded |-> llm, new |-> new]
      BY <2>1, <2>2
    <2>4. SettingsFit(settingsRequest[r])'
      <3>1. settingsRequest'[r].op = "llm" /\ settingsRequest'[r].loaded = llm'
        BY <2>1
      <3>2. settingsRequest'[r].new.provider = provider /\ settingsRequest'[r].new.endpoint = e
        BY <2>3
      <3> QED
        BY <2>3, <3>1, <3>2 DEF SettingsFit
    <2> QED
      BY <1>0, <2>1, <2>4, RulesStay, EndpointStays DEF SettingsTurn
  <1>2. ASSUME Settings!CommitConfig(r) PROVE SettingsTurn(r)
    <2>1. /\ llm' = IF q.loaded # NoRow THEN Settings!Written(q.loaded, q.new, llm)
                    ELSE IF llm = NoRow THEN q.new ELSE llm
          /\ settingsRequest' = [settingsRequest EXCEPT ![r] = Settings!Idle]
      BY <1>2 DEF Settings!CommitConfig, Settings!End
    <2>2. /\ q.loaded \in Settings!Config \cup {NoRow} /\ q.new \in Settings!Config
          /\ q.loaded = llm /\ Settings!Fits(q.new.provider, q.new.endpoint)
      BY <1>0, <1>2 DEF Settings!CommitConfig, SettingsOpen, SettingsFit
    <2> HIDE DEF q
    <2>3. llm' = q.new
      BY <2>1, <2>2, WrittenConfig
    <2>4. Settings!EndpointFitsProvider'
      BY <2>2, <2>3 DEF Settings!EndpointFitsProvider, Settings!Fits
    <2> QED
      BY <1>0, <2>1, <2>4, RulesStay, SettingsEnd DEF SettingsTurn
  <1> QED
    BY <1>1, <1>2 DEF Settings!ConfigRequest

LEMMA SerialSettingsKept ==
  ASSUME Settings!SettingsAssumption, Settings!OneSlot, SerialSettings,
         [Settings!Next]_(Settings!vars)
  PROVE  SerialSettings'
  <1>1. SettingsInv'
    BY SettingsKept DEF SerialSettings
  <1>2. CASE Settings!Next
    <2>1. PICK r \in Requests : SettingsTurn(r)
      BY <1>2, RuleTurns, BlindTurns, ConfigTurns DEF Settings!Next
    <2>2. \A s \in Requests : s = r
      BY DEF Settings!OneSlot
    <2>3. ASSUME NEW s \in Requests PROVE SettingsFit(settingsRequest[s])'
      BY <2>1, <2>2 DEF SettingsTurn
    <2> QED
      BY <1>1, <2>1, <2>3 DEF SerialSettings, SettingsTurn
  <1>3. CASE UNCHANGED Settings!vars
    <2>1. UNCHANGED <<rule, blind, llm>> /\ UNCHANGED settingsRequest
      BY <1>3 DEF Settings!vars
    <2>2. \A s \in Requests : SettingsFit(settingsRequest[s])'
      BY <2>1 DEF SerialSettings, SettingsFit, Settings!RuleRows, Settings!Fits
    <2> QED
      BY <1>1, <2>1, <2>2, RulesStay, EndpointStays DEF SerialSettings
  <1> QED
    BY <1>2, <1>3

LEMMA SerialSettingsInvariance ==
  ASSUME Settings!SettingsAssumption, Settings!OneSlot
  PROVE  Settings!Spec => [](SettingsInv /\ SerialSettings)
  <1>1. Settings!Init => SettingsInv
    BY DefaultIsOrdered, SettingsIdle
    DEF Settings!Init, SettingsInv, SettingsTypes, Settings!ConfigHasKey, Settings!Buckets
  <1>2. ASSUME Settings!Init PROVE SerialSettings
    <2>1. OneRule /\ Settings!RangesAreOrdered
      BY <1>2, DefaultIsOrdered
      DEF Settings!Init, OneRule, Settings!RuleRows, Settings!RangesAreOrdered
    <2>2. \A r \in Requests : SettingsFit(settingsRequest[r])
      BY <1>2 DEF Settings!Init, SettingsFit, Settings!Idle
    <2> QED
      BY <1>1, <1>2, <2>1, <2>2 DEF Settings!Init, SerialSettings,
         Settings!EndpointFitsProvider
  <1>3. SettingsInv /\ SerialSettings /\ [Settings!Next]_(Settings!vars)
          => (SettingsInv /\ SerialSettings)'
    BY SerialSettingsKept DEF SerialSettings
  <1> QED
    BY <1>1, <1>2, <1>3, PTL DEF Settings!Spec

\* One request at a time, the tenant has one escalation rule, its range is ordered,
\* and the endpoint that is stored is one that its provider admits.
THEOREM SettingsStayValid ==
  ASSUME Settings!SettingsAssumption, Settings!OneSlot
  PROVE  Settings!Spec => [](/\ Settings!OneRulePerTenant
                             /\ Settings!RangesAreOrdered
                             /\ Settings!EndpointFitsProvider)
  <1>1. OneRule => Settings!OneRulePerTenant
    <2> SUFFICES ASSUME OneRule PROVE Cardinality(Settings!RuleRows) <= 1
      BY SettingsCount DEF Settings!OneRulePerTenant
    <2>1. CASE Settings!RuleRows = {}
      BY <2>1, FS_EmptySet
    <2>2. ASSUME NEW i \in Settings!RuleRows PROVE Cardinality(Settings!RuleRows) <= 1
      <3>1. Settings!RuleRows = {i}
        BY <2>2 DEF OneRule
      <3>2. Cardinality({i}) = 1
        BY FS_Singleton
      <3>3. Cardinality(Settings!RuleRows) = 1
        BY <3>1, <3>2
      <3> QED
        BY <3>3
    <2> QED
      BY <2>1, <2>2
  <1>2. SerialSettings => /\ Settings!OneRulePerTenant
                          /\ Settings!RangesAreOrdered
                          /\ Settings!EndpointFitsProvider
    BY <1>1 DEF SerialSettings
  <1> QED
    BY <1>2, SerialSettingsInvariance, PTL

\* One request at a time, no request that only reads the blind-review settings
\* replaces an administrator's buckets.
THEOREM BucketsStay ==
  ASSUME Settings!SettingsAssumption, Settings!OneSlot
  PROVE  Settings!Spec => [][Settings!BucketsAreKept]_(Settings!vars)
  <1>1. ASSUME SerialSettings, Settings!Next PROVE Settings!BucketsAreKept
    <2>1. PICK r \in Requests : \/ Settings!RuleRequest(r) \/ Settings!BlindRequest(r)
                                \/ Settings!ConfigRequest(r)
      BY <1>1 DEF Settings!Next
    <2>2. CASE Settings!BlindRequest(r)
      BY <1>1, <2>2, BlindTurns
    <2>3. CASE Settings!RuleRequest(r) \/ Settings!ConfigRequest(r)
      <3>1. UNCHANGED blind
        BY <2>3 DEF Settings!RuleRequest, Settings!GetRule, Settings!Begin,
           Settings!CreateRule,
                    Settings!PatchRule, Settings!ConfigRequest, Settings!SaveConfig,
                    Settings!CommitConfig
      <3> QED
        BY <3>1 DEF Settings!BucketsAreKept
    <2> QED
      BY <2>1, <2>2, <2>3
  <1>2. SerialSettings /\ [Settings!Next]_(Settings!vars)
          => [Settings!BucketsAreKept]_(Settings!vars)
    BY <1>1
  <1> QED
    BY <1>2, SerialSettingsInvariance, PTL DEF Settings!Spec

\* What the code promises of settings: a configuration keeps its key however
\* requests overlap; one at a time, a tenant has one rule, its range is ordered,
\* the endpoint fits the provider, and no read replaces an administrator's
\* buckets.
THEOREM SettingsAlwaysHold ==
  ASSUME Settings!SettingsAssumption
  PROVE  Settings!Spec => /\ []Settings!SettingsHold
                          /\ [][Settings!OneSlot => Settings!BucketsAreKept]_(Settings!vars)
  <1>1. CASE Settings!OneSlot
    <2>1. /\ Settings!TypeOK /\ Settings!ConfigHasKey
          /\ Settings!OneRulePerTenant /\ Settings!RangesAreOrdered
          /\ Settings!EndpointFitsProvider
          => Settings!SettingsHold
      BY DEF Settings!SettingsHold
    <2>2. Settings!Spec => /\ [](/\ Settings!OneRulePerTenant
                                 /\ Settings!RangesAreOrdered
                                 /\ Settings!EndpointFitsProvider)
                           /\ [][Settings!BucketsAreKept]_(Settings!vars)
      BY <1>1, SettingsStayValid, BucketsStay
    <2>3. Settings!BucketsAreKept => (Settings!OneSlot => Settings!BucketsAreKept)
      OBVIOUS
    <2> QED
      BY <2>1, <2>2, <2>3, ConfigurationsHaveKeys, PTL
  <1>2. CASE ~Settings!OneSlot
    <2>1. Settings!TypeOK /\ Settings!ConfigHasKey => Settings!SettingsHold
      BY <1>2 DEF Settings!SettingsHold
    <2>2. Settings!OneSlot => Settings!BucketsAreKept
      BY <1>2
    <2> QED
      BY <2>1, <2>2, ConfigurationsHaveKeys, PTL
  <1> QED
    BY <1>1, <1>2
=============================================================================
