--------------------------- MODULE LoginSessions ---------------------------
(***************************************************************************)
(* The sessions of one user (auth_service.py): a session starts with a     *)
(* login, verified by a code unless its caller skips that, or with an      *)
(* accepted invitation, and goes on as a chain of refresh tokens, each of  *)
(* which is used once.  A handler loads what it decides on in one step and *)
(* commits in a later one; requests overlap.  Codes live in Redis, users   *)
(* and tokens in the master database.                                      *)
(***************************************************************************)
EXTENDS Naturals, FiniteSets

CONSTANTS
  Tokens,     \* bounds the refresh tokens issued
  Codes,      \* logins whose password was right, with their mfa_session
  MaxInvites, \* bound: how often the user becomes INVITED
  NoToken,
  Requests,   \* slots of overlapping requests
  Invited     \* the user starts with an invitation

SessionsAssumption ==
  /\ NoToken \notin [session : Codes \cup Nat, live : BOOLEAN]
  /\ Codes \cap Nat = {}
  /\ Invited \in BOOLEAN
  /\ MaxInvites \in Nat /\ (Invited => MaxInvites > 0)

VARIABLES
  status,   \* users.status
  hasPassword,  \* users.passwordHash is not empty
  invited,  \* history: how often the user became INVITED
  tenant,   \* tenants.status
  code,     \* mfa_session keys in Redis, "skipped" for a login without one
  token,    \* refresh_tokens, with the session they belong to
  starts,   \* history: how often a login or an invitation started a session
  breach,   \* history: a refresh issued a token to a user or tenant refused by then
  request

userRow == <<status, hasPassword, invited>>
vars == <<userRow, tenant, code, token, starts, breach, request>>

Sources == Codes \cup 1..MaxInvites

Statuses == {"INVITED", "ACTIVE", "INACTIVE"}

Idle == [op |-> "idle"]

Live == {t \in Tokens : token[t] # NoToken /\ token[t].live}

Unused == {t \in Tokens : token[t] = NoToken}

\* Suspended and cancelled tenants are refused alike.
Refused == tenant = "SUSPENDED"

\* Mutant: revoked tokens are deleted.
Revoked_Deleted(tokens) ==
  [t \in Tokens |-> IF t \in tokens THEN NoToken ELSE token[t]]

Revoked(tokens) ==
  [t \in Tokens |-> IF t \in tokens THEN [token[t] EXCEPT !.live = FALSE] ELSE token[t]]

\* A new token of a session, and the others as given.
Issue(t, session, others) == token' = [others EXCEPT ![t] = [session |-> session, live |-> TRUE]]

Begin(r, record) ==
  /\ request[r] = Idle
  /\ request' = [request EXCEPT ![r] = record]

Continue(r, record) == request' = [request EXCEPT ![r] = record]

End(r) == request' = [request EXCEPT ![r] = Idle]

-----------------------------------------------------------------------------
(* login and verify_mfa *)

\* A deactivated user of an active tenant is active again with a login, which
\* commits that before it looks at the password.
Reactivate ==
  /\ status = "INACTIVE" /\ ~Refused
  /\ status' = "ACTIVE"
  /\ UNCHANGED <<hasPassword, invited, tenant, code, token, starts, breach, request>>

\* The password is right, as it never is for one who has none.
PassesLogin(c) ==
  /\ code[c] = "none"
  /\ hasPassword
  /\ status # "INACTIVE" /\ ~Refused

SendCode(c) ==
  /\ PassesLogin(c)
  /\ code' = [code EXCEPT ![c] = "sent"]
  /\ UNCHANGED <<userRow, tenant, token, starts, breach, request>>

\* skip2fa: the login completes at once, and ends no other session.
SkipCode(r, c) ==
  /\ PassesLogin(c)
  /\ code' = [code EXCEPT ![c] = "skipped"]
  /\ starts' = [starts EXCEPT ![c] = @ + 1]
  /\ Begin(r, [op |-> "login", code |-> c, replace |-> FALSE])
  /\ UNCHANGED <<userRow, tenant, token, breach>>

ExpireCode(c) ==
  /\ code[c] = "sent"
  /\ code' = [code EXCEPT ![c] = "gone"]
  /\ UNCHANGED <<userRow, tenant, token, starts, breach, request>>

ReadCode(r, c, replace) ==
  /\ code[c] = "sent"
  /\ Begin(r, [op |-> "code", code |-> c, replace |-> replace])
  /\ UNCHANGED <<userRow, tenant, code, token, starts, breach>>

\* The key is deleted whether or not it is still there.
TakeCode(r) ==
  LET q == request[r] IN
  /\ q.op = "code"
  /\ code' = [code EXCEPT ![q.code] = "gone"]
  /\ starts' = [starts EXCEPT ![q.code] = @ + 1]
  /\ IF Refused
     THEN End(r) /\ UNCHANGED userRow
     ELSE /\ status' = IF status = "INACTIVE" THEN "ACTIVE" ELSE status
          /\ UNCHANGED <<hasPassword, invited>>
          /\ Continue(r, [q EXCEPT !.op = "login"])
  /\ UNCHANGED <<tenant, token, breach>>

\* confirmLogout ends the other sessions, in a transaction of its own.
ReplaceSessions(r) ==
  /\ request[r].op = "login" /\ request[r].replace
  /\ token' = Revoked(Live)
  /\ Continue(r, [request[r] EXCEPT !.replace = FALSE])
  /\ UNCHANGED <<userRow, tenant, code, starts, breach>>

CompleteLogin(r, t) ==
  /\ request[r].op = "login" /\ ~request[r].replace
  /\ t \in Unused
  /\ Issue(t, request[r].code, token)
  /\ End(r)
  /\ UNCHANGED <<userRow, tenant, code, starts, breach>>

-----------------------------------------------------------------------------
(* accept_invite *)

ReadInvite(r) ==
  /\ status = "INVITED"
  /\ Begin(r, [op |-> "invite", number |-> invited])
  /\ UNCHANGED <<userRow, tenant, code, token, starts, breach>>

AcceptInvite(r, t) ==
  /\ request[r].op = "invite"
  /\ t \in Unused
  /\ status' = "ACTIVE" /\ hasPassword' = TRUE
  /\ starts' = [starts EXCEPT ![request[r].number] = @ + 1]
  /\ Issue(t, request[r].number, token)
  /\ End(r)
  /\ UNCHANGED <<invited, tenant, code, breach>>

-----------------------------------------------------------------------------
(* refresh *)

\* A token that is revoked already ends every session of the user.
DetectReuse(r, t) ==
  /\ request[r] = Idle
  /\ token[t] # NoToken /\ ~token[t].live
  /\ token' = Revoked(Live)
  /\ UNCHANGED <<userRow, tenant, code, starts, breach, request>>

ReadToken(r, t) ==
  /\ t \in Live
  /\ Begin(r, [op |-> "refresh", token |-> t, ok |-> status # "INACTIVE" /\ ~Refused])
  /\ UNCHANGED <<userRow, tenant, code, token, starts, breach>>

\* Mutant: the old token stays.
Rotate_KeepsOld(r, t) ==
  /\ request[r].op = "refresh" /\ request[r].ok
  /\ t \in Unused
  /\ Issue(t, token[request[r].token].session, token)
  /\ breach' = (breach \/ status = "INACTIVE" \/ Refused)
  /\ End(r)
  /\ UNCHANGED <<userRow, tenant, code, starts>>

\* The old token ends, whatever became of it since, and a new one follows.
Rotate(r, t) ==
  LET old == request[r].token IN
  /\ request[r].op = "refresh" /\ request[r].ok
  /\ t \in Unused
  /\ Issue(t, token[old].session, Revoked({old}))
  /\ breach' = (breach \/ status = "INACTIVE" \/ Refused)
  /\ End(r)
  /\ UNCHANGED <<userRow, tenant, code, starts>>

EndRefused(r) ==
  /\ request[r].op = "refresh" /\ ~request[r].ok
  /\ token' = Revoked({request[r].token})
  /\ End(r)
  /\ UNCHANGED <<userRow, tenant, code, starts, breach>>

-----------------------------------------------------------------------------
(* logout, reset_password and deactivate_user; a request of one step takes a
   free slot, too *)

Logout(r, t) ==
  /\ request[r] = Idle
  /\ t \in Live
  /\ token' = Revoked({t})
  /\ UNCHANGED <<userRow, tenant, code, starts, breach, request>>

\* A reset and a deactivation revoke the tokens that they have listed.
ListTokens(r, op) ==
  /\ op \in {"reset", "deactivate"}
  /\ Begin(r, [op |-> op, tokens |-> Live])
  /\ UNCHANGED <<userRow, tenant, code, token, starts, breach>>

RevokeListed(r) ==
  /\ request[r].op \in {"reset", "deactivate"}
  /\ token' = Revoked(request[r].tokens)
  /\ IF request[r].op = "deactivate"
     THEN status' = "INACTIVE" /\ UNCHANGED hasPassword
     ELSE hasPassword' = TRUE /\ UNCHANGED status
  /\ End(r)
  /\ UNCHANGED <<invited, tenant, code, starts, breach>>

\* update_user sets any status and leaves the sessions.  Who is INVITED again
\* can accept the invitation again, also one that has been used.
SetStatus(r, new) ==
  /\ request[r] = Idle
  /\ new # status
  /\ status' = new
  /\ IF new = "INVITED"
     THEN invited < MaxInvites /\ invited' = invited + 1
     ELSE UNCHANGED invited
  /\ UNCHANGED <<hasPassword, tenant, code, token, starts, breach, request>>

\* The platform suspends and reactivates the tenant.
SetTenant(r) ==
  /\ request[r] = Idle
  /\ tenant' = IF tenant = "ACTIVE" THEN "SUSPENDED" ELSE "ACTIVE"
  /\ UNCHANGED <<userRow, code, token, starts, breach, request>>

-----------------------------------------------------------------------------
Init ==
  /\ status = IF Invited THEN "INVITED" ELSE "ACTIVE"
  /\ hasPassword = ~Invited
  /\ invited = IF Invited THEN 1 ELSE 0
  /\ tenant = "ACTIVE"
  /\ code = [c \in Codes |-> "none"]
  /\ token = [t \in Tokens |-> NoToken]
  /\ starts = [s \in Sources |-> 0]
  /\ breach = FALSE
  /\ request = [r \in Requests |-> Idle]

LoginRequest(r) ==
  \/ \E c \in Codes : SkipCode(r, c) \/ \E replace \in BOOLEAN : ReadCode(r, c, replace)
  \/ TakeCode(r) \/ ReplaceSessions(r)
  \/ \E t \in Tokens : CompleteLogin(r, t)

InviteRequest(r) == ReadInvite(r) \/ \E t \in Tokens : AcceptInvite(r, t)

RefreshRequest(r) ==
  \/ \E t \in Tokens : ReadToken(r, t) \/ Rotate(r, t) \/ DetectReuse(r, t)
  \/ EndRefused(r)

RevokeRequest(r) ==
  \/ \E op \in {"reset", "deactivate"} : ListTokens(r, op)
  \/ RevokeListed(r)
  \/ \E t \in Tokens : Logout(r, t)

Next ==
  \/ Reactivate
  \/ \E c \in Codes : SendCode(c) \/ ExpireCode(c)
  \/ \E r \in Requests :
       LoginRequest(r) \/ InviteRequest(r) \/ RefreshRequest(r) \/ RevokeRequest(r)
  \/ \E r \in Requests : \/ \E new \in Statuses : SetStatus(r, new)
                         \/ SetTenant(r)

Spec == Init /\ [][Next]_vars

-----------------------------------------------------------------------------
(* Properties *)

\* Statuses, codes and tokens are of their tables.
TypeOK ==
  /\ status \in Statuses
  /\ hasPassword \in BOOLEAN
  /\ invited \in 0..MaxInvites
  /\ tenant \in {"ACTIVE", "SUSPENDED"}
  /\ code \in [Codes -> {"none", "sent", "gone", "skipped"}]
  /\ token \in [Tokens -> [session : Sources, live : BOOLEAN] \cup {NoToken}]
  /\ starts \in [Sources -> Nat]
  /\ breach \in BOOLEAN

\* Whatever overlaps: a token that has ended stays ended, and keeps its session.
EndedStaysEnded ==
  \A t \in Tokens : token[t] # NoToken =>
    /\ token'[t] # NoToken
    /\ token'[t].session = token[t].session
    /\ token'[t].live => token[t].live

\* Whatever overlaps: every session was started by a login whose code is used
\* up, or that has skipped it, or by an invitation that the user was given.
SessionsAreStarted ==
  /\ \A t \in Tokens : token[t] # NoToken => starts[token[t].session] > 0
  /\ \A c \in Codes : starts[c] > 0 => code[c] \in {"gone", "skipped"}
  /\ \A n \in 1..MaxInvites : starts[n] > 0 => n <= invited

\* "Mark the token as used/revoked": a session has one live token.
OneLivePerSession ==
  \A t, v \in Live : token[t].session = token[v].session => t = v

\* A login starts one session; "Invite has already been used": an invitation
\* starts one each time the user is made INVITED.
StartedOnce == \A s \in Sources : starts[s] <= 1

\* "Honour suspension/deactivation that happened after the token was issued".
DeactivationIsHonoured == ~breach

\* A reset or a deactivation that has ended leaves no older token live.
RevocationIsComplete ==
  \A r \in Requests :
    request[r].op \in {"reset", "deactivate"} /\ request'[r] = Idle =>
      \A t \in Tokens : token'[t] # NoToken => ~token'[t].live

\* A refused refresh ends its token too: a later one does not find it live.
RefusedIsEnded ==
  \A r \in Requests :
    request[r].op = "refresh" /\ request'[r] = Idle =>
      ~token'[request[r].token].live

\* One request at a time.
OneSlot == \A r, q \in Requests : r = q

\* However requests overlap, sessions go back to a login or an invitation.
SessionsHold == TypeOK /\ SessionsAreStarted

\* One request at a time, a login, an invitation and a token serve once, and a
\* deactivation is honoured.
LoginsHold == OneSlot => OneLivePerSession /\ StartedOnce /\ DeactivationIsHonoured
=============================================================================
