----------------------------- MODULE AccessProofs ----------------------------
(***************************************************************************)
(* Proofs about who gets in: users by their sessions (LoginSessions) and   *)
(* their accounts (Accounts), tenants' systems by their API keys           *)
(* (IngestKeys); for every set of users, codes, tokens, tenants and keys,  *)
(* and of overlapping requests.                                            *)
(***************************************************************************)
EXTENDS LoginSessions, FiniteSetTheorems, TLAPS

CONSTANTS
  Tenants, Keys, None, Crashes,                                                \* IngestKeys
  Users, Founder, Limits, Plans, NoRow, NoPlan, Reactivates, Platform          \* Accounts

VARIABLES
  owner, current, used, rotation,                                              \* IngestKeys
  user, account, accountRequest                                                \* Accounts

Rotations == INSTANCE IngestKeys WITH request <- rotation

Account == INSTANCE Accounts WITH tenant <- account, request <- accountRequest

-----------------------------------------------------------------------------
(* Sessions *)

Token == [session : Sources, live : BOOLEAN]

\* A request names codes, tokens and invitations that there are, and a login that
\* goes on has used its code or skipped it.
Refers(q) ==
  /\ q.op \in {"code", "login"} => q.code \in Codes
  /\ q.op = "login" => starts[q.code] > 0
  /\ q.op = "invite" => q.number \in 1..MaxInvites /\ q.number <= invited
  /\ q.op = "refresh" => q.token \in Tokens /\ token[q.token] # NoToken
  /\ q.op \in {"reset", "deactivate"} =>
       q.tokens \subseteq Tokens /\ \A t \in q.tokens : token[t] # NoToken

Referring ==
  /\ request = [r \in Requests |-> request[r]]
  /\ \A r \in Requests : Refers(request[r])

InviteGiven == status = "INVITED" => invited >= 1

LoginInv == TypeOK /\ Referring /\ SessionsAreStarted /\ InviteGiven

\* What a step may do to a token.
TokenStays(t) ==
  /\ token'[t] # NoToken
  /\ token'[t].session = token[t].session
  /\ token'[t].live => token[t].live

-----------------------------------------------------------------------------
(* Tokens *)

LEMMA TokenKind ==
  ASSUME SessionsAssumption, NEW session \in Sources, NEW live \in BOOLEAN
  PROVE  /\ [session |-> session, live |-> live] \in Token
         /\ [session |-> session, live |-> live] # NoToken
  BY DEF SessionsAssumption, Token, Sources

\* Tokens that end stay in their sessions.
LEMMA RevokedTokens ==
  ASSUME SessionsAssumption, TypeOK,
         NEW ended \in SUBSET Tokens, \A t \in ended : token[t] # NoToken
  PROVE  /\ Revoked(ended) \in [Tokens -> Token \cup {NoToken}]
         /\ \A t \in Tokens :
              /\ token[t] = NoToken => Revoked(ended)[t] = NoToken
              /\ t \notin ended => Revoked(ended)[t] = token[t]
              /\ token[t] # NoToken =>
                   /\ Revoked(ended)[t] # NoToken
                   /\ Revoked(ended)[t].session = token[t].session
                   /\ Revoked(ended)[t].live = (token[t].live /\ t \notin ended)
<1>1. \A t \in Tokens : token[t] # NoToken => token[t] \in Token
  BY DEF TypeOK, Token
<1>2. ASSUME NEW t \in ended
      PROVE  /\ [token[t] EXCEPT !.live = FALSE] \in Token
             /\ [token[t] EXCEPT !.live = FALSE].session = token[t].session
             /\ [token[t] EXCEPT !.live = FALSE].live = FALSE
  BY <1>1 DEF Token
<1>3. NoToken \notin Token
  BY DEF SessionsAssumption, Token, Sources
<1>4. \A t \in Tokens :
        Revoked(ended)[t] = IF t \in ended THEN [token[t] EXCEPT !.live = FALSE] ELSE token[t]
  BY DEF Revoked
<1>5. Revoked(ended) = [t \in Tokens |-> Revoked(ended)[t]]
  BY DEF Revoked
<1>6. \A t \in Tokens : Revoked(ended)[t] \in Token \cup {NoToken}
  BY <1>1, <1>2, <1>4
<1>7. Revoked(ended) \in [Tokens -> Token \cup {NoToken}]
  BY <1>5, <1>6
<1>8. \A t \in Tokens : token[t] # NoToken => token[t].live \in BOOLEAN
  BY <1>1 DEF Token
<1> QED BY <1>2, <1>3, <1>4, <1>7, <1>8

LEMMA LiveTokens ==
  /\ Live \subseteq Tokens
  /\ \A t \in Live : token[t] # NoToken
  BY DEF Live

\* A step revokes tokens that there are, or issues one that was not.
Ends(ended) ==
  /\ ended \subseteq Tokens /\ \A t \in ended : token[t] # NoToken
  /\ token' = Revoked(ended)

Issues(t, session, ended) ==
  /\ t \in Unused /\ session \in Sources
  /\ ended \subseteq Tokens /\ \A v \in ended : token[v] # NoToken
  /\ token' = [Revoked(ended) EXCEPT ![t] = [session |-> session, live |-> TRUE]]

LEMMA EndsEffect ==
  ASSUME SessionsAssumption, TypeOK, NEW ended, Ends(ended)
  PROVE  /\ token' \in [Tokens -> Token \cup {NoToken}]
         /\ \A t \in Tokens :
              /\ token[t] = NoToken => token'[t] = NoToken
              /\ t \notin ended => token'[t] = token[t]
              /\ token[t] # NoToken => TokenStays(t)
              /\ t \in ended => ~token'[t].live
  BY RevokedTokens DEF Ends, TokenStays

LEMMA IssuesEffect ==
  ASSUME SessionsAssumption, TypeOK, NEW t, NEW session, NEW ended, Issues(t, session, ended)
  PROVE  /\ token' \in [Tokens -> Token \cup {NoToken}]
         /\ token'[t].session = session /\ token'[t].live /\ token'[t] # NoToken
         /\ t \in Tokens /\ token[t] = NoToken
         /\ \A v \in Tokens \ {t} :
              /\ token[v] = NoToken => token'[v] = NoToken
              /\ token[v] # NoToken => TokenStays(v)
              /\ v \in ended => ~token'[v].live
<1>1. t \in Tokens /\ token[t] = NoToken
  BY DEF Issues, Unused
<1>2. /\ [session |-> session, live |-> TRUE] \in Token
      /\ [session |-> session, live |-> TRUE] # NoToken
  BY TokenKind DEF Issues
<1>3. Revoked(ended) \in [Tokens -> Token \cup {NoToken}]
  BY RevokedTokens DEF Issues
<1>4. /\ token' \in [Tokens -> Token \cup {NoToken}]
      /\ token'[t] = [session |-> session, live |-> TRUE]
      /\ \A v \in Tokens \ {t} : token'[v] = Revoked(ended)[v]
  BY <1>1, <1>2, <1>3 DEF Issues
<1>5. \A v \in Tokens :
        /\ token[v] = NoToken => Revoked(ended)[v] = NoToken
        /\ token[v] # NoToken =>
                   /\ Revoked(ended)[v] # NoToken
                   /\ Revoked(ended)[v].session = token[v].session
                   /\ Revoked(ended)[v].live = (token[v].live /\ v \notin ended)
  BY RevokedTokens DEF Issues
<1> QED BY <1>1, <1>2, <1>4, <1>5 DEF TokenStays, Issues

LEMMA NoEnds ==
  ASSUME TypeOK
  PROVE  Revoked({}) = token
  BY DEF Revoked, TypeOK

\* How each step that writes tokens does.
LEMMA TokenWrites ==
  ASSUME TypeOK, Referring, NEW r \in Requests
  PROVE  /\ ReplaceSessions(r) => Ends(Live)
         /\ EndRefused(r) => Ends({request[r].token})
         /\ RevokeListed(r) => Ends(request[r].tokens)
         /\ \A t \in Tokens :
              /\ DetectReuse(r, t) => Ends(Live)
              /\ Logout(r, t) => Ends({t}) /\ t \in Live
              /\ CompleteLogin(r, t) => Issues(t, request[r].code, {})
              /\ AcceptInvite(r, t) => Issues(t, request[r].number, {})
              /\ Rotate(r, t) =>
                   Issues(t, token[request[r].token].session, {request[r].token})
<1>1. ReplaceSessions(r) => Ends(Live)
  BY LiveTokens DEF ReplaceSessions, Ends
<1>2. EndRefused(r) => Ends({request[r].token})
  BY DEF EndRefused, Ends, Referring, Refers
<1>3. RevokeListed(r) => Ends(request[r].tokens)
  BY DEF RevokeListed, Ends, Referring, Refers
<1>4. ASSUME NEW t \in Tokens
      PROVE  /\ DetectReuse(r, t) => Ends(Live)
             /\ Logout(r, t) => Ends({t}) /\ t \in Live
  BY LiveTokens DEF DetectReuse, Logout, Ends
<1>5. ASSUME NEW t \in Tokens, CompleteLogin(r, t)
      PROVE  Issues(t, request[r].code, {})
  BY <1>5, NoEnds DEF CompleteLogin, Issue, Issues, Referring, Refers, Sources
<1>6. ASSUME NEW t \in Tokens, AcceptInvite(r, t)
      PROVE  Issues(t, request[r].number, {})
  BY <1>6, NoEnds DEF AcceptInvite, Issue, Issues, Referring, Refers, Sources
<1>7. ASSUME NEW t \in Tokens, Rotate(r, t)
      PROVE  Issues(t, token[request[r].token].session, {request[r].token})
  <2>1. request[r].token \in Tokens /\ token[request[r].token] # NoToken
    BY <1>7 DEF Rotate, Referring, Refers
  <2>2. token[request[r].token].session \in Sources
    BY <2>1 DEF TypeOK
  <2> QED BY <1>7, <2>1, <2>2 DEF Rotate, Issue, Issues
<1> QED BY <1>1, <1>2, <1>3, <1>4, <1>5, <1>6, <1>7

\* Every step leaves the tokens, ends some or issues one.
LEMMA Writes ==
  ASSUME TypeOK, Referring, [Next]_vars
  PROVE  \/ token' = token
         \/ \E ended : Ends(ended)
         \/ \E r \in Requests, t \in Tokens :
              CompleteLogin(r, t) \/ AcceptInvite(r, t) \/ Rotate(r, t)
<1> DEFINE Issued == \E r \in Requests, t \in Tokens :
                       CompleteLogin(r, t) \/ AcceptInvite(r, t) \/ Rotate(r, t)
           Goal == token' = token \/ (\E ended : Ends(ended)) \/ Issued
<1>1. ASSUME Issued PROVE Goal
  BY <1>1
<1>2. ASSUME NEW r \in Requests,
             \/ ReplaceSessions(r) \/ EndRefused(r) \/ RevokeListed(r)
             \/ \E t \in Tokens : DetectReuse(r, t) \/ Logout(r, t)
      PROVE  Goal
  <2>1. \E ended : Ends(ended)
    BY <1>2, TokenWrites
  <2> QED BY <2>1
<1>3. ASSUME NEW r \in Requests,
             \/ \E c \in Codes, replace \in BOOLEAN : ReadCode(r, c, replace)
             \/ \E c \in Codes : SkipCode(r, c)
             \/ TakeCode(r) \/ ReadInvite(r)
             \/ \E t \in Tokens : ReadToken(r, t)
             \/ \E op \in {"reset", "deactivate"} : ListTokens(r, op)
             \/ \E new \in Statuses : SetStatus(r, new)
             \/ SetTenant(r)
      PROVE  Goal
  BY <1>3 DEF ReadCode, SkipCode, TakeCode, ReadInvite, ReadToken, ListTokens, SetStatus,
              SetTenant
<1>4. ASSUME UNCHANGED vars \/ Reactivate \/ \E c \in Codes : SendCode(c) \/ ExpireCode(c)
      PROVE  Goal
  BY <1>4 DEF vars, Reactivate, SendCode, ExpireCode
<1>5. Issued =>  Goal
  OBVIOUS
<1>6. ASSUME NEW r \in Requests, LoginRequest(r) PROVE Goal
  <2>1. ASSUME NEW t \in Tokens, CompleteLogin(r, t) PROVE Issued
    BY <2>1
  <2> HIDE DEF Goal, Issued
  <2> QED BY <1>2, <1>3, <1>5, <1>6, <2>1 DEF LoginRequest
<1>7. ASSUME NEW r \in Requests, InviteRequest(r) PROVE Goal
  <2>1. ASSUME NEW t \in Tokens, AcceptInvite(r, t) PROVE Issued
    BY <2>1
  <2> HIDE DEF Goal, Issued
  <2> QED BY <1>3, <1>5, <1>7, <2>1 DEF InviteRequest
<1>8. ASSUME NEW r \in Requests, RefreshRequest(r) PROVE Goal
  <2>1. ASSUME NEW t \in Tokens, Rotate(r, t) PROVE Issued
    BY <2>1
  <2> HIDE DEF Goal, Issued
  <2> QED BY <1>2, <1>3, <1>5, <1>8, <2>1 DEF RefreshRequest
<1>9. ASSUME NEW r \in Requests, RevokeRequest(r) PROVE Goal
  <2> HIDE DEF Goal
  <2> QED BY <1>2, <1>3, <1>9 DEF RevokeRequest
<1> HIDE DEF Goal
<1>10. Goal
  BY <1>3, <1>4, <1>6, <1>7, <1>8, <1>9 DEF Next
<1> QED BY <1>10 DEF Goal

LEMMA TokenStep ==
  ASSUME SessionsAssumption, TypeOK, Referring, [Next]_vars
  PROVE  /\ token' \in [Tokens -> Token \cup {NoToken}]
         /\ \A t \in Tokens : token[t] # NoToken => TokenStays(t)
<1> DEFINE Goal == /\ token' \in [Tokens -> Token \cup {NoToken}]
                   /\ \A t \in Tokens : token[t] # NoToken => TokenStays(t)
<1>1. ASSUME token' = token PROVE Goal
  BY <1>1 DEF TypeOK, Token, TokenStays
<1>2. ASSUME NEW ended, Ends(ended) PROVE Goal
  BY <1>2, EndsEffect
<1>3. ASSUME NEW t, NEW session, NEW ended, Issues(t, session, ended) PROVE Goal
  BY <1>3, IssuesEffect
<1> HIDE DEF Goal
<1>4. ASSUME NEW r \in Requests, NEW t \in Tokens,
             CompleteLogin(r, t) \/ AcceptInvite(r, t) \/ Rotate(r, t)
      PROVE  Goal
  BY <1>3, <1>4, TokenWrites
<1>5. Goal
  BY <1>1, <1>2, <1>4, Writes
<1> QED BY <1>5 DEF Goal

LEMMA NewToken ==
  ASSUME SessionsAssumption, TypeOK, Referring, [Next]_vars,
         NEW t \in Tokens, token[t] = NoToken, token'[t] # NoToken
  PROVE  \E r \in Requests : CompleteLogin(r, t) \/ AcceptInvite(r, t) \/ Rotate(r, t)
<1>1. ASSUME NEW ended, Ends(ended) PROVE FALSE
  BY <1>1, EndsEffect
<1>2. ASSUME NEW v, NEW session, NEW ended, Issues(v, session, ended) PROVE v = t
  BY <1>2, IssuesEffect
<1>3. ASSUME NEW r \in Requests, NEW v \in Tokens,
             CompleteLogin(r, v) \/ AcceptInvite(r, v) \/ Rotate(r, v)
      PROVE  v = t
  BY <1>2, <1>3, TokenWrites
<1> QED BY <1>1, <1>3, Writes

-----------------------------------------------------------------------------
(* Codes and requests *)

\* A login that has started a session has used its code or skipped it, which
\* stays so, and an invitation that has was given before.
Spent == {"gone", "skipped"}

CodesGo ==
  /\ \A c \in Codes : code[c] \in Spent => code'[c] \in Spent
  /\ \A s \in Sources : starts'[s] = starts[s] \/ starts'[s] = starts[s] + 1
  /\ \A c \in Codes : starts'[c] # starts[c] => code'[c] \in Spent
  /\ \A n \in 1..MaxInvites : starts'[n] # starts[n] => n <= invited

LEMMA CodeStep ==
  ASSUME SessionsAssumption, TypeOK, Referring, [Next]_vars
  PROVE  /\ code' \in [Codes -> {"none", "sent", "gone", "skipped"}]
         /\ starts' \in [Sources -> Nat]
         /\ CodesGo
<1> DEFINE Goal == /\ code' \in [Codes -> {"none", "sent", "gone", "skipped"}]
                   /\ starts' \in [Sources -> Nat]
                   /\ CodesGo
<1> USE DEF TypeOK, Sources, Spent
<1>0. \A c \in Codes : c \notin 1..MaxInvites
  BY DEF SessionsAssumption
<1>1. ASSUME code' = code, starts' = starts PROVE Goal
  BY <1>1 DEF CodesGo
<1>2. ASSUME NEW c \in Codes, SendCode(c) \/ ExpireCode(c) PROVE Goal
  BY <1>2 DEF SendCode, PassesLogin, ExpireCode, CodesGo
<1>3. ASSUME NEW r \in Requests, TakeCode(r) PROVE Goal
  <2>1. request[r].code \in Codes
    BY <1>3 DEF TakeCode, Referring, Refers
  <2> QED BY <1>0, <1>3, <2>1 DEF TakeCode, CodesGo
<1>4. ASSUME NEW r \in Requests, NEW t \in Tokens, AcceptInvite(r, t) PROVE Goal
  <2>1. request[r].number \in 1..MaxInvites /\ request[r].number <= invited
    BY <1>4 DEF AcceptInvite, Referring, Refers
  <2> QED BY <1>0, <1>4, <2>1 DEF AcceptInvite, CodesGo
<1>8. ASSUME NEW r \in Requests, NEW c \in Codes, SkipCode(r, c) PROVE Goal
  BY <1>0, <1>8 DEF SkipCode, PassesLogin, CodesGo
<1> HIDE DEF Goal
<1>5. ASSUME NEW r \in Requests,
             \/ \E c \in Codes, replace \in BOOLEAN : ReadCode(r, c, replace)
             \/ ReplaceSessions(r) \/ ReadInvite(r) \/ EndRefused(r) \/ RevokeListed(r)
             \/ \E t \in Tokens : \/ CompleteLogin(r, t) \/ ReadToken(r, t) \/ Rotate(r, t)
                                  \/ DetectReuse(r, t) \/ Logout(r, t)
             \/ \E op \in {"reset", "deactivate"} : ListTokens(r, op)
             \/ \E new \in Statuses : SetStatus(r, new)
             \/ SetTenant(r)
      PROVE  Goal
  BY <1>1, <1>5
     DEF ReadCode, ReplaceSessions, ReadInvite, EndRefused, RevokeListed, CompleteLogin,
         ReadToken, Rotate, DetectReuse, Logout, ListTokens, SetStatus, SetTenant
<1>6. ASSUME UNCHANGED vars \/ Reactivate PROVE Goal
  BY <1>1, <1>6 DEF vars, Reactivate
<1>7. Goal
  BY <1>2, <1>3, <1>4, <1>5, <1>6, <1>8
     DEF Next, LoginRequest, InviteRequest, RefreshRequest, RevokeRequest
<1> QED BY <1>7 DEF Goal

\* What a request does to the user: nothing, or a status other than INVITED.
LEMMA RequestKeepsUser ==
  ASSUME TypeOK, NEW r \in Requests,
         LoginRequest(r) \/ InviteRequest(r) \/ RefreshRequest(r) \/ RevokeRequest(r)
  PROVE  /\ status' = status \/ status' \in {"ACTIVE", "INACTIVE"}
         /\ hasPassword' = hasPassword \/ hasPassword' = TRUE
         /\ invited' = invited /\ tenant' = tenant
<1> DEFINE Goal == /\ status' = status \/ status' \in {"ACTIVE", "INACTIVE"}
                   /\ hasPassword' = hasPassword \/ hasPassword' = TRUE
                   /\ invited' = invited /\ tenant' = tenant
<1>1. ASSUME LoginRequest(r) PROVE Goal
  BY <1>1 DEF LoginRequest, SkipCode, ReadCode, TakeCode, ReplaceSessions, CompleteLogin, userRow
<1>2. ASSUME InviteRequest(r) PROVE Goal
  BY <1>2 DEF InviteRequest, ReadInvite, AcceptInvite, userRow
<1>3. ASSUME RefreshRequest(r) PROVE Goal
  BY <1>3 DEF RefreshRequest, ReadToken, Rotate, DetectReuse, EndRefused, userRow
<1>4. ASSUME RevokeRequest(r) PROVE Goal
  BY <1>4 DEF RevokeRequest, ListTokens, RevokeListed, Logout, userRow
<1> QED BY <1>1, <1>2, <1>3, <1>4

LEMMA BreachStep ==
  ASSUME TypeOK, [Next]_vars
  PROVE  breach' \in BOOLEAN
<1>0. breach \in BOOLEAN
  BY DEF TypeOK
<1>1. ASSUME NEW r \in Requests, NEW t \in Tokens, Rotate(r, t) PROVE breach' \in BOOLEAN
  BY <1>1 DEF Rotate
<1>2. ASSUME breach' = breach PROVE breach' \in BOOLEAN
  BY <1>0, <1>2
<1>3. ASSUME NEW r \in Requests, LoginRequest(r) \/ InviteRequest(r) \/ RevokeRequest(r)
      PROVE  breach' = breach
  BY <1>3 DEF LoginRequest, InviteRequest, RevokeRequest, SkipCode, ReadCode, TakeCode,
              ReplaceSessions, CompleteLogin, ReadInvite, AcceptInvite, ListTokens,
              RevokeListed, Logout
<1>4. ASSUME NEW r \in Requests, RefreshRequest(r)
      PROVE  breach' = breach \/ \E t \in Tokens : Rotate(r, t)
  BY <1>4 DEF RefreshRequest, ReadToken, DetectReuse, EndRefused
<1>5. ASSUME \/ Reactivate \/ UNCHANGED vars
             \/ \E c \in Codes : SendCode(c) \/ ExpireCode(c)
             \/ \E r \in Requests : (\E new \in Statuses : SetStatus(r, new)) \/ SetTenant(r)
      PROVE  breach' = breach
  BY <1>5 DEF Reactivate, vars, SendCode, ExpireCode, SetStatus, SetTenant
<1> QED BY <1>1, <1>2, <1>3, <1>4, <1>5 DEF Next

LEMMA StatusStep ==
  ASSUME SessionsAssumption, TypeOK, [Next]_vars
  PROVE  /\ status' \in Statuses /\ hasPassword' \in BOOLEAN
         /\ tenant' \in {"ACTIVE", "SUSPENDED"}
         /\ invited' \in 0..MaxInvites /\ invited <= invited'
         /\ status' = "INVITED" => status = "INVITED" \/ invited' >= 1
<1> DEFINE Goal == /\ status' \in Statuses /\ hasPassword' \in BOOLEAN
                   /\ tenant' \in {"ACTIVE", "SUSPENDED"}
                   /\ invited' \in 0..MaxInvites /\ invited <= invited'
                   /\ status' = "INVITED" => status = "INVITED" \/ invited' >= 1
<1>0. /\ status \in Statuses /\ hasPassword \in BOOLEAN
      /\ tenant \in {"ACTIVE", "SUSPENDED"}
      /\ MaxInvites \in Nat /\ invited \in 0..MaxInvites
  BY DEF TypeOK, SessionsAssumption
<1>1. ASSUME Reactivate \/ UNCHANGED vars \/ \E c \in Codes : SendCode(c) \/ ExpireCode(c)
      PROVE  Goal
  BY <1>0, <1>1 DEF Reactivate, SendCode, ExpireCode, userRow, vars, Statuses
<1>2. ASSUME NEW r \in Requests,
             LoginRequest(r) \/ InviteRequest(r) \/ RefreshRequest(r) \/ RevokeRequest(r)
      PROVE  Goal
  <2>1. /\ status' = status \/ status' \in {"ACTIVE", "INACTIVE"}
        /\ hasPassword' = hasPassword \/ hasPassword' = TRUE
        /\ invited' = invited /\ tenant' = tenant
    BY <1>2, RequestKeepsUser
  <2>2. hasPassword' \in BOOLEAN
    BY <1>0, <2>1
  <2>3. /\ status' \in Statuses /\ tenant' \in {"ACTIVE", "SUSPENDED"}
        /\ status' = "INVITED" => status = "INVITED"
    BY <1>0, <2>1 DEF Statuses
  <2>4. invited' \in 0..MaxInvites /\ invited <= invited'
    BY <1>0, <2>1
  <2> QED BY <2>2, <2>3, <2>4
<1>3. ASSUME NEW r \in Requests, (\E new \in Statuses : SetStatus(r, new)) \/ SetTenant(r)
      PROVE  Goal
  BY <1>0, <1>3 DEF SetStatus, SetTenant, userRow
<1> HIDE DEF Goal
<1>4. Goal
  BY <1>1, <1>2, <1>3 DEF Next
<1> QED BY <1>4 DEF Goal

Starts(r, q) == request' = [request EXCEPT ![r] = q]

\* What a request has in hand after a step.
LEMMA RequestStep ==
  ASSUME SessionsAssumption, TypeOK, Referring, InviteGiven, [Next]_vars
  PROVE  \/ request' = request
         \/ \E r \in Requests : \E q : Starts(r, q) /\ Refers(q)'
<1> DEFINE Goal == \/ request' = request
                   \/ \E r \in Requests : \E q : Starts(r, q) /\ Refers(q)'
<1>0. \A t \in Tokens : token[t] # NoToken => token'[t] # NoToken
  BY TokenStep DEF TokenStays
<1>1. ASSUME NEW r \in Requests, NEW q, Starts(r, q), Refers(q)' PROVE Goal
  BY <1>1
<1>2. Refers(Idle)'
  BY DEF Refers, Idle
<1> HIDE DEF Goal
<1>3. ASSUME NEW r \in Requests,
             \/ EndRefused(r) \/ RevokeListed(r)
             \/ \E t \in Tokens : CompleteLogin(r, t) \/ AcceptInvite(r, t) \/ Rotate(r, t)
      PROVE  Goal
  <2>1. Starts(r, Idle)
    BY <1>3 DEF EndRefused, RevokeListed, CompleteLogin, AcceptInvite, Rotate, End, Starts
  <2> QED BY <1>1, <1>2, <2>1
<1>4. ASSUME NEW r \in Requests, NEW c \in Codes, NEW replace \in BOOLEAN,
             ReadCode(r, c, replace)
      PROVE  Goal
  <2>1. Starts(r, [op |-> "code", code |-> c, replace |-> replace])
    BY <1>4 DEF ReadCode, Begin, Starts
  <2>2. Refers([op |-> "code", code |-> c, replace |-> replace])'
    BY DEF Refers
  <2> QED BY <1>1, <2>1, <2>2
<1>5. ASSUME NEW r \in Requests, TakeCode(r) PROVE Goal
  <2>1. request[r].code \in Codes
    BY <1>5 DEF TakeCode, Referring, Refers
  <2>2. starts'[request[r].code] > 0
    BY <1>5, <2>1 DEF TakeCode, TypeOK, Sources
  <2>3. PICK q : q = [request[r] EXCEPT !.op = "login"]
    OBVIOUS
  <2>4. q.code = request[r].code /\ q.op = "login"
    BY <1>5, <2>3 DEF TakeCode
  <2>5. Refers(q)'
    BY <2>1, <2>2, <2>4 DEF Refers
  <2>6. Starts(r, Idle) \/ Starts(r, q)
    BY <1>5, <2>3 DEF TakeCode, End, Continue, Starts
  <2> QED BY <1>1, <1>2, <2>5, <2>6
<1>6. ASSUME NEW r \in Requests, ReplaceSessions(r) PROVE Goal
  <2>1. request[r].code \in Codes /\ starts[request[r].code] > 0 /\ starts' = starts
    BY <1>6 DEF ReplaceSessions, Referring, Refers
  <2>2. PICK q : q = [request[r] EXCEPT !.replace = FALSE]
    OBVIOUS
  <2>3. q.code = request[r].code /\ q.op = "login"
    BY <1>6, <2>2 DEF ReplaceSessions
  <2>4. Refers(q)'
    BY <2>1, <2>3 DEF Refers
  <2>5. Starts(r, q)
    BY <1>6, <2>2 DEF ReplaceSessions, Continue, Starts
  <2> QED BY <1>1, <2>4, <2>5
<1>7. ASSUME NEW r \in Requests, ReadInvite(r) PROVE Goal
  <2>0. PICK q : q = [op |-> "invite", number |-> invited]
    OBVIOUS
  <2>1. Starts(r, q)
    BY <1>7, <2>0 DEF ReadInvite, Begin, Starts
  <2>2. invited \in 1..MaxInvites /\ invited' = invited
    BY <1>7 DEF ReadInvite, userRow, TypeOK, InviteGiven, SessionsAssumption
  <2>3. Refers(q)'
    BY <2>0, <2>2 DEF Refers
  <2> QED BY <1>1, <2>1, <2>3
<1>8. ASSUME NEW r \in Requests, NEW t \in Tokens, ReadToken(r, t) PROVE Goal
  <2>0. PICK q : q = [op |-> "refresh", token |-> t, ok |-> status # "INACTIVE" /\ ~Refused]
    OBVIOUS
  <2>1. Starts(r, q)
    BY <1>8, <2>0 DEF ReadToken, Begin, Starts
  <2>2. token'[t] # NoToken
    BY <1>0, <1>8, LiveTokens DEF ReadToken
  <2>3. Refers(q)'
    BY <2>0, <2>2 DEF Refers
  <2> QED BY <1>1, <2>1, <2>3
<1>9. ASSUME NEW r \in Requests, NEW op \in {"reset", "deactivate"}, ListTokens(r, op)
      PROVE  Goal
  <2>1. PICK q : q = [op |-> op, tokens |-> Live]
    OBVIOUS
  <2>2. Starts(r, q)
    BY <1>9, <2>1 DEF ListTokens, Begin, Starts
  <2>3. \A t \in Live : t \in Tokens /\ token'[t] # NoToken
    BY <1>0, LiveTokens
  <2>4. Refers(q)'
    BY <2>1, <2>3 DEF Refers
  <2> QED BY <1>1, <2>2, <2>4
<1>10. ASSUME \/ UNCHANGED vars \/ Reactivate
              \/ \E c \in Codes : SendCode(c) \/ ExpireCode(c)
              \/ \E r \in Requests : \/ \E t \in Tokens : DetectReuse(r, t) \/ Logout(r, t)
                                     \/ \E new \in Statuses : SetStatus(r, new)
                                     \/ SetTenant(r)
       PROVE  Goal
  BY <1>10 DEF vars, Reactivate, SendCode, ExpireCode, DetectReuse, Logout, SetStatus,
               SetTenant, Goal
<1>12. ASSUME NEW r \in Requests, NEW c \in Codes, SkipCode(r, c) PROVE Goal
  <2>1. Starts(r, [op |-> "login", code |-> c, replace |-> FALSE])
    BY <1>12 DEF SkipCode, Begin, Starts
  <2>2. starts'[c] > 0
    BY <1>12 DEF SkipCode, TypeOK, Sources
  <2>3. Refers([op |-> "login", code |-> c, replace |-> FALSE])'
    BY <2>2 DEF Refers
  <2> QED BY <1>1, <2>1, <2>3
<1>11. Goal
  BY <1>3, <1>4, <1>5, <1>6, <1>7, <1>8, <1>9, <1>10, <1>12
     DEF Next, LoginRequest, InviteRequest, RefreshRequest, RevokeRequest
<1> QED BY <1>11 DEF Goal

LEMMA ReferringStep ==
  ASSUME SessionsAssumption, TypeOK, Referring, InviteGiven, [Next]_vars
  PROVE  Referring'
<1>1. \A t \in Tokens : token[t] # NoToken => token'[t] # NoToken
  BY TokenStep DEF TokenStays
<1>2. \A s \in Sources : starts[s] > 0 => starts'[s] > 0
  BY CodeStep DEF CodesGo, TypeOK
<1>6. \A n \in 1..MaxInvites : n <= invited => n <= invited'
  BY StatusStep DEF TypeOK, SessionsAssumption
<1>3. ASSUME NEW q, Refers(q) PROVE Refers(q)'
  BY <1>1, <1>2, <1>3, <1>6 DEF Refers, Sources
<1>4. CASE request' = request
  BY <1>3, <1>4 DEF Referring
<1>5. ASSUME NEW r \in Requests, NEW q, Starts(r, q), Refers(q)' PROVE Referring'
  BY <1>3, <1>5 DEF Referring, Starts
<1> QED BY <1>4, <1>5, RequestStep

-----------------------------------------------------------------------------
(* Sessions are started *)

LEMMA StartedStep ==
  ASSUME SessionsAssumption, LoginInv, [Next]_vars
  PROVE  SessionsAreStarted'
<1>1. TypeOK /\ Referring /\ SessionsAreStarted /\ CodesGo /\ Referring'
  BY CodeStep, ReferringStep DEF LoginInv
<1>2. \A s \in Sources : starts[s] > 0 => starts'[s] > 0
  BY <1>1 DEF CodesGo, TypeOK
<1>3. \A c \in Codes : starts'[c] > 0 => code'[c] \in Spent
  BY <1>1 DEF CodesGo, SessionsAreStarted, Spent
<1>5. \A n \in 1..MaxInvites : starts'[n] > 0 => n <= invited'
  <2>1. \A n \in 1..MaxInvites : n <= invited => n <= invited'
    BY <1>1, StatusStep DEF TypeOK, SessionsAssumption
  <2> QED BY <1>1, <2>1 DEF CodesGo, SessionsAreStarted
<1>4. ASSUME NEW t \in Tokens, token'[t] # NoToken PROVE starts'[token'[t].session] > 0
  <2>1. CASE token[t] # NoToken
    <3>1. token'[t].session = token[t].session /\ token[t].session \in Sources
      BY <1>1, <2>1, TokenStep DEF TokenStays, TypeOK
    <3> QED BY <1>1, <1>2, <2>1, <3>1 DEF SessionsAreStarted
  <2>2. CASE token[t] = NoToken
    <3>1. PICK r \in Requests :
            CompleteLogin(r, t) \/ AcceptInvite(r, t) \/ Rotate(r, t)
      BY <1>1, <1>4, <2>2, NewToken
    <3>2. CASE CompleteLogin(r, t)
      <4>1. token'[t].session = request[r].code
        BY <1>1, <3>2, TokenWrites, IssuesEffect
      <4>2. request[r].op = "login"
        BY <3>2 DEF CompleteLogin
      <4>3. Refers(request[r])
        BY <1>1 DEF Referring
      <4>4. request[r].code \in Sources /\ starts[request[r].code] > 0
        BY <4>2, <4>3 DEF Refers, Sources
      <4> QED BY <1>2, <4>1, <4>4
    <3>3. CASE AcceptInvite(r, t)
      <4>1. token'[t].session = request[r].number
        BY <1>1, <3>3, TokenWrites, IssuesEffect
      <4>2. request[r].number \in Sources
        BY <1>1, <3>3 DEF AcceptInvite, Referring, Refers, Sources
      <4>3. starts'[request[r].number] > 0
        BY <1>1, <3>3, <4>2 DEF AcceptInvite, TypeOK
      <4> QED BY <4>1, <4>3
    <3>4. CASE Rotate(r, t)
      <4>0. Issues(t, token[request[r].token].session, {request[r].token})
        BY <1>1, <3>4, TokenWrites
      <4>1. token'[t].session = token[request[r].token].session
        BY <1>1, <4>0, IssuesEffect
      <4>2. request[r].token \in Tokens /\ token[request[r].token] # NoToken
        BY <1>1, <3>4 DEF Rotate, Referring, Refers
      <4>3. token[request[r].token].session \in Sources
        BY <1>1, <4>2 DEF TypeOK
      <4> QED BY <1>1, <1>2, <4>1, <4>2, <4>3 DEF SessionsAreStarted
    <3> QED BY <3>1, <3>2, <3>3, <3>4
  <2> QED BY <2>1, <2>2
<1> QED BY <1>3, <1>4, <1>5 DEF SessionsAreStarted, Spent

LEMMA LoginStep ==
  ASSUME SessionsAssumption, LoginInv, [Next]_vars
  PROVE  LoginInv'
<1>1. TypeOK'
  BY TokenStep, CodeStep, StatusStep, BreachStep DEF LoginInv, TypeOK, Token
<1>2. InviteGiven'
  BY StatusStep DEF LoginInv, InviteGiven, TypeOK, SessionsAssumption
<1> QED BY <1>1, <1>2, ReferringStep, StartedStep DEF LoginInv

LEMMA LoginStart == ASSUME SessionsAssumption PROVE Init => LoginInv
<1> SUFFICES ASSUME Init PROVE LoginInv
  OBVIOUS
<1>0. starts \in [Sources -> Nat] /\ \A s \in Sources : starts[s] = 0
  BY DEF Init
<1>1. TypeOK
  <2>1. hasPassword \in BOOLEAN /\ breach \in BOOLEAN
    BY DEF Init
  <2>2. invited \in 0..MaxInvites
    BY DEF Init, SessionsAssumption
  <2>3. code \in [Codes -> {"none", "sent", "gone", "skipped"}]
    BY DEF Init
  <2> QED BY <1>0, <2>1, <2>2, <2>3 DEF Init, TypeOK, Statuses
<1>4. InviteGiven
  BY DEF Init, InviteGiven
<1>2. SessionsAreStarted
  BY <1>0 DEF Init, SessionsAreStarted, Sources
<1>3. Referring
  BY DEF Init, Referring, Refers, Idle
<1> QED BY <1>1, <1>2, <1>3, <1>4 DEF LoginInv

LEMMA LoginInvariance == ASSUME SessionsAssumption PROVE Spec => []LoginInv
  BY LoginStart, LoginStep, PTL DEF Spec

\* A refresh that ends leaves its token ended.
LEMMA RefreshEnds ==
  ASSUME SessionsAssumption, LoginInv, [Next]_vars, NEW r \in Requests,
         request[r].op = "refresh", request'[r] = Idle
  PROVE  ~token'[request[r].token].live
<1> DEFINE Goal == ~token'[request[r].token].live
<1>0. TypeOK /\ Referring
  BY DEF LoginInv
<1>1. request[r].token \in Tokens /\ token[request[r].token] # NoToken
  BY <1>0 DEF Referring, Refers
<1>2. CASE EndRefused(r)
  BY <1>0, <1>1, <1>2, TokenWrites, EndsEffect
<1>3. ASSUME NEW t \in Tokens, Rotate(r, t) PROVE Goal
  <2> DEFINE old == request[r].token
  <2>1. Issues(t, token[old].session, {old})
    BY <1>0, <1>3, TokenWrites
  <2>2. \A v \in Tokens \ {t} : v \in {old} => ~token'[v].live
    BY <1>0, <2>1, IssuesEffect
  <2>3. token[t] = NoToken
    BY <2>1 DEF Issues, Unused
  <2> QED BY <1>1, <2>2, <2>3
<1> HIDE DEF Goal
<1>4. ASSUME request'[r] = request[r] PROVE FALSE
  BY <1>4 DEF Idle
<1>5. ASSUME NEW q \in Requests,
             \/ LoginRequest(q) \/ InviteRequest(q) \/ RefreshRequest(q) \/ RevokeRequest(q)
             \/ \E new \in Statuses : SetStatus(q, new)
             \/ SetTenant(q)
      PROVE  Goal
  <2>1. CASE q # r
    <3>1. request'[r] = request[r]
      BY <1>0, <1>5, <2>1
         DEF LoginRequest, InviteRequest, RefreshRequest, RevokeRequest, SkipCode, ReadCode,
             TakeCode, ReplaceSessions, CompleteLogin, ReadInvite, AcceptInvite, ReadToken,
             Rotate, DetectReuse, EndRefused, ListTokens, RevokeListed, Logout, SetStatus,
             SetTenant, Begin, Continue, End, Referring
    <3> QED BY <1>4, <3>1
  <2>2. CASE q = r
    <3>1. ~LoginRequest(r) /\ ~InviteRequest(r)
      BY DEF LoginRequest, InviteRequest, SkipCode, ReadCode, TakeCode, ReplaceSessions,
             CompleteLogin, ReadInvite, AcceptInvite, Begin, Idle
    <3>0. request[r] # Idle
      BY DEF Idle
    <3>2. ~RevokeRequest(r) /\ ~(\E new \in Statuses : SetStatus(r, new)) /\ ~SetTenant(r)
      BY <3>0 DEF RevokeRequest, ListTokens, RevokeListed, Logout, SetStatus, SetTenant, Begin
    <3>3. \A t \in Tokens : ~ReadToken(r, t) /\ ~DetectReuse(r, t)
      BY DEF ReadToken, DetectReuse, Begin, Idle
    <3> QED BY <1>2, <1>3, <1>5, <2>2, <3>1, <3>2, <3>3 DEF RefreshRequest, Goal
  <2> QED BY <2>1, <2>2
<1>6. ASSUME UNCHANGED vars \/ Reactivate \/ \E c \in Codes : SendCode(c) \/ ExpireCode(c)
      PROVE  Goal
  BY <1>4, <1>6 DEF vars, Reactivate, SendCode, ExpireCode
<1>7. Goal
  BY <1>5, <1>6 DEF Next
<1> QED BY <1>7 DEF Goal

-----------------------------------------------------------------------------
(* One request at a time *)

\* What a request has read is still so when it goes on.
Current(q) ==
  /\ q.op = "code" => starts[q.code] = 0
  /\ q.op = "login" => \A t \in Tokens : token[t] # NoToken => token[t].session # q.code
  /\ q.op = "invite" => starts[q.number] = 0
  /\ q.op = "refresh" =>
       /\ token[q.token].live
       /\ q.ok \in BOOLEAN
       /\ q.ok => status # "INACTIVE" /\ ~Refused
  /\ q.op \in {"reset", "deactivate"} => Live \subseteq q.tokens

InviteUnused == status = "INVITED" => starts[invited] = 0

SerialInv ==
  /\ \A r \in Requests : Current(request[r])
  /\ InviteUnused
  /\ OneLivePerSession /\ StartedOnce /\ DeactivationIsHonoured

\* Tokens that end keep sessions apart, and so does one that takes the place of
\* a live one.
LEMMA SessionsStayApart ==
  ASSUME SessionsAssumption, TypeOK, OneLivePerSession,
         \/ token' = token
         \/ \E ended : Ends(ended)
         \/ \E t, session, ended :
              /\ Issues(t, session, ended)
              /\ \A v \in Live \ ended : token[v].session # session
  PROVE  OneLivePerSession'
<1>1. ASSUME \A t \in Tokens : token'[t] # NoToken /\ token'[t].live =>
                token[t] # NoToken /\ TokenStays(t)
      PROVE  OneLivePerSession'
  BY <1>1 DEF OneLivePerSession, Live, TokenStays
<1>2. CASE token' = token
  BY <1>2 DEF OneLivePerSession, Live
<1>3. ASSUME NEW ended, Ends(ended) PROVE OneLivePerSession'
  BY <1>1, <1>3, EndsEffect
<1>4. ASSUME NEW t, NEW session, NEW ended, Issues(t, session, ended),
             \A v \in Live \ ended : token[v].session # session
      PROVE  OneLivePerSession'
  <2>1. token'[t].session = session /\ t \in Tokens /\ token[t] = NoToken
    BY <1>4, IssuesEffect
  <2>2. ASSUME NEW v \in Tokens \ {t}, token'[v] # NoToken, token'[v].live
        PROVE  v \in Live \ ended /\ token'[v].session = token[v].session
    BY <1>4, <2>2, IssuesEffect DEF TokenStays, Live
  <2> QED BY <1>4, <2>1, <2>2 DEF OneLivePerSession, Live
<1> QED BY <1>2, <1>3, <1>4

\* A step of the only request: the others have none.
Serially == OneSlot /\ LoginInv /\ SerialInv

LEMMA SerialLogin ==
  ASSUME SessionsAssumption, Serially, NEW r \in Requests, LoginRequest(r)
  PROVE  SerialInv'
<1>0. /\ TypeOK /\ Referring /\ SessionsAreStarted /\ OneSlot /\ InviteGiven
      /\ OneLivePerSession /\ StartedOnce /\ DeactivationIsHonoured
      /\ Current(request[r]) /\ Refers(request[r])
      /\ InviteUnused
  BY DEF Serially, LoginInv, SerialInv, Referring
<1>1. ASSUME NEW c \in Codes, NEW replace \in BOOLEAN, ReadCode(r, c, replace)
      PROVE  SerialInv'
  <2>1. starts[c] = 0
    <3>1. c \in Sources /\ starts[c] \in Nat
      BY <1>0 DEF TypeOK, Sources
    <3> QED BY <1>0, <1>1, <3>1 DEF ReadCode, SessionsAreStarted
  <2>2. \A q \in Requests : request'[q] = [op |-> "code", code |-> c, replace |-> replace]
    BY <1>0, <1>1 DEF ReadCode, Begin, OneSlot, Referring
  <2>3. \A q \in Requests : Current(request[q])'
    BY <1>1, <2>1, <2>2 DEF Current, ReadCode
  <2> QED BY <1>0, <1>1, <2>3
         DEF ReadCode, SerialInv, OneLivePerSession, StartedOnce, DeactivationIsHonoured, Live,
             InviteUnused, userRow
<1>2. ASSUME TakeCode(r) PROVE SerialInv'
  <2> DEFINE c == request[r].code
  <2>1. c \in Codes /\ c \in Sources /\ c \notin Nat /\ starts[c] = 0
    BY <1>0, <1>2 DEF TakeCode, Refers, Current, Sources, SessionsAssumption
  <2>2. \A t \in Tokens : token[t] # NoToken => token[t].session # c
    BY <1>0, <2>1 DEF SessionsAreStarted
  <2>3. \A q \in Requests : /\ request'[q].op \in {"idle", "login"}
                            /\ request'[q].op = "login" => request'[q].code = c
    <3>1. CASE End(r)
      BY <1>0, <3>1 DEF End, Idle, OneSlot, Referring
    <3>2. CASE Continue(r, [request[r] EXCEPT !.op = "login"])
      <4>1. request'[r] = [request[r] EXCEPT !.op = "login"]
        BY <1>0, <3>2 DEF Continue, Referring
      <4>2. request[r].op = "code"
        BY <1>2 DEF TakeCode
      <4>3. request'[r].op = "login" /\ request'[r].code = c
        BY <4>1, <4>2
      <4> QED BY <1>0, <4>3 DEF OneSlot
    <3> QED BY <1>2, <3>1, <3>2 DEF TakeCode
  <2>4. token' = token
    BY <1>2 DEF TakeCode
  <2> HIDE DEF c
  <2>5. \A q \in Requests : Current(request[q])'
    BY <2>2, <2>3, <2>4 DEF Current
  <2>6. StartedOnce'
    BY <1>0, <1>2, <2>1 DEF TakeCode, StartedOnce, TypeOK, Sources, c
  <2>7. InviteUnused'
    <3>1. /\ status' = "INVITED" => status = "INVITED"
          /\ invited' = invited
      BY <1>2 DEF TakeCode, userRow
    <3>2. status = "INVITED" => starts'[invited] = starts[invited]
      BY <1>0, <1>2, <2>1 DEF TakeCode, TypeOK, Sources, InviteGiven, SessionsAssumption, c
    <3> QED BY <1>0, <3>1, <3>2 DEF InviteUnused
  <2>8. OneLivePerSession' /\ DeactivationIsHonoured'
    BY <1>0, <1>2 DEF TakeCode, OneLivePerSession, DeactivationIsHonoured, Live
  <2> QED BY <1>0, <2>5, <2>6, <2>7, <2>8 DEF SerialInv
<1>3. ASSUME ReplaceSessions(r) PROVE SerialInv'
  <2>1. Ends(Live)
    BY <1>0, <1>3, TokenWrites
  <2>2. OneLivePerSession'
    BY <1>0, <2>1, SessionsStayApart
  <2>3. \A t \in Tokens : /\ token[t] = NoToken => token'[t] = NoToken
                          /\ token[t] # NoToken => TokenStays(t)
    BY <1>0, <2>1, EndsEffect
  <2>4. request[r].op = "login" /\ request'[r] = [request[r] EXCEPT !.replace = FALSE]
    BY <1>0, <1>3 DEF ReplaceSessions, Continue, Referring
  <2>5. request'[r].op = "login" /\ request'[r].code = request[r].code
    BY <2>4
  <2>6. \A t \in Tokens : token'[t] # NoToken => token'[t].session # request'[r].code
    BY <1>0, <2>3, <2>4, <2>5 DEF Current, TokenStays
  <2>7. \A q \in Requests : Current(request[q])'
    BY <1>0, <2>5, <2>6 DEF Current, OneSlot
  <2> QED BY <1>0, <1>3, <2>2, <2>7
         DEF ReplaceSessions, SerialInv, StartedOnce, DeactivationIsHonoured, InviteUnused,
             userRow
<1>4. ASSUME NEW t \in Tokens, CompleteLogin(r, t) PROVE SerialInv'
  <2>1. Issues(t, request[r].code, {})
    BY <1>0, <1>4, TokenWrites
  <2>2. \A v \in Live : token[v].session # request[r].code
    BY <1>0, <1>4, LiveTokens DEF CompleteLogin, Current
  <2>3. OneLivePerSession'
    BY <1>0, <2>1, <2>2, SessionsStayApart
  <2>4. \A q \in Requests : request'[q].op = "idle"
    BY <1>0, <1>4 DEF CompleteLogin, End, Idle, OneSlot, Referring
  <2>5. \A q \in Requests : Current(request[q])'
    BY <2>4 DEF Current
  <2> QED BY <1>0, <1>4, <2>3, <2>5
         DEF CompleteLogin, SerialInv, StartedOnce, DeactivationIsHonoured, InviteUnused,
             userRow
<1>5. ASSUME NEW c \in Codes, SkipCode(r, c) PROVE SerialInv'
  <2>1. c \in Sources /\ c \notin Nat /\ starts[c] = 0
    <3>1. c \in Sources /\ c \notin Nat /\ starts[c] \in Nat
      BY <1>0 DEF TypeOK, Sources, SessionsAssumption
    <3>2. code[c] = "none"
      BY <1>5 DEF SkipCode, PassesLogin
    <3> QED BY <1>0, <3>1, <3>2 DEF SessionsAreStarted
  <2>2. \A t \in Tokens : token[t] # NoToken => token[t].session # c
    BY <1>0, <2>1 DEF SessionsAreStarted
  <2>3. \A q \in Requests : request'[q] = [op |-> "login", code |-> c, replace |-> FALSE]
    BY <1>0, <1>5 DEF SkipCode, Begin, OneSlot, Referring
  <2>4. \A q \in Requests : Current(request[q])'
    BY <1>5, <2>2, <2>3 DEF Current, SkipCode
  <2>5. StartedOnce'
    BY <1>0, <1>5, <2>1 DEF SkipCode, StartedOnce, TypeOK, Sources
  <2>6. InviteUnused'
    <3>1. status = "INVITED" => starts'[invited] = starts[invited]
      BY <1>0, <1>5, <2>1 DEF SkipCode, TypeOK, Sources, InviteGiven, SessionsAssumption
    <3> QED BY <1>0, <1>5, <3>1 DEF SkipCode, InviteUnused, userRow
  <2>7. OneLivePerSession' /\ DeactivationIsHonoured'
    BY <1>0, <1>5 DEF SkipCode, OneLivePerSession, DeactivationIsHonoured, Live
  <2> QED BY <2>4, <2>5, <2>6, <2>7 DEF SerialInv
<1> QED BY <1>1, <1>2, <1>3, <1>4, <1>5 DEF LoginRequest

LEMMA SerialInvite ==
  ASSUME SessionsAssumption, Serially, NEW r \in Requests, InviteRequest(r)
  PROVE  SerialInv'
<1>0. /\ TypeOK /\ Referring /\ SessionsAreStarted /\ OneSlot /\ InviteGiven
      /\ OneLivePerSession /\ StartedOnce /\ DeactivationIsHonoured
      /\ Current(request[r]) /\ Refers(request[r])
      /\ InviteUnused
  BY DEF Serially, LoginInv, SerialInv, Referring
<1>1. ASSUME ReadInvite(r) PROVE SerialInv'
  <2>1. \A q \in Requests : request'[q] = [op |-> "invite", number |-> invited]
    BY <1>0, <1>1 DEF ReadInvite, Begin, OneSlot, Referring
  <2>2. \A q \in Requests : Current(request[q])'
    BY <1>0, <1>1, <2>1 DEF Current, ReadInvite, InviteUnused
  <2> QED BY <1>0, <1>1, <2>2
         DEF ReadInvite, SerialInv, OneLivePerSession, StartedOnce, DeactivationIsHonoured, Live,
             InviteUnused, userRow
<1>2. ASSUME NEW t \in Tokens, AcceptInvite(r, t) PROVE SerialInv'
  <2> DEFINE n == request[r].number
  <2>1. Issues(t, n, {})
    BY <1>0, <1>2, TokenWrites
  <2>2. n \in Sources /\ starts[n] = 0
    BY <1>0, <1>2 DEF AcceptInvite, Current, Refers, Sources
  <2>3. \A v \in Live : token[v].session # n
    BY <1>0, <2>2, LiveTokens DEF SessionsAreStarted
  <2>4. OneLivePerSession'
    BY <1>0, <2>1, <2>3, SessionsStayApart
  <2>5. \A q \in Requests : request'[q].op = "idle"
    BY <1>0, <1>2 DEF AcceptInvite, End, Idle, OneSlot, Referring
  <2>6. \A q \in Requests : Current(request[q])'
    BY <2>5 DEF Current
  <2>7. StartedOnce'
    BY <1>0, <1>2, <2>2 DEF AcceptInvite, StartedOnce, TypeOK, Sources
  <2> QED BY <1>0, <1>2, <2>4, <2>6, <2>7
         DEF AcceptInvite, SerialInv, DeactivationIsHonoured, InviteUnused
<1> QED BY <1>1, <1>2 DEF InviteRequest

LEMMA SerialRefresh ==
  ASSUME SessionsAssumption, Serially, NEW r \in Requests, RefreshRequest(r)
  PROVE  SerialInv'
<1>0. /\ TypeOK /\ Referring /\ OneSlot
      /\ OneLivePerSession /\ StartedOnce /\ DeactivationIsHonoured
      /\ Current(request[r]) /\ Refers(request[r])
      /\ InviteUnused
  BY DEF Serially, LoginInv, SerialInv, Referring
<1>1. ASSUME NEW t \in Tokens, ReadToken(r, t) PROVE SerialInv'
  <2>1. /\ request'[r].op = "refresh" /\ request'[r].token = t
        /\ request'[r].ok = (status # "INACTIVE" /\ ~Refused)
    BY <1>0, <1>1 DEF ReadToken, Begin, Referring
  <2>2. (status # "INACTIVE" /\ ~Refused) \in BOOLEAN
    OBVIOUS
  <2>3. token'[t].live
    BY <1>1 DEF ReadToken, Live
  <2>4. Current(request[r])'
    BY <1>1, <2>1, <2>2, <2>3 DEF Current, ReadToken, Refused, userRow
  <2>5. \A q \in Requests : Current(request[q])'
    BY <1>0, <2>4 DEF OneSlot
  <2> QED BY <1>0, <1>1, <2>5
         DEF ReadToken, SerialInv, OneLivePerSession, StartedOnce, DeactivationIsHonoured, Live,
             InviteUnused, userRow
<1>2. ASSUME NEW t \in Tokens, Rotate(r, t) PROVE SerialInv'
  <2> DEFINE old == request[r].token
  <2>1. Issues(t, token[old].session, {old})
    BY <1>0, <1>2, TokenWrites
  <2>2. old \in Live
    BY <1>0, <1>2 DEF Rotate, Current, Refers, Live
  <2>3. \A v \in Live \ {old} : token[v].session # token[old].session
    BY <1>0, <2>2 DEF OneLivePerSession
  <2>4. OneLivePerSession'
    BY <1>0, <2>1, <2>3, SessionsStayApart
  <2>5. \A q \in Requests : request'[q].op = "idle"
    BY <1>0, <1>2 DEF Rotate, End, Idle, OneSlot, Referring
  <2>6. \A q \in Requests : Current(request[q])'
    BY <2>5 DEF Current
  <2>7. DeactivationIsHonoured'
    BY <1>0, <1>2 DEF Rotate, Current, DeactivationIsHonoured
  <2> QED BY <1>0, <1>2, <2>4, <2>6, <2>7
         DEF Rotate, SerialInv, StartedOnce, InviteUnused, userRow
<1>3. ASSUME NEW t \in Tokens, DetectReuse(r, t) PROVE SerialInv'
  <2>1. Ends(Live)
    BY <1>0, <1>3, TokenWrites
  <2>2. OneLivePerSession'
    BY <1>0, <2>1, SessionsStayApart
  <2>3. \A q \in Requests : request'[q].op = "idle"
    BY <1>0, <1>3 DEF DetectReuse, Idle, OneSlot
  <2>4. \A q \in Requests : Current(request[q])'
    BY <2>3 DEF Current
  <2> QED BY <1>0, <1>3, <2>2, <2>4
         DEF DetectReuse, SerialInv, StartedOnce, DeactivationIsHonoured, InviteUnused, userRow
<1>4. ASSUME EndRefused(r) PROVE SerialInv'
  <2>1. Ends({request[r].token})
    BY <1>0, <1>4, TokenWrites
  <2>2. OneLivePerSession'
    BY <1>0, <2>1, SessionsStayApart
  <2>3. \A q \in Requests : request'[q].op = "idle"
    BY <1>0, <1>4 DEF EndRefused, End, Idle, OneSlot, Referring
  <2>4. \A q \in Requests : Current(request[q])'
    BY <2>3 DEF Current
  <2> QED BY <1>0, <1>4, <2>2, <2>4
         DEF EndRefused, SerialInv, StartedOnce, DeactivationIsHonoured, InviteUnused, userRow
<1> QED BY <1>1, <1>2, <1>3, <1>4 DEF RefreshRequest

LEMMA SerialRevoke ==
  ASSUME SessionsAssumption, Serially, NEW r \in Requests, RevokeRequest(r)
  PROVE  SerialInv'
<1>0. /\ TypeOK /\ Referring /\ OneSlot
      /\ OneLivePerSession /\ StartedOnce /\ DeactivationIsHonoured
      /\ InviteUnused
  BY DEF Serially, LoginInv, SerialInv
<1>1. ASSUME NEW op \in {"reset", "deactivate"}, ListTokens(r, op) PROVE SerialInv'
  <2>1. \A q \in Requests : request'[q] = [op |-> op, tokens |-> Live]
    BY <1>0, <1>1 DEF ListTokens, Begin, OneSlot, Referring
  <2>2. Live' = Live
    BY <1>1 DEF ListTokens, Live
  <2>3. \A q \in Requests : Current(request[q])'
    BY <2>1, <2>2 DEF Current
  <2> QED BY <1>0, <1>1, <2>2, <2>3
         DEF ListTokens, SerialInv, OneLivePerSession, StartedOnce, DeactivationIsHonoured,
             InviteUnused, userRow
<1>2. ASSUME RevokeListed(r) PROVE SerialInv'
  <2>1. Ends(request[r].tokens)
    BY <1>0, <1>2, TokenWrites
  <2>2. OneLivePerSession'
    BY <1>0, <2>1, SessionsStayApart
  <2>3. \A q \in Requests : request'[q].op = "idle"
    BY <1>0, <1>2 DEF RevokeListed, End, Idle, OneSlot, Referring
  <2>4. \A q \in Requests : Current(request[q])'
    BY <2>3 DEF Current
  <2> QED BY <1>0, <1>2, <2>2, <2>4
         DEF RevokeListed, SerialInv, StartedOnce, DeactivationIsHonoured, InviteUnused
<1>3. ASSUME NEW t \in Tokens, Logout(r, t) PROVE SerialInv'
  <2>1. Ends({t})
    BY <1>0, <1>3, TokenWrites
  <2>2. OneLivePerSession'
    BY <1>0, <2>1, SessionsStayApart
  <2>3. \A q \in Requests : request'[q].op = "idle"
    BY <1>0, <1>3 DEF Logout, Idle, OneSlot
  <2>4. \A q \in Requests : Current(request[q])'
    BY <2>3 DEF Current
  <2> QED BY <1>0, <1>3, <2>2, <2>4
         DEF Logout, SerialInv, StartedOnce, DeactivationIsHonoured, InviteUnused, userRow
<1> QED BY <1>1, <1>2, <1>3 DEF RevokeRequest

\* Codes come and go, the user and the tenant change, next to a request.
LEMMA SerialOther ==
  ASSUME SessionsAssumption, Serially,
         \/ Reactivate
         \/ \E c \in Codes : SendCode(c) \/ ExpireCode(c)
         \/ \E r \in Requests : (\E new \in Statuses : SetStatus(r, new)) \/ SetTenant(r)
         \/ UNCHANGED vars
  PROVE  SerialInv'
<1>0. /\ TypeOK /\ SessionsAreStarted
      /\ OneSlot /\ OneLivePerSession /\ StartedOnce /\ DeactivationIsHonoured
      /\ \A q \in Requests : Current(request[q])
      /\ InviteUnused
  BY DEF Serially, LoginInv, SerialInv
<1>1. UNCHANGED <<token, starts, breach, request>>
  BY DEF Reactivate, SendCode, ExpireCode, SetStatus, SetTenant, vars
<1>2. OneLivePerSession' /\ StartedOnce' /\ DeactivationIsHonoured' /\ Live' = Live
  BY <1>0, <1>1 DEF OneLivePerSession, StartedOnce, DeactivationIsHonoured, Live
<1>3. InviteUnused'
  <2>1. \/ status' = "INVITED" => status = "INVITED" /\ invited' = invited
        \/ invited < MaxInvites /\ invited' = invited + 1
    BY DEF Reactivate, SendCode, ExpireCode, SetStatus, SetTenant, vars, userRow
  <2>2. CASE invited < MaxInvites /\ invited' = invited + 1
    <3>1. invited' \in 1..MaxInvites /\ ~(invited' <= invited)
      BY <1>0, <2>2 DEF TypeOK, SessionsAssumption
    <3>2. starts[invited'] \in Nat /\ ~(starts[invited'] > 0)
      BY <1>0, <3>1 DEF TypeOK, SessionsAreStarted, Sources
    <3> QED BY <1>1, <3>2 DEF InviteUnused
  <2> QED BY <1>0, <1>1, <2>1, <2>2 DEF InviteUnused
<1>4. ASSUME NEW q \in Requests PROVE Current(request[q])'
  <2>1. request[q].op = "refresh" /\ status # "INACTIVE" /\ ~Refused
          => status' # "INACTIVE" /\ ~Refused'
    BY <1>0 DEF Reactivate, SendCode, ExpireCode, SetStatus, SetTenant, vars, userRow, OneSlot,
                Idle, Refused
  <2> QED BY <1>0, <1>1, <1>2, <2>1 DEF Current
<1> QED BY <1>1, <1>2, <1>3, <1>4 DEF SerialInv

LEMMA SerialStep ==
  ASSUME SessionsAssumption, Serially, [Next]_vars
  PROVE  SerialInv'
<1>1. ASSUME NEW r \in Requests,
             LoginRequest(r) \/ InviteRequest(r) \/ RefreshRequest(r) \/ RevokeRequest(r)
      PROVE  SerialInv'
  BY <1>1, SerialLogin, SerialInvite, SerialRefresh, SerialRevoke
<1> QED BY <1>1, SerialOther DEF Next

LEMMA SerialStart == ASSUME SessionsAssumption PROVE Init => SerialInv
<1> SUFFICES ASSUME Init PROVE SerialInv
  OBVIOUS
<1>1. \A s \in Sources : starts[s] = 0
  BY DEF Init
<1>2. \A r \in Requests : request[r].op = "idle"
  BY DEF Init, Idle
<1>3. \A r \in Requests : Current(request[r])
  BY <1>2 DEF Current
<1>4. InviteUnused /\ StartedOnce
  BY <1>1 DEF Init, InviteUnused, StartedOnce, Sources, SessionsAssumption
<1>5. OneLivePerSession /\ DeactivationIsHonoured
  BY DEF Init, OneLivePerSession, Live, DeactivationIsHonoured
<1> QED BY <1>3, <1>4, <1>5 DEF SerialInv

LEMMA SerialInvariance ==
  ASSUME SessionsAssumption, OneSlot PROVE Spec => [](LoginInv /\ SerialInv)
<1>1. Init => LoginInv /\ SerialInv
  BY LoginStart, SerialStart
<1>2. LoginInv /\ SerialInv /\ [Next]_vars => (LoginInv /\ SerialInv)'
  BY LoginStep, SerialStep DEF Serially
<1> QED BY <1>1, <1>2, PTL DEF Spec

LEMMA RevokedStep ==
  ASSUME SessionsAssumption, Serially, [Next]_vars
  PROVE  RevocationIsComplete
<1> SUFFICES ASSUME NEW r \in Requests, request[r].op \in {"reset", "deactivate"},
                    request'[r] = Idle, NEW t \in Tokens, token'[t] # NoToken
             PROVE  ~token'[t].live
  BY DEF RevocationIsComplete
<1>0. TypeOK /\ Referring /\ OneSlot /\ Live \subseteq request[r].tokens
  BY DEF Serially, LoginInv, SerialInv, Current
<1>1. RevokeListed(r)
  <2>1. request[r] # Idle /\ request' # request
    BY DEF Idle
  <2>2. \A q \in Requests : ~LoginRequest(q) /\ ~InviteRequest(q) /\ ~RefreshRequest(q)
    BY <1>0, <2>1
       DEF OneSlot, LoginRequest, InviteRequest, RefreshRequest, SkipCode, ReadCode, TakeCode,
           ReplaceSessions, CompleteLogin, ReadInvite, AcceptInvite, ReadToken, Rotate,
           DetectReuse, EndRefused, Begin
  <2>3. \A q \in Requests, v \in Tokens, op \in {"reset", "deactivate"} :
          ~Logout(q, v) /\ ~ListTokens(q, op) /\ ~SetTenant(q)
    BY <1>0, <2>1 DEF OneSlot, Logout, ListTokens, Begin, SetTenant
  <2>8. \A q \in Requests, new \in Statuses : ~SetStatus(q, new)
    BY <1>0, <2>1 DEF OneSlot, SetStatus
  <2>4. ~Reactivate /\ \A c \in Codes : ~SendCode(c) /\ ~ExpireCode(c)
    BY <2>1 DEF Reactivate, SendCode, ExpireCode
  <2>5. ~UNCHANGED vars
    BY <2>1 DEF vars
  <2>6. PICK q \in Requests : RevokeRequest(q) \/ SetTenant(q)
    BY <2>2, <2>4, <2>5, <2>8 DEF Next
  <2>7. q = r
    BY <1>0 DEF OneSlot
  <2> QED BY <2>3, <2>6, <2>7 DEF RevokeRequest
<1>2. Ends(request[r].tokens)
  BY <1>0, <1>1, TokenWrites
<1>3. token[t] # NoToken /\ TokenStays(t)
  BY <1>0, <1>2, EndsEffect
<1>4. CASE t \in request[r].tokens
  BY <1>0, <1>2, <1>4, EndsEffect
<1>5. CASE t \notin request[r].tokens
  BY <1>0, <1>3, <1>5 DEF Live, TokenStays
<1> QED BY <1>4, <1>5

-----------------------------------------------------------------------------
(* Sessions: the theorems *)

\* Statuses, codes and tokens are of their tables, however requests overlap.
THEOREM LoginTypes == ASSUME SessionsAssumption PROVE Spec => []TypeOK
<1>1. LoginInv => TypeOK
  BY DEF LoginInv
<1> QED BY <1>1, LoginInvariance, PTL

\* Every session, of whichever of the overlapping requests, goes back to a login
\* whose code is used up, or that has skipped it, or to an invitation the user was
\* given.
THEOREM SessionsNeedLogin == ASSUME SessionsAssumption PROVE Spec => []SessionsAreStarted
<1>1. LoginInv => SessionsAreStarted
  BY DEF LoginInv
<1> QED BY <1>1, LoginInvariance, PTL

\* No request, however late it commits, brings a token back that has ended.
THEOREM TokensStayEnded == ASSUME SessionsAssumption PROVE Spec => [][EndedStaysEnded]_vars
<1>1. LoginInv /\ [Next]_vars => EndedStaysEnded
  BY TokenStep DEF LoginInv, TokenStays, EndedStaysEnded
<1> QED BY <1>1, LoginInvariance, PTL DEF Spec

\* A refresh, granted or refused, ends with its token ended.
THEOREM RefreshesEndTokens == ASSUME SessionsAssumption PROVE Spec => [][RefusedIsEnded]_vars
<1>1. LoginInv /\ [Next]_vars => RefusedIsEnded
  BY RefreshEnds DEF RefusedIsEnded
<1> QED BY <1>1, LoginInvariance, PTL DEF Spec

\* One request at a time, a session has one live token, a login starts one
\* session, an invitation starts one each time the user is made INVITED, and no
\* refresh outlives a deactivation.
THEOREM SerialLoginsHold ==
  ASSUME SessionsAssumption, OneSlot
  PROVE  Spec => [](OneLivePerSession /\ StartedOnce /\ DeactivationIsHonoured)
<1>1. LoginInv /\ SerialInv => OneLivePerSession /\ StartedOnce /\ DeactivationIsHonoured
  BY DEF SerialInv
<1> QED BY <1>1, SerialInvariance, PTL

\* One request at a time, a reset or a deactivation leaves no session.
THEOREM RevocationsAreComplete ==
  ASSUME SessionsAssumption, OneSlot
  PROVE  Spec => [][RevocationIsComplete]_vars
<1>1. LoginInv /\ SerialInv /\ [Next]_vars => RevocationIsComplete
  BY RevokedStep DEF Serially
<1> QED BY <1>1, SerialInvariance, PTL DEF Spec

\* What the code promises of sessions however requests overlap: they go back to
\* a login or an invitation, and what has ended, also by a refused refresh, stays
\* ended.
THEOREM SessionsAlwaysHold ==
  ASSUME SessionsAssumption
  PROVE  Spec => []SessionsHold /\ [][EndedStaysEnded]_vars /\ [][RefusedIsEnded]_vars
<1>1. TypeOK /\ SessionsAreStarted => SessionsHold
  BY DEF SessionsHold
<1> QED
  BY <1>1, LoginTypes, SessionsNeedLogin, TokensStayEnded, RefreshesEndTokens, PTL

\* What it promises of logins that come one at a time: a login, an invitation and
\* a token serve once, a deactivation is honoured and leaves no session, and
\* neither does a reset.
THEOREM LoginsAlwaysHold ==
  ASSUME SessionsAssumption
  PROVE  Spec => []LoginsHold /\ [][OneSlot => RevocationIsComplete]_vars
<1>1. CASE OneSlot
  <2>1. OneLivePerSession /\ StartedOnce /\ DeactivationIsHonoured => LoginsHold
    BY DEF LoginsHold
  <2>2. RevocationIsComplete => (OneSlot => RevocationIsComplete)
    OBVIOUS
  <2> QED
    BY <1>1, <2>1, <2>2, SerialLoginsHold, RevocationsAreComplete, PTL
<1>2. CASE ~OneSlot
  <2>1. LoginsHold /\ (OneSlot => RevocationIsComplete)
    BY <1>2 DEF LoginsHold
  <2> QED
    BY <2>1, PTL
<1> QED
  BY <1>1, <1>2

-----------------------------------------------------------------------------
(* API keys *)

Rotation == [op : {"revoke", "store", "point"}, tenant : Tenants, key : Keys \cup {None}]

\* A key in a rotation's or a tenant's hands was generated, and a key that was
\* not is nobody's.
HeldAreUsed ==
  /\ \A k \in Keys \ used : owner[k] = None
  /\ \A t \in Tenants : current[t] # None => current[t] \in used
  /\ \A r \in Requests :
       /\ rotation[r].op = "revoke" /\ rotation[r].key # None => rotation[r].key \in used
       /\ rotation[r].op = "point" => rotation[r].key \in used

\* The key of a rotation that has yet to set the pointer works, and no tenant
\* and no other rotation has it.
NewKeysAreFresh ==
  \A r \in Requests : rotation[r].op = "point" =>
    /\ owner[rotation[r].key] = rotation[r].tenant
    /\ \A t \in Tenants : current[t] # rotation[r].key
    /\ \A q \in Requests :
         /\ rotation[q].op = "revoke" => rotation[q].key # rotation[r].key
         /\ rotation[q].op = "point" /\ q # r => rotation[q].key # rotation[r].key

\* A key is the current one of one tenant, and only its rotations revoke it.
CurrentIsOwn ==
  \A t \in Tenants : current[t] # None =>
    /\ \A u \in Tenants : current[u] = current[t] => u = t
    /\ \A r \in Requests :
         rotation[r].op = "revoke" /\ rotation[r].key = current[t] => rotation[r].tenant = t

\* A current key that does not work is about to be replaced.
Replacing(t) ==
  \E r \in Requests : rotation[r].op \in {"store", "point"} /\ rotation[r].tenant = t

CurrentWorks ==
  \A t \in Tenants : \/ current[t] = None
                     \/ owner[current[t]] = t
                     \/ Replacing(t)

RotationInv == Rotations!TypeOK /\ HeldAreUsed

KeysInv == RotationInv /\ NewKeysAreFresh /\ CurrentIsOwn /\ CurrentWorks

-----------------------------------------------------------------------------
(* API keys: types *)

LEMMA RotationKind ==
  ASSUME Rotations!TypeOK, NEW r \in Requests
  PROVE  /\ rotation[r].op # "idle" => rotation[r] \in Rotation
         /\ rotation[r] # Rotations!Idle => rotation[r] \in Rotation
         /\ rotation[r].op = "idle" => rotation[r] = Rotations!Idle
  BY DEF Rotations!TypeOK, Rotation, Rotations!Idle

LEMMA KeyTypeStep ==
  ASSUME Rotations!TypeOK, [Rotations!Next]_(Rotations!vars)
  PROVE  Rotations!TypeOK'
<1>1. Rotations!TypeOK <=> /\ owner \in [Keys -> Tenants \cup {None}]
                 /\ current \in [Tenants -> Keys \cup {None}]
                 /\ used \subseteq Keys
                 /\ rotation \in [Requests -> {Rotations!Idle} \cup Rotation]
  BY DEF Rotations!TypeOK, Rotation
<1> USE DEF Rotations!Continue
<1>2. ASSUME NEW r \in Requests, NEW t \in Tenants, Rotations!ReadCurrent(r, t)
      PROVE  Rotations!TypeOK'
  <2>1. [op |-> "revoke", tenant |-> t, key |-> current[t]] \in Rotation
    BY <1>1 DEF Rotation
  <2> QED BY <1>1, <1>2, <2>1 DEF Rotations!ReadCurrent, Rotations!TypeOK, Rotation
<1>3. ASSUME NEW r \in Requests, Rotations!RevokeCurrent(r) PROVE Rotations!TypeOK'
  <2>1. rotation[r] \in Rotation
    BY <1>3, RotationKind DEF Rotations!RevokeCurrent
  <2>2. [rotation[r] EXCEPT !.op = "store"] \in Rotation
    BY <2>1 DEF Rotation
  <2>3. rotation' \in [Requests -> {Rotations!Idle} \cup Rotation]
    BY <1>1, <1>3, <2>2 DEF Rotations!RevokeCurrent
  <2>4. owner' \in [Keys -> Tenants \cup {None}]
    BY <1>1, <1>3 DEF Rotations!RevokeCurrent
  <2> QED BY <1>1, <1>3, <2>3, <2>4 DEF Rotations!RevokeCurrent, Rotations!TypeOK, Rotation
<1>4. ASSUME NEW r \in Requests, NEW k \in Keys, Rotations!StoreKey(r, k)
      PROVE  Rotations!TypeOK'
  <2>1. rotation[r] \in Rotation
    BY <1>4, RotationKind DEF Rotations!StoreKey
  <2>2. /\ [rotation[r] EXCEPT !.op = "point", !.key = k] \in Rotation
        /\ rotation[r].tenant \in Tenants
    BY <2>1 DEF Rotation
  <2>3. rotation' \in [Requests -> {Rotations!Idle} \cup Rotation]
    BY <1>1, <1>4, <2>2 DEF Rotations!StoreKey
  <2>4. owner' \in [Keys -> Tenants \cup {None}]
    BY <1>1, <1>4, <2>2 DEF Rotations!StoreKey
  <2> QED BY <1>1, <1>4, <2>3, <2>4 DEF Rotations!StoreKey, Rotations!TypeOK, Rotation
<1>5. ASSUME NEW r \in Requests, Rotations!PointToKey(r) PROVE Rotations!TypeOK'
  <2>1. rotation[r] \in Rotation
    BY <1>5, RotationKind DEF Rotations!PointToKey
  <2>2. current' \in [Tenants -> Keys \cup {None}]
    BY <1>1, <1>5, <2>1 DEF Rotations!PointToKey, Rotation
  <2> QED BY <1>1, <1>5, <2>2 DEF Rotations!PointToKey, Rotations!End, Rotations!TypeOK,
             Rotation
<1>6. ASSUME NEW r \in Requests, Rotations!Crash(r) PROVE Rotations!TypeOK'
  BY <1>1, <1>6 DEF Rotations!Crash, Rotations!End, Rotations!TypeOK, Rotation
<1>7. CASE UNCHANGED Rotations!vars
  BY <1>7 DEF Rotations!TypeOK, Rotations!vars
<1> QED BY <1>2, <1>3, <1>4, <1>5, <1>6, <1>7 DEF Rotations!Next

-----------------------------------------------------------------------------
(* What a step does to the requests *)

\* Each step is of one request; what the others hold stays.
LEMMA StoreEffect ==
  ASSUME Rotations!TypeOK, NEW r \in Requests, NEW k \in Keys, Rotations!StoreKey(r, k)
  PROVE  /\ rotation[r] \in Rotation
         /\ rotation'[r].op = "point" /\ rotation'[r].tenant = rotation[r].tenant
         /\ rotation'[r].key = k
         /\ \A q \in Requests \ {r} : rotation'[q] = rotation[q]
<1>1. rotation[r] \in Rotation
  BY RotationKind DEF Rotations!StoreKey
<1>2. rotation'[r] = [rotation[r] EXCEPT !.op = "point", !.key = k]
  BY DEF Rotations!StoreKey, Rotations!Continue, Rotations!TypeOK
<1> QED BY <1>1, <1>2 DEF Rotation, Rotations!StoreKey, Rotations!Continue, Rotations!TypeOK

LEMMA RevokeEffect ==
  ASSUME Rotations!TypeOK, NEW r \in Requests, Rotations!RevokeCurrent(r)
  PROVE  /\ rotation[r] \in Rotation
         /\ rotation'[r].op = "store" /\ rotation'[r].tenant = rotation[r].tenant
         /\ \A q \in Requests \ {r} : rotation'[q] = rotation[q]
<1>1. rotation[r] \in Rotation
  BY RotationKind DEF Rotations!RevokeCurrent
<1>2. rotation'[r] = [rotation[r] EXCEPT !.op = "store"]
  BY DEF Rotations!RevokeCurrent, Rotations!Continue, Rotations!TypeOK
<1> QED BY <1>1, <1>2 DEF Rotation, Rotations!RevokeCurrent, Rotations!Continue,
           Rotations!TypeOK

LEMMA EndEffect ==
  ASSUME Rotations!TypeOK, NEW r \in Requests, Rotations!End(r)
  PROVE  /\ rotation'[r].op = "idle"
         /\ \A q \in Requests \ {r} : rotation'[q] = rotation[q]
  BY DEF Rotations!End, Rotations!Continue, Rotations!Idle, Rotations!TypeOK

LEMMA ReadEffect ==
  ASSUME Rotations!TypeOK, NEW r \in Requests, NEW t \in Tenants, Rotations!ReadCurrent(r, t)
  PROVE  /\ rotation[r].op = "idle"
         /\ rotation'[r] = [op |-> "revoke", tenant |-> t, key |-> current[t]]
         /\ \A q \in Requests \ {r} : rotation'[q] = rotation[q]
  BY DEF Rotations!ReadCurrent, Rotations!Continue, Rotations!Idle, Rotations!TypeOK

-----------------------------------------------------------------------------
(* Keys in hand were generated *)

LEMMA UsedStep ==
  ASSUME Rotations!KeysAssumption, Rotations!TypeOK, HeldAreUsed, [Rotations!Next]_(Rotations!vars)
  PROVE  HeldAreUsed'
<1> USE DEF HeldAreUsed
<1>1. ASSUME NEW r \in Requests, NEW t \in Tenants, Rotations!ReadCurrent(r, t)
      PROVE  HeldAreUsed'
  BY <1>1, ReadEffect DEF Rotations!ReadCurrent
<1>2. ASSUME NEW r \in Requests, Rotations!RevokeCurrent(r) PROVE HeldAreUsed'
  BY <1>2, RevokeEffect DEF Rotations!RevokeCurrent, Rotations!TypeOK
<1>3. ASSUME NEW r \in Requests, NEW k \in Keys, Rotations!StoreKey(r, k) PROVE HeldAreUsed'
  <2>1. /\ \A j \in Keys : j # k => owner'[j] = owner[j]
        /\ used' = used \cup {k} /\ current' = current
    BY <1>3 DEF Rotations!StoreKey, Rotations!TypeOK
  <2>2. \A q \in Requests : \/ rotation'[q] = rotation[q]
                            \/ rotation'[q].op = "point" /\ rotation'[q].key = k
    BY <1>3, StoreEffect
  <2> QED BY <2>1, <2>2
<1>4. ASSUME NEW r \in Requests, Rotations!PointToKey(r) PROVE HeldAreUsed'
  BY <1>4, EndEffect, RotationKind DEF Rotations!PointToKey, Rotations!TypeOK, Rotation
<1>5. ASSUME NEW r \in Requests, Rotations!Crash(r) PROVE HeldAreUsed'
  BY <1>5, EndEffect DEF Rotations!Crash
<1>6. CASE UNCHANGED Rotations!vars
  BY <1>6 DEF Rotations!vars
<1> QED BY <1>1, <1>2, <1>3, <1>4, <1>5, <1>6 DEF Rotations!Next

LEMMA OwnerStep ==
  ASSUME Rotations!TypeOK, [Rotations!Next]_(Rotations!vars)
  PROVE  \A k \in used : Rotations!Resolve(k)' \in {Rotations!Resolve(k), None}
<1>1. ASSUME NEW r \in Requests, Rotations!RevokeCurrent(r)
      PROVE  \A k \in used : owner'[k] \in {owner[k], None}
  BY <1>1 DEF Rotations!RevokeCurrent, Rotations!TypeOK
<1>2. ASSUME NEW r \in Requests, NEW k \in Keys, Rotations!StoreKey(r, k)
      PROVE  \A j \in used : owner'[j] \in {owner[j], None}
  BY <1>2 DEF Rotations!StoreKey, Rotations!TypeOK
<1> QED
  BY <1>1, <1>2
     DEF Rotations!Next, Rotations!ReadCurrent, Rotations!PointToKey, Rotations!Crash,
         Rotations!vars, Rotations!Resolve

-----------------------------------------------------------------------------
(* Rotations that run to their end *)

LEMMA FreshStep ==
  ASSUME Rotations!KeysAssumption, RotationInv, NewKeysAreFresh, CurrentIsOwn,
         [Rotations!Next]_(Rotations!vars)
  PROVE  NewKeysAreFresh'
<1> USE DEF RotationInv
<1>1. ASSUME NEW r \in Requests, NEW t \in Tenants, Rotations!ReadCurrent(r, t)
      PROVE  NewKeysAreFresh'
  BY <1>1, ReadEffect DEF Rotations!ReadCurrent, NewKeysAreFresh
<1>2. ASSUME NEW r \in Requests, Rotations!RevokeCurrent(r) PROVE NewKeysAreFresh'
  <2>1. \A q \in Requests : rotation'[q].op = "point" => rotation'[q] = rotation[q] /\ q # r
    BY <1>2, RevokeEffect
  <2>2. \A q \in Requests : rotation'[q].op = "revoke" => rotation'[q] = rotation[q]
    BY <1>2, RevokeEffect
  <2>3. \A q \in Requests : rotation[q].op = "point" =>
          owner'[rotation[q].key] = owner[rotation[q].key]
    BY <1>2 DEF Rotations!RevokeCurrent, NewKeysAreFresh, HeldAreUsed, Rotations!TypeOK
  <2> QED BY <1>2, <2>1, <2>2, <2>3 DEF NewKeysAreFresh, Rotations!RevokeCurrent
<1>3. ASSUME NEW r \in Requests, NEW k \in Keys, Rotations!StoreKey(r, k)
      PROVE  NewKeysAreFresh'
  <2>1. k \notin used /\ k # None
    BY <1>3 DEF Rotations!StoreKey, Rotations!KeysAssumption
  <2>2. \A t \in Tenants : current'[t] # k
    BY <1>3, <2>1 DEF Rotations!StoreKey, HeldAreUsed
  <2>3. \A q \in Requests \ {r} :
          /\ rotation'[q] = rotation[q]
          /\ rotation[q].op \in {"revoke", "point"} => rotation[q].key # k
    BY <1>3, <2>1, StoreEffect DEF HeldAreUsed
  <2>4. \A j \in Keys \ {k} : owner'[j] = owner[j]
    BY <1>3 DEF Rotations!StoreKey, Rotations!TypeOK
  <2>5. owner'[k] = rotation[r].tenant
    BY <1>3 DEF Rotations!StoreKey, Rotations!TypeOK
  <2>6. ASSUME NEW q \in Requests, rotation'[q].op = "point"
        PROVE  /\ owner'[rotation'[q].key] = rotation'[q].tenant
               /\ \A t \in Tenants : current'[t] # rotation'[q].key
               /\ \A p \in Requests :
                    /\ rotation'[p].op = "revoke" => rotation'[p].key # rotation'[q].key
                    /\ rotation'[p].op = "point" /\ p # q => rotation'[p].key # rotation'[q].key
    <3>1. CASE q = r
      BY <1>3, <2>2, <2>3, <2>5, <3>1, StoreEffect
    <3>2. CASE q # r
      <4>1. rotation'[q] = rotation[q] /\ rotation[q].key \in Keys \ {k}
        BY <2>3, <2>6, <3>2 DEF HeldAreUsed, Rotations!TypeOK
      <4>2. /\ owner'[rotation[q].key] = rotation[q].tenant
            /\ \A t \in Tenants : current'[t] # rotation[q].key
        BY <1>3, <2>4, <2>6, <4>1 DEF NewKeysAreFresh, Rotations!StoreKey
      <4>3. rotation'[r].op = "point" /\ rotation'[r].key # rotation[q].key
        BY <1>3, <4>1, StoreEffect
      <4>4. ASSUME NEW p \in Requests \ {r}
            PROVE  /\ rotation'[p].op = "revoke" => rotation'[p].key # rotation[q].key
                   /\ rotation'[p].op = "point" /\ p # q => rotation'[p].key # rotation[q].key
        BY <2>3, <2>6, <4>1, <4>4 DEF NewKeysAreFresh
      <4> QED BY <4>1, <4>2, <4>3, <4>4
    <3> QED BY <3>1, <3>2
  <2> QED BY <2>6 DEF NewKeysAreFresh
<1>4. ASSUME NEW r \in Requests, Rotations!PointToKey(r) PROVE NewKeysAreFresh'
  <2>1. Rotations!End(r) /\ current' = [current EXCEPT ![rotation[r].tenant] = rotation[r].key]
    BY <1>4 DEF Rotations!PointToKey
  <2>2. \A q \in Requests : rotation'[q].op \in {"point", "revoke"} =>
          rotation'[q] = rotation[q] /\ q # r
    BY <2>1, EndEffect
  <2>3. \A q \in Requests \ {r} : rotation[q].op = "point" => rotation[q].key # rotation[r].key
    BY <1>4 DEF Rotations!PointToKey, NewKeysAreFresh
  <2>4. \A t \in Tenants : current'[t] \in {current[t], rotation[r].key}
    BY <2>1 DEF Rotations!TypeOK
  <2> QED BY <1>4, <2>2, <2>3, <2>4 DEF NewKeysAreFresh, Rotations!PointToKey
<1>5. ASSUME NEW r \in Requests, Rotations!Crash(r) PROVE NewKeysAreFresh'
  BY <1>5, EndEffect DEF Rotations!Crash, NewKeysAreFresh
<1>6. CASE UNCHANGED Rotations!vars
  BY <1>6 DEF Rotations!vars, NewKeysAreFresh
<1> QED BY <1>1, <1>2, <1>3, <1>4, <1>5, <1>6 DEF Rotations!Next

LEMMA OwnStep ==
  ASSUME Rotations!KeysAssumption, RotationInv, NewKeysAreFresh, CurrentIsOwn,
         [Rotations!Next]_(Rotations!vars)
  PROVE  CurrentIsOwn'
<1> USE DEF RotationInv, CurrentIsOwn
<1>1. ASSUME NEW r \in Requests, NEW t \in Tenants, Rotations!ReadCurrent(r, t)
      PROVE  CurrentIsOwn'
  BY <1>1, ReadEffect DEF Rotations!ReadCurrent
<1>2. ASSUME NEW r \in Requests, Rotations!RevokeCurrent(r) PROVE CurrentIsOwn'
  BY <1>2, RevokeEffect DEF Rotations!RevokeCurrent
<1>3. ASSUME NEW r \in Requests, NEW k \in Keys, Rotations!StoreKey(r, k) PROVE CurrentIsOwn'
  <2>1. \A q \in Requests : rotation'[q].op = "revoke" => rotation'[q] = rotation[q]
    BY <1>3, StoreEffect
  <2>2. current' = current
    BY <1>3 DEF Rotations!StoreKey
  <2> QED BY <2>1, <2>2
<1>4. ASSUME NEW r \in Requests, Rotations!PointToKey(r) PROVE CurrentIsOwn'
  <2>1. Rotations!End(r) /\ current' = [current EXCEPT ![rotation[r].tenant] = rotation[r].key]
    BY <1>4 DEF Rotations!PointToKey
  <2>2. \A q \in Requests : rotation'[q].op = "revoke" => rotation'[q] = rotation[q]
    BY <2>1, EndEffect
  <2>3. /\ \A t \in Tenants : current[t] # rotation[r].key
        /\ \A q \in Requests : rotation[q].op = "revoke" => rotation[q].key # rotation[r].key
    BY <1>4 DEF Rotations!PointToKey, NewKeysAreFresh
  <2>4. \A t \in Tenants :
          current'[t] = IF t = rotation[r].tenant THEN rotation[r].key ELSE current[t]
    BY <2>1 DEF Rotations!TypeOK
  <2> QED BY <2>2, <2>3, <2>4
<1>5. ASSUME NEW r \in Requests, Rotations!Crash(r) PROVE CurrentIsOwn'
  BY <1>5, EndEffect DEF Rotations!Crash
<1>6. CASE UNCHANGED Rotations!vars
  BY <1>6 DEF Rotations!vars
<1> QED BY <1>1, <1>2, <1>3, <1>4, <1>5, <1>6 DEF Rotations!Next

LEMMA WorksStep ==
  ASSUME Rotations!KeysAssumption, ~Crashes, KeysInv, [Rotations!Next]_(Rotations!vars)
  PROVE  CurrentWorks'
<1> SUFFICES ASSUME NEW t \in Tenants, current'[t] # None
             PROVE  \/ owner'[current'[t]] = t
                    \/ \E r \in Requests : /\ rotation'[r].op \in {"store", "point"}
                                           /\ rotation'[r].tenant = t
  BY DEF CurrentWorks, Replacing
<1> USE DEF KeysInv, RotationInv, CurrentWorks, Replacing
<1>1. ASSUME NEW r \in Requests, NEW u \in Tenants, Rotations!ReadCurrent(r, u)
      PROVE  \/ owner'[current'[t]] = t
             \/ \E q \in Requests : /\ rotation'[q].op \in {"store", "point"}
                                    /\ rotation'[q].tenant = t
  BY <1>1, ReadEffect DEF Rotations!ReadCurrent
<1>2. ASSUME NEW r \in Requests, Rotations!RevokeCurrent(r)
      PROVE  \/ owner'[current'[t]] = t
             \/ \E q \in Requests : /\ rotation'[q].op \in {"store", "point"}
                                    /\ rotation'[q].tenant = t
  <2>1. CASE current[t] = rotation[r].key
    <3>1. rotation[r].tenant = t
      BY <1>2, <2>1 DEF Rotations!RevokeCurrent, CurrentIsOwn
    <3> QED BY <1>2, <3>1, RevokeEffect
  <2>2. CASE current[t] # rotation[r].key
    <3>1. current'[t] = current[t] /\ owner'[current[t]] = owner[current[t]]
      BY <1>2, <2>2 DEF Rotations!RevokeCurrent, Rotations!TypeOK
    <3>2. \A q \in Requests : rotation[q].op \in {"store", "point"} => rotation'[q] = rotation[q]
      BY <1>2, RevokeEffect DEF Rotations!RevokeCurrent
    <3> QED BY <3>1, <3>2
  <2> QED BY <2>1, <2>2
<1>3. ASSUME NEW r \in Requests, NEW k \in Keys, Rotations!StoreKey(r, k)
      PROVE  \/ owner'[current'[t]] = t
             \/ \E q \in Requests : /\ rotation'[q].op \in {"store", "point"}
                                    /\ rotation'[q].tenant = t
  <2>1. current'[t] = current[t] /\ current[t] # k /\ current[t] \in Keys
    BY <1>3 DEF Rotations!StoreKey, HeldAreUsed, Rotations!TypeOK
  <2>2. owner'[current[t]] = owner[current[t]]
    BY <1>3, <2>1 DEF Rotations!StoreKey, Rotations!TypeOK
  <2>3. \A q \in Requests : rotation[q].op \in {"store", "point"} =>
          rotation'[q].op \in {"store", "point"} /\ rotation'[q].tenant = rotation[q].tenant
    BY <1>3, StoreEffect
  <2> QED BY <2>1, <2>2, <2>3
<1>4. ASSUME NEW r \in Requests, Rotations!PointToKey(r)
      PROVE  \/ owner'[current'[t]] = t
             \/ \E q \in Requests : /\ rotation'[q].op \in {"store", "point"}
                                    /\ rotation'[q].tenant = t
  <2>1. /\ rotation[r] \in Rotation
        /\ owner' = owner
        /\ current' = [current EXCEPT ![rotation[r].tenant] = rotation[r].key]
        /\ Rotations!End(r)
    BY <1>4, RotationKind DEF Rotations!PointToKey
  <2>2. CASE t = rotation[r].tenant
    BY <1>4, <2>1, <2>2 DEF Rotations!PointToKey, NewKeysAreFresh, Rotations!TypeOK
  <2>3. CASE t # rotation[r].tenant
    <3>1. current'[t] = current[t]
      BY <2>1, <2>3 DEF Rotations!TypeOK
    <3>2. \A q \in Requests : rotation[q].tenant = t /\ q # r => rotation'[q] = rotation[q]
      BY <2>1, EndEffect
    <3> QED BY <2>1, <2>3, <3>1, <3>2
  <2> QED BY <2>2, <2>3
<1>5. ASSUME NEW r \in Requests, Rotations!Crash(r) PROVE FALSE
  BY <1>5 DEF Rotations!Crash
<1>6. CASE UNCHANGED Rotations!vars
  BY <1>6 DEF Rotations!vars
<1> QED BY <1>1, <1>2, <1>3, <1>4, <1>5, <1>6 DEF Rotations!Next

-----------------------------------------------------------------------------
(* API keys: the invariants, and the theorems *)

LEMMA KeysStart == ASSUME Rotations!KeysAssumption PROVE Rotations!Init => KeysInv
<1> SUFFICES ASSUME Rotations!Init PROVE KeysInv
  OBVIOUS
<1>1. \A r \in Requests : rotation[r].op = "idle"
  BY DEF Rotations!Init, Rotations!Idle
<1>2. Rotations!TypeOK
  BY DEF Rotations!Init, Rotations!TypeOK
<1>3. HeldAreUsed /\ NewKeysAreFresh /\ CurrentIsOwn /\ CurrentWorks
  BY <1>1 DEF Rotations!Init, HeldAreUsed, NewKeysAreFresh, CurrentIsOwn, CurrentWorks
<1> QED BY <1>2, <1>3 DEF KeysInv, RotationInv

LEMMA RotationInvariance ==
  ASSUME Rotations!KeysAssumption
  PROVE  Rotations!Spec => []RotationInv
<1>1. Rotations!Init => RotationInv
  BY KeysStart DEF KeysInv
<1>2. RotationInv /\ [Rotations!Next]_(Rotations!vars) => RotationInv'
  BY KeyTypeStep, UsedStep DEF RotationInv
<1> QED BY <1>1, <1>2, PTL DEF Rotations!Spec

\* Keys belong to tenants and pointers hold keys, however rotations overlap
\* and stop.
THEOREM KeyTypes == ASSUME Rotations!KeysAssumption PROVE Rotations!Spec => []Rotations!TypeOK
<1>1. RotationInv => Rotations!TypeOK
  BY DEF RotationInv
<1>2. Rotations!Spec => []RotationInv
  BY RotationInvariance
<1> QED BY <1>1, <1>2, PTL

\* A key that was handed out never resolves to a second tenant, nor again once
\* it is revoked, for any number of rotations and crashes.
THEOREM KeysStayRevoked ==
  ASSUME Rotations!KeysAssumption
  PROVE  Rotations!Spec => [][Rotations!KeysAreNotReused]_(Rotations!vars)
<1>1. RotationInv /\ [Rotations!Next]_(Rotations!vars)
        => [Rotations!KeysAreNotReused]_(Rotations!vars)
  BY OwnerStep DEF RotationInv, Rotations!KeysAreNotReused
<1>2. Rotations!Spec => []RotationInv
  BY RotationInvariance
<1> QED BY <1>1, <1>2, PTL DEF Rotations!Spec

\* When rotations run to their end, however many overlap, the key that the last
\* one left as the current one works.
THEOREM CurrentKeysWork ==
  ASSUME Rotations!KeysAssumption, ~Crashes
  PROVE  Rotations!Spec => []Rotations!CurrentKeyWorks
<1>1. KeysInv /\ [Rotations!Next]_(Rotations!vars) => KeysInv'
  BY KeyTypeStep, UsedStep, FreshStep, OwnStep, WorksStep DEF KeysInv, RotationInv
<1>2. KeysInv => Rotations!CurrentKeyWorks
  <2> SUFFICES ASSUME KeysInv, NEW t \in Tenants, ~Rotations!Rotating(t), current[t] # None
               PROVE  Rotations!Resolve(current[t]) = t
    BY DEF Rotations!CurrentKeyWorks
  <2>1. ~Replacing(t)
    BY DEF Replacing, Rotations!Rotating, Rotations!Idle
  <2> QED BY <2>1 DEF KeysInv, CurrentWorks, Rotations!Resolve
<1>3. Rotations!Init => KeysInv
  BY KeysStart
<1> QED BY <1>1, <1>2, <1>3, PTL DEF Rotations!Spec

-----------------------------------------------------------------------------
(* API keys: one rotation at a time *)

\* A tenant's only key is the one its rotation holds, or its current one.
OnlyKey ==
  /\ \A r \in Requests : rotation[r].op = "revoke" => rotation[r].key = current[rotation[r].tenant]
  /\ \A k \in Keys, t \in Tenants : owner[k] = t =>
       /\ ~Replacing(t) => current[t] = k
       /\ \A r \in Requests : rotation[r].tenant = t =>
            /\ rotation[r].op # "store"
            /\ rotation[r].op = "point" => rotation[r].key = k

LEMMA OnlyStep ==
  ASSUME Rotations!KeysAssumption, ~Crashes, OneSlot, RotationInv, OnlyKey,
         [Rotations!Next]_(Rotations!vars)
  PROVE  OnlyKey'
<1> USE DEF RotationInv, OnlyKey, OneSlot
<1>1. ASSUME NEW r \in Requests, NEW t \in Tenants, Rotations!ReadCurrent(r, t)
      PROVE  OnlyKey'
  BY <1>1, ReadEffect DEF Rotations!ReadCurrent, Replacing
<1>2. ASSUME NEW r \in Requests, Rotations!RevokeCurrent(r) PROVE OnlyKey'
  <2>1. rotation[r].op = "revoke" /\ current' = current
    BY <1>2 DEF Rotations!RevokeCurrent
  <2>2. ASSUME NEW k \in Keys, NEW t \in Tenants, owner'[k] = t
        PROVE  owner[k] = t /\ k # rotation[r].key
    BY <1>2, <2>2 DEF Rotations!RevokeCurrent, Rotations!KeysAssumption
  <2>3. ASSUME NEW k \in Keys, NEW t \in Tenants, owner'[k] = t
        PROVE  current[t] = k /\ rotation[r].tenant # t
    BY <2>1, <2>2, <2>3 DEF Replacing
  <2> QED BY <1>2, <2>1, <2>3, RevokeEffect
<1>3. ASSUME NEW r \in Requests, NEW k \in Keys, Rotations!StoreKey(r, k) PROVE OnlyKey'
  <2>1. /\ rotation[r].op = "store" /\ current' = current
        /\ \A j \in Keys : owner'[j] = IF j = k THEN rotation[r].tenant ELSE owner[j]
    BY <1>3 DEF Rotations!StoreKey, Rotations!TypeOK
  <2>2. \A t \in Tenants : Replacing(t)' <=> t = rotation[r].tenant
    BY <1>3, StoreEffect DEF Replacing
  <2>3. \A t \in Tenants : Replacing(t) => t = rotation[r].tenant
    BY DEF Replacing
  <2>4. ASSUME NEW j \in Keys, NEW t \in Tenants, owner'[j] = t
        PROVE  /\ ~Replacing(t)' => current'[t] = j
               /\ \A q \in Requests : rotation'[q].tenant = t =>
                    /\ rotation'[q].op # "store"
                    /\ rotation'[q].op = "point" => rotation'[q].key = j
    BY <1>3, <2>1, <2>2, <2>3, <2>4, StoreEffect
  <2> QED BY <1>3, <2>4, StoreEffect
<1>4. ASSUME NEW r \in Requests, Rotations!PointToKey(r) PROVE OnlyKey'
  <2>1. /\ rotation[r].op = "point" /\ owner' = owner /\ rotation[r].tenant \in Tenants
        /\ \A t \in Tenants : current'[t] =
                                IF t = rotation[r].tenant THEN rotation[r].key ELSE current[t]
    BY <1>4, RotationKind DEF Rotations!PointToKey, Rotations!TypeOK, Rotation
  <2>2. \A q \in Requests : rotation'[q].op = "idle"
    BY <1>4, EndEffect DEF Rotations!PointToKey
  <2>3. \A t \in Tenants : Replacing(t) => t = rotation[r].tenant
    BY DEF Replacing
  <2> QED BY <2>1, <2>2, <2>3
<1>5. ASSUME NEW r \in Requests, Rotations!Crash(r) PROVE FALSE
  BY <1>5 DEF Rotations!Crash
<1>6. CASE UNCHANGED Rotations!vars
  BY <1>6 DEF Rotations!vars, Replacing
<1> QED BY <1>1, <1>2, <1>3, <1>4, <1>5, <1>6 DEF Rotations!Next

\* One rotation at a time that runs to its end, the previous key is revoked.
THEOREM PreviousKeysGo ==
  ASSUME Rotations!KeysAssumption, ~Crashes, OneSlot
  PROVE  Rotations!Spec => []Rotations!PreviousIsRevoked
<1>1. Rotations!Init => OnlyKey
  BY DEF Rotations!Init, Rotations!Idle, OnlyKey, Rotations!KeysAssumption
<1>2. RotationInv /\ OnlyKey /\ [Rotations!Next]_(Rotations!vars) => OnlyKey'
  BY OnlyStep
<1>3. OnlyKey => Rotations!PreviousIsRevoked
  <2> SUFFICES ASSUME OnlyKey, NEW t \in Tenants, ~Rotations!Rotating(t),
                      NEW j \in Rotations!KeysOf(t), NEW k \in Rotations!KeysOf(t)
               PROVE  j = k
    BY DEF Rotations!PreviousIsRevoked
  <2>1. ~Replacing(t)
    BY DEF Replacing, Rotations!Rotating, Rotations!Idle
  <2> QED BY <2>1 DEF OnlyKey, Rotations!KeysOf, Rotations!Resolve
<1> QED BY <1>1, <1>2, <1>3, RotationInvariance, PTL DEF Rotations!Spec

\* What the code promises of API keys: none comes back or changes hands, however
\* rotations overlap and stop; rotations that run to their end leave a current
\* key that works, and one at a time they leave no other.
THEOREM KeysAlwaysHold ==
  ASSUME Rotations!KeysAssumption
  PROVE  Rotations!Spec =>
           []Rotations!KeysHold /\ [][Rotations!KeysAreNotReused]_(Rotations!vars)
<1>1. CASE Crashes
  <2>1. Rotations!TypeOK => Rotations!KeysHold
    BY <1>1 DEF Rotations!KeysHold
  <2> QED
    BY <2>1, KeyTypes, KeysStayRevoked, PTL
<1>2. CASE ~Crashes /\ ~OneSlot
  <2>1. Rotations!TypeOK /\ Rotations!CurrentKeyWorks => Rotations!KeysHold
    BY <1>2 DEF Rotations!KeysHold, Rotations!OneSlot, OneSlot
  <2>2. Rotations!Spec => []Rotations!CurrentKeyWorks
    BY <1>2, CurrentKeysWork
  <2> QED
    BY <2>1, <2>2, KeyTypes, KeysStayRevoked, PTL
<1>3. CASE ~Crashes /\ OneSlot
  <2>1. Rotations!TypeOK /\ Rotations!CurrentKeyWorks /\ Rotations!PreviousIsRevoked
          => Rotations!KeysHold
    BY DEF Rotations!KeysHold
  <2>2. Rotations!Spec => []Rotations!CurrentKeyWorks /\ []Rotations!PreviousIsRevoked
    BY <1>3, CurrentKeysWork, PreviousKeysGo
  <2> QED
    BY <2>1, <2>2, KeyTypes, KeysStayRevoked, PTL
<1> QED
  BY <1>1, <1>2, <1>3

-----------------------------------------------------------------------------
(* Accounts: the rows and the requests *)

LEMMA AccountCount == ASSUME NEW S PROVE Account!Cardinality(S) = Cardinality(S)
  BY DEF Account!Cardinality, Cardinality

LEMMA AccountFinite == ASSUME NEW S PROVE Account!IsFiniteSet(S) <=> IsFiniteSet(S)
  BY DEF Account!IsFiniteSet, IsFiniteSet

LEMMA WrittenUser ==
  ASSUME NEW loaded \in Account!User, NEW new \in Account!User, NEW stored \in Account!User
  PROVE  /\ Account!Written(loaded, new, stored) \in Account!User
         /\ loaded = stored => Account!Written(loaded, new, stored) = new
  <1> DEFINE w == Account!Written(loaded, new, stored)
             Pick(c) == IF new[c] = loaded[c] THEN stored[c] ELSE new[c]
  <1>1. w = [c \in {"role", "status", "deleted"} |-> Pick(c)]
    BY DEF Account!Written, Account!User
  <1>2. w = [role |-> Pick("role"), status |-> Pick("status"), deleted |-> Pick("deleted")]
    BY <1>1
  <1>3. new = [role |-> new.role, status |-> new.status, deleted |-> new.deleted]
    BY DEF Account!User
  <1> HIDE DEF w
  <1> QED
    BY <1>2, <1>3 DEF Account!User, w

LEMMA WrittenTenant ==
  ASSUME NEW loaded \in Account!Tenant, NEW new \in Account!Tenant,
         NEW stored \in Account!Tenant
  PROVE  /\ Account!Written(loaded, new, stored) \in Account!Tenant
         /\ new.deleted = loaded.deleted =>
              Account!Written(loaded, new, stored).deleted = stored.deleted
         /\ Account!Written(loaded, new, stored).pending =
              IF new.pending = loaded.pending THEN stored.pending ELSE new.pending
  <1> DEFINE w == Account!Written(loaded, new, stored)
             Pick(c) == IF new[c] = loaded[c] THEN stored[c] ELSE new[c]
  <1>1. w = [c \in {"limit", "pending", "deleted"} |-> Pick(c)]
    BY DEF Account!Written, Account!Tenant
  <1>2. w = [limit |-> Pick("limit"), pending |-> Pick("pending"), deleted |-> Pick("deleted")]
    BY <1>1
  <1> HIDE DEF w
  <1> QED
    BY <1>2 DEF Account!Tenant, w

\* A request that may be under way with the rows there are: what it has loaded and
\* will write are rows, it updates a user that exists, and a change of plan leaves
\* the deletion mark alone.
OpenRequest(q) ==
  /\ q.op \in {"idle", "add", "update", "plan"}
  /\ q.op = "add" => q.user \in Users /\ q.new \in Account!User
  /\ q.op = "update" => /\ q.user \in Account!Rows
                        /\ q.loaded \in Account!User /\ q.new \in Account!User
  /\ q.op = "plan" => /\ q.loaded \in Account!Tenant /\ q.new \in Account!Tenant
                      /\ q.new.deleted = q.loaded.deleted

AccountInv ==
  /\ user \in [Users -> Account!User \cup {NoRow}]
  /\ account \in Account!Tenant
  /\ accountRequest = [r \in Requests |-> accountRequest[r]]
  /\ \A r \in Requests : OpenRequest(accountRequest[r])

\* What a step does to the rows: users that are there stay.
UsersStay ==
  /\ user' \in [Users -> Account!User \cup {NoRow}]
  /\ Account!Rows \subseteq Account!Rows'

LEMMA UserWritten ==
  ASSUME Account!AccountsAssumption, AccountInv, NEW u \in Users, NEW row \in Account!User,
         user' = [user EXCEPT ![u] = row]
  PROVE  /\ UsersStay
         /\ \A v \in Users : user'[v] = IF v = u THEN row ELSE user[v]
         /\ Account!Rows' = Account!Rows \cup {u}
  BY DEF AccountInv, UsersStay, Account!Rows, Account!AccountsAssumption

LEMMA RequestsStayOpen ==
  ASSUME AccountInv, Account!Rows \subseteq Account!Rows', NEW r \in Requests, NEW q,
         OpenRequest(q), accountRequest' = [accountRequest EXCEPT ![r] = q]
  PROVE  /\ accountRequest' = [s \in Requests |-> accountRequest'[s]]
         /\ \A s \in Requests : OpenRequest(accountRequest[s])'
         /\ \A s \in Requests : accountRequest'[s] = IF s = r THEN q ELSE accountRequest[s]
  <1>1. \A s \in Requests : accountRequest'[s] = IF s = r THEN q ELSE accountRequest[s]
    BY DEF AccountInv
  <1>2. \A s \in Requests : OpenRequest(accountRequest'[s])
    BY <1>1 DEF AccountInv
  <1> QED
    BY <1>1, <1>2 DEF AccountInv, OpenRequest

LEMMA IdleIsOpen == OpenRequest(Account!Idle)
  BY DEF OpenRequest, Account!Idle

\* What every step does: users stay, and either the requests stand still or one
\* of them goes on, and the tenant is neither deleted nor restored.
AccountStep(r) ==
  /\ account' \in Account!Tenant
  /\ UsersStay
  /\ \/ UNCHANGED accountRequest
     \/ /\ account'.deleted = account.deleted
        /\ \E q : OpenRequest(q) /\ accountRequest' = [accountRequest EXCEPT ![r] = q]

LEMMA AccountBeginnings ==
  ASSUME AccountInv, NEW r \in Requests, NEW u \in Users,
         NEW role \in Account!Roles, NEW state \in Account!Statuses,
         Account!BeginAdd(r, u, role, state) \/ Account!BeginUpdate(r, u, role, state)
           \/ Account!BeginDeactivate(r, u)
  PROVE  AccountStep(r)
  <1>1. u \in Account!Rows => user[u] \in Account!User
    BY DEF AccountInv, Account!Rows
  <1>2. ASSUME NEW q, OpenRequest(q), Account!Begin(r, q) PROVE AccountStep(r)
    BY <1>2 DEF AccountStep, Account!Begin, AccountInv, UsersStay, Account!Rows
  <1>3. CASE Account!BeginAdd(r, u, role, state)
    <2>1. OpenRequest([op |-> "add", user |-> u,
                       new |-> [role |-> role, status |-> state, deleted |-> FALSE]])
      BY DEF OpenRequest, Account!User
    <2> QED
      BY <1>2, <1>3, <2>1 DEF Account!BeginAdd
  <1>4. CASE Account!BeginUpdate(r, u, role, state)
    <2>1. OpenRequest([op |-> "update", user |-> u, loaded |-> user[u],
                       new |-> [user[u] EXCEPT !.role = role, !.status = state]])
      BY <1>1, <1>4 DEF OpenRequest, Account!User, Account!BeginUpdate
    <2> QED
      BY <1>2, <1>4, <2>1 DEF Account!BeginUpdate
  <1>5. CASE Account!BeginDeactivate(r, u)
    <2>1. OpenRequest([op |-> "update", user |-> u, loaded |-> user[u],
                       new |-> [user[u] EXCEPT !.status = "INACTIVE"]])
      BY <1>1, <1>5 DEF OpenRequest, Account!User, Account!BeginDeactivate, Account!Statuses
    <2> QED
      BY <1>2, <1>5, <2>1 DEF Account!BeginDeactivate
  <1> QED
    BY <1>3, <1>4, <1>5

LEMMA AccountCommits ==
  ASSUME Account!AccountsAssumption, AccountInv, NEW r \in Requests,
         Account!CommitAdd(r) \/ Account!CommitUpdate(r)
  PROVE  AccountStep(r)
  <1> DEFINE q == accountRequest[r]
  <1>1. OpenRequest(q) /\ account' = account
    BY DEF AccountInv, Account!CommitAdd, Account!CommitUpdate
  <1>2. accountRequest' = [accountRequest EXCEPT ![r] = Account!Idle]
    BY DEF Account!CommitAdd, Account!CommitUpdate, Account!End
  <1>3. CASE Account!CommitAdd(r)
    <2>1. q.user \in Users /\ q.new \in Account!User
      BY <1>1, <1>3 DEF OpenRequest, Account!CommitAdd
    <2>2. user' = [user EXCEPT ![q.user] = IF user[q.user] = NoRow THEN q.new ELSE user[q.user]]
      BY <1>3 DEF Account!CommitAdd
    <2> HIDE DEF q
    <2>3. UsersStay
      BY <2>1, <2>2 DEF AccountInv, UsersStay, Account!Rows, Account!AccountsAssumption
    <2> QED
      BY <1>1, <1>2, <2>3, IdleIsOpen DEF AccountStep, AccountInv
  <1>4. CASE Account!CommitUpdate(r)
    <2> DEFINE row == Account!Written(q.loaded, q.new, user[q.user])
    <2>1. q.user \in Account!Rows /\ q.user \in Users /\ row \in Account!User
      BY <1>1, <1>4, WrittenUser DEF OpenRequest, Account!CommitUpdate, AccountInv,
         Account!Rows
    <2>2. user' = [user EXCEPT ![q.user] = row]
      BY <1>4 DEF Account!CommitUpdate
    <2> HIDE DEF q, row
    <2>3. UsersStay
      BY <2>1, <2>2, UserWritten
    <2> QED
      BY <1>1, <1>2, <2>3, IdleIsOpen DEF AccountStep, AccountInv
  <1> QED
    BY <1>3, <1>4

LEMMA AccountSwitches ==
  ASSUME Account!AccountsAssumption, AccountInv, NEW r \in Requests, NEW u \in Users,
         NEW deleted \in BOOLEAN,
         Account!Reactivate(r, u) \/ Account!AcceptInvite(r, u)
           \/ Account!SetDeleted(r, u, deleted)
  PROVE  AccountStep(r)
  <1>1. u \in Account!Rows /\ user[u] \in Account!User /\ UNCHANGED <<account, accountRequest>>
    BY DEF Account!Reactivate, Account!AcceptInvite, Account!SetDeleted, Account!Once,
           AccountInv, Account!Rows
  <1>2. \E row \in Account!User : user' = [user EXCEPT ![u] = row]
    <2>1. [user[u] EXCEPT !.status = "ACTIVE"] \in Account!User
      BY <1>1 DEF Account!User, Account!Statuses
    <2>2. [user[u] EXCEPT !.deleted = deleted] \in Account!User
      BY <1>1 DEF Account!User
    <2> QED
      BY <2>1, <2>2 DEF Account!Reactivate, Account!AcceptInvite, Account!SetDeleted
  <1>3. UsersStay
    BY <1>2, UserWritten
  <1> QED
    BY <1>1, <1>3 DEF AccountStep, AccountInv

LEMMA PlatformSteps ==
  ASSUME Account!AccountsAssumption, AccountInv, NEW r \in Requests
  PROVE  /\ \A deleted \in BOOLEAN : Account!SetTenantDeleted(r, deleted) => AccountStep(r)
         /\ \A plan \in Plans : Account!RequestUpgrade(r, plan) => AccountStep(r)
         /\ \A limit \in Limits : Account!BeginPlan(r, limit) => AccountStep(r)
         /\ Account!CommitPlan(r) => AccountStep(r)
  <1>1. ASSUME NEW deleted \in BOOLEAN, Account!SetTenantDeleted(r, deleted)
        PROVE  AccountStep(r)
    <2>1. [account EXCEPT !.deleted = deleted] \in Account!Tenant
      BY DEF AccountInv, Account!Tenant
    <2>2. \A u \in Account!Rows : [user[u] EXCEPT !.deleted = deleted] \in Account!User
      BY DEF AccountInv, Account!Rows, Account!User
    <2>3. UsersStay
      BY <1>1, <2>2
      DEF Account!SetTenantDeleted, UsersStay, Account!Rows, Account!AccountsAssumption
    <2> QED
      BY <1>1, <2>1, <2>3 DEF Account!SetTenantDeleted, Account!Once, AccountStep
  <1>2. UNCHANGED user => UsersStay
    BY DEF UsersStay, AccountInv, Account!Rows
  <1>3. ASSUME NEW plan \in Plans, Account!RequestUpgrade(r, plan) PROVE AccountStep(r)
    <2>1. [account EXCEPT !.pending = plan] \in Account!Tenant
      BY DEF AccountInv, Account!Tenant
    <2> QED
      BY <1>2, <1>3, <2>1 DEF Account!RequestUpgrade, Account!Once, AccountStep
  <1>4. ASSUME NEW limit \in Limits, Account!BeginPlan(r, limit) PROVE AccountStep(r)
    <2>1. OpenRequest([op |-> "plan", loaded |-> account,
                       new |-> [account EXCEPT !.limit = limit, !.pending = NoPlan]])
      BY DEF OpenRequest, AccountInv, Account!Tenant
    <2> QED
      BY <1>2, <1>4, <2>1 DEF Account!BeginPlan, Account!Begin, AccountStep, AccountInv
  <1>5. ASSUME Account!CommitPlan(r) PROVE AccountStep(r)
    <2> DEFINE q == accountRequest[r]
    <2>1. q.loaded \in Account!Tenant /\ q.new \in Account!Tenant /\ q.new.deleted = q.loaded.deleted
      BY <1>5 DEF Account!CommitPlan, AccountInv, OpenRequest
    <2>2. account' = Account!Written(q.loaded, q.new, account) /\ account \in Account!Tenant
      BY <1>5 DEF Account!CommitPlan, AccountInv
    <2> HIDE DEF q
    <2>3. account' \in Account!Tenant /\ account'.deleted = account.deleted
      BY <2>1, <2>2, WrittenTenant
    <2> QED
      BY <1>2, <1>5, <2>3, IdleIsOpen DEF Account!CommitPlan, Account!End, AccountStep
  <1> QED
    BY <1>1, <1>3, <1>4, <1>5

LEMMA AccountSteps ==
  ASSUME Account!AccountsAssumption, AccountInv, Account!Next
  PROVE  \E r \in Requests : AccountStep(r)
  <1>1. ASSUME NEW r \in Requests, Account!UserRequest(r) PROVE AccountStep(r)
    <2>1. CASE Account!CommitAdd(r) \/ Account!CommitUpdate(r)
      BY <2>1, AccountCommits
    <2>2. ASSUME NEW u \in Users, Account!Reactivate(r, u) \/ Account!AcceptInvite(r, u)
          PROVE  AccountStep(r)
      BY <2>2, AccountSwitches
    <2>3. ASSUME NEW u \in Users, NEW role \in Account!Roles, NEW state \in Account!Statuses,
                 Account!BeginAdd(r, u, role, state) \/ Account!BeginUpdate(r, u, role, state)
                   \/ Account!BeginDeactivate(r, u)
          PROVE  AccountStep(r)
      BY <2>3, AccountBeginnings
    <2>4. "QA" \in Account!Roles /\ "ACTIVE" \in Account!Statuses
      BY DEF Account!Roles, Account!Statuses
    <2> QED
      BY <1>1, <2>1, <2>2, <2>3, <2>4 DEF Account!UserRequest
  <1>2. ASSUME NEW r \in Requests, Account!PlatformRequest(r) PROVE AccountStep(r)
    <2>1. ASSUME NEW u \in Users, NEW deleted \in BOOLEAN, Account!SetDeleted(r, u, deleted)
          PROVE  AccountStep(r)
      BY <2>1, AccountSwitches
    <2> QED
      BY <1>2, <2>1, PlatformSteps DEF Account!PlatformRequest
  <1> QED
    BY <1>1, <1>2 DEF Account!Next

LEMMA AccountsKept ==
  ASSUME Account!AccountsAssumption, AccountInv, [Account!Next]_(Account!vars)
  PROVE  AccountInv'
  <1>1. CASE Account!Next
    <2>1. PICK r \in Requests : AccountStep(r)
      BY <1>1, AccountSteps
    <2>2. UNCHANGED accountRequest => \A s \in Requests : OpenRequest(accountRequest[s])'
      BY <2>1 DEF AccountInv, AccountStep, UsersStay, OpenRequest
    <2> QED
      BY <2>1, <2>2, RequestsStayOpen DEF AccountInv, AccountStep, UsersStay
  <1>2. CASE UNCHANGED Account!vars
    BY <1>2 DEF AccountInv, Account!vars, OpenRequest, Account!Rows
  <1> QED
    BY <1>1, <1>2

LEMMA AccountsStart ==
  ASSUME Account!AccountsAssumption, Account!Init
  PROVE  AccountInv
  <1>1. [role |-> "ADMIN", status |-> "ACTIVE", deleted |-> FALSE] \in Account!User
    BY DEF Account!User, Account!Roles, Account!Statuses
  <1>2. account \in Account!Tenant
    BY DEF Account!Init, Account!Tenant
  <1> QED
    BY <1>1, <1>2, IdleIsOpen DEF Account!Init, AccountInv

LEMMA AccountInvariance ==
  ASSUME Account!AccountsAssumption
  PROVE  Account!Spec => []AccountInv
  BY AccountsStart, AccountsKept, PTL DEF Account!Spec

\* However the requests about users, plans and the tenant overlap, users and tenant
\* are rows of their tables.
THEOREM AccountsAreTyped ==
  ASSUME Account!AccountsAssumption
  PROVE  Account!Spec => []Account!TypeOK
  <1>1. AccountInv => Account!TypeOK
    BY DEF AccountInv, OpenRequest, Account!TypeOK
  <1> QED
    BY <1>1, AccountInvariance, PTL

\* However they overlap, only the platform's own requests delete and restore the
\* tenant, and no user row goes away.
THEOREM DeletionsAreExplicit ==
  ASSUME Account!AccountsAssumption
  PROVE  Account!Spec => [][Account!DeletionIsExplicit]_(Account!vars)
  <1>1. AccountInv /\ [Account!Next]_(Account!vars)
          => [Account!DeletionIsExplicit]_(Account!vars)
    <2>1. ASSUME AccountInv, Account!Next PROVE Account!DeletionIsExplicit
      <3>1. PICK r \in Requests : AccountStep(r)
        BY <2>1, AccountSteps
      <3>2. \A u \in Account!Rows : user'[u] # NoRow
        BY <3>1 DEF AccountStep, UsersStay, Account!Rows
      <3> QED
        BY <3>1, <3>2 DEF AccountStep, Account!DeletionIsExplicit
    <2> QED
      BY <2>1
  <1> QED
    BY <1>1, AccountInvariance, PTL DEF Account!Spec

-----------------------------------------------------------------------------
(* Accounts: one request at a time *)

\* One request at a time.

IsActiveAdmin(row) == row.role = "ADMIN" /\ row.status = "ACTIVE"

\* What the only request has loaded is what the rows still are, an update leaves an
\* active administrator, and a new user still has a seat.
AccountFits(q) ==
  /\ q.op = "add" => Account!HasSeat
  /\ q.op = "update" =>
       /\ q.loaded = user[q.user]
       /\ IsActiveAdmin(q.new) \/ Account!ActiveAdmins \ {q.user} # {}
       /\ ~Reactivates /\ q.loaded.status = "INACTIVE" => q.new.status = "INACTIVE"
  /\ q.op = "plan" => q.loaded = account

SerialAccounts ==
  /\ AccountInv
  /\ IsFiniteSet(Account!Rows)
  /\ Account!AdminRemains
  /\ \A r \in Requests : AccountFits(accountRequest[r])

\* Who may lose the role or the status is not the last active administrator.
LEMMA AnotherAdminRemains ==
  ASSUME AccountInv, IsFiniteSet(Account!Rows), Account!AdminRemains,
         NEW u \in Account!Rows, Account!MayLose(u)
  PROVE  Account!ActiveAdmins \ {u} # {}
  <1>1. IsFiniteSet(Account!ActiveAdmins)
    BY FS_Subset DEF Account!ActiveAdmins
  <1>2. CASE user[u].role # "ADMIN"
    BY <1>2 DEF Account!ActiveAdmins, Account!AdminRemains
  <1>3. CASE user[u].role = "ADMIN"
    <2>1. SUFFICES ASSUME Account!ActiveAdmins = {u} PROVE FALSE
      BY DEF Account!AdminRemains
    <2>2. Cardinality(Account!ActiveAdmins) = 1
      BY <2>1, FS_Singleton
    <2> QED
      BY <1>3, <2>2, AccountCount DEF Account!MayLose
  <1> QED
    BY <1>2, <1>3

\* A row written over another one, by what administrators and seats see of it.
LEMMA RowWritten ==
  ASSUME Account!AccountsAssumption, AccountInv, NEW u \in Users, NEW row \in Account!User,
         user' = [user EXCEPT ![u] = row]
  PROVE  /\ Account!ActiveAdmins \ {u} \subseteq Account!ActiveAdmins'
         /\ IsActiveAdmin(row) => u \in Account!ActiveAdmins'
         /\ Account!Seats' \subseteq Account!Seats \cup {u}
         /\ row.status = "INACTIVE" => Account!Seats' \subseteq Account!Seats \ {u}
  <1>1. /\ \A v \in Users : user'[v] = IF v = u THEN row ELSE user[v]
        /\ Account!Rows' = Account!Rows \cup {u}
    BY UserWritten
  <1>2. Account!Rows \subseteq Users
    BY DEF Account!Rows
  <1>3. Account!ActiveAdmins \ {u} \subseteq Account!ActiveAdmins'
    BY <1>1, <1>2 DEF Account!ActiveAdmins
  <1>4. IsActiveAdmin(row) => u \in Account!ActiveAdmins'
    BY <1>1 DEF Account!ActiveAdmins, IsActiveAdmin
  <1>5. Account!Seats' \subseteq Account!Seats \cup {u}
    BY <1>1, <1>2 DEF Account!Seats
  <1>6. row.status = "INACTIVE" => Account!Seats' \subseteq Account!Seats \ {u}
    BY <1>1, <1>2 DEF Account!Seats
  <1> QED
    BY <1>3, <1>4, <1>5, <1>6

\* The steps of the only request: it begins with rows that it has read, or it
\* ends, and then an active administrator remains.
AccountTurn(r) ==
  \/ /\ UNCHANGED <<user, account>>
     /\ \E q : AccountFits(q) /\ accountRequest' = [accountRequest EXCEPT ![r] = q]
  \/ /\ accountRequest'[r].op = "idle"
     /\ Account!AdminRemains'
     /\ IsFiniteSet(Account!Rows')

\* Seats are taken by a new user only, and then within the limit.
SeatTurn == \/ Account!Seats' \subseteq Account!Seats
            \/ \E u : Account!HasSeat /\ Account!Seats' \subseteq Account!Seats \cup {u}

LEMMA SerialBeginnings ==
  ASSUME SerialAccounts, NEW r \in Requests, NEW u \in Users,
         NEW role \in Account!Roles, NEW state \in Account!Statuses,
         Account!BeginAdd(r, u, role, state) \/ Account!BeginUpdate(r, u, role, state)
           \/ Account!BeginDeactivate(r, u)
  PROVE  AccountTurn(r)
  <1>1. u \in Account!Rows => user[u] \in Account!User
    BY DEF SerialAccounts, AccountInv, Account!Rows
  <1>2. ASSUME NEW q, AccountFits(q), Account!Begin(r, q) PROVE AccountTurn(r)
    BY <1>2 DEF AccountTurn, Account!Begin
  <1>3. CASE Account!BeginAdd(r, u, role, state)
    <2>1. AccountFits([op |-> "add", user |-> u,
                       new |-> [role |-> role, status |-> state, deleted |-> FALSE]])
      BY <1>3 DEF AccountFits, Account!BeginAdd
    <2> QED
      BY <1>2, <1>3, <2>1 DEF Account!BeginAdd
  <1>4. CASE Account!BeginUpdate(r, u, role, state)
    <2> DEFINE new == [user[u] EXCEPT !.role = role, !.status = state]
    <2>1. u \in Account!Rows /\ new.role = role /\ new.status = state
      BY <1>1, <1>4 DEF Account!BeginUpdate, Account!User
    <2>2. ~Reactivates /\ user[u].status = "INACTIVE" => state = "INACTIVE"
      BY <1>4 DEF Account!BeginUpdate
    <2>3. role # "ADMIN" \/ state # "ACTIVE" => Account!ActiveAdmins \ {u} # {}
      BY <1>4, <2>1, AnotherAdminRemains DEF Account!BeginUpdate, SerialAccounts
    <2> HIDE DEF new
    <2>4. AccountFits([op |-> "update", user |-> u, loaded |-> user[u], new |-> new])
      BY <2>1, <2>2, <2>3 DEF AccountFits, IsActiveAdmin
    <2> QED
      BY <1>2, <1>4, <2>4 DEF Account!BeginUpdate, new
  <1>5. CASE Account!BeginDeactivate(r, u)
    <2> DEFINE new == [user[u] EXCEPT !.status = "INACTIVE"]
    <2>1. u \in Account!Rows /\ new.status = "INACTIVE"
      BY <1>1, <1>5 DEF Account!BeginDeactivate, Account!User
    <2>2. Account!ActiveAdmins \ {u} # {}
      BY <1>5, <2>1, AnotherAdminRemains DEF Account!BeginDeactivate, SerialAccounts
    <2> HIDE DEF new
    <2>3. AccountFits([op |-> "update", user |-> u, loaded |-> user[u], new |-> new])
      BY <2>1, <2>2 DEF AccountFits
    <2> QED
      BY <1>2, <1>5, <2>3 DEF Account!BeginDeactivate, new
  <1> QED
    BY <1>3, <1>4, <1>5

LEMMA SerialCommits ==
  ASSUME Account!AccountsAssumption, SerialAccounts, NEW r \in Requests,
         Account!CommitAdd(r) \/ Account!CommitUpdate(r)
  PROVE  AccountTurn(r) /\ (~Reactivates => SeatTurn)
  <1> DEFINE q == accountRequest[r]
  <1>1. OpenRequest(q) /\ AccountFits(q) /\ AccountInv
    BY DEF SerialAccounts, AccountInv
  <1>2. accountRequest'[r].op = "idle"
    BY DEF SerialAccounts, AccountInv, Account!CommitAdd, Account!CommitUpdate, Account!End,
           Account!Idle
  <1>3. ASSUME NEW u \in Users, NEW row \in Account!User, user' = [user EXCEPT ![u] = row]
        PROVE  IsFiniteSet(Account!Rows')
    <2>1. Account!Rows' = Account!Rows \cup {u}
      BY <1>1, <1>3, UserWritten
    <2>2. IsFiniteSet(Account!Rows \cup {u})
      BY FS_AddElement DEF SerialAccounts
    <2> QED
      BY <2>1, <2>2
  <1>4. CASE Account!CommitAdd(r)
    <2>1. q.user \in Users /\ q.new \in Account!User /\ Account!HasSeat
      BY <1>1, <1>4 DEF OpenRequest, AccountFits, Account!CommitAdd
    <2>2. user' = [user EXCEPT ![q.user] = IF user[q.user] = NoRow THEN q.new ELSE user[q.user]]
      BY <1>4 DEF Account!CommitAdd
    <2> HIDE DEF q
    <2>3. CASE user[q.user] = NoRow
      <3>1. user' = [user EXCEPT ![q.user] = q.new]
        BY <2>2, <2>3
      <3>2. q.user \notin Account!ActiveAdmins
        BY <2>3 DEF Account!ActiveAdmins, Account!Rows
      <3>3. Account!AdminRemains'
        <4>1. Account!ActiveAdmins \ {q.user} \subseteq Account!ActiveAdmins'
          BY <1>1, <2>1, <3>1, RowWritten
        <4> QED
          BY <3>2, <4>1 DEF SerialAccounts, Account!AdminRemains
      <3>4. SeatTurn
        BY <1>1, <2>1, <3>1, RowWritten DEF SeatTurn
      <3> QED
        BY <1>2, <1>3, <2>1, <3>1, <3>3, <3>4 DEF AccountTurn
    <2>4. CASE user[q.user] # NoRow
      <3>1. user' = user
        BY <1>1, <2>1, <2>2, <2>4 DEF AccountInv
      <3>2. /\ Account!Rows' = Account!Rows /\ Account!Seats' = Account!Seats
            /\ Account!ActiveAdmins' = Account!ActiveAdmins
        BY <3>1 DEF Account!Rows, Account!Seats, Account!ActiveAdmins
      <3> QED
        BY <1>2, <3>2 DEF AccountTurn, SeatTurn, SerialAccounts, Account!AdminRemains
    <2> QED
      BY <2>3, <2>4
  <1>5. CASE Account!CommitUpdate(r)
    <2>1. /\ q.user \in Account!Rows /\ q.user \in Users
          /\ q.new \in Account!User /\ user[q.user] \in Account!User
          /\ q.loaded = user[q.user]
          /\ IsActiveAdmin(q.new) \/ Account!ActiveAdmins \ {q.user} # {}
          /\ ~Reactivates /\ q.loaded.status = "INACTIVE" => q.new.status = "INACTIVE"
      BY <1>1, <1>5
      DEF OpenRequest, AccountFits, AccountInv, Account!CommitUpdate, Account!Rows
    <2>2. user' = [user EXCEPT ![q.user] = q.new]
      <3>1. Account!Written(q.loaded, q.new, user[q.user]) = q.new
        BY <2>1, WrittenUser
      <3>2. user' = [user EXCEPT ![q.user] = Account!Written(q.loaded, q.new, user[q.user])]
        BY <1>5 DEF Account!CommitUpdate
      <3> HIDE DEF q
      <3> QED
        BY <3>1, <3>2
    <2> HIDE DEF q
    <2>3. Account!AdminRemains' /\ IsFiniteSet(Account!Rows')
      BY <1>1, <1>3, <2>1, <2>2, RowWritten DEF Account!AdminRemains
    <2>4. q.loaded.status # "INACTIVE" => q.user \in Account!Seats
      BY <2>1 DEF Account!Seats
    <2>5. ~Reactivates => SeatTurn
      BY <1>1, <2>1, <2>2, <2>4, RowWritten DEF SeatTurn
    <2> QED
      BY <1>2, <2>3, <2>5 DEF AccountTurn
  <1> QED
    BY <1>4, <1>5

LEMMA SerialSwitches ==
  ASSUME Account!AccountsAssumption, SerialAccounts, NEW r \in Requests, NEW u \in Users,
         NEW deleted \in BOOLEAN,
         Account!Reactivate(r, u) \/ Account!AcceptInvite(r, u)
           \/ Account!SetDeleted(r, u, deleted)
  PROVE  AccountTurn(r) /\ (~Reactivates => SeatTurn)
  <1>1. /\ u \in Account!Rows /\ user[u] \in Account!User /\ AccountInv
        /\ accountRequest'[r].op = "idle"
    BY DEF Account!Reactivate, Account!AcceptInvite, Account!SetDeleted, Account!Once,
           SerialAccounts, AccountInv, Account!Rows, Account!Idle
  <1> DEFINE active == [user[u] EXCEPT !.status = "ACTIVE"]
             marked == [user[u] EXCEPT !.deleted = deleted]
  <1>2. \E row \in Account!User :
          /\ user' = [user EXCEPT ![u] = row]
          /\ IsActiveAdmin(user[u]) => IsActiveAdmin(row)
          /\ ~Reactivates /\ user[u].status = "INACTIVE" => row.status = "INACTIVE"
    <2>1. CASE Account!SetDeleted(r, u, deleted)
      <3>1. /\ marked \in Account!User /\ marked.role = user[u].role
            /\ marked.status = user[u].status
        BY <1>1 DEF Account!User
      <3>2. user' = [user EXCEPT ![u] = marked]
        BY <2>1 DEF Account!SetDeleted
      <3> HIDE DEF marked
      <3> QED
        BY <3>1, <3>2 DEF IsActiveAdmin
    <2>2. CASE Account!Reactivate(r, u) \/ Account!AcceptInvite(r, u)
      <3>1. /\ active \in Account!User /\ active.role = user[u].role
            /\ active.status = "ACTIVE"
        BY <1>1 DEF Account!User, Account!Statuses
      <3>2. user' = [user EXCEPT ![u] = active]
        BY <2>2 DEF Account!Reactivate, Account!AcceptInvite
      <3>3. Reactivates \/ user[u].status = "INVITED"
        BY <2>2 DEF Account!Reactivate, Account!AcceptInvite
      <3> HIDE DEF active
      <3> QED
        BY <3>1, <3>2, <3>3 DEF IsActiveAdmin
    <2> QED
      BY <2>1, <2>2
  <1>3. PICK row \in Account!User :
          /\ user' = [user EXCEPT ![u] = row]
          /\ IsActiveAdmin(user[u]) => IsActiveAdmin(row)
          /\ ~Reactivates /\ user[u].status = "INACTIVE" => row.status = "INACTIVE"
    BY <1>2
  <1> HIDE DEF active, marked
  <1>4. IsFiniteSet(Account!Rows')
    <2>1. Account!Rows' = Account!Rows \cup {u}
      BY <1>1, <1>3, UserWritten
    <2>2. IsFiniteSet(Account!Rows \cup {u})
      BY FS_AddElement DEF SerialAccounts
    <2> QED
      BY <2>1, <2>2
  <1>5. Account!AdminRemains'
    <2>1. /\ Account!ActiveAdmins \ {u} \subseteq Account!ActiveAdmins'
          /\ IsActiveAdmin(row) => u \in Account!ActiveAdmins'
      BY <1>1, <1>3, RowWritten
    <2>2. u \in Account!ActiveAdmins => IsActiveAdmin(user[u])
      BY DEF Account!ActiveAdmins, IsActiveAdmin
    <2> QED
      BY <1>3, <2>1, <2>2 DEF SerialAccounts, Account!AdminRemains
  <1>6. ~Reactivates => SeatTurn
    <2>1. /\ Account!Seats' \subseteq Account!Seats \cup {u}
          /\ row.status = "INACTIVE" => Account!Seats' \subseteq Account!Seats \ {u}
      BY <1>1, <1>3, RowWritten
    <2>2. user[u].status # "INACTIVE" => u \in Account!Seats
      BY <1>1 DEF Account!Seats
    <2> QED
      BY <1>3, <2>1, <2>2 DEF SeatTurn
  <1> QED
    BY <1>1, <1>4, <1>5, <1>6 DEF AccountTurn

LEMMA SerialPlatform ==
  ASSUME Account!AccountsAssumption, SerialAccounts, NEW r \in Requests
  PROVE  /\ \A deleted \in BOOLEAN :
              Account!SetTenantDeleted(r, deleted) => AccountTurn(r) /\ SeatTurn
         /\ \A plan \in Plans : Account!RequestUpgrade(r, plan) => AccountTurn(r)
         /\ \A limit \in Limits : Account!BeginPlan(r, limit) => AccountTurn(r)
         /\ Account!CommitPlan(r) => AccountTurn(r)
  <1>1. ASSUME NEW deleted \in BOOLEAN, Account!SetTenantDeleted(r, deleted)
        PROVE  AccountTurn(r) /\ SeatTurn
    <2>1. \A u \in Account!Rows : /\ user'[u].role = user[u].role
                                  /\ user'[u].status = user[u].status
                                  /\ user'[u] \in Account!User
      BY <1>1 DEF Account!SetTenantDeleted, SerialAccounts, AccountInv, Account!Rows,
         Account!User
    <2>2. Account!Rows' = Account!Rows
      BY <1>1, <2>1
      DEF Account!SetTenantDeleted, Account!Rows, Account!AccountsAssumption
    <2>3. Account!ActiveAdmins' = Account!ActiveAdmins /\ Account!Seats' = Account!Seats
      BY <2>1, <2>2 DEF Account!ActiveAdmins, Account!Seats
    <2> QED
      BY <1>1, <2>2, <2>3 DEF Account!SetTenantDeleted, Account!Once, Account!Idle,
         AccountTurn,
                              SeatTurn, SerialAccounts, Account!AdminRemains
  <1>2. UNCHANGED user => Account!AdminRemains' /\ IsFiniteSet(Account!Rows')
    <2>1. UNCHANGED user => /\ Account!ActiveAdmins' = Account!ActiveAdmins
                            /\ Account!Rows' = Account!Rows
      BY DEF Account!ActiveAdmins, Account!Rows
    <2> QED
      BY <2>1 DEF SerialAccounts, Account!AdminRemains
  <1>3. ASSUME NEW plan \in Plans, Account!RequestUpgrade(r, plan) PROVE AccountTurn(r)
    BY <1>2, <1>3 DEF Account!RequestUpgrade, Account!Once, Account!Idle, AccountTurn
  <1>4. ASSUME NEW limit \in Limits, Account!BeginPlan(r, limit) PROVE AccountTurn(r)
    <2>1. AccountFits([op |-> "plan", loaded |-> account,
                       new |-> [account EXCEPT !.limit = limit, !.pending = NoPlan]])
      BY DEF AccountFits
    <2> QED
      BY <1>4, <2>1 DEF Account!BeginPlan, Account!Begin, AccountTurn
  <1>5. ASSUME Account!CommitPlan(r) PROVE AccountTurn(r)
    <2>1. accountRequest'[r].op = "idle"
      BY <1>5 DEF Account!CommitPlan, Account!End, Account!Idle, SerialAccounts, AccountInv
    <2> QED
      BY <1>2, <1>5, <2>1 DEF Account!CommitPlan, AccountTurn
  <1> QED
    BY <1>1, <1>3, <1>4, <1>5

LEMMA SerialSteps ==
  ASSUME Account!AccountsAssumption, SerialAccounts, Account!Next
  PROVE  \E r \in Requests :
           AccountTurn(r) /\ (~Reactivates => SeatTurn \/ UNCHANGED user)
  <1>1. ASSUME NEW r \in Requests, Account!UserRequest(r)
        PROVE  AccountTurn(r) /\ (~Reactivates => SeatTurn \/ UNCHANGED user)
    <2>1. CASE Account!CommitAdd(r) \/ Account!CommitUpdate(r)
      BY <2>1, SerialCommits
    <2>2. ASSUME NEW u \in Users, Account!Reactivate(r, u) \/ Account!AcceptInvite(r, u)
          PROVE  AccountTurn(r) /\ (~Reactivates => SeatTurn)
      BY <2>2, SerialSwitches
    <2>3. ASSUME NEW u \in Users, NEW role \in Account!Roles, NEW state \in Account!Statuses,
                 Account!BeginAdd(r, u, role, state) \/ Account!BeginUpdate(r, u, role, state)
                   \/ Account!BeginDeactivate(r, u)
          PROVE  AccountTurn(r) /\ UNCHANGED user
      BY <2>3, SerialBeginnings
      DEF Account!BeginAdd, Account!BeginUpdate, Account!BeginDeactivate, Account!Begin
    <2>4. "QA" \in Account!Roles /\ "ACTIVE" \in Account!Statuses
      BY DEF Account!Roles, Account!Statuses
    <2> QED
      BY <1>1, <2>1, <2>2, <2>3, <2>4 DEF Account!UserRequest
  <1>2. ASSUME NEW r \in Requests, Account!PlatformRequest(r)
        PROVE  AccountTurn(r) /\ (~Reactivates => SeatTurn \/ UNCHANGED user)
    <2>1. ASSUME NEW u \in Users, NEW deleted \in BOOLEAN, Account!SetDeleted(r, u, deleted)
          PROVE  AccountTurn(r) /\ (~Reactivates => SeatTurn)
      BY <2>1, SerialSwitches
    <2>2. /\ \A plan \in Plans : Account!RequestUpgrade(r, plan) => UNCHANGED user
          /\ \A limit \in Limits : Account!BeginPlan(r, limit) => UNCHANGED user
          /\ Account!CommitPlan(r) => UNCHANGED user
      BY DEF Account!RequestUpgrade, Account!BeginPlan, Account!Begin, Account!CommitPlan
    <2> QED
      BY <1>2, <2>1, <2>2, SerialPlatform DEF Account!PlatformRequest
  <1> QED
    BY <1>1, <1>2 DEF Account!Next

LEMMA SerialKept ==
  ASSUME Account!AccountsAssumption, OneSlot, SerialAccounts, [Account!Next]_(Account!vars)
  PROVE  SerialAccounts'
  <1>1. AccountInv'
    BY AccountsKept DEF SerialAccounts
  <1>2. UNCHANGED user => /\ Account!ActiveAdmins' = Account!ActiveAdmins
                          /\ Account!Rows' = Account!Rows
    BY DEF Account!ActiveAdmins, Account!Rows
  <1>3. ASSUME UNCHANGED <<user, account>>, NEW q, AccountFits(q)
        PROVE  AccountFits(q)'
    BY <1>3 DEF AccountFits, Account!ActiveAdmins, Account!Rows, Account!HasSeat,
       Account!Seats
  <1>4. CASE Account!Next
    <2>1. PICK r \in Requests : AccountTurn(r)
      BY <1>4, SerialSteps
    <2>2. \A s \in Requests : s = r
      BY DEF OneSlot
    <2>3. CASE UNCHANGED <<user, account>> /\ \E q : /\ AccountFits(q)
                                                     /\ accountRequest' = [accountRequest EXCEPT ![r] = q]
      <3>1. PICK q : AccountFits(q) /\ accountRequest' = [accountRequest EXCEPT ![r] = q]
        BY <2>3
      <3>2. accountRequest'[r] = q
        BY <3>1 DEF SerialAccounts, AccountInv
      <3>3. AccountFits(q)'
        BY <1>3, <2>3, <3>1
      <3>4. \A s \in Requests : AccountFits(accountRequest[s])'
        BY <2>2, <3>2, <3>3 DEF AccountFits
      <3> QED
        BY <1>1, <1>2, <2>3, <3>4 DEF SerialAccounts, Account!AdminRemains
    <2>4. CASE /\ accountRequest'[r].op = "idle" /\ Account!AdminRemains'
               /\ IsFiniteSet(Account!Rows')
      <3>1. \A s \in Requests : AccountFits(accountRequest[s])'
        BY <2>2, <2>4 DEF AccountFits
      <3> QED
        BY <1>1, <2>4, <3>1 DEF SerialAccounts
    <2> QED
      BY <2>1, <2>3, <2>4 DEF AccountTurn
  <1>5. CASE UNCHANGED Account!vars
    <2>1. UNCHANGED <<user, account, accountRequest>>
      BY <1>5 DEF Account!vars
    <2>2. \A s \in Requests : AccountFits(accountRequest[s])'
      BY <2>1 DEF SerialAccounts, AccountFits, Account!ActiveAdmins, Account!Rows,
                  Account!HasSeat, Account!Seats
    <2> QED
      BY <1>1, <1>2, <2>1, <2>2 DEF SerialAccounts, Account!AdminRemains
  <1> QED
    BY <1>4, <1>5

LEMMA SerialAccountsInvariance ==
  ASSUME Account!AccountsAssumption, OneSlot
  PROVE  Account!Spec => []SerialAccounts
  <1>1. Account!Init => SerialAccounts
    <2>1. SUFFICES ASSUME Account!Init PROVE SerialAccounts
      OBVIOUS
    <2>2. /\ Account!Rows = {Founder} /\ Account!ActiveAdmins = {Founder}
      <3> DEFINE founder == [role |-> "ADMIN", status |-> "ACTIVE", deleted |-> FALSE]
      <3>0. founder \in Account!User
        BY DEF Account!User, Account!Roles, Account!Statuses
      <3> HIDE DEF founder
      <3>1. founder # NoRow
        BY <3>0 DEF Account!AccountsAssumption
      <3> USE DEF founder
      <3>2. Account!Rows = {Founder} /\ IsActiveAdmin(user[Founder])
        BY <2>1, <3>1 DEF Account!Init, Account!Rows, Account!AccountsAssumption,
           IsActiveAdmin
      <3> QED
        BY <3>2 DEF Account!ActiveAdmins, IsActiveAdmin
    <2>3. IsFiniteSet({Founder})
      BY FS_Singleton
    <2>4. \A r \in Requests : AccountFits(accountRequest[r])
      BY <2>1 DEF Account!Init, AccountFits, Account!Idle
    <2> QED
      BY <2>1, <2>2, <2>3, <2>4, AccountsStart DEF SerialAccounts, Account!AdminRemains
  <1> QED
    BY <1>1, SerialKept, PTL DEF Account!Spec

\* While one request is under way at a time, an active administrator remains:
\* "Cannot change role or deactivate the only active admin".
THEOREM AdministratorsRemain ==
  ASSUME Account!AccountsAssumption, OneSlot
  PROVE  Account!Spec => []Account!AdminRemains
  <1>1. SerialAccounts => Account!AdminRemains
    BY DEF SerialAccounts
  <1> QED
    BY <1>1, SerialAccountsInvariance, PTL

\* One request at a time, and while nobody who left comes back, a step that takes
\* another seat stays within the plan's limit.
THEOREM SeatsAreLimited ==
  ASSUME Account!AccountsAssumption, OneSlot, ~Reactivates
  PROVE  Account!Spec => [][Account!SeatsWithinLimit]_(Account!vars)
  <1>1. ASSUME SerialAccounts, Account!Next PROVE Account!SeatsWithinLimit
    <2>1. SeatTurn \/ UNCHANGED user
      BY <1>1, SerialSteps
    <2>2. IsFiniteSet(Account!Seats) /\ Cardinality(Account!Seats) \in Nat
      BY <1>1, FS_Subset, FS_CardinalityType DEF SerialAccounts, Account!Seats
    <2>3. CASE Account!Seats' \subseteq Account!Seats
      <3>1. Cardinality(Account!Seats') <= Cardinality(Account!Seats)
            /\ Cardinality(Account!Seats') \in Nat
        BY <2>2, <2>3, FS_Subset, FS_CardinalityType
      <3> QED
        BY <2>2, <3>1, AccountCount DEF Account!SeatsWithinLimit
    <2>4. ASSUME NEW u, Account!HasSeat, Account!Seats' \subseteq Account!Seats \cup {u}
          PROVE  Account!SeatsWithinLimit
      <3>1. /\ IsFiniteSet(Account!Seats \cup {u})
            /\ Cardinality(Account!Seats \cup {u}) \in Nat
            /\ Cardinality(Account!Seats \cup {u}) <= Cardinality(Account!Seats) + 1
        BY <2>2, FS_AddElement, FS_CardinalityType
      <3>2. Cardinality(Account!Seats') <= Cardinality(Account!Seats \cup {u})
            /\ Cardinality(Account!Seats') \in Nat
        BY <2>4, <3>1, FS_Subset, FS_CardinalityType
      <3>3. account.limit \in Nat
        BY <1>1 DEF SerialAccounts, AccountInv, Account!Tenant, Account!AccountsAssumption
      <3> QED
        BY <2>2, <2>4, <3>1, <3>2, <3>3, AccountCount
        DEF Account!SeatsWithinLimit, Account!HasSeat
    <2>5. UNCHANGED user => Account!Seats' = Account!Seats
      BY DEF Account!Seats, Account!Rows
    <2> QED
      BY <2>1, <2>3, <2>4, <2>5 DEF SeatTurn
  <1>2. SerialAccounts /\ [Account!Next]_(Account!vars)
          => [Account!SeatsWithinLimit]_(Account!vars)
    BY <1>1
  <1> QED
    BY <1>2, SerialAccountsInvariance, PTL DEF Account!Spec

\* One request at a time, a pending upgrade ends with a plan change that has seen
\* it.
THEOREM UpgradesAreNoticed ==
  ASSUME Account!AccountsAssumption, OneSlot
  PROVE  Account!Spec => [][Account!UpgradesAreSeen]_(Account!vars)
  <1>1. ASSUME SerialAccounts, Account!Next PROVE Account!UpgradesAreSeen
    <2>1. ASSUME NEW r \in Requests, Account!CommitPlan(r) PROVE Account!UpgradesAreSeen
      BY <1>1, <2>1 DEF SerialAccounts, AccountFits, Account!CommitPlan,
         Account!UpgradesAreSeen
    <2>2. ASSUME NEW r \in Requests, NEW plan \in Plans, Account!RequestUpgrade(r, plan)
          PROVE  Account!UpgradesAreSeen
      BY <1>1, <2>2
      DEF SerialAccounts, AccountInv, Account!Tenant, Account!RequestUpgrade,
          Account!UpgradesAreSeen, Account!AccountsAssumption
    <2>3. ASSUME account'.pending = account.pending PROVE Account!UpgradesAreSeen
      BY <2>3 DEF Account!UpgradesAreSeen
    <2>4. ASSUME NEW r \in Requests, NEW deleted \in BOOLEAN, Account!SetTenantDeleted(r, deleted)
          PROVE  account'.pending = account.pending
      BY <1>1, <2>4 DEF SerialAccounts, AccountInv, Account!Tenant, Account!SetTenantDeleted
    <2>5. \/ UNCHANGED account
          \/ \E r \in Requests :
               \/ Account!CommitPlan(r)
               \/ \E plan \in Plans : Account!RequestUpgrade(r, plan)
               \/ \E deleted \in BOOLEAN : Account!SetTenantDeleted(r, deleted)
      BY <1>1
      DEF Account!Next, Account!UserRequest, Account!PlatformRequest, Account!BeginAdd,
          Account!BeginUpdate, Account!BeginDeactivate, Account!BeginPlan, Account!Begin,
          Account!CommitAdd, Account!CommitUpdate, Account!Reactivate, Account!AcceptInvite,
          Account!SetDeleted
    <2> QED
      BY <2>1, <2>2, <2>3, <2>4, <2>5
  <1>2. SerialAccounts /\ [Account!Next]_(Account!vars)
          => [Account!UpgradesAreSeen]_(Account!vars)
    BY <1>1
  <1> QED
    BY <1>2, SerialAccountsInvariance, PTL DEF Account!Spec

\* What the code promises of the rows of a tenant and its users, at any time:
\* rows of their tables, and an active administrator while requests come one at a
\* time.
THEOREM AccountRowsHold ==
  ASSUME Account!AccountsAssumption
  PROVE  Account!Spec => []Account!AccountsHold
  <1>1. CASE OneSlot
    <2>1. Account!TypeOK /\ Account!AdminRemains => Account!AccountsHold
      BY DEF Account!AccountsHold
    <2>2. Account!Spec => []Account!AdminRemains
      BY <1>1, AdministratorsRemain
    <2> QED
      BY <2>1, <2>2, AccountsAreTyped, PTL
  <1>2. CASE ~OneSlot
    <2>1. Account!TypeOK => Account!AccountsHold
      BY <1>2 DEF Account!AccountsHold, Account!OneSlot, OneSlot
    <2> QED
      BY <2>1, AccountsAreTyped, PTL
  <1> QED
    BY <1>1, <1>2

\* What it promises of every step: deletions are the platform's; one request at a
\* time, upgrades are seen, and while nobody who left comes back, the seats stay
\* within the plan's limit.
THEOREM AccountStepsAlwaysHold ==
  ASSUME Account!AccountsAssumption
  PROVE  Account!Spec => [][Account!AccountStepsHold]_(Account!vars)
  <1>1. CASE ~OneSlot
    <2>1. Account!DeletionIsExplicit => Account!AccountStepsHold
      BY <1>1 DEF Account!AccountStepsHold, Account!OneSlot, OneSlot
    <2> QED
      BY <2>1, DeletionsAreExplicit, PTL
  <1>2. CASE OneSlot /\ Reactivates
    <2>1. Account!DeletionIsExplicit /\ Account!UpgradesAreSeen => Account!AccountStepsHold
      BY <1>2 DEF Account!AccountStepsHold
    <2>2. Account!Spec => [][Account!UpgradesAreSeen]_(Account!vars)
      BY <1>2, UpgradesAreNoticed
    <2> QED
      BY <2>1, <2>2, DeletionsAreExplicit, PTL
  <1>3. CASE OneSlot /\ ~Reactivates
    <2>1. Account!DeletionIsExplicit /\ Account!UpgradesAreSeen /\ Account!SeatsWithinLimit
            => Account!AccountStepsHold
      BY DEF Account!AccountStepsHold
    <2>2. Account!Spec => /\ [][Account!UpgradesAreSeen]_(Account!vars)
                          /\ [][Account!SeatsWithinLimit]_(Account!vars)
      BY <1>3, UpgradesAreNoticed, SeatsAreLimited
    <2> QED
      BY <2>1, <2>2, DeletionsAreExplicit, PTL
  <1> QED
    BY <1>1, <1>2, <1>3
=============================================================================
