----------------------------- MODULE IngestKeys -----------------------------
(***************************************************************************)
(* The API keys with which tenants send conversations in                   *)
(* (webhooks_ingest_service.py).  Redis maps each key to its tenant, and   *)
(* each tenant to its current key; a rotation is four calls to Redis, and  *)
(* rotations overlap or crash between them.  register_api_key has no       *)
(* caller; what is ingested is EvaluationSystem's.                         *)
(***************************************************************************)
EXTENDS Naturals

CONSTANTS
  Tenants,
  Keys,       \* bounds the keys generated
  None,
  Requests,   \* slots of overlapping rotations
  Crashes     \* a process may stop in the middle of a rotation

KeysAssumption ==
  /\ None \notin Keys \cup Tenants
  /\ Crashes \in BOOLEAN

VARIABLES
  owner,      \* webhook_apikey:<hash> -> tenant
  current,    \* webhook_apikey_current:<tenant> -> hash
  used,       \* history: the keys generated so far
  request

vars == <<owner, current, used, request>>

Idle == [op |-> "idle"]

Continue(r, record) == request' = [request EXCEPT ![r] = record]

End(r) == Continue(r, Idle)

\* resolve_tenant_by_api_key
Resolve(k) == owner[k]

KeysOf(t) == {k \in Keys : Resolve(k) = t}

Rotating(t) == \E r \in Requests : request[r] # Idle /\ request[r].tenant = t

ReadCurrent(r, t) ==
  /\ request[r] = Idle
  /\ Continue(r, [op |-> "revoke", tenant |-> t, key |-> current[t]])
  /\ UNCHANGED <<owner, current, used>>

\* The key that was current is deleted, if there was one.
RevokeCurrent(r) ==
  LET q == request[r] IN
  /\ q.op = "revoke"
  /\ owner' = [k \in Keys |-> IF k = q.key THEN None ELSE owner[k]]
  /\ Continue(r, [q EXCEPT !.op = "store"])
  /\ UNCHANGED <<current, used>>

\* The key is random: no other rotation has it.
StoreKey(r, k) ==
  LET q == request[r] IN
  /\ q.op = "store"
  /\ k \notin used
  /\ owner' = [owner EXCEPT ![k] = q.tenant]
  /\ used' = used \cup {k}
  /\ Continue(r, [q EXCEPT !.op = "point", !.key = k])
  /\ UNCHANGED current

\* Mutant: the pointer keeps the key that was revoked.
PointToKey_Kept(r) ==
  LET q == request[r] IN
  /\ q.op = "point"
  /\ current' = [current EXCEPT ![q.tenant] = IF @ = None THEN q.key ELSE @]
  /\ End(r)
  /\ UNCHANGED <<owner, used>>

\* The rotation ends: its caller is shown the key.
PointToKey(r) ==
  LET q == request[r] IN
  /\ q.op = "point"
  /\ current' = [current EXCEPT ![q.tenant] = q.key]
  /\ End(r)
  /\ UNCHANGED <<owner, used>>

Crash(r) ==
  /\ Crashes
  /\ request[r] # Idle
  /\ End(r)
  /\ UNCHANGED <<owner, current, used>>

Init ==
  /\ owner = [k \in Keys |-> None]
  /\ current = [t \in Tenants |-> None]
  /\ used = {}
  /\ request = [r \in Requests |-> Idle]

Next ==
  \E r \in Requests :
    \/ \E t \in Tenants : ReadCurrent(r, t)
    \/ \E k \in Keys : StoreKey(r, k)
    \/ RevokeCurrent(r) \/ PointToKey(r) \/ Crash(r)

Spec == Init /\ [][Next]_vars

-----------------------------------------------------------------------------
(* Properties *)

\* Keys belong to tenants, a tenant's current key is one that was generated.
TypeOK ==
  /\ owner \in [Keys -> Tenants \cup {None}]
  /\ current \in [Tenants -> Keys \cup {None}]
  /\ used \subseteq Keys
  /\ request \in [Requests -> {Idle}
       \cup [op : {"revoke", "store", "point"}, tenant : Tenants, key : Keys \cup {None}]]

\* No key is ever handed to a second tenant, nor comes back once it is revoked.
KeysAreNotReused ==
  \A k \in used : Resolve(k)' \in {Resolve(k), None}

\* "revoking the previous one": when no rotation is under way a tenant has at
\* most one key.
PreviousIsRevoked ==
  \A t \in Tenants : Rotating(t) \/ \A j, k \in KeysOf(t) : j = k

\* However rotations overlap, the key that the last one left as the current
\* one works once none is under way.
CurrentKeyWorks ==
  \A t \in Tenants : Rotating(t) \/ current[t] = None \/ Resolve(current[t]) = t

\* One request at a time.
OneSlot == \A r, q \in Requests : r = q

\* Rotations that run to their end leave a current key that works; one at a
\* time, they leave no other.
KeysHold ==
  /\ TypeOK
  /\ ~Crashes => CurrentKeyWorks
  /\ ~Crashes /\ OneSlot => PreviousIsRevoked
=============================================================================
