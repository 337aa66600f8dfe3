--------------------------- MODULE TenantSettings ---------------------------
(***************************************************************************)
(* The settings of one tenant that its administrators change while it is   *)
(* at work: the escalation rule and the blind-review settings              *)
(* (tenant_settings_service.py), which are created when first asked for,   *)
(* and the LLM configuration (llm_config_service.py).  A request validates *)
(* what it has read in one step and commits in a later one.                *)
(*                                                                         *)
(* The two verifier ranges are treated alike, so one of them is kept.      *)
(***************************************************************************)
EXTENDS Naturals, FiniteSets

CONSTANTS
  Rules,      \* bounds the escalation_rules rows of the tenant
  Points,     \* ends of a range
  NoRow,
  Requests    \* slots of overlapping requests

DefaultRule == [start |-> 0, end |-> 40]

Rule == [start : Points, end : Points]

Buckets == {"none", "default", "custom"}

Providers == {"OPENAI", "AZURE_OPENAI", "CUSTOM"}

\* The address of OpenAI, a base URL, a URL of chat completions.
Endpoints == {"openai", "base", "full"}

Config == [provider : Providers, endpoint : Endpoints, key : BOOLEAN]

SettingsAssumption ==
  /\ Points \subseteq Nat /\ {0, 40} \subseteq Points
  /\ NoRow \notin Rule /\ NoRow \notin Buckets /\ NoRow \notin Config

VARIABLES
  rule,     \* escalation_rules of the tenant; tenantId is not unique there
  blind,    \* blind_review_settings.scoreBuckets
  llm,      \* llm_configs
  request

vars == <<rule, blind, llm, request>>

Idle == [op |-> "idle"]

RuleRows == {i \in Rules : rule[i] # NoRow}

\* SQLAlchemy writes the columns that differ from what was loaded.
Written(loaded, new, current) ==
  [c \in DOMAIN current |-> IF new[c] = loaded[c] THEN current[c] ELSE new[c]]

Begin(r, record) ==
  /\ request[r] = Idle
  /\ request' = [request EXCEPT ![r] = record]
  /\ UNCHANGED <<rule, blind, llm>>

Continue(r, record) == request' = [request EXCEPT ![r] = record]

End(r) == request' = [request EXCEPT ![r] = Idle]

-----------------------------------------------------------------------------
(* get_escalation and patch_escalation *)

Ordered(row) == row.start <= row.end

\* patch is the columns that the request sets.
Patched(row, patch) ==
  [c \in DOMAIN row |-> IF c \in DOMAIN patch THEN patch[c] ELSE row[c]]

RulePatches == UNION {[columns -> Points] : columns \in SUBSET {"start", "end"}}

\* The first request creates the row in a transaction of its own; more rows
\* than one make scalar_one_or_none raise.
GetRule(r, patch) ==
  \/ /\ RuleRows = {}
     /\ Begin(r, [op |-> "create", patch |-> patch])
  \/ \E i \in RuleRows :
       /\ RuleRows = {i}
       /\ patch # <<>>
       /\ Begin(r, [op |-> "rule", row |-> i, loaded |-> rule[i], patch |-> patch])

CreateRule(r) ==
  /\ request[r].op = "create"
  /\ \E i \in Rules \ RuleRows :
       /\ rule' = [rule EXCEPT ![i] = DefaultRule]
       /\ Continue(r, [op |-> "rule", row |-> i, loaded |-> DefaultRule,
                       patch |-> request[r].patch])
  /\ UNCHANGED <<blind, llm>>

\* A range that is not ordered raises, and nothing is written.
PatchRule(r) ==
  LET q == request[r]
      new == Patched(q.loaded, q.patch)
  IN
  /\ q.op = "rule"
  /\ rule' = IF Ordered(new) THEN [rule EXCEPT ![q.row] = Written(q.loaded, new, @)]
             ELSE rule
  /\ End(r)
  /\ UNCHANGED <<blind, llm>>

-----------------------------------------------------------------------------
(* get_blind_review and patch_blind_review *)

\* A missing row is inserted, empty buckets are filled, before any patch.
GetBlind(r, buckets) ==
  Begin(r, [op |-> CASE blind = NoRow -> "insert" [] blind = "none" -> "fill"
                     [] OTHER -> "blind",
            loaded |-> blind, buckets |-> buckets])

\* tenantId is unique: of two inserts the second one fails.
FillBlind(r) ==
  /\ request[r].op \in {"insert", "fill"}
  /\ IF request[r].op = "insert" /\ blind # NoRow
     THEN End(r) /\ UNCHANGED blind
     ELSE /\ blind' = "default"
          /\ Continue(r, [request[r] EXCEPT !.op = "blind", !.loaded = "default"])
  /\ UNCHANGED <<rule, llm>>

\* A request that patches nothing ends here, too; equal buckets are not written.
PatchBlind(r) ==
  LET q == request[r] IN
  /\ q.op = "blind"
  /\ blind' = IF q.buckets \in {NoRow, q.loaded} THEN blind ELSE q.buckets
  /\ End(r)
  /\ UNCHANGED <<rule, llm>>

-----------------------------------------------------------------------------
(* upsert_config of the LLM *)

Fits(provider, endpoint) ==
  CASE provider = "OPENAI" -> endpoint = "openai"
    [] provider = "AZURE_OPENAI" -> endpoint = "base"
    [] provider = "CUSTOM" -> endpoint \in Endpoints

\* _validate_endpoint_shape: OpenAI's own address whatever is given, and
\* NoRow where it raises.
ValidEndpoint(provider, endpoint) ==
  CASE provider = "OPENAI" -> "openai"
    [] Fits(provider, endpoint) -> endpoint
    [] OTHER -> NoRow

\* Mutant: the first save needs no key.
MaySave_WithoutKey(endpoint, key) == endpoint # NoRow

MaySave(endpoint, key) == endpoint # NoRow /\ (llm = NoRow => key)

\* A key that is not given is kept.  No rule is about the backup provider.
SaveConfig(r, provider, given, key) ==
  LET endpoint == ValidEndpoint(provider, given) IN
  /\ MaySave(endpoint, key)
  /\ Begin(r, [op |-> "llm", loaded |-> llm,
       new |-> [provider |-> provider, endpoint |-> endpoint,
                key |-> key \/ (llm # NoRow /\ llm.key)]])

\* Two first saves: tenantId is unique.
CommitConfig(r) ==
  LET q == request[r] IN
  /\ q.op = "llm"
  /\ llm' = IF q.loaded # NoRow THEN Written(q.loaded, q.new, llm)
            ELSE IF llm = NoRow THEN q.new ELSE llm
  /\ End(r)
  /\ UNCHANGED <<rule, blind>>

-----------------------------------------------------------------------------
\* Provisioning leaves a rule and empty buckets; the platform's own tenant, which
\* is not provisioned, starts with neither.
Init ==
  /\ \/ /\ rule = [i \in Rules |-> NoRow]
        /\ blind = NoRow
     \/ /\ \E i \in Rules : rule = [j \in Rules |-> IF j = i THEN DefaultRule ELSE NoRow]
        /\ blind = "none"
  /\ llm = NoRow
  /\ request = [r \in Requests |-> Idle]

RuleRequest(r) ==
  \/ \E patch \in RulePatches : GetRule(r, patch)
  \/ CreateRule(r) \/ PatchRule(r)

BlindRequest(r) ==
  \/ \E buckets \in {"none", "custom", NoRow} : GetBlind(r, buckets)
  \/ FillBlind(r) \/ PatchBlind(r)

ConfigRequest(r) ==
  \/ \E provider \in Providers, given \in Endpoints, key \in BOOLEAN :
       SaveConfig(r, provider, given, key)
  \/ CommitConfig(r)

Next == \E r \in Requests : RuleRequest(r) \/ BlindRequest(r) \/ ConfigRequest(r)

Spec == Init /\ [][Next]_vars

-----------------------------------------------------------------------------
(* Properties *)

\* Every setting holds a row its table can hold.
TypeOK ==
  /\ rule \in [Rules -> Rule \cup {NoRow}]
  /\ blind \in Buckets \cup {NoRow}
  /\ llm \in Config \cup {NoRow}
  /\ \A r \in Requests :
       request[r].op \in {"idle", "create", "rule", "insert", "fill", "blind", "llm"}

\* "verifierMinRangeStart must be <= verifierMinRangeEnd", whoever sets them.
RangesAreOrdered == \A i \in RuleRows : Ordered(rule[i])

\* "these tables are keyed by tenantId": every reader of the rule, the
\* submission of an evaluation included, fails when there are two.
OneRulePerTenant == Cardinality(RuleRows) <= 1

\* "Provide only the base Azure resource URL": the endpoint that is stored is
\* one that its provider admits.
EndpointFitsProvider == llm # NoRow => Fits(llm.provider, llm.endpoint)

\* "apiKey is required on first save", and no later save loses the key,
\* whichever saves overlap.
ConfigHasKey == llm # NoRow => llm.key

\* An administrator's buckets are replaced by a request that sets buckets,
\* never by one that only reads the settings.
BucketsAreKept ==
  blind = "custom" /\ blind' # "custom" =>
    \E r \in Requests : /\ request[r].op = "blind" /\ request'[r] = Idle
                        /\ request[r].buckets # NoRow

\* One request at a time.
OneSlot == \A r, q \in Requests : r = q

\* Under overlap, a configuration keeps its key; one request at a time, what is
\* stored is what the requests' own checks admit.
SettingsHold ==
  /\ TypeOK /\ ConfigHasKey
  /\ OneSlot => OneRulePerTenant /\ RangesAreOrdered /\ EndpointFitsProvider
=============================================================================
