------------------------------ MODULE MCTenant ------------------------------
(***************************************************************************)
(* Small instances of what administrates one tenant: signup, provisioning, *)
(* logins, accounts, API keys, forms, routing and settings.  They share no *)
(* row, so a behaviour runs one of them (part), and what holds of each     *)
(* alone holds of them together.  Some promises of the code are kept       *)
(* however requests overlap, others when they come one at a time: the      *)
(* instances of the latter have one slot of requests, r0.                  *)
(***************************************************************************)
EXTENDS Signup, TLC

CONSTANTS
  e1, e2, c1, c2, ann, ben, cyd, k1, k2, k3, support, Chat, Email, Pro,
  r0, r1, r2,     \* request slots
  x0, x1, x2, x3  \* rows, or processes, of whichever part runs

VARIABLES
  part,
  userStatus, hasPassword, invited, tenantStatus, code, token, starts, breach,
  loginRequest,                                                         \* LoginSessions
  user, account, accountRequest,                                        \* Accounts
  status, stored, configured, minted, role, database, schema, form,
  pool, thread,                                                         \* TenantProvisioning
  owner, current, used, keyRequest,                                     \* IngestKeys
  forms, formRequest,                                                   \* Forms
  dept, mapping, setting, member, audit, routingRequest,                \* Routing
  rule, blind, llm, settingsRequest                                     \* TenantSettings

login ==
  <<userStatus, hasPassword, invited, tenantStatus, code, token, starts, breach,
    loginRequest>>
accounts == <<user, account, accountRequest>>
provisioning ==
  <<status, stored, configured, minted, role, database, schema, form, pool, thread>>
keys == <<owner, current, used, keyRequest>>
formRows == <<forms, formRequest>>
routing == <<dept, mapping, setting, member, audit, routingRequest>>
settings == <<rule, blind, llm, settingsRequest>>

tenantVars ==
  <<part, vars, login, accounts, provisioning, keys, formRows, routing, settings>>

-----------------------------------------------------------------------------
(* The parts *)

Login == INSTANCE LoginSessions WITH
  Tokens <- {x1, x2, x3}, Codes <- {c1}, NoToken <- None, Invited <- TRUE,
  MaxInvites <- 2,
  status <- userStatus, tenant <- tenantStatus, request <- loginRequest

SerialLogin == INSTANCE LoginSessions WITH
  Requests <- {r0}, Tokens <- {x1, x2, x3}, Codes <- {c1}, NoToken <- None,
  Invited <- TRUE, MaxInvites <- 2,
  status <- userStatus, tenant <- tenantStatus, request <- loginRequest

Accounts == INSTANCE Accounts WITH
  Users <- {ann, ben}, Founder <- ann, Limits <- {2}, Plans <- {Pro},
  NoRow <- None, NoPlan <- None, Reactivates <- TRUE, Platform <- TRUE,
  tenant <- account, request <- accountRequest

\* Nobody is deleted, and who has left stays away.
Seats == INSTANCE Accounts WITH
  Requests <- {r0},
  Users <- {ann, ben, cyd}, Founder <- ann, Limits <- {1, 2}, Plans <- {Pro},
  NoRow <- None, NoPlan <- None, Reactivates <- FALSE, Platform <- FALSE,
  tenant <- account, request <- accountRequest

Stages == {"role", "database", "persist", "schema", "engine", "seed", "activate",
           "read", "insert"}

Provisioning == INSTANCE TenantProvisioning WITH
  Processes <- {x1, x2}, Slots <- Requests, MaxPasswords <- 2, MayFailIn <- Stages

SerialProvisioning == INSTANCE TenantProvisioning WITH
  Processes <- {x0}, Slots <- {x0}, MaxPasswords <- 3, MayFailIn <- Stages

Rotations == INSTANCE IngestKeys WITH
  Tenants <- {x1, x2}, Keys <- {k1, k2, k3}, Crashes <- FALSE, request <- keyRequest

SerialRotations == INSTANCE IngestKeys WITH
  Requests <- {r0}, Tenants <- {x1, x2}, Keys <- {k1, k2, k3}, Crashes <- FALSE,
  request <- keyRequest

CrashingRotations == INSTANCE IngestKeys WITH
  Tenants <- {x1, x2}, Keys <- {k1, k2, k3}, Crashes <- TRUE, request <- keyRequest

Forms == INSTANCE Forms WITH
  FormIds <- {x1, x2}, Keys <- {"kA"}, Channels <- {Chat}, Departments <- {support},
  NoDepartment <- None, NoForm <- None, MaxForms <- 2, request <- formRequest

\* Two channels of one department.
TwoChannels == INSTANCE Forms WITH
  Requests <- {r0}, FormIds <- {x1, x2}, Keys <- {"kA"}, Channels <- {Chat, Email},
  Departments <- {support}, NoDepartment <- None, NoForm <- None, MaxForms <- 2,
  request <- formRequest

Routing == INSTANCE Routing WITH
  Departments <- {x0}, Channels <- {Chat}, Keys <- {k1}, Mappings <- {x1, x2},
  Users <- {}, NoRow <- None, Reorganised <- TRUE, request <- routingRequest

TwoDepartments == INSTANCE Routing WITH
  Requests <- {r0}, Departments <- {x1, x2}, Channels <- {Chat}, Keys <- {k1}, Mappings <- {k1},
  Users <- {ann}, NoRow <- None, Reorganised <- TRUE, request <- routingRequest

\* Departments are neither deactivated nor deleted.
Fallback == INSTANCE Routing WITH
  Requests <- {r0}, Departments <- {x1, x2}, Channels <- {Chat}, Keys <- {k1}, Mappings <- {k1},
  Users <- {}, NoRow <- None, Reorganised <- FALSE, request <- routingRequest

Settings == INSTANCE TenantSettings WITH
  Rules <- {}, Points <- {0, 40}, NoRow <- None, request <- settingsRequest

\* The range's end can pass its start.
Ranges == INSTANCE TenantSettings WITH
  Requests <- {r0}, Rules <- {x1, x2}, Points <- {0, 20, 40}, NoRow <- None, request <- settingsRequest

Parts ==
  {"signup", "login", "serial login", "accounts", "seats", "provisioning", "thread",
   "keys", "serial keys", "crashing keys", "forms", "channels", "routing",
   "departments", "fallback", "settings", "ranges"}

ASSUME
  /\ Login!SessionsAssumption /\ SerialLogin!SessionsAssumption
  /\ Accounts!AccountsAssumption /\ Seats!AccountsAssumption
  /\ Provisioning!ProvisioningAssumption /\ SerialProvisioning!ProvisioningAssumption
  /\ Rotations!KeysAssumption /\ SerialRotations!KeysAssumption
  /\ CrashingRotations!KeysAssumption
  /\ Forms!FormsAssumption /\ TwoChannels!FormsAssumption
  /\ Routing!RoutingAssumption /\ TwoDepartments!RoutingAssumption
  /\ Fallback!RoutingAssumption
  /\ Settings!SettingsAssumption /\ Ranges!SettingsAssumption

-----------------------------------------------------------------------------

\* A part that does not run stays as it starts.
MCInit ==
  /\ part \in Parts
  /\ Init
  /\ IF part = "serial login" THEN SerialLogin!Init ELSE Login!Init
  /\ IF part = "seats" THEN Seats!Init ELSE Accounts!Init
  /\ IF part = "thread" THEN SerialProvisioning!Init ELSE Provisioning!Init
  /\ IF part = "serial keys" THEN SerialRotations!Init ELSE Rotations!Init
  /\ IF part = "channels" THEN TwoChannels!Init ELSE Forms!Init
  /\ CASE part = "departments" -> TwoDepartments!Init
       [] part = "fallback" -> Fallback!Init
       [] OTHER -> Routing!Init
  /\ IF part = "ranges" THEN Ranges!Init ELSE Settings!Init
  /\ part \in {"settings", "ranges"} \/ blind = None

\* Bounds on the requests that overlap: at most one of a kind, or none of some.
AtMostOne(slots, kind) == Cardinality({r \in Requests : slots'[r].op = kind}) <= 1

NoneOf(slots, kinds) == \A r \in Requests : slots'[r].op \notin kinds

MCNext ==
  /\ UNCHANGED part
  /\ IF part = "signup" THEN Next ELSE UNCHANGED vars
  /\ CASE part = "login" -> Login!Next
       [] part = "serial login" -> SerialLogin!Next
       [] OTHER -> UNCHANGED login
  /\ CASE part = "accounts" -> Accounts!Next /\ AtMostOne(accountRequest, "update")
       [] part = "seats" -> Seats!Next
       [] OTHER -> UNCHANGED accounts
  /\ CASE part = "provisioning" -> Provisioning!Next
       [] part = "thread" -> SerialProvisioning!Next
       [] OTHER -> UNCHANGED provisioning
  /\ CASE part = "keys" -> Rotations!Next
       [] part = "serial keys" -> SerialRotations!Next
       [] part = "crashing keys" -> CrashingRotations!Next
       [] OTHER -> UNCHANGED keys
  /\ CASE part = "forms" -> Forms!Next
       [] part = "channels" -> TwoChannels!Next
       [] OTHER -> UNCHANGED formRows
  /\ CASE part = "routing" -> /\ Routing!Next
                              /\ AtMostOne(routingRequest, "settings")
                              /\ NoneOf(routingRequest, {"upload", "routed"})
       [] part = "departments" -> TwoDepartments!Next
       [] part = "fallback" -> Fallback!Next
       [] OTHER -> UNCHANGED routing
  /\ CASE part = "settings" -> Settings!Next
       [] part = "ranges" -> Ranges!Next
       [] OTHER -> UNCHANGED settings

MCSpec == MCInit /\ [][MCNext]_tenantVars

-----------------------------------------------------------------------------
(* Properties *)

\* LoginSessions.  Whatever overlaps, sessions start with a login or an
\* invitation, and what has ended stays ended.
SessionsHold ==
  /\ []Login!SessionsHold
  /\ [][Login!EndedStaysEnded]_login
  /\ [][part = "login" => Login!RefusedIsEnded]_login

\* LoginSessions.  One request at a time, a token is used once, a login and an
\* invitation start one session, a deactivation is honoured, and a reset or a
\* deactivation leaves no session.
LoginsHold ==
  /\ [](part = "serial login" => SerialLogin!LoginsHold)
  /\ [][part = "serial login" => SerialLogin!RevocationIsComplete]_login

\* Accounts.  Whatever overlaps, only the platform deletes.  One request at a
\* time, an active administrator remains, the seats stay within the plan's
\* limit, and a requested upgrade ends with a plan change that has seen it.
AccountsHold ==
  /\ [](part = "accounts" => Accounts!AccountsHold)
  /\ [](part = "seats" => Seats!AccountsHold)
  /\ [][part = "accounts" => Accounts!AccountStepsHold]_accounts
  /\ [][part = "seats" => Seats!AccountStepsHold]_accounts

\* TenantProvisioning.  Whatever overlaps and fails, a tenant that counts as
\* configured has its database, tables and form.  With one thread, the password
\* that is stored and those of the pools are the database's.
ProvisioningHolds ==
  /\ [](part = "provisioning" => Provisioning!ProvisioningHolds)
  /\ [](part = "thread" => SerialProvisioning!ProvisioningHolds)

\* IngestKeys.  Whatever overlaps, the current key works, and no key comes back
\* or changes hands, also when rotations crash.  One rotation at a time, the
\* previous key is revoked.
KeysHold ==
  /\ [](part = "keys" => Rotations!KeysHold)
  /\ [](part = "serial keys" => SerialRotations!KeysHold)
  /\ [](part = "crashing keys" => CrashingRotations!KeysHold)
  /\ [][Rotations!KeysAreNotReused]_keys

\* Forms.  Whatever overlaps, the versions of a key are dense and what is
\* published is dated.  One request at a time, a channel has one published form,
\* whose channels do not change, and what is archived is dated.
FormsHold ==
  /\ [](part = "forms" => Forms!FormsHold)
  /\ [](part = "channels" => TwoChannels!FormsHold)
  /\ [][part = "channels" => TwoChannels!PublishedIsFrozen]_formRows

\* Routing.  Whatever overlaps, mappings, users and settings lead to one
\* department that exists.  One request at a time, the audit trail is current
\* and a department with users stays.
MappingsHold ==
  /\ [](part = "routing" => Routing!MappingsHold)
  /\ [](part = "departments" => TwoDepartments!MappingsHold)
  /\ [][part = "departments" => TwoDepartments!StaffedIsKept]_routing

\* Routing.  One request at a time, the configuration decides the route, and to
\* an active department; while departments stay, the fallback is set exactly in
\* its mode.
RoutesHold ==
  /\ [](part = "departments" => TwoDepartments!RoutesHold)
  /\ [](part = "fallback" => Fallback!RoutesHold)

\* TenantSettings.  Whatever overlaps, a language model's configuration has a
\* key.  One request at a time, a tenant has one rule, its range is ordered, the
\* endpoint fits the provider, and no read replaces an administrator's buckets.
SettingsHold ==
  /\ [](part = "settings" => Settings!SettingsHold)
  /\ [](part = "ranges" => Ranges!SettingsHold)
  /\ [][part = "ranges" => Ranges!BucketsAreKept]_settings

MCSymmetry == Permutations(Requests) \cup Permutations({x1, x2})
=============================================================================
