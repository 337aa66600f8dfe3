------------------------- MODULE TenantProvisioning -------------------------
(***************************************************************************)
(* One tenant's database: how signup, or the first connection after a      *)
(* failed signup, provisions it (provision_task.py), and the connection    *)
(* pools of the processes that use it (tenant_pool.py).  A thread makes    *)
(* one step at a time; between two steps other threads, an administrator   *)
(* or a failure come in.                                                   *)
(***************************************************************************)
EXTENDS Naturals

CONSTANTS
  Processes,    \* uvicorn and celery processes, each with a pool of its own
  Slots,        \* threads of a process that provision or connect
  MaxPasswords, \* bounds the passwords that are generated
  MayFailIn     \* the stages in which a thread may fail

Stages == {"role", "database", "persist", "schema", "engine", "seed", "activate",
           "read", "insert"}

ProvisioningAssumption ==
  /\ MaxPasswords \in Nat
  /\ MayFailIn \subseteq Stages

VARIABLES
  status,     \* tenants.status
  stored,     \* tenants.dbPasswordEnc
  configured, \* escalation rule and blind-review settings exist
  minted,     \* how many passwords have been generated
  role,       \* the password of the database role
  database,   \* the database exists
  schema,     \* its tables exist
  form,       \* the starter form exists
  pool,       \* per process, the password of its engine
  thread      \* what each thread is doing

master == <<status, stored, configured>>
server == <<role, database, schema, form>>
vars == <<status, stored, configured, minted, role, database, schema, form, pool, thread>>

TenantStatus == {"PROVISIONING", "ACTIVE", "SUSPENDED", "CANCELLED"}

Threads == Processes \X Slots

Empty == 0  \* no password stored, no role, no engine

Idle == [stage |-> "idle"]

\* A thread at a stage: the password it generated, the password of the engine
\* it builds, and whether a connection or signup started it.
At(stage, password, engine, connecting) ==
  [stage |-> stage, password |-> password, engine |-> engine, connecting |-> connecting]

Goto(t, stage) == thread' = [thread EXCEPT ![t].stage = stage]

-----------------------------------------------------------------------------
(* Signup and the pool *)

\* Signup commits the tenant, then provisions in its own thread.
Signup(t) ==
  /\ thread[t] = Idle /\ status = "NONE"
  /\ minted < MaxPasswords
  /\ status' = "PROVISIONING"
  /\ minted' = minted + 1
  /\ thread' = [thread EXCEPT ![t] = At("role", minted + 1, Empty, FALSE)]
  /\ UNCHANGED <<stored, configured, server, pool>>

\* A request, a task or the startup loop asks for an engine that is not there.
Connect(t) ==
  /\ thread[t] = Idle /\ status # "NONE"
  /\ pool[t[1]] = Empty
  /\ thread' = [thread EXCEPT ![t] = At("read", Empty, Empty, TRUE)]
  /\ UNCHANGED <<master, server, minted, pool>>

\* Mutant: the pool provisions until the tenant is active.
NeedsProvisioning_UntilConfigured == stored = Empty \/ ~configured

NeedsProvisioning == stored = Empty

\* Suspended and cancelled tenants are refused.
Connectable == status \in {"ACTIVE", "PROVISIONING"}

\* _build_entry reads the tenant's row.
ReadRow(t) ==
  /\ thread[t].stage = "read"
  /\ IF NeedsProvisioning
     THEN /\ minted < MaxPasswords
          /\ minted' = minted + 1
          /\ thread' = [thread EXCEPT ![t] = At("role", minted + 1, Empty, TRUE)]
     ELSE /\ thread' = [thread EXCEPT ![t] =
               IF Connectable THEN At("insert", Empty, stored, TRUE) ELSE Idle]
          /\ UNCHANGED minted
  /\ UNCHANGED <<master, server, pool>>

\* _get_entry keeps the engine that came first.
Pooled(t) == [pool EXCEPT ![t[1]] = IF @ = Empty THEN thread[t].engine ELSE @]

Insert(t) ==
  /\ thread[t].stage = "insert"
  /\ pool' = Pooled(t)
  /\ thread' = [thread EXCEPT ![t] = Idle]
  /\ UNCHANGED <<master, server, minted>>

-----------------------------------------------------------------------------
(* tenant_provision *)

\* CREATE USER, or ALTER USER when it exists.
RoleAfter(password) == password

CreateRole(t) ==
  /\ thread[t].stage = "role"
  /\ role' = RoleAfter(thread[t].password)
  /\ Goto(t, "database")
  /\ UNCHANGED <<master, minted, database, schema, form, pool>>

CreateDatabase(t) ==
  /\ thread[t].stage = "database"
  /\ database' = TRUE
  /\ Goto(t, "persist")
  /\ UNCHANGED <<master, minted, role, schema, form, pool>>

Persist(t) ==
  /\ thread[t].stage = "persist"
  /\ stored' = thread[t].password
  /\ Goto(t, "schema")
  /\ UNCHANGED <<status, configured, server, minted, pool>>

\* The tables are created with the run's own password.
CreateSchema(t) ==
  /\ thread[t].stage = "schema"
  /\ role = thread[t].password
  /\ schema' = TRUE
  /\ Goto(t, "engine")
  /\ UNCHANGED <<master, minted, role, database, form, pool>>

\* The starter form is seeded through the pool: its engine, or one built from
\* the row.
TakeEngine(t) ==
  /\ thread[t].stage = "engine"
  /\ pool[t[1]] = Empty => Connectable
  /\ thread' = [thread EXCEPT ![t].stage = "seed",
       ![t].engine = IF pool[t[1]] = Empty THEN stored ELSE pool[t[1]]]
  /\ UNCHANGED <<master, server, minted, pool>>

\* An engine whose password is stale may still hold open connections; where
\* it does not, or another run inserts the form first, seeding fails.
Seed(t) ==
  /\ thread[t].stage = "seed" /\ schema
  /\ pool' = Pooled(t)
  /\ form' = TRUE
  /\ Goto(t, "activate")
  /\ UNCHANGED <<master, minted, role, database, schema>>

\* One commit: administrator, escalation rule, blind-review settings and
\* tenant.  A connection then reads the row again.
Activate(t) ==
  /\ thread[t].stage = "activate"
  /\ status' = "ACTIVE"
  /\ configured' = TRUE
  /\ thread' = [thread EXCEPT ![t] =
       IF @.connecting THEN At("read", Empty, Empty, TRUE) ELSE Idle]
  /\ UNCHANGED <<stored, server, minted, pool>>

-----------------------------------------------------------------------------

\* An exception.  Signup answers with an error; the pool logs it and refuses
\* the connection.
Fail(t) ==
  /\ thread[t].stage \in MayFailIn
  /\ thread' = [thread EXCEPT ![t] = Idle]
  /\ UNCHANGED <<master, server, minted, pool>>

\* A run whose password another run has replaced cannot log in.
LockedOut(t) ==
  /\ thread[t].stage = "schema" /\ role # thread[t].password
  /\ thread' = [thread EXCEPT ![t] = Idle]
  /\ UNCHANGED <<master, server, minted, pool>>

\* Idle engines are disposed of.
Reap(p) ==
  /\ pool[p] # Empty
  /\ pool' = [pool EXCEPT ![p] = Empty]
  /\ UNCHANGED <<master, server, minted, thread>>

\* A process restarts: its pool and its threads are gone.
Restart(p) ==
  /\ pool' = [pool EXCEPT ![p] = Empty]
  /\ thread' = [t \in Threads |-> IF t[1] = p THEN Idle ELSE thread[t]]
  /\ \A t \in Threads : t[1] = p /\ thread[t] # Idle => thread[t].stage \in MayFailIn
  /\ UNCHANGED <<master, server, minted>>

\* A platform administrator sets the tenant's status.
SetStatus(s) ==
  /\ status \notin {"NONE", s}
  /\ status' = s
  /\ UNCHANGED <<stored, configured, server, minted, pool, thread>>

Init ==
  /\ status = "NONE"
  /\ stored = Empty
  /\ configured = FALSE
  /\ minted = 0
  /\ role = Empty
  /\ database = FALSE /\ schema = FALSE /\ form = FALSE
  /\ pool = [p \in Processes |-> Empty]
  /\ thread = [t \in Threads |-> Idle]

Provision(t) ==
  \/ CreateRole(t) \/ CreateDatabase(t) \/ Persist(t) \/ CreateSchema(t)
  \/ TakeEngine(t) \/ Seed(t) \/ Activate(t) \/ LockedOut(t)

Next ==
  \/ \E t \in Threads :
       Signup(t) \/ Connect(t) \/ ReadRow(t) \/ Insert(t) \/ Provision(t) \/ Fail(t)
  \/ \E p \in Processes : Reap(p) \/ Restart(p)
  \/ \E s \in {"ACTIVE", "SUSPENDED"} : SetStatus(s)

Spec == Init /\ [][Next]_vars

-----------------------------------------------------------------------------

\* Every variable has its type; passwords in use have been generated, and a
\* run past the first stages finds what they created.
TypeOK ==
  /\ status \in TenantStatus \cup {"NONE"}
  /\ minted \in 0 .. MaxPasswords
  /\ stored \in 0 .. minted /\ role \in 0 .. minted
  /\ configured \in BOOLEAN /\ database \in BOOLEAN /\ schema \in BOOLEAN /\ form \in BOOLEAN
  /\ pool \in [Processes -> 0 .. minted]
  /\ thread \in [Threads -> {Idle} \cup [stage : Stages, password : 0 .. minted,
                                          engine : 0 .. minted, connecting : BOOLEAN]]

\* However runs overlap, fail and start again, a tenant that provisioning has
\* activated has a database with its tables and the starter form.
ConfiguredIsComplete == configured => database /\ schema /\ form

Busy == \E t \in Threads : thread[t] # Idle

\* Once nobody provisions, the password in the master database and the
\* engines in the pools open the tenant's database.
PasswordsAreCurrent ==
  ~Busy => /\ stored \in {Empty, role}
           /\ \A p \in Processes : pool[p] \in {Empty, role}

OneThread == \A s, t \in Threads : s = t

\* Runs that overlap complete the tenant; one at a time, they leave the
\* passwords current.
ProvisioningHolds ==
  TypeOK /\ ConfiguredIsComplete /\ (OneThread => PasswordsAreCurrent)
=============================================================================
