------------------------------ MODULE Routing ------------------------------
(***************************************************************************)
(* The routing configuration of one tenant: its departments                *)
(* (departments_service.py), the mappings from an application's channel to *)
(* a department, the fallback settings and their audit trail               *)
(* (routing_service.py), the departments of its users (users_service.py),  *)
(* and the route an upload takes through them.  A request loads and checks *)
(* in one step and commits in a later one; nothing is locked in between.   *)
(***************************************************************************)
EXTENDS Naturals, FiniteSets

CONSTANTS
  Departments, \* rows of departments, each with a slug of its own
  Channels,
  Keys,        \* applicationKey, in its normal form
  Mappings,    \* bounds the rows of app_department_mappings
  Users,
  None,        \* a null column
  NoRow,
  Requests,    \* slots of overlapping requests
  Reorganised  \* departments are deactivated and deleted while in use

Modes == {"REJECT", "UNASSIGNED_QUEUE", "FALLBACK_DEPARTMENT"}

Department == [channels : SUBSET Channels, active : BOOLEAN]

Mapping == [key : Keys, channel : Channels, department : Departments,
            active : BOOLEAN]

Setting == [enforce : BOOLEAN, mode : Modes, fallback : Departments \cup {None}]

RoutingAssumption ==
  /\ None \notin Departments /\ "rejected" \notin Departments
  /\ NoRow \notin Department \cup Mapping \cup Setting
  /\ Reorganised \in BOOLEAN

VARIABLES
  dept,    \* departments
  mapping, \* app_department_mappings
  setting, \* conversation_routing_settings, the tenant's row
  member,  \* users.departmentId
  audit,   \* app_department_routing_audits: what the newest entry on a mapping shows
  request  \* what a request has loaded and will write

config == <<dept, mapping, setting, member, audit>>

vars == <<dept, mapping, setting, member, audit, request>>

Idle == [op |-> "idle"]

ActiveDepartments == {d \in Departments : dept[d] # NoRow /\ dept[d].active}

Rows == {m \in Mappings : mapping[m] # NoRow}

Settings ==
  IF setting = NoRow
  THEN [enforce |-> FALSE, mode |-> "REJECT", fallback |-> None]
  ELSE setting

\* SQLAlchemy writes the columns that differ from what was loaded.
Written(loaded, new, current) ==
  [c \in DOMAIN current |-> IF new[c] = loaded[c] THEN current[c] ELSE new[c]]

Begin(r, record) ==
  /\ request[r] = Idle
  /\ request' = [request EXCEPT ![r] = record]
  /\ UNCHANGED config

End(r) == request' = [request EXCEPT ![r] = Idle]

-----------------------------------------------------------------------------
(* create_department, update_department and delete_department *)

BeginCreateDepartment(r, d, row) ==
  /\ dept[d] = NoRow
  /\ Begin(r, [op |-> "department", id |-> d, loaded |-> NoRow, new |-> row])

\* Channels may be shared: the overlap check accepts everything.
BeginUpdateDepartment(r, d, row) ==
  /\ dept[d] # NoRow
  /\ Reorganised \/ row.active
  /\ Begin(r, [op |-> "department", id |-> d, loaded |-> dept[d], new |-> row])

\* A taken slug and a row that is gone make the commit fail.
CommitDepartment(r) ==
  LET q == request[r] IN
  /\ q.op = "department"
  /\ dept' = [dept EXCEPT ![q.id] =
       CASE q.loaded = NoRow /\ @ = NoRow -> q.new
         [] q.loaded # NoRow /\ @ # NoRow -> Written(q.loaded, q.new, @)
         [] OTHER -> @]
  /\ End(r)
  /\ UNCHANGED <<mapping, setting, member, audit>>

BeginDeleteDepartment(r, d) ==
  /\ Reorganised
  /\ dept[d] # NoRow
  /\ ~ \E u \in Users : member[u] = d
  /\ Begin(r, [op |-> "dissolve", id |-> d])

\* ON DELETE RESTRICT from the mappings, SET NULL from users and settings.
CommitDeleteDepartment(r) ==
  LET d == request[r].id IN
  /\ request[r].op = "dissolve"
  /\ IF \E m \in Rows : mapping[m].department = d
     THEN UNCHANGED config
     ELSE /\ dept' = [dept EXCEPT ![d] = NoRow]
          /\ member' = [u \in Users |-> IF member[u] = d THEN None ELSE member[u]]
          /\ setting' = IF setting # NoRow /\ setting.fallback = d
                        THEN [setting EXCEPT !.fallback = None] ELSE setting
          /\ UNCHANGED <<mapping, audit>>
  /\ End(r)

-----------------------------------------------------------------------------
(* A user moves to another department (update_user) *)

BeginMove(r, u, d) ==
  /\ d \in ActiveDepartments \cup {None}
  /\ d # member[u]
  /\ Begin(r, [op |-> "move", id |-> u, to |-> d])

CommitMove(r) ==
  LET q == request[r] IN
  /\ q.op = "move"
  /\ member' = [member EXCEPT ![q.id] =
                  IF q.to = None \/ dept[q.to] # NoRow THEN q.to ELSE @]
  /\ End(r)
  /\ UNCHANGED <<dept, mapping, setting, audit>>

-----------------------------------------------------------------------------
(* create_mapping, update_mapping and delete_mapping *)

\* Another mapping has the application key, or the channel of the department.
KeyTaken(m, row) == \E n \in Rows \ {m} : mapping[n].key = row.key

PairTaken(m, row) ==
  \E n \in Rows \ {m} : /\ mapping[n].channel = row.channel
                        /\ mapping[n].department = row.department

BeginCreateMapping(r, m, row) ==
  /\ mapping[m] = NoRow
  /\ row.department \in ActiveDepartments
  /\ ~PairTaken(m, row) /\ ~KeyTaken(m, row)
  /\ Begin(r, [op |-> "mapping", id |-> m, loaded |-> NoRow, new |-> row])

\* The department is looked at only when it changes.
BeginUpdateMapping(r, m, row) ==
  /\ mapping[m] # NoRow
  /\ row.department # mapping[m].department => row.department \in ActiveDepartments
  /\ \/ row.channel = mapping[m].channel /\ row.department = mapping[m].department
     \/ ~PairTaken(m, row)
  /\ row.key = mapping[m].key \/ ~KeyTaken(m, row)
  /\ Begin(r, [op |-> "mapping", id |-> m, loaded |-> mapping[m], new |-> row])

\* Mutant: without the unique constraints.
Accepts_Duplicates(m, row) == dept[row.department] # NoRow

\* The table's constraints: two unique ones and the foreign key.
Accepts(m, row) ==
  ~KeyTaken(m, row) /\ ~PairTaken(m, row) /\ dept[row.department] # NoRow

\* The audit entry shows the session's row, in the same transaction.
CommitMapping(r) ==
  LET q == request[r]
      row == IF q.loaded = NoRow \/ mapping[q.id] = NoRow THEN q.new
             ELSE Written(q.loaded, q.new, mapping[q.id])
  IN
  /\ q.op = "mapping"
  /\ IF (q.loaded = NoRow) = (mapping[q.id] = NoRow) /\ Accepts(q.id, row)
     THEN /\ mapping' = [mapping EXCEPT ![q.id] = row]
          /\ audit' = [audit EXCEPT ![q.id] = q.new]
     ELSE UNCHANGED <<mapping, audit>>
  /\ End(r)
  /\ UNCHANGED <<dept, setting, member>>

BeginDeleteMapping(r, m) ==
  /\ mapping[m] # NoRow
  /\ Begin(r, [op |-> "unmap", id |-> m])

\* Deleting a row that is gone already only warns; the entry is written.
CommitDeleteMapping(r) ==
  LET q == request[r] IN
  /\ q.op = "unmap"
  /\ mapping' = [mapping EXCEPT ![q.id] = NoRow]
  /\ audit' = [audit EXCEPT ![q.id] = NoRow]
  /\ End(r)
  /\ UNCHANGED <<dept, setting, member>>

-----------------------------------------------------------------------------
(* upsert_settings *)

\* enforce, mode and fallback: the request's fields, or the loaded ones.
BeginSettings(r, enforce, mode, fallback) ==
  /\ mode = "FALLBACK_DEPARTMENT" => fallback \in ActiveDepartments
  /\ Begin(r, [op |-> "settings", loaded |-> setting,
               new |-> [enforce |-> enforce, mode |-> mode,
                        fallback |-> IF mode = "FALLBACK_DEPARTMENT"
                                     THEN fallback ELSE None]])

\* The foreign key holds, and one row per tenant.
CommitSettings(r) ==
  LET q == request[r] IN
  /\ q.op = "settings"
  /\ setting' =
       IF q.new.fallback # None /\ dept[q.new.fallback] = NoRow THEN setting
       ELSE CASE q.loaded = NoRow /\ setting = NoRow -> q.new
              [] q.loaded # NoRow -> Written(q.loaded, q.new, setting)
              [] OTHER -> setting
  /\ End(r)
  /\ UNCHANGED <<dept, mapping, member, audit>>

-----------------------------------------------------------------------------
(* Resolution: load_routing_context and resolve_department_... *)

\* The department an upload names, else the only one with the channel.
Legacy(known, channel, hint) ==
  LET active == {d \in Departments : known[d] # NoRow /\ known[d].active}
      having == {d \in active : channel \in known[d].channels}
  IN  CASE hint \in active -> hint
        [] hint \notin active /\ Cardinality(having) = 1 -> CHOOSE d \in having : TRUE
        [] OTHER -> None

\* A route by configuration needs an active department with the channel.
Validated(known, d, channel) ==
  IF d # None /\ known[d] # NoRow /\ known[d].active /\ channel \in known[d].channels
  THEN d ELSE "rejected"

MappedTo(key, channel) ==
  {mapping[m].department : m \in {n \in Rows : /\ mapping[n].key = key
                                              /\ mapping[n].channel = channel
                                              /\ mapping[n].active}}

\* Mutant: the channel's own department comes before the fallback.
Route_LegacyFirst(known, key, channel, hint) ==
  CASE MappedTo(key, channel) # {} ->
         Validated(known, CHOOSE d \in MappedTo(key, channel) : TRUE, channel)
    [] MappedTo(key, channel) = {} /\ Legacy(known, channel, hint) # None ->
         Legacy(known, channel, hint)
    [] MappedTo(key, channel) = {} /\ Legacy(known, channel, hint) = None ->
         IF Settings.mode = "UNASSIGNED_QUEUE" THEN None
         ELSE Validated(known, Settings.fallback, channel)

\* known: the departments as the upload has read them.
Route(known, key, channel, hint) ==
  CASE MappedTo(key, channel) # {} ->
         Validated(known, CHOOSE d \in MappedTo(key, channel) : TRUE, channel)
    [] MappedTo(key, channel) = {} /\ ~Settings.enforce -> Legacy(known, channel, hint)
    [] MappedTo(key, channel) = {} /\ Settings.enforce ->
         CASE Settings.mode = "UNASSIGNED_QUEUE" -> None
           [] Settings.mode = "FALLBACK_DEPARTMENT" ->
                Validated(known, Settings.fallback, channel)
           [] Settings.mode = "REJECT" -> "rejected"

\* The departments are read before the settings and the mappings.
BeginUpload(r) == Begin(r, [op |-> "upload", known |-> dept])

Resolve(r, key, channel, hint) ==
  /\ request[r].op = "upload"
  /\ request' = [request EXCEPT ![r] =
       [op |-> "routed", channel |-> channel, hint |-> hint,
        to |-> Route(request[r].known, key, channel, hint)]]
  /\ UNCHANGED config

\* The conversation is stored under its department, or the upload rejected.
EndUpload(r) ==
  /\ request[r].op = "routed"
  /\ End(r)
  /\ UNCHANGED config

-----------------------------------------------------------------------------
Init ==
  /\ dept = [d \in Departments |-> NoRow]
  /\ mapping = [m \in Mappings |-> NoRow]
  /\ setting = NoRow
  /\ member = [u \in Users |-> None]
  /\ audit = [m \in Mappings |-> NoRow]
  /\ request = [r \in Requests |-> Idle]

DepartmentRequest(r) ==
  \/ \E d \in Departments :
       \/ \E row \in Department : \/ BeginCreateDepartment(r, d, row)
                                  \/ BeginUpdateDepartment(r, d, row)
       \/ BeginDeleteDepartment(r, d)
  \/ CommitDepartment(r) \/ CommitDeleteDepartment(r)
  \/ \E u \in Users, d \in Departments \cup {None} : BeginMove(r, u, d)
  \/ CommitMove(r)

MappingRequest(r) ==
  \/ \E m \in Mappings :
       \/ \E row \in Mapping : BeginCreateMapping(r, m, row) \/ BeginUpdateMapping(r, m, row)
       \/ BeginDeleteMapping(r, m)
  \/ CommitMapping(r) \/ CommitDeleteMapping(r)

SettingsRequest(r) ==
  \/ \E enforce \in BOOLEAN, mode \in Modes, d \in Departments \cup {None} :
       BeginSettings(r, enforce, mode, d)
  \/ CommitSettings(r)

UploadRequest(r) ==
  \/ BeginUpload(r)
  \/ \E key \in Keys \cup {None}, channel \in Channels,
        hint \in Departments \cup {None} : Resolve(r, key, channel, hint)
  \/ EndUpload(r)

Next ==
  \E r \in Requests : \/ DepartmentRequest(r) \/ MappingRequest(r)
                      \/ SettingsRequest(r) \/ UploadRequest(r)

Spec == Init /\ [][Next]_vars

-----------------------------------------------------------------------------
(* Properties *)

\* Every row is of its table and every request of a kind the code has.
TypeOK ==
  /\ dept \in [Departments -> Department \cup {NoRow}]
  /\ mapping \in [Mappings -> Mapping \cup {NoRow}]
  /\ setting \in Setting \cup {NoRow}
  /\ member \in [Users -> Departments \cup {None}]
  /\ \A m \in Mappings : audit[m] \in Mapping \cup {NoRow}
  /\ \A r \in Requests : request[r].op \in
       {"idle", "department", "dissolve", "move", "mapping", "unmap", "settings",
        "upload", "routed"}

\* Whatever overlaps, an application key has one mapping, so has a channel of
\* a department, and the departments of mappings, users and settings exist: the
\* dictionaries of load_routing_context lose no row.
MappingsAreUnambiguous ==
  /\ \A m, n \in Rows : m # n =>
       /\ mapping[m].key # mapping[n].key
       /\ <<mapping[m].channel, mapping[m].department>>
            # <<mapping[n].channel, mapping[n].department>>
  /\ \A m \in Rows : dept[mapping[m].department] # NoRow
  /\ Settings.fallback # None => dept[Settings.fallback] # NoRow
  /\ \A u \in Users : member[u] # None => dept[member[u]] # NoRow

\* In strict mode, and for a mapped application in any mode, the department an
\* upload names in its metadata does not change its route.
ConfigurationDecides ==
  \A key \in Keys \cup {None}, channel \in Channels :
    Settings.enforce \/ MappedTo(key, channel) # {} =>
      \A hint \in Departments \cup {None} :
        Route(dept, key, channel, hint) = Route(dept, key, channel, None)

\* Between requests that do not overlap, an upload's conversation is stored
\* under an active department, one with its channel unless it named another.
RoutedIsActive ==
  \A r \in Requests : request[r].op = "routed" =>
    \A d \in Departments : request[r].to = d =>
      d \in ActiveDepartments /\ (d # request[r].hint => request[r].channel \in dept[d].channels)

\* The trail is exact while requests do not overlap: its newest entry shows
\* the mapping as it is.
AuditIsCurrent == \A m \in Mappings : audit[m] = mapping[m]

\* The fallback department is set exactly in the mode that needs it.
FallbackIsSet == (Settings.mode = "FALLBACK_DEPARTMENT") <=> (Settings.fallback # None)

\* "cannot delete a department that still has assigned users".
StaffedIsKept ==
  \A d \in Departments, u \in Users :
    member[u] = d => dept'[d] # NoRow

\* One request at a time.
OneSlot == \A r, q \in Requests : r = q

\* Under overlap, mappings stay unambiguous; one request at a time, their trail
\* is exact.
MappingsHold == TypeOK /\ MappingsAreUnambiguous /\ (OneSlot => AuditIsCurrent)

\* One request at a time, routes lead to work; the fallback is set exactly in
\* its mode while departments stay.
RoutesHold ==
  OneSlot =>
    ConfigurationDecides /\ RoutedIsActive /\ (~Reorganised => FallbackIsSet)
=============================================================================
