------------------------------- MODULE Forms -------------------------------
(***************************************************************************)
(* Form definitions of one tenant (forms_service.py): numbered versions of *)
(* a form key, their statuses, and the rule that a department's channel    *)
(* has one published form.  A handler reads and checks in one action and   *)
(* commits in a second one; no row is locked in between, so the requests   *)
(* of several administrators overlap.                                      *)
(***************************************************************************)
EXTENDS Naturals, FiniteSets, FiniteSetsExt

CONSTANTS
  FormIds,       \* bounds the number of rows
  Keys,          \* formKey
  Channels,
  Departments,
  NoDepartment,  \* departmentId is null: a company-wide form
  NoForm,        \* no row yet
  MaxForms,      \* the plan's limit
  Requests       \* slots of overlapping requests

Status == {"DRAFT", "PUBLISHED", "DEPRECATED", "ARCHIVED"}

\* publishedAt and archivedAt matter by being set or not.
Form == [status : Status, key : Keys, version : Nat,
         department : Departments \cup {NoDepartment},
         channels : SUBSET Channels \ {{}},
         published : BOOLEAN, archived : BOOLEAN]

FormsAssumption ==
  /\ NoDepartment \notin Departments
  /\ NoForm \notin Form
  /\ MaxForms \in Nat

VARIABLES
  forms,   \* form_definitions
  request  \* what a request has read and will write

vars == <<forms, request>>

Idle == [op |-> "idle"]

Rows == {f \in FormIds : forms[f] # NoForm}

Published == {f \in Rows : forms[f].status = "PUBLISHED"}

-----------------------------------------------------------------------------
(* create_form *)

Active == {f \in Rows : forms[f].status # "ARCHIVED"}

VersionsOf(key) == {forms[f].version : f \in {g \in Rows : forms[g].key = key}}

NextVersion(key) == Max(VersionsOf(key) \cup {0}) + 1

NewForm(r) ==
  [status |-> "DRAFT", key |-> request[r].key, version |-> request[r].version,
   department |-> request[r].department, channels |-> request[r].channels,
   published |-> FALSE, archived |-> FALSE]

BeginCreate(r, key, department, channels) ==
  /\ request[r] = Idle
  /\ Cardinality(Active) < MaxForms
  /\ request' = [request EXCEPT ![r] =
       [op |-> "create", key |-> key, version |-> NextVersion(key),
        department |-> department, channels |-> channels]]
  /\ UNCHANGED forms

\* The table's unique key (formKey, version).
UniqueKey(r) == request[r].version \notin VersionsOf(request[r].key)

CommitCreate(r, f) ==
  /\ request[r].op = "create"
  /\ forms[f] = NoForm
  /\ UniqueKey(r)
  /\ forms' = [forms EXCEPT ![f] = NewForm(r)]
  /\ request' = [request EXCEPT ![r] = Idle]

-----------------------------------------------------------------------------
(* update_form *)

Editable == {"DRAFT", "DEPRECATED"}

BeginUpdate(r, f, channels) ==
  /\ request[r] = Idle
  /\ f \in Rows /\ forms[f].status \in Editable
  /\ request' = [request EXCEPT ![r] = [op |-> "update", form |-> f, channels |-> channels]]
  /\ UNCHANGED forms

CommitUpdate(r) ==
  /\ request[r].op = "update"
  /\ forms' = [forms EXCEPT ![request[r].form].channels = request[r].channels]
  /\ request' = [request EXCEPT ![r] = Idle]

-----------------------------------------------------------------------------
(* change_status *)

Action == {"publish", "unpublish", "deprecate", "archive", "restore"}

AppliesTo(action) ==
  CASE action = "publish" -> {"DRAFT", "DEPRECATED"}
    [] action \in {"unpublish", "deprecate"} -> {"PUBLISHED"}
    [] action = "archive" -> {"DRAFT", "DEPRECATED"}
    [] action = "restore" -> {"ARCHIVED"}

\* A company-wide form competes with company-wide ones only, a department's
\* form with both kinds.
Competes(f, g) ==
  forms[g].department \in IF forms[f].department = NoDepartment
                          THEN {NoDepartment}
                          ELSE {forms[f].department, NoDepartment}

\* Mutant: a department's form competes with company-wide forms only.
NoClash_CompanyOnly(f) ==
  \A g \in Published \ {f} :
    forms[g].department = NoDepartment => forms[f].channels \cap forms[g].channels = {}

NoClash(f) ==
  \A g \in Published \ {f} :
    Competes(f, g) => forms[f].channels \cap forms[g].channels = {}

BeginStatus(r, f, action) ==
  /\ request[r] = Idle
  /\ f \in Rows /\ forms[f].status \in AppliesTo(action)
  /\ action = "publish" => NoClash(f)
  /\ request' = [request EXCEPT ![r] = [op |-> action, form |-> f]]
  /\ UNCHANGED forms

\* The columns a status change writes; the others keep what is committed.
Changed(form, action) ==
  CASE action = "publish" -> [form EXCEPT !.status = "PUBLISHED", !.published = TRUE]
    [] action = "unpublish" -> [form EXCEPT !.status = "DRAFT", !.published = FALSE]
    [] action = "deprecate" -> [form EXCEPT !.status = "DEPRECATED"]
    [] action = "archive" -> [form EXCEPT !.status = "ARCHIVED", !.archived = TRUE]
    [] action = "restore" -> [form EXCEPT !.status = "DRAFT", !.archived = FALSE]

CommitStatus(r) ==
  /\ request[r].op \in Action
  /\ LET f == request[r].form IN
       forms' = [forms EXCEPT ![f] = Changed(forms[f], request[r].op)]
  /\ request' = [request EXCEPT ![r] = Idle]

-----------------------------------------------------------------------------

\* A request dies before its commit, or a constraint makes the commit fail.
Fail(r) ==
  /\ request[r] # Idle
  /\ request' = [request EXCEPT ![r] = Idle]
  /\ UNCHANGED forms

Init ==
  /\ forms = [f \in FormIds |-> NoForm]
  /\ request = [r \in Requests |-> Idle]

Begin(r) ==
  \/ \E key \in Keys, department \in Departments \cup {NoDepartment},
        channels \in SUBSET Channels \ {{}} : BeginCreate(r, key, department, channels)
  \/ \E f \in FormIds, channels \in SUBSET Channels \ {{}} : BeginUpdate(r, f, channels)
  \/ \E f \in FormIds, action \in Action : BeginStatus(r, f, action)

Commit(r) ==
  \/ \E f \in FormIds : CommitCreate(r, f)
  \/ CommitUpdate(r)
  \/ CommitStatus(r)

Next == \E r \in Requests : Begin(r) \/ Commit(r) \/ Fail(r)

Spec == Init /\ [][Next]_vars

-----------------------------------------------------------------------------

Request ==
  {Idle}
  \cup [op : {"create"}, key : Keys, version : Nat,
        department : Departments \cup {NoDepartment}, channels : SUBSET Channels \ {{}}]
  \cup [op : {"update"}, form : FormIds, channels : SUBSET Channels \ {{}}]
  \cup [op : Action, form : FormIds]

\* Rows and open requests are well formed, and requests name rows that exist.
TypeOK ==
  /\ forms \in [FormIds -> Form \cup {NoForm}]
  /\ request \in [Requests -> Request]
  /\ \A r \in Requests : request[r].op \in Action \cup {"update"} => request[r].form \in Rows

\* However creations overlap and fail, the versions of a key are 1, 2, ... n,
\* each held by one form (create_form's max + 1 and the unique key).
VersionsAreDense ==
  \A key \in Keys : VersionsOf(key) = 1 .. Cardinality({f \in Rows : forms[f].key = key})

\* A published form has a publication date, even when status changes that
\* have read the same row are committed one after the other (change_status
\* writes status and date together).
PublishedIsDated == \A f \in Published : forms[f].published

\* The header of forms_service.py: one published form per department and
\* channel.
OneFormPerChannel ==
  \A f, g \in Published :
    f # g /\ forms[f].department = forms[g].department =>
      forms[f].channels \cap forms[g].channels = {}

\* archivedAt tells archived forms from the others (archive, restore).
ArchivedIsDated == \A f \in Rows : forms[f].archived <=> forms[f].status = "ARCHIVED"

\* A published form's channels do not change under the conversations it is
\* applied to: update_form refuses published forms.
PublishedIsFrozen ==
  \A f \in Published :
    forms'[f].status = "PUBLISHED" => forms'[f].channels = forms[f].channels

\* One request at a time.
OneSlot == \A r, q \in Requests : r = q

\* Versions and publications under overlap; channels and archives one request
\* at a time.
FormsHold ==
  /\ TypeOK /\ VersionsAreDense /\ PublishedIsDated
  /\ OneSlot => OneFormPerChannel /\ ArchivedIsDated
=============================================================================
