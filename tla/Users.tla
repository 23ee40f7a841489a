--------------------------------- MODULE Users --------------------------------
(***************************************************************************)
(* The accounts: roles of the server, operators of the database (the table *)
(* users), the dialogs that edit an account or the permissions of a group, *)
(* and what the program caches of its own permissions.  A login is a name  *)
(* with blanks already trimmed; other clients rename and drop roles.       *)
(***************************************************************************)
EXTENDS Integers, FiniteSets, SequencesExt

CONSTANTS Logins,             \* the names of roles that are typed
          Names,              \* the names of operators that are typed
          Passwords,
          FirstRoles,         \* pg_roles at the start: oid -> role
          FirstUsers,         \* the table users at the start
          Me,                 \* the oid of the current user
          Abilities,          \* the sequence mail_perms
          object_permissions, \* ability -> the privileges that it takes
          PublicConnect,      \* whether PUBLIC may connect to the database
          MaxEdits, MaxOthers \* steps of the user before OK, of other clients

VARIABLES roles,              \* oid -> [name, login, super, creates, password, privs, groups]
          users,              \* user_id -> [login, name, email]
          form,               \* the dialog that is open
          accepted,           \* history: the form that the last step has saved
          selected,           \* the oid selected in each of the two lists, 0 if none
          me,                 \* m_current_user_id
          permission_cache, known,   \* ability -> answer; m_users_map
          edited, outside     \* counts of the bounds

usersVars == <<roles, users, form, accepted, selected, me, permission_cache, known, edited, outside>>
caches == <<me, permission_cache, known>>

None == [i \in {} |-> 0]
put(f, i, v) == [j \in DOMAIN f \cup {i} |-> IF j = i THEN v ELSE f[j]]
After(ids) == 1 + CHOOSE m \in ids \cup {0} : \A i \in ids : i <= m

-----------------------------------------------------------------------------
(* What the queries answer.                                                 *)

NewOid == After(DOMAIN roles \cup {selected["user"], selected["group"], form.oid})

oid_db_role(n) == {o \in DOMAIN roles : roles[o].name = n}
user_of(n) == {u \in DOMAIN users : users[u].login = n /\ n # ""}
granted_roles(o) == IF o \in DOMAIN roles THEN {roles[g].name : g \in roles[o].groups} ELSE {}
Inherited(o) == UNION {roles[g].privs : g \in roles[o].groups}
Holds(o) == IF roles[o].super THEN UNION {object_permissions[a] : a \in ToSet(Abilities)}
            ELSE roles[o].privs \cup Inherited(o)
(* has_database_privilege: whatever the account owes it to.                 *)
ConnectsAnyway(o) == PublicConnect \/ roles[o].super \/ "connect" \in Inherited(o)
can_connect(o) == ConnectsAnyway(o) \/ "connect" \in roles[o].privs
has_multiple_privileges(o, privs) == privs \subseteq Holds(o)
can_create_user == roles[Me].creates

(* get_list: the list of accounts and the list of groups.                   *)
Listed(accounts) == {o \in DOMAIN roles : roles[o].login = accounts}

Closed == [kind |-> "none", oid |-> 0, initial |-> "", login |-> "", user_id |-> 0, name |-> "",
           password |-> "", again |-> "", change |-> FALSE, connect |-> FALSE,
           registered |-> FALSE, groups |-> {}, items |-> {}, heir |-> FALSE]

(* fetch_by_oid: without a role nothing is loaded.                          *)
fetch_by_oid(o) ==
  LET login == IF o \in DOMAIN roles THEN roles[o].name ELSE ""
      id == IF user_of(login) = {} THEN 0 ELSE CHOOSE u \in user_of(login) : TRUE
  IN [login |-> login, user_id |-> id, name |-> IF id = 0 THEN "" ELSE users[id].name,
      connect |-> o \in DOMAIN roles /\ can_connect(o)]
user_edit_dialog(o) ==
  LET u == fetch_by_oid(o)
      groups == {roles[g].name : g \in Listed(FALSE)}
  IN [Closed EXCEPT !.kind = "user", !.oid = o, !.initial = u.login, !.login = u.login,
        !.user_id = u.user_id, !.name = u.name, !.connect = u.connect, !.registered = u.user_id # 0,
        !.items = groups, !.groups = granted_roles(o) \cap groups]

set_checkboxes(o) ==
  {a \in ToSet(Abilities) : o \in DOMAIN roles /\ has_multiple_privileges(o, object_permissions[a])}
(* The boxes are the items of the form, the checked ones its groups.        *)
role_perms_edit_dialog(o) ==
  LET name == IF o \in DOMAIN roles THEN roles[o].name ELSE ""
  IN [Closed EXCEPT !.kind = "group", !.oid = o, !.initial = name, !.login = name,
        !.items = ToSet(Abilities), !.groups = set_checkboxes(o)]
opened(t, o) == IF t = "user" THEN user_edit_dialog(o) ELSE role_perms_edit_dialog(o)

TypeOK ==
  /\ \A o \in DOMAIN roles : roles[o].groups \subseteq DOMAIN roles /\ roles[o].login \in BOOLEAN
  /\ form.kind \in {"none", "user", "group"} /\ form.groups \subseteq form.items
  /\ me \in -1..After(DOMAIN users) /\ edited \in 0..MaxEdits /\ outside \in 0..MaxOthers

Init ==
  /\ roles = FirstRoles /\ users = FirstUsers /\ form = Closed /\ accepted = Closed
  /\ selected = [t \in {"user", "group"} |-> 0] /\ me = -1
  /\ permission_cache = None /\ known = [u \in DOMAIN users |-> users[u].name]
  /\ edited = 0 /\ outside = 0

-----------------------------------------------------------------------------
(* The lists and what is cached.                                            *)

counted == edited < MaxEdits /\ edited' = edited + 1
current_user_id(fails) ==
  LET found == user_of(roles[Me].name)
  IN /\ me < 0 /\ me' = IF fails \/ found = {} THEN 0 ELSE CHOOSE u \in found : TRUE
     /\ accepted' = Closed /\ counted
     /\ UNCHANGED <<roles, users, form, selected, permission_cache, known, outside>>

(* has_permission: an answer is kept; an error is not, nor an ability that  *)
(* takes no privilege.                                                      *)
has_permission(a, fails) ==
  /\ a \notin DOMAIN permission_cache /\ object_permissions[a] # {} /\ ~fails
  /\ permission_cache' = put(permission_cache, a, has_multiple_privileges(Me, object_permissions[a]))
  /\ accepted' = Closed /\ counted
  /\ UNCHANGED <<roles, users, form, selected, me, known, outside>>

Select(t) ==
  /\ form.kind = "none" /\ \E o \in Listed(t = "user") : o # selected[t] /\ selected' = [selected EXCEPT ![t] = o]
  /\ accepted' = Closed /\ counted
  /\ UNCHANGED <<roles, users, form, caches, outside>>

add_user(t) ==
  /\ form.kind = "none" /\ edited < MaxEdits /\ can_create_user
  /\ form' = opened(t, 0) /\ accepted' = Closed
  /\ UNCHANGED <<roles, users, selected, caches, edited, outside>>
edit_user(t) ==
  /\ form.kind = "none" /\ edited < MaxEdits /\ selected[t] # 0
  /\ form' = opened(t, selected[t]) /\ accepted' = Closed
  /\ UNCHANGED <<roles, users, selected, caches, edited, outside>>

(* refresh_list selects again the account selected before; refresh_role_list *)
(* looks for it in the list of groups.                                      *)
refreshed(now) ==
  [t \in {"user", "group"} |->
     IF selected["user"] \in {o \in DOMAIN now : now[o].login = (t = "user")} THEN selected["user"] ELSE 0]

-----------------------------------------------------------------------------
(* The dialogs.                                                             *)

edit(f) == /\ form' = f /\ f # form /\ counted /\ accepted' = Closed
           /\ UNCHANGED <<roles, users, selected, caches, outside>>

enabled_login == form.kind = "group" \/ form.oid = 0 \/ form.change
Type ==
  \/ /\ form.kind # "none" /\ enabled_login /\ \E n \in Logins \cup {""} : edit([form EXCEPT !.login = n])
  \/ /\ form.kind = "user" /\ enabled_login
     /\ \E p, q \in Passwords \cup {""} : edit([form EXCEPT !.password = p, !.again = q])
  \/ /\ form.kind = "user" /\ form.registered /\ \E n \in Names \cup {""} : edit([form EXCEPT !.name = n])
Check ==
  \/ form.kind = "user" /\ form.oid # 0 /\ edit([form EXCEPT !.change = ~@])
  \/ form.kind = "user" /\ edit([form EXCEPT !.registered = ~@])
  \/ form.kind = "user" /\ edit([form EXCEPT !.connect = ~@])
  \/ \E g \in form.items :
       edit([form EXCEPT !.groups = IF g \in @ THEN @ \ {g} ELSE @ \cup {g}])

check_passwords == form.password = form.again /\ (form.change => form.password # "")
renamed == form.login # form.initial
check_valid ==
  /\ form.oid = 0 \/ renamed => oid_db_role(form.login) = {}
  /\ check_passwords
  /\ form.oid # 0 => /\ renamed => form.login # "" /\ form.password # ""
                     /\ form.registered => form.name # ""

Secret(login, p) == IF p = "" THEN {} ELSE {<<login, p>>}

NewRole(login, p, can_login) ==
  [name |-> login, login |-> can_login, super |-> FALSE, creates |-> FALSE, groups |-> {},
   password |-> Secret(login, p), privs |-> {}]
grant_connect(r) == [r EXCEPT !.privs = @ \cup {"connect"}]
revoke_connect(r) == [r EXCEPT !.privs = @ \ {"connect"}]
change_password(r) == [r EXCEPT !.password = Secret(r.name, form.password)]
(* The server forgets the password of a role that is renamed.               *)
change_login(r) == [r EXCEPT !.name = form.login, !.password = {}]

create_new_user == LET r == NewRole(form.login, form.password, TRUE)
                   IN IF form.connect THEN grant_connect(r) ELSE r
update_user(r) ==
  LET now == IF renamed THEN change_login(r) ELSE r
      kept == IF form.change /\ form.password # "" THEN change_password(now) ELSE now
  IN IF form.connect THEN grant_connect(kept) ELSE revoke_connect(kept)

(* Mutant: a group that is unchecked is not revoked. *)
NeverRevoked(o) ==
  [granted |-> {g \in DOMAIN roles : roles[g].name \in form.groups \ granted_roles(o)}, revoked |-> {}]
(* update_granted_roles: the memberships are read again.                    *)
update_granted_roles(o) ==
  [granted |-> {g \in DOMAIN roles : roles[g].name \in form.groups \ granted_roles(o)},
   revoked |-> {g \in DOMAIN roles : roles[g].name \in (form.items \ form.groups) \cap granted_roles(o)}]

(* The email is neither loaded nor in the dialog.                           *)
fields == [login |-> form.login, name |-> form.name, email |-> ""]
insert == put(users, After(DOMAIN users), fields)
update_fields == put(users, form.user_id, fields)
unregister == [users EXCEPT ![form.user_id].login = ""]
(* Mutant: unchecking Registered leaves the operator attached. *)
StillRegistered ==
  IF form.registered THEN IF form.user_id = 0 THEN insert ELSE update_fields ELSE users
registered_users ==
  IF form.registered THEN IF form.user_id = 0 THEN insert ELSE update_fields
  ELSE IF form.user_id # 0 THEN unregister ELSE users

(* The server refuses a statement: the account is not under its name any    *)
(* more, the new name is taken, a group to grant is gone, or anything else. *)
refused(target) ==
  \/ form.login = "" \/ Cardinality(target) # 1
  \/ renamed /\ oid_db_role(form.login) # {}
  \/ form.kind = "user" /\ ~(form.groups \subseteq {roles[g].name : g \in DOMAIN roles})

(* The account of that name is not the one whose dialog was opened, or an   *)
(* operator whom the dialog does not know has one of its names.             *)
heir(o) ==
  \/ form.oid \notin {0, o}
  \/ ~(user_of(form.login) \cup user_of(form.initial) \subseteq {form.user_id})

UserRefused == UNCHANGED <<roles, users, form, selected>> /\ accepted' = Closed
UserSaved(o, role) ==
  LET change == update_granted_roles(form.oid)
  IN /\ roles' = put(roles, o, [role EXCEPT !.groups = (@ \cup change.granted) \ change.revoked])
     /\ users' = registered_users
     /\ form' = Closed /\ selected' = refreshed(roles')
     /\ accepted' = [form EXCEPT !.heir = heir(o)]
(* done: one transaction; an error is shown and the dialog stays open.      *)
UserOk(fails) ==
  LET target == IF form.oid = 0 THEN {NewOid} ELSE oid_db_role(form.initial)
  IN /\ form.kind = "user"
     /\ IF ~check_valid \/ fails \/ refused(target) THEN UserRefused
        ELSE \E o \in target : UserSaved(o, IF form.oid = 0 THEN create_new_user ELSE update_user(roles[o]))
     /\ UNCHANGED <<caches, edited, outside>>

(* The boxes in their order: each grants or revokes what its ability takes. *)
granted(role) ==
  FoldLeft(LAMBDA privs, a : IF a \in form.groups THEN privs \cup object_permissions[a]
                             ELSE privs \ object_permissions[a], role.privs, Abilities)
(* set_grants: whatever happens, the dialog closes.                         *)
GroupOk(fails) ==
  LET o == IF form.oid = 0 THEN NewOid ELSE form.oid
      role == IF form.oid = 0 THEN NewRole(form.login, "", FALSE) ELSE roles[o]
      taken == oid_db_role(form.login) \ {o} # {}
  IN /\ form.kind = "group" /\ (form.oid = 0 => form.login # "")
     /\ IF fails \/ form.login = "" \/ taken \/ (form.oid # 0 /\ o \notin DOMAIN roles)
        THEN UNCHANGED roles /\ accepted' = Closed
        ELSE /\ roles' = put(roles, o, [role EXCEPT !.name = form.login, !.privs = granted(role)])
             /\ accepted' = form
     /\ form' = Closed /\ selected' = refreshed(roles')
     /\ UNCHANGED <<users, caches, edited, outside>>

Cancel == /\ form.kind # "none" /\ form' = Closed /\ accepted' = Closed
          /\ UNCHANGED <<roles, users, selected, caches, edited, outside>>

(* Other clients: a role is renamed, or dropped (the server takes it out of *)
(* the groups).                                                             *)
OtherClient(o) ==
  /\ outside < MaxOthers /\ outside' = outside + 1 /\ o # Me /\ accepted' = Closed
  /\ \/ \E n \in Logins : oid_db_role(n) = {} /\ roles' = [roles EXCEPT ![o].name = n, ![o].password = {}]
     \/ roles' = [r \in DOMAIN roles \ {o} |-> [roles[r] EXCEPT !.groups = @ \ {o}]]
  /\ UNCHANGED <<users, form, selected, caches, edited>>

Next ==
  \/ \E f \in BOOLEAN : current_user_id(f) \/ UserOk(f) \/ GroupOk(f)
  \/ \E a \in ToSet(Abilities), f \in BOOLEAN : has_permission(a, f)
  \/ \E t \in {"user", "group"} : Select(t) \/ add_user(t) \/ edit_user(t)
  \/ Type \/ Check \/ Cancel
  \/ \E o \in DOMAIN roles : OtherClient(o)

Spec == Init /\ [][Next]_usersVars

-----------------------------------------------------------------------------
SavedAsShown ==
  \E o \in oid_db_role(accepted.login) :
    /\ roles[o].login /\ can_connect(o) = (accepted.connect \/ ConnectsAnyway(o))
    /\ \A g \in accepted.items : g \in granted_roles(o) <=> g \in accepted.groups
    /\ IF accepted.registered
       THEN {users[u].name : u \in user_of(accepted.login)} = {accepted.name}
       ELSE user_of(accepted.login) \cup user_of(accepted.initial) = {}
(* When the dialog of an account closes on OK, the server and the table of  *)
(* operators are as the form showed: name, each group of the list, operator *)
(* and its name, and the right to connect, but where the account has it as  *)
(* a superuser, from PUBLIC or from a group; whatever other clients did     *)
(* meanwhile, unless they left another account or operator under its names. *)
AccountAsEdited == accepted.kind = "user" /\ ~accepted.heir => SavedAsShown
(* The same whoever has these names: an account made under the name of one   *)
(* that was renamed or dropped, or one that took the name meanwhile.        *)
HeirAsEdited == accepted.kind = "user" => SavedAsShown
(* Without the box the account cannot connect: no, if PUBLIC or one of its  *)
(* groups can.                                                              *)
ConnectionRemoved ==
  accepted.kind = "user" /\ accepted.oid # 0 /\ ~accepted.connect =>
    \A o \in oid_db_role(accepted.login) : roles[o].super \/ ~can_connect(o)
(* Who changes the login also sets the password.                            *)
RenamedWithPassword ==
  accepted.kind = "user" /\ accepted.oid # 0 /\ accepted.login # accepted.initial =>
    \A o \in oid_db_role(accepted.login) : roles[o].password = Secret(accepted.login, accepted.password)
(* The abilities of a group are those that were checked.                    *)
PermissionsAsChecked ==
  accepted.kind = "group" =>
    \A o \in oid_db_role(accepted.login) : set_checkboxes(o) = accepted.groups
(* A dialog never changes the email of an operator.                         *)
EmailKept == [][\A u \in DOMAIN users : users'[u].email = users[u].email]_usersVars
(* The lists keep their selections.                                         *)
SelectionKept ==
  [][form.kind # "none" /\ form'.kind = "none" =>
       \A t \in {"user", "group"} : selected[t] \in DOMAIN roles' => selected'[t] = selected[t]]_usersVars
(* What is cached is true.                                                  *)
PermissionsCurrent ==
  \A a \in DOMAIN permission_cache :
    permission_cache[a] = has_multiple_privileges(Me, object_permissions[a])
CurrentUserKnown == me = 0 => user_of(roles[Me].name) = {}
NamesCurrent == \A u \in DOMAIN users : u \in DOMAIN known /\ known[u] = users[u].name
=============================================================================
