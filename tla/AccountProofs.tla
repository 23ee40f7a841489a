----------------------------- MODULE AccountProofs -----------------------------
(***************************************************************************)
(* What the dialog of an account saves, for every value of the constants.  *)
(* The statements of OK find the account by its name and its memberships   *)
(* by its oid: they are about the same account because an oid that a list  *)
(* or a dialog holds is not given again, because names are distinct, and   *)
(* because an account never has the name of a group that the dialog lists. *)
(***************************************************************************)
EXTENDS Office, Integers, FiniteSetTheorems, WellFoundedInduction, TLAPS

(* The columns of a role and of an operator, and the fields of a dialog.   *)
IsRole(r) ==
  r = [name |-> r.name, login |-> r.login, super |-> r.super, creates |-> r.creates,
       password |-> r.password, privs |-> r.privs, groups |-> r.groups]
IsOperator(u) == u = [login |-> u.login, name |-> u.name, email |-> u.email]
IsForm(f) ==
  f = [kind |-> f.kind, oid |-> f.oid, initial |-> f.initial, login |-> f.login,
       user_id |-> f.user_id, name |-> f.name, password |-> f.password, again |-> f.again,
       change |-> f.change, connect |-> f.connect, registered |-> f.registered,
       groups |-> f.groups, items |-> f.items, heir |-> f.heir]

(* Roles have distinct names, and none is a member of itself.              *)
IsRoles(f) ==
  /\ DOMAIN f \subseteq Nat \ {0} /\ IsFiniteSet(DOMAIN f)
  /\ \A o \in DOMAIN f : /\ IsRole(f[o]) /\ f[o].login \in BOOLEAN /\ f[o].name # ""
                          /\ f[o].groups \subseteq DOMAIN f \ {o}
  /\ \A o, p \in DOMAIN f : f[o].name = f[p].name => o = p
IsOperators(f) ==
  /\ DOMAIN f \subseteq Nat \ {0} /\ IsFiniteSet(DOMAIN f)
  /\ f = [u \in DOMAIN f |-> f[u]] /\ \A u \in DOMAIN f : IsOperator(f[u])

(* A list keeps the oid of an account or of a group, which may be gone but *)
(* is not that of a role of the other kind.                                *)
SelectedInv ==
  /\ selected \in [{"user", "group"} -> Nat]
  /\ \A t \in {"user", "group"} : selected[t] \in DOMAIN roles => roles[selected[t]].login = (t = "user")

(* The dialog of an account is about an account, whose name is none of the *)
(* groups that it lists.                                                   *)
FormInv ==
  /\ IsForm(form) /\ form.kind \in {"none", "user", "group"} /\ form.oid \in Nat
  /\ form.user_id \in DOMAIN users \cup {0} /\ form.groups \subseteq form.items
  /\ form.connect \in BOOLEAN
  /\ form.kind = "user" => /\ form.oid \in DOMAIN roles => roles[form.oid].login
                           /\ form.initial \notin form.items

AccountsInv ==
  /\ IsRoles(roles) /\ IsOperators(users) /\ SelectedInv /\ FormInv
  /\ me \in {-1, 0} \cup DOMAIN users /\ edited \in 0..MaxEdits /\ outside \in 0..MaxOthers

-----------------------------------------------------------------------------
(* An identifier that is new.                                              *)
LEMMA SomeLast ==
  ASSUME NEW S, S \subseteq Nat, IsFiniteSet(S), S # {}
  PROVE  \E m \in S : \A i \in S : i <= m
<1> DEFINE Above(i) == {j \in S : j > i}
           T == {Above(i) : i \in S}
           R == StrictSubsetOrdering(Nat)
<1>1. \A i \in S : Above(i) \in SUBSET Nat /\ IsFiniteSet(Above(i))
  BY FS_Subset
<1>2. T # {} /\ T \subseteq FiniteSubsetsOf(Nat)
  BY <1>1 DEF FiniteSubsetsOf
<1>3. IsWellFoundedOn(R, FiniteSubsetsOf(Nat))
  BY FS_StrictSubsetOrderingWellFounded
<1> HIDE DEF R, T
<1>4. \E x \in T : \A y \in T : ~(<<y, x>> \in R)
  BY <1>2, <1>3, WFMin
<1>5. PICK m \in S : \A j \in S : ~(<<Above(j), Above(m)>> \in R)
  BY <1>4 DEF T
<1>6. SUFFICES ASSUME NEW j \in S, j > m PROVE FALSE
  BY SMT
<1>7. j \in Nat /\ m \in Nat /\ S \subseteq Nat
  OBVIOUS
<1>8. \A k \in Nat : k > j => k > m
  BY <1>6, <1>7
<1>9. Above(j) \subseteq Above(m) /\ j \in Above(m) /\ j \notin Above(j)
  <2>1. ~(j > j) /\ j > m
    BY <1>6, <1>7
  <2>2. \A k \in S : k \in Nat
    BY <1>7
  <2> QED  BY <1>8, <2>1, <2>2
<1>10. <<Above(j), Above(m)>> \in R
  BY <1>1, <1>9 DEF R, StrictSubsetOrdering
<1> QED  BY <1>5, <1>10

LEMMA AfterIsFresh ==
  ASSUME NEW ids, ids \subseteq Nat, IsFiniteSet(ids)
  PROVE  Accounts!After(ids) \in Nat \ {0} /\ \A i \in ids : i < Accounts!After(ids)
<1> DEFINE Last(m) == \A i \in ids : i <= m
<1>1. IsFiniteSet(ids \cup {0}) /\ ids \cup {0} \subseteq Nat /\ ids \cup {0} # {}
  BY FS_AddElement
<1>2. \E m \in ids \cup {0} : \A i \in ids \cup {0} : i <= m
  BY <1>1, SomeLast
<1>3. PICK m \in ids \cup {0} : Last(m)
  BY <1>2
<1> DEFINE c == CHOOSE k \in ids \cup {0} : Last(k)
<1>4. c \in ids \cup {0} /\ Last(c)
  BY <1>3
<1>5. Accounts!After(ids) = 1 + c
  BY DEF Accounts!After
<1> HIDE DEF c
<1> QED  BY <1>4, <1>5

-----------------------------------------------------------------------------
(* Rows that are written.                                                  *)
LEMMA PutIs ==
  ASSUME NEW f, NEW i, NEW v
  PROVE  /\ DOMAIN Accounts!put(f, i, v) = DOMAIN f \cup {i} /\ Accounts!put(f, i, v)[i] = v
         /\ \A j \in DOMAIN f \ {i} : Accounts!put(f, i, v)[j] = f[j]
         /\ Accounts!put(f, i, v) = [j \in DOMAIN Accounts!put(f, i, v) |-> Accounts!put(f, i, v)[j]]
  BY DEF Accounts!put

LEMMA RoleIsSaved ==
  ASSUME NEW f, IsRoles(f), NEW o \in Nat \ {0}, NEW r, IsRole(r), r.login \in BOOLEAN, r.name # "",
         r.groups \subseteq DOMAIN f \ {o}, \A p \in DOMAIN f \ {o} : f[p].name # r.name
  PROVE  IsRoles(Accounts!put(f, o, r))
<1> DEFINE g == Accounts!put(f, o, r)
<1>1. DOMAIN g = DOMAIN f \cup {o} /\ g[o] = r /\ \A j \in DOMAIN f \ {o} : g[j] = f[j]
  BY DEF Accounts!put
<1> HIDE DEF g
<1>2. IsFiniteSet(DOMAIN g)
  <2>1. IsFiniteSet(DOMAIN f)
    BY DEF IsRoles
  <2>2. IsFiniteSet(DOMAIN f \cup {o})
    BY <2>1, FS_AddElement
  <2> QED  BY <1>1, <2>2
<1>3. ASSUME NEW p \in DOMAIN g
      PROVE  /\ IsRole(g[p]) /\ g[p].login \in BOOLEAN /\ g[p].name # ""
             /\ g[p].groups \subseteq DOMAIN g \ {p}
  <2>1. CASE p = o
    BY <1>1, <2>1
  <2>2. CASE p # o
    BY <1>1, <2>2 DEF IsRoles
  <2> QED  BY <2>1, <2>2
<1>4. ASSUME NEW p \in DOMAIN g, NEW q \in DOMAIN g, g[p].name = g[q].name PROVE p = q
  BY <1>1, <1>4 DEF IsRoles
<1> QED  BY <1>1, <1>2, <1>3, <1>4 DEF IsRoles, g

LEMMA OperatorIsSaved ==
  ASSUME NEW f, IsOperators(f), NEW i \in Nat \ {0}, NEW u, IsOperator(u)
  PROVE  IsOperators(Accounts!put(f, i, u))
<1> DEFINE g == Accounts!put(f, i, u)
<1>1. /\ DOMAIN g = DOMAIN f \cup {i} /\ g[i] = u /\ \A j \in DOMAIN f \ {i} : g[j] = f[j]
      /\ g = [j \in DOMAIN g |-> g[j]]
  BY DEF Accounts!put
<1> HIDE DEF g
<1>2. IsFiniteSet(DOMAIN g)
  <2>1. IsFiniteSet(DOMAIN f)
    BY DEF IsOperators
  <2> QED  BY <1>1, <2>1, FS_AddElement
<1> QED  BY <1>1, <1>2 DEF IsOperators, g

-----------------------------------------------------------------------------
(* The statements of OK are not refused: the account is under its name,    *)
(* the new one is free, and the groups to grant are there.                 *)
Ready(o) ==
  /\ form.kind = "user" /\ form.login # "" /\ o \in Nat \ {0}
  /\ IF form.oid = 0 THEN o \notin DOMAIN roles ELSE o \in DOMAIN roles /\ roles[o].name = form.initial
  /\ \A p \in DOMAIN roles \ {o} : roles[p].name # form.login
  /\ o \in DOMAIN roles => roles[o].name \notin form.items
  /\ form.groups \subseteq {roles[g].name : g \in DOMAIN roles}

LEMMA NewOidIsNew ==
  ASSUME AccountsInv
  PROVE  Accounts!NewOid \in Nat \ {0} /\ Accounts!NewOid \notin DOMAIN roles
<1> DEFINE ids == DOMAIN roles \cup {selected["user"], selected["group"], form.oid}
<1>1. selected["user"] \in Nat /\ selected["group"] \in Nat /\ form.oid \in Nat
  BY DEF AccountsInv, SelectedInv, FormInv
<1>2. DOMAIN roles \subseteq Nat /\ IsFiniteSet(DOMAIN roles)
  BY DEF AccountsInv, IsRoles
<1>3. IsFiniteSet(DOMAIN roles \cup {selected["user"]})
  BY <1>2, FS_AddElement
<1>4. IsFiniteSet((DOMAIN roles \cup {selected["user"]}) \cup {selected["group"]})
  BY <1>3, FS_AddElement
<1>5. IsFiniteSet(((DOMAIN roles \cup {selected["user"]}) \cup {selected["group"]}) \cup {form.oid})
  BY <1>4, FS_AddElement
<1>6. IsFiniteSet(ids)
  <2>1. ids = ((DOMAIN roles \cup {selected["user"]}) \cup {selected["group"]}) \cup {form.oid}
    OBVIOUS
  <2> QED  BY <1>5, <2>1
<1>7. ids \subseteq Nat
  BY <1>1, <1>2
<1> HIDE DEF ids
<1>8. Accounts!After(ids) \in Nat \ {0} /\ \A i \in ids : i < Accounts!After(ids)
  BY <1>6, <1>7, AfterIsFresh
<1>9. Accounts!NewOid = Accounts!After(ids) /\ DOMAIN roles \subseteq ids
  BY DEF Accounts!NewOid, ids
<1>10. \A i \in DOMAIN roles : i \in Nat /\ i < Accounts!NewOid
  BY <1>2, <1>8, <1>9
<1> QED  BY <1>8, <1>9, <1>10

Target == IF form.oid = 0 THEN {Accounts!NewOid} ELSE Accounts!oid_db_role(form.initial)

LEMMA SavingIsReady ==
  ASSUME AccountsInv, form.kind = "user", Accounts!check_valid, ~Accounts!refused(Target), NEW o \in Target
  PROVE  Ready(o)
<1>1. form.login # "" /\ form.groups \subseteq {roles[g].name : g \in DOMAIN roles}
  BY DEF Accounts!refused
<1>2. \A p, q \in DOMAIN roles : roles[p].name = roles[q].name => p = q
  BY DEF AccountsInv, IsRoles
<1>3. DOMAIN roles \subseteq Nat \ {0}
  BY DEF AccountsInv, IsRoles
<1>4. (form.oid = 0 \/ Accounts!renamed) => Accounts!oid_db_role(form.login) = {}
  BY DEF Accounts!check_valid
<1>5. CASE form.oid = 0
  <2>1. o \in Nat \ {0} /\ o \notin DOMAIN roles
    BY <1>5, NewOidIsNew DEF Target
  <2>2. \A p \in DOMAIN roles : roles[p].name # form.login
    BY <1>4, <1>5 DEF Accounts!oid_db_role
  <2> QED  BY <1>1, <1>5, <2>1, <2>2 DEF Ready
<1>6. CASE form.oid # 0
  <2>1. o \in DOMAIN roles /\ roles[o].name = form.initial
    BY <1>6 DEF Target, Accounts!oid_db_role
  <2>2. \A p \in DOMAIN roles \ {o} : roles[p].name # form.login
    <3>1. CASE Accounts!renamed
      BY <1>4, <3>1 DEF Accounts!oid_db_role
    <3>2. CASE ~Accounts!renamed
      BY <1>2, <2>1, <3>2 DEF Accounts!renamed
    <3> QED  BY <3>1, <3>2
  <2>3. form.initial \notin form.items
    BY DEF AccountsInv, FormInv
  <2> QED  BY <1>1, <1>3, <1>6, <2>1, <2>2, <2>3 DEF Ready
<1> QED  BY <1>5, <1>6

(* The account that is written, before its memberships.                    *)
Written(o) == IF form.oid = 0 THEN Accounts!create_new_user ELSE Accounts!update_user(roles[o])

LEMMA RoleIsWritten ==
  ASSUME AccountsInv, NEW o, Ready(o)
  PROVE  /\ IsRole(Written(o)) /\ Written(o).name = form.login
         /\ Written(o).groups = IF form.oid = 0 THEN {} ELSE roles[o].groups
         /\ Written(o).login = IF form.oid = 0 THEN TRUE ELSE roles[o].login
         /\ form.connect => "connect" \in Written(o).privs
         /\ ~form.connect => "connect" \notin Written(o).privs
<1>1. ASSUME NEW r, IsRole(r)
      PROVE  /\ IsRole(Accounts!grant_connect(r)) /\ Accounts!grant_connect(r).name = r.name
             /\ Accounts!grant_connect(r).login = r.login
             /\ Accounts!grant_connect(r).groups = r.groups /\ "connect" \in Accounts!grant_connect(r).privs
  BY <1>1 DEF IsRole, Accounts!grant_connect
<1>2. ASSUME NEW r, IsRole(r)
      PROVE  /\ IsRole(Accounts!revoke_connect(r)) /\ Accounts!revoke_connect(r).name = r.name
             /\ Accounts!revoke_connect(r).login = r.login
             /\ Accounts!revoke_connect(r).groups = r.groups
             /\ "connect" \notin Accounts!revoke_connect(r).privs
  BY <1>2 DEF IsRole, Accounts!revoke_connect
<1>3. CASE form.oid = 0
  <2> DEFINE r == Accounts!NewRole(form.login, form.password, TRUE)
  <2>1. IsRole(r) /\ r.name = form.login /\ r.groups = {} /\ r.login = TRUE /\ "connect" \notin r.privs
    BY DEF Accounts!NewRole, IsRole
  <2>2. Written(o) = IF form.connect THEN Accounts!grant_connect(r) ELSE r
    BY <1>3 DEF Written, Accounts!create_new_user
  <2> HIDE DEF r
  <2> QED  BY <1>1, <1>3, <2>1, <2>2
<1>4. CASE form.oid # 0
  <2>1. IsRole(roles[o]) /\ roles[o].name = form.initial
    BY <1>4 DEF AccountsInv, IsRoles, Ready
  <2> DEFINE now == IF Accounts!renamed THEN Accounts!change_login(roles[o]) ELSE roles[o]
             kept == IF form.change /\ form.password # "" THEN Accounts!change_password(now) ELSE now
  <2>2. IsRole(now) /\ now.name = form.login /\ now.login = roles[o].login /\ now.groups = roles[o].groups
    BY <2>1 DEF Accounts!renamed, Accounts!change_login, IsRole
  <2> HIDE DEF now
  <2>3. IsRole(kept) /\ kept.name = form.login /\ kept.login = roles[o].login /\ kept.groups = roles[o].groups
    BY <2>2 DEF Accounts!change_password, IsRole
  <2>4. Written(o) = IF form.connect THEN Accounts!grant_connect(kept) ELSE Accounts!revoke_connect(kept)
    BY <1>4 DEF Written, Accounts!update_user, now
  <2> HIDE DEF kept
  <2> QED  BY <1>1, <1>2, <1>4, <2>3, <2>4
<1> QED  BY <1>3, <1>4

(* The account with its memberships.                                       *)
Final(o) ==
  LET change == Accounts!update_granted_roles(form.oid)
  IN [Written(o) EXCEPT !.groups = (@ \cup change.granted) \ change.revoked]

LEMMA RoleIsFinal ==
  ASSUME AccountsInv, NEW o, Ready(o)
  PROVE  LET change == Accounts!update_granted_roles(form.oid)
         IN /\ IsRole(Final(o)) /\ Final(o).name = form.login
            /\ Final(o).login = IF form.oid = 0 THEN TRUE ELSE roles[o].login
            /\ Final(o).privs = Written(o).privs /\ Final(o).super = Written(o).super
            /\ Final(o).groups = ((IF form.oid = 0 THEN {} ELSE roles[o].groups) \cup change.granted) \ change.revoked
<1> DEFINE change == Accounts!update_granted_roles(form.oid)
           after == (Written(o).groups \cup change.granted) \ change.revoked
<1>1. Final(o) = [Written(o) EXCEPT !.groups = after]
  BY DEF Final
<1>2. ASSUME NEW r, IsRole(r), NEW s, NEW x, x = [r EXCEPT !.groups = s]
      PROVE  IsRole(x) /\ x.name = r.name /\ x.login = r.login /\ x.privs = r.privs /\ x.super = r.super
             /\ x.groups = s
  BY <1>2 DEF IsRole
<1> HIDE DEF after
<1>3. /\ IsRole(Final(o)) /\ Final(o).name = Written(o).name /\ Final(o).login = Written(o).login
      /\ Final(o).privs = Written(o).privs /\ Final(o).super = Written(o).super /\ Final(o).groups = after
  <2>1. IsRole(Written(o))
    BY RoleIsWritten
  <2> QED  BY <1>1, <1>2, <2>1
<1> QED  BY <1>3, RoleIsWritten DEF after

LEMMA RoleIsNoMember ==
  ASSUME AccountsInv, NEW o, Ready(o)
  PROVE  /\ Final(o).groups \subseteq DOMAIN roles \ {o}
         /\ o \notin Accounts!update_granted_roles(form.oid).granted
<1>1. Accounts!update_granted_roles(form.oid).granted \subseteq {g \in DOMAIN roles : roles[g].name \in form.groups}
  BY DEF Accounts!update_granted_roles
<1>2. \A g \in DOMAIN roles : roles[g].name \in form.groups => g # o
  BY DEF Ready, AccountsInv, FormInv
<1>3. form.oid # 0 => roles[o].groups \subseteq DOMAIN roles \ {o}
  BY DEF Ready, AccountsInv, IsRoles
<1> QED  BY <1>1, <1>2, <1>3, RoleIsFinal

LEMMA RolesAfterSave ==
  ASSUME AccountsInv, NEW o, Ready(o)
  PROVE  IsRoles(Accounts!put(roles, o, Final(o)))
<1>1. IsRole(Final(o)) /\ Final(o).name = form.login /\ Final(o).login \in BOOLEAN
  BY RoleIsFinal DEF Ready, AccountsInv, IsRoles
<1>2. /\ o \in Nat \ {0} /\ form.login # "" /\ IsRoles(roles)
      /\ \A p \in DOMAIN roles \ {o} : roles[p].name # form.login
  BY DEF Ready, AccountsInv
<1> QED  BY <1>1, <1>2, RoleIsNoMember, RoleIsSaved

(* After OK the account is a member of the groups that are checked, of     *)
(* those that the dialog lists.                                            *)
LEMMA MembershipsSaved ==
  ASSUME AccountsInv, NEW o, Ready(o), form.oid \in {0, o}, roles' = Accounts!put(roles, o, Final(o)),
         NEW x \in form.items
  PROVE  x \in Accounts!granted_roles(o)' <=> x \in form.groups
<1> DEFINE before == Accounts!granted_roles(form.oid)
           change == Accounts!update_granted_roles(form.oid)
<1>1. /\ o \in DOMAIN roles' /\ roles'[o] = Final(o)
      /\ \A g \in DOMAIN roles \ {o} : roles'[g] = roles[g]
  BY DEF Accounts!put
<1>2. Accounts!granted_roles(o)' = {roles'[g].name : g \in Final(o).groups}
  BY <1>1 DEF Accounts!granted_roles
<1>3. Final(o).groups \subseteq DOMAIN roles \ {o}
  BY RoleIsNoMember
<1>4. Accounts!granted_roles(o)' = {roles[g].name : g \in Final(o).groups}
  BY <1>1, <1>2, <1>3
<1> DEFINE own == IF form.oid = 0 THEN {} ELSE roles[o].groups
<1>5. before = {roles[g].name : g \in own} /\ own \subseteq DOMAIN roles \ {o}
  <2>1. DOMAIN roles \subseteq Nat \ {0}
        /\ \A p \in DOMAIN roles : roles[p].groups \subseteq DOMAIN roles \ {p}
    BY DEF AccountsInv, IsRoles
  <2>2. CASE form.oid = 0
    BY <2>1, <2>2 DEF Accounts!granted_roles
  <2>3. CASE form.oid # 0
    <3>1. form.oid = o /\ o \in DOMAIN roles
      BY <2>3 DEF Ready
    <3> QED  BY <2>1, <2>3, <3>1 DEF Accounts!granted_roles
  <2> QED  BY <2>2, <2>3
<1>6. /\ change.granted = {g \in DOMAIN roles : roles[g].name \in form.groups \ before}
      /\ change.revoked = {g \in DOMAIN roles : roles[g].name \in (form.items \ form.groups) \cap before}
  BY DEF Accounts!update_granted_roles
<1>7. Final(o).groups = (own \cup change.granted) \ change.revoked
  BY RoleIsFinal
<1> HIDE DEF own, change, before
<1>8. ASSUME x \in form.groups PROVE x \in Accounts!granted_roles(o)'
  <2>1. PICK g \in DOMAIN roles : roles[g].name = x
    BY <1>8 DEF Ready
  <2>2. CASE x \in before
    <3>1. PICK h \in own : roles[h].name = x
      BY <1>5, <2>2
    <3>2. h \notin change.revoked
      BY <1>6, <1>8, <3>1
    <3> QED  BY <1>4, <1>7, <3>1, <3>2
  <2>3. CASE x \notin before
    <3>1. g \in change.granted /\ g \notin change.revoked
      BY <1>6, <1>8, <2>1, <2>3
    <3> QED  BY <1>4, <1>7, <2>1, <3>1
  <2> QED  BY <2>2, <2>3
<1>9. ASSUME x \in Accounts!granted_roles(o)' PROVE x \in form.groups
  <2>1. PICK g \in Final(o).groups : roles[g].name = x
    BY <1>4, <1>9
  <2>2. CASE g \in change.granted
    BY <1>6, <2>1, <2>2
  <2>3. CASE g \in own /\ g \notin change.revoked
    <3>1. x \in before /\ g \in DOMAIN roles
      BY <1>5, <2>1, <2>3
    <3> QED  BY <1>6, <2>1, <2>3, <3>1
  <2> QED  BY <1>7, <2>1, <2>2, <2>3
<1> QED  BY <1>8, <1>9

-----------------------------------------------------------------------------
LEMMA OperatorUnregistered ==
  ASSUME NEW u, IsOperator(u), NEW v, v = [u EXCEPT !.login = ""]
  PROVE  IsOperator(v) /\ v.login = ""
  BY DEF IsOperator

LEMMA UnregisterIs ==
  ASSUME AccountsInv, form.user_id # 0
  PROVE  LET u == [users[form.user_id] EXCEPT !.login = ""]
         IN  /\ form.user_id \in DOMAIN users /\ IsOperator(u) /\ u.login = ""
             /\ DOMAIN Accounts!unregister = DOMAIN users /\ Accounts!unregister[form.user_id] = u
             /\ \A v \in DOMAIN users \ {form.user_id} : Accounts!unregister[v] = users[v]
             /\ Accounts!unregister = [v \in DOMAIN users |-> Accounts!unregister[v]]
<1> DEFINE u == [users[form.user_id] EXCEPT !.login = ""]
<1>1. form.user_id \in DOMAIN users /\ IsOperator(users[form.user_id])
      /\ users = [v \in DOMAIN users |-> users[v]]
  BY DEF AccountsInv, FormInv, IsOperators
<1>2. IsOperator(u) /\ u.login = ""
  BY <1>1, OperatorUnregistered
<1>3. Accounts!unregister = [users EXCEPT ![form.user_id] = u]
  BY <1>1 DEF Accounts!unregister
<1> HIDE DEF u
<1>4. /\ DOMAIN Accounts!unregister = DOMAIN users /\ Accounts!unregister[form.user_id] = u
      /\ \A v \in DOMAIN users \ {form.user_id} : Accounts!unregister[v] = users[v]
      /\ Accounts!unregister = [v \in DOMAIN users |-> Accounts!unregister[v]]
  BY <1>1, <1>3
<1> QED  BY <1>1, <1>2, <1>4 DEF u

LEMMA OperatorsAfterSave ==
  ASSUME AccountsInv
  PROVE  IsOperators(Accounts!registered_users) /\ DOMAIN users \subseteq DOMAIN Accounts!registered_users
<1>1. IsOperators(users) /\ form.user_id \in DOMAIN users \cup {0} /\ DOMAIN users \subseteq Nat \ {0}
  BY DEF AccountsInv, FormInv, IsOperators
<1>2. IsOperator(Accounts!fields)
  BY DEF Accounts!fields, IsOperator
<1>3. Accounts!After(DOMAIN users) \in Nat \ {0}
  BY <1>1, AfterIsFresh DEF IsOperators
<1>4. IsOperators(Accounts!insert) /\ DOMAIN users \subseteq DOMAIN Accounts!insert
  <2>1. DOMAIN users \subseteq DOMAIN Accounts!insert
    BY DEF Accounts!put, Accounts!insert
  <2> QED  BY <1>1, <1>2, <1>3, <2>1, OperatorIsSaved DEF Accounts!insert
<1>5. CASE form.user_id = 0
  BY <1>1, <1>4, <1>5 DEF Accounts!registered_users
<1>6. CASE form.user_id # 0
  <2>1. form.user_id \in Nat \ {0}
    BY <1>1, <1>6
  <2>2. IsOperators(Accounts!update_fields)
    BY <1>1, <1>2, <2>1, OperatorIsSaved DEF Accounts!update_fields
  <2>3. DOMAIN users \subseteq DOMAIN Accounts!update_fields
    BY DEF Accounts!put, Accounts!update_fields
  <2>4. DOMAIN Accounts!unregister = DOMAIN users
        /\ \A v \in DOMAIN Accounts!unregister : IsOperator(Accounts!unregister[v])
    BY <1>1, <1>6, UnregisterIs DEF IsOperators
  <2>5. IsOperators(Accounts!unregister)
    BY <1>1, <1>6, <2>4, UnregisterIs DEF IsOperators
  <2> QED  BY <1>1, <1>6, <2>2, <2>3, <2>4, <2>5 DEF Accounts!registered_users
<1> QED  BY <1>5, <1>6

(* The operator of the account is the one that the form shows, or nobody.  *)
WithLogin(f, n) == {u \in DOMAIN f : f[u].login = n /\ n # ""}

LEMMA OperatorSaved ==
  ASSUME AccountsInv, form.login # "",
         Accounts!user_of(form.login) \cup Accounts!user_of(form.initial) \subseteq {form.user_id}
  PROVE  LET after == Accounts!registered_users
         IN  IF form.registered THEN {after[u].name : u \in WithLogin(after, form.login)} = {form.name}
             ELSE WithLogin(after, form.login) \cup WithLogin(after, form.initial) = {}
<1> DEFINE after == Accounts!registered_users
<1>1. /\ IsOperators(users) /\ form.user_id \in DOMAIN users \cup {0}
      /\ 0 \notin DOMAIN users /\ IsFiniteSet(DOMAIN users) /\ DOMAIN users \subseteq Nat
  BY DEF AccountsInv, FormInv, IsOperators
<1>2. \A n : Accounts!user_of(n) = WithLogin(users, n)
  BY DEF Accounts!user_of, WithLogin
<1> HIDE DEF after
<1>3. ASSUME NEW i, after = Accounts!put(users, i, Accounts!fields),
             Accounts!user_of(form.login) \subseteq {i}
      PROVE  {after[u].name : u \in WithLogin(after, form.login)} = {form.name}
  <2>1. /\ DOMAIN after = DOMAIN users \cup {i} /\ after[i] = Accounts!fields
        /\ \A u \in DOMAIN users \ {i} : after[u] = users[u]
    BY <1>3 DEF Accounts!put
  <2>2. Accounts!fields.login = form.login /\ Accounts!fields.name = form.name
    BY DEF Accounts!fields
  <2>3. WithLogin(after, form.login) = {i}
    BY <1>2, <1>3, <2>1, <2>2 DEF WithLogin
  <2> QED  BY <2>1, <2>2, <2>3
<1>4. CASE form.registered
  <2>1. CASE form.user_id = 0
    <3>1. Accounts!user_of(form.login) = {}
      BY <1>1, <2>1 DEF Accounts!user_of
    <3>2. after = Accounts!put(users, Accounts!After(DOMAIN users), Accounts!fields)
      BY <1>4, <2>1 DEF Accounts!registered_users, Accounts!insert, after
    <3> QED  BY <1>3, <1>4, <3>1, <3>2 DEF after
  <2>2. CASE form.user_id # 0
    <3>1. after = Accounts!put(users, form.user_id, Accounts!fields)
      BY <1>4, <2>2 DEF Accounts!registered_users, Accounts!update_fields, after
    <3> QED  BY <1>3, <1>4, <3>1 DEF after
  <2> QED  BY <2>1, <2>2
<1>5. CASE ~form.registered
  <2>1. CASE form.user_id = 0
    <3>1. after = users
      BY <1>5, <2>1 DEF Accounts!registered_users, after
    <3>2. WithLogin(users, form.login) \cup WithLogin(users, form.initial) = {}
      BY <1>1, <1>2, <2>1 DEF WithLogin
    <3> QED  BY <1>5, <3>1, <3>2 DEF after
  <2>2. CASE form.user_id # 0
    <3>1. after = Accounts!unregister
      BY <1>5, <2>2 DEF Accounts!registered_users, after
    <3>2. /\ DOMAIN after = DOMAIN users /\ after[form.user_id].login = ""
          /\ \A u \in DOMAIN users \ {form.user_id} : after[u] = users[u]
      BY <2>2, <3>1, UnregisterIs
    <3>3. ASSUME NEW n, Accounts!user_of(n) \subseteq {form.user_id} PROVE WithLogin(after, n) = {}
      <4>1. SUFFICES ASSUME NEW u \in DOMAIN after, after[u].login = n, n # "" PROVE FALSE
        BY DEF WithLogin
      <4>2. u # form.user_id
        BY <3>2, <4>1
      <4>3. u \in Accounts!user_of(n)
        BY <3>2, <4>1, <4>2 DEF Accounts!user_of
      <4> QED  BY <3>3, <4>2, <4>3
    <3> QED  BY <1>5, <3>3 DEF after
  <2> QED  BY <2>1, <2>2
<1> QED  BY <1>4, <1>5

-----------------------------------------------------------------------------
LEMMA AccountsInit ==
  ASSUME Accounts!Init, IsRoles(FirstRoles), IsOperators(FirstUsers), MaxEdits \in Nat, MaxOthers \in Nat
  PROVE  AccountsInv
<1>1. IsRoles(roles) /\ IsOperators(users)
  BY DEF Accounts!Init
<1>2. SelectedInv
  BY <1>1 DEF Accounts!Init, SelectedInv, IsRoles
<1>3. FormInv
  BY DEF Accounts!Init, FormInv, Accounts!Closed, IsForm
<1> QED  BY <1>1, <1>2, <1>3 DEF Accounts!Init, AccountsInv

(* What changes neither the tables nor the lists nor the dialog.           *)
LEMMA NothingWritten ==
  ASSUME AccountsInv, UNCHANGED <<roles, users, form, selected>>,
         me' \in {-1, 0} \cup DOMAIN users, edited' \in 0..MaxEdits, outside' \in 0..MaxOthers
  PROVE  AccountsInv'
<1>1. IsRoles(roles)' /\ IsOperators(users)'
  BY DEF AccountsInv
<1>2. SelectedInv'
  BY DEF AccountsInv, SelectedInv
<1>3. FormInv'
  BY DEF AccountsInv, FormInv
<1> QED  BY <1>1, <1>2, <1>3 DEF AccountsInv

LEMMA ClosedIsForm ==
  ASSUME form' = Accounts!Closed
  PROVE  FormInv'
<1>1. IsForm(form') /\ form'.kind = "none" /\ form'.oid = 0 /\ form'.user_id = 0
  BY DEF Accounts!Closed, IsForm
<1>2. form'.groups = {} /\ form'.items = {} /\ form'.connect = FALSE
  BY DEF Accounts!Closed
<1>3. form'.kind # "user" /\ form'.kind \in {"none", "user", "group"} /\ form'.oid \in Nat
  BY <1>1
<1>4. form'.connect \in BOOLEAN
  BY <1>2
<1>5. form'.groups \subseteq form'.items /\ form'.user_id \in DOMAIN users' \cup {0}
  BY <1>1, <1>2
<1> QED  BY <1>1, <1>3, <1>4, <1>5, Zenon DEF FormInv

LEMMA ListsRefreshed ==
  ASSUME AccountsInv, IsRoles(roles'), selected' = Accounts!refreshed(roles')
  PROVE  SelectedInv'
<1> DEFINE S(t) == {o \in DOMAIN roles' : roles'[o].login = (t = "user")}
<1>1. selected["user"] \in Nat
  BY DEF AccountsInv, SelectedInv
<1>2. selected' = [t \in {"user", "group"} |-> IF selected["user"] \in S(t) THEN selected["user"] ELSE 0]
  BY DEF Accounts!refreshed
<1>3. ASSUME NEW t \in {"user", "group"}
      PROVE  /\ selected'[t] \in Nat
             /\ selected'[t] \in DOMAIN roles' => selected'[t] \in S(t)
  <2>1. selected'[t] = IF selected["user"] \in S(t) THEN selected["user"] ELSE 0
    BY <1>2
  <2>2. 0 \notin DOMAIN roles'
    BY DEF IsRoles
  <2> HIDE DEF S
  <2> QED  BY <1>1, <2>1, <2>2
<1>4. selected' \in [{"user", "group"} -> Nat]
  BY <1>2, <1>3
<1>5. \A t \in {"user", "group"} : selected'[t] \in DOMAIN roles' => roles'[selected'[t]].login = (t = "user")
  BY <1>3
<1> QED  BY <1>4, <1>5 DEF SelectedInv

-----------------------------------------------------------------------------
(* OK of the dialog of an account.                                         *)
LEMMA AccountIsSaved ==
  ASSUME AccountsInv, NEW o, Ready(o), Accounts!UserSaved(o, Written(o))
  PROVE  Accounts!AccountAsEdited'
<1>1. accepted' = [form EXCEPT !.heir = Accounts!heir(o)] /\ users' = Accounts!registered_users
      /\ roles' = Accounts!put(roles, o, Final(o))
  BY DEF Accounts!UserSaved, Final
<1>2. /\ accepted'.kind = form.kind /\ accepted'.login = form.login /\ accepted'.connect = form.connect
      /\ accepted'.items = form.items /\ accepted'.groups = form.groups
      /\ accepted'.registered = form.registered
      /\ accepted'.name = form.name /\ accepted'.initial = form.initial /\ accepted'.heir = Accounts!heir(o)
  BY <1>1 DEF AccountsInv, FormInv, IsForm
<1>3. SUFFICES ASSUME ~Accounts!heir(o) PROVE Accounts!SavedAsShown'
  BY <1>2 DEF Accounts!AccountAsEdited
<1>4. form.oid \in {0, o}
      /\ Accounts!user_of(form.login) \cup Accounts!user_of(form.initial) \subseteq {form.user_id}
  BY <1>3 DEF Accounts!heir
<1>5. o \in DOMAIN roles' /\ roles'[o] = Final(o)
  BY <1>1 DEF Accounts!put
<1>6. o \in Accounts!oid_db_role(accepted.login)'
  BY <1>2, <1>5, RoleIsFinal DEF Accounts!oid_db_role
<1>7. roles'[o].login
  BY <1>4, <1>5, RoleIsFinal DEF AccountsInv, FormInv, Ready
<1>8. Accounts!can_connect(o)' = (accepted'.connect \/ Accounts!ConnectsAnyway(o)')
  <2>1. ("connect" \in roles'[o].privs) <=> form.connect
    <3>1. Final(o).privs = Written(o).privs
      BY RoleIsFinal
    <3>2. /\ form.connect => "connect" \in Written(o).privs
          /\ ~form.connect => "connect" \notin Written(o).privs
      BY RoleIsWritten
    <3> QED  BY <1>5, <3>1, <3>2
  <2>2. Accounts!can_connect(o)' <=> (Accounts!ConnectsAnyway(o)' \/ "connect" \in roles'[o].privs)
    BY DEF Accounts!can_connect
  <2> QED  BY <1>2, <2>1, <2>2, Zenon DEF Accounts!can_connect
<1>9. \A g \in form.items : g \in Accounts!granted_roles(o)' <=> g \in form.groups
  BY <1>1, <1>4, MembershipsSaved
<1>10. IF form.registered THEN {users'[u].name : u \in WithLogin(users', form.login)} = {form.name}
       ELSE WithLogin(users', form.login) \cup WithLogin(users', form.initial) = {}
  BY <1>1, <1>4, OperatorSaved DEF Ready
<1>11. Accounts!user_of(accepted.login)' = WithLogin(users', form.login)
       /\ Accounts!user_of(accepted.initial)' = WithLogin(users', form.initial)
  BY <1>2 DEF Accounts!user_of, WithLogin
<1>12. IF accepted'.registered THEN {users'[u].name : u \in Accounts!user_of(accepted.login)'} = {accepted'.name}
       ELSE Accounts!user_of(accepted.login)' \cup Accounts!user_of(accepted.initial)' = {}
  BY <1>2, <1>10, <1>11
<1>13. \A g \in accepted'.items : g \in Accounts!granted_roles(o)' <=> g \in accepted'.groups
  BY <1>2, <1>9
<1> HIDE <1>1, <1>2, <1>9, <1>10, <1>11
<1> QED  BY <1>6, <1>7, <1>8, <1>12, <1>13 DEF Accounts!SavedAsShown

LEMMA UserOkKeeps ==
  ASSUME AccountsInv, NEW fails \in BOOLEAN, Accounts!UserOk(fails)
  PROVE  AccountsInv' /\ Accounts!AccountAsEdited'
<1>1. form.kind = "user" /\ UNCHANGED <<me, permission_cache, known_users, edited, outside>>
  BY DEF Accounts!UserOk, Accounts!caches
<1>2. CASE Accounts!UserRefused
  <2>1. AccountsInv'
    BY <1>1, <1>2, NothingWritten DEF Accounts!UserRefused, AccountsInv
  <2>2. accepted'.kind = "none"
    BY <1>2 DEF Accounts!UserRefused, Accounts!Closed
  <2> QED  BY <2>1, <2>2 DEF Accounts!AccountAsEdited
<1>3. ASSUME Accounts!check_valid, ~Accounts!refused(Target), NEW o \in Target,
             Accounts!UserSaved(o, Written(o))
      PROVE  AccountsInv' /\ Accounts!AccountAsEdited'
  <2>1. Ready(o)
    BY <1>1, <1>3, SavingIsReady
  <2>2. /\ roles' = Accounts!put(roles, o, Final(o)) /\ users' = Accounts!registered_users
        /\ form' = Accounts!Closed /\ selected' = Accounts!refreshed(roles')
    BY <1>3 DEF Accounts!UserSaved, Final
  <2>3. IsRoles(roles') /\ IsOperators(users') /\ DOMAIN users \subseteq DOMAIN users'
    BY <2>1, <2>2, RolesAfterSave, OperatorsAfterSave
  <2>4. SelectedInv' /\ FormInv'
    BY <2>2, <2>3, ListsRefreshed, ClosedIsForm
  <2>5. AccountsInv'
    BY <1>1, <2>3, <2>4 DEF AccountsInv
  <2> QED  BY <1>3, <2>1, <2>5, AccountIsSaved
<1>4. Accounts!UserRefused \/ (Accounts!check_valid /\ ~Accounts!refused(Target) /\ \E o \in Target : Accounts!UserSaved(o, Written(o)))
  BY DEF Accounts!UserOk, Target, Written
<1> QED  BY <1>2, <1>3, <1>4

LEMMA RolesAreRoles ==
  ASSUME AccountsInv
  PROVE  /\ DOMAIN roles \subseteq Nat \ {0} /\ IsFiniteSet(DOMAIN roles)
         /\ \A o \in DOMAIN roles : /\ IsRole(roles[o]) /\ roles[o].login \in BOOLEAN /\ roles[o].name # ""
                                     /\ roles[o].groups \subseteq DOMAIN roles \ {o}
         /\ \A o, p \in DOMAIN roles : roles[o].name = roles[p].name => o = p
  BY DEF AccountsInv, IsRoles

(* OK of the permissions of a group.                                       *)
LEMMA GroupOkKeeps ==
  ASSUME AccountsInv, NEW fails \in BOOLEAN, Accounts!GroupOk(fails)
  PROVE  AccountsInv' /\ Accounts!AccountAsEdited'
<1> DEFINE o == IF form.oid = 0 THEN Accounts!NewOid ELSE form.oid
           role == IF form.oid = 0 THEN Accounts!NewRole(form.login, "", FALSE) ELSE roles[o]
           written == [role EXCEPT !.name = form.login, !.privs = Accounts!granted(role)]
<1>1. /\ form.kind = "group" /\ form' = Accounts!Closed /\ selected' = Accounts!refreshed(roles')
      /\ UNCHANGED <<users, me, edited, outside>>
  BY DEF Accounts!GroupOk, Accounts!caches
<1>2. \/ UNCHANGED roles /\ accepted' = Accounts!Closed
      \/ /\ form.login # "" /\ Accounts!oid_db_role(form.login) \ {o} = {}
         /\ (form.oid # 0 => o \in DOMAIN roles)
         /\ roles' = Accounts!put(roles, o, written) /\ accepted' = form
  BY DEF Accounts!GroupOk
<1>3. Accounts!AccountAsEdited'
  <2>1. accepted' = Accounts!Closed \/ accepted' = form
    BY <1>2
  <2>2. Accounts!Closed.kind = "none"
    BY DEF Accounts!Closed
  <2>3. accepted'.kind # "user"
    BY <1>1, <2>1, <2>2
  <2> QED  BY <2>3 DEF Accounts!AccountAsEdited
<1>4. IsRoles(roles')
  <2>1. CASE UNCHANGED roles
    BY <2>1 DEF AccountsInv
  <2>2. CASE /\ form.login # "" /\ Accounts!oid_db_role(form.login) \ {o} = {}
             /\ (form.oid # 0 => o \in DOMAIN roles)
             /\ roles' = Accounts!put(roles, o, written)
    <3>1. o \in Nat \ {0} /\ (form.oid = 0 => o \notin DOMAIN roles)
      BY <2>2, NewOidIsNew DEF AccountsInv, IsRoles
    <3>2. IsRole(role) /\ role.login \in BOOLEAN /\ role.groups \subseteq DOMAIN roles \ {o}
      <4>1. CASE form.oid = 0
        BY <4>1 DEF Accounts!NewRole, IsRole
      <4>2. CASE form.oid # 0
        BY <2>2, <4>2 DEF AccountsInv, IsRoles
      <4> QED  BY <4>1, <4>2
    <3> HIDE DEF role
    <3>3. IsRole(written) /\ written.name = form.login /\ written.login = role.login
          /\ written.groups = role.groups
      <4>1. PICK q : q = role
        OBVIOUS
      <4>2. IsRole(q) /\ written = [q EXCEPT !.name = form.login, !.privs = Accounts!granted(q)]
        BY <3>2, <4>1
      <4> HIDE DEF written
      <4>3. IsRole(written) /\ written.name = form.login /\ written.login = q.login
            /\ written.groups = q.groups
        BY <4>2 DEF IsRole
      <4> QED  BY <4>1, <4>3
    <3>4. \A p \in DOMAIN roles \ {o} : roles[p].name # form.login
      BY <2>2 DEF Accounts!oid_db_role
    <3> HIDE DEF written, o
    <3> QED  BY <2>2, <3>1, <3>2, <3>3, <3>4, RoleIsSaved DEF AccountsInv
  <2> QED  BY <1>2, <2>1, <2>2
<1>5. SelectedInv' /\ FormInv'
  BY <1>1, <1>4, ListsRefreshed, ClosedIsForm
<1>6. IsOperators(users')
  BY <1>1 DEF AccountsInv
<1> QED  BY <1>1, <1>3, <1>4, <1>5, <1>6 DEF AccountsInv

LEMMA OneMore ==
  ASSUME NEW m \in Nat, NEW i \in 0..m, i < m
  PROVE  i + 1 \in 0..m
  OBVIOUS

(* Another client renames or drops a role.                                 *)
LEMMA OtherClientRoles ==
  ASSUME AccountsInv, "" \notin Logins, NEW o \in DOMAIN roles, Accounts!OtherClient(o)
  PROVE  /\ IsRoles(roles') /\ DOMAIN roles' \subseteq DOMAIN roles
         /\ \A p \in DOMAIN roles' : roles'[p].login = roles[p].login
<1>1. \A p \in DOMAIN roles : IsRole(roles[p])
  BY DEF AccountsInv, IsRoles
<1>2. ASSUME NEW n \in Logins, Accounts!oid_db_role(n) = {},
             roles' = [roles EXCEPT ![o].name = n, ![o].password = {}]
      PROVE  /\ IsRoles(roles') /\ DOMAIN roles' \subseteq DOMAIN roles
             /\ \A p \in DOMAIN roles' : roles'[p].login = roles[p].login
  <2> DEFINE r == [roles[o] EXCEPT !.name = n, !.password = {}]
  <2>1. IsRole(r) /\ r.name = n /\ r.login = roles[o].login /\ r.groups = roles[o].groups
    <3>1. PICK q : q = roles[o]
      OBVIOUS
    <3>2. IsRole(q) /\ r = [q EXCEPT !.name = n, !.password = {}]
      BY <1>1, <3>1
    <3> HIDE DEF r
    <3>3. IsRole(r) /\ r.name = n /\ r.login = q.login /\ r.groups = q.groups
      BY <3>2 DEF IsRole
    <3> QED  BY <3>1, <3>3
  <2>2. DOMAIN roles' = DOMAIN roles /\ roles'[o] = r /\ \A p \in DOMAIN roles \ {o} : roles'[p] = roles[p]
    BY <1>2
  <2> HIDE DEF r
  <2>3. \A p \in DOMAIN roles : roles[p].name # n
    BY <1>2 DEF Accounts!oid_db_role
  <2>4. \A p, q \in DOMAIN roles' : roles'[p].name = roles'[q].name => p = q
    BY <2>1, <2>2, <2>3, RolesAreRoles
  <2>5. ASSUME NEW p \in DOMAIN roles'
        PROVE  /\ IsRole(roles'[p]) /\ roles'[p].login \in BOOLEAN /\ roles'[p].name # ""
               /\ roles'[p].groups \subseteq DOMAIN roles' \ {p} /\ roles'[p].login = roles[p].login
    BY <2>1, <2>2, RolesAreRoles
  <2> QED  BY <2>2, <2>4, <2>5, RolesAreRoles DEF IsRoles
<1>3. ASSUME roles' = [r \in DOMAIN roles \ {o} |-> [roles[r] EXCEPT !.groups = @ \ {o}]]
      PROVE  /\ IsRoles(roles') /\ DOMAIN roles' \subseteq DOMAIN roles
             /\ \A p \in DOMAIN roles' : roles'[p].login = roles[p].login
  <2>1. DOMAIN roles' = DOMAIN roles \ {o} /\ IsFiniteSet(DOMAIN roles)
    BY <1>3, RolesAreRoles
  <2>2. IsFiniteSet(DOMAIN roles')
    BY <2>1, FS_Subset
  <2>3. ASSUME NEW r, IsRole(r), NEW s, s = [r EXCEPT !.groups = @ \ {o}]
        PROVE  IsRole(s) /\ s.name = r.name /\ s.login = r.login /\ s.groups = r.groups \ {o}
    BY <2>3 DEF IsRole
  <2>4. ASSUME NEW p \in DOMAIN roles'
        PROVE  /\ IsRole(roles'[p]) /\ roles'[p].login = roles[p].login /\ roles'[p].name = roles[p].name
               /\ roles'[p].groups = roles[p].groups \ {o} /\ p \in DOMAIN roles
    BY <1>1, <1>3, <2>1, <2>3
  <2>5. ASSUME NEW p \in DOMAIN roles'
        PROVE  /\ IsRole(roles'[p]) /\ roles'[p].login \in BOOLEAN /\ roles'[p].name # ""
               /\ roles'[p].groups \subseteq DOMAIN roles' \ {p}
    <3>1. p \in DOMAIN roles /\ roles[p].groups \subseteq DOMAIN roles \ {p}
      BY <2>4, RolesAreRoles
    <3>2. roles'[p].groups \subseteq DOMAIN roles' \ {p}
      BY <2>1, <2>4, <3>1
    <3> QED  BY <2>4, <3>1, <3>2, RolesAreRoles
  <2>6. \A p, q \in DOMAIN roles' : roles'[p].name = roles'[q].name => p = q
    BY <2>4, RolesAreRoles
  <2>7. DOMAIN roles' \subseteq Nat \ {0}
    BY <2>1, RolesAreRoles
  <2> QED  BY <2>1, <2>2, <2>4, <2>5, <2>6, <2>7 DEF IsRoles
<1> QED  BY <1>2, <1>3 DEF Accounts!OtherClient

LEMMA OtherClientKeepsAccounts ==
  ASSUME AccountsInv, "" \notin Logins, MaxOthers \in Nat, NEW o \in DOMAIN roles, Accounts!OtherClient(o)
  PROVE  AccountsInv' /\ Accounts!AccountAsEdited'
<1>1. /\ UNCHANGED <<users, form, selected, me, edited>> /\ outside < MaxOthers /\ outside' = outside + 1
      /\ accepted' = Accounts!Closed
  BY DEF Accounts!OtherClient, Accounts!caches
<1>2. /\ IsRoles(roles') /\ DOMAIN roles' \subseteq DOMAIN roles
      /\ \A p \in DOMAIN roles' : roles'[p].login = roles[p].login
  BY OtherClientRoles
<1>3. SelectedInv'
  BY <1>1, <1>2 DEF AccountsInv, SelectedInv
<1>4. FormInv'
  BY <1>1, <1>2 DEF AccountsInv, FormInv
<1>5. outside' \in 0..MaxOthers
  <2>1. outside \in 0..MaxOthers
    BY DEF AccountsInv
  <2>2. outside < MaxOthers /\ outside' = outside + 1
    BY <1>1
  <2> QED  BY <2>1, <2>2, OneMore
<1>6. accepted'.kind = "none"
  BY <1>1 DEF Accounts!Closed
<1>7. IsOperators(users') /\ me' \in {-1, 0} \cup DOMAIN users' /\ edited' \in 0..MaxEdits
  BY <1>1 DEF AccountsInv
<1> QED  BY <1>2, <1>3, <1>4, <1>5, <1>6, <1>7 DEF AccountsInv, Accounts!AccountAsEdited

-----------------------------------------------------------------------------
(* A dialog that opens, on a new account or on one of its list.            *)
LEMMA AccountOpens ==
  ASSUME AccountsInv, NEW o \in Nat, o \in DOMAIN roles => roles[o].login,
         form' = Accounts!user_edit_dialog(o), UNCHANGED <<roles, users>>
  PROVE  FormInv'
<1> DEFINE u == Accounts!fetch_by_oid(o)
           names == {roles[g].name : g \in Accounts!Listed(FALSE)}
<1>1. form' = [Accounts!Closed EXCEPT !.kind = "user", !.oid = o, !.initial = u.login, !.login = u.login,
                 !.user_id = u.user_id, !.name = u.name, !.connect = u.connect, !.registered = u.user_id # 0,
                 !.items = names, !.groups = Accounts!granted_roles(o) \cap names]
  BY DEF Accounts!user_edit_dialog
<1>2. /\ u.login = IF o \in DOMAIN roles THEN roles[o].name ELSE ""
      /\ u.user_id = IF Accounts!user_of(u.login) = {} THEN 0 ELSE CHOOSE v \in Accounts!user_of(u.login) : TRUE
      /\ u.connect = (o \in DOMAIN roles /\ Accounts!can_connect(o))
  BY DEF Accounts!fetch_by_oid
<1>3. u.user_id \in DOMAIN users \cup {0}
  <2>1. Accounts!user_of(u.login) \subseteq DOMAIN users
    BY DEF Accounts!user_of
  <2> HIDE DEF u
  <2> QED  BY <1>2, <2>1
<1>4. u.connect \in BOOLEAN
  BY <1>2
<1>5. u.login \notin names
  <2>1. \A g \in Accounts!Listed(FALSE) : g \in DOMAIN roles /\ ~roles[g].login
    BY DEF Accounts!Listed
  <2>2. \A g \in Accounts!Listed(FALSE) : roles[g].name # u.login
    BY <1>2, <2>1, RolesAreRoles
  <2> QED  BY <2>2
<1> HIDE DEF u, names
<1>6. /\ IsForm(form') /\ form'.kind = "user" /\ form'.oid = o /\ form'.initial = u.login
      /\ form'.user_id = u.user_id /\ form'.connect = u.connect /\ form'.items = names
      /\ form'.groups = Accounts!granted_roles(o) \cap names
  BY <1>1 DEF Accounts!Closed, IsForm
<1>7. form'.groups \subseteq form'.items /\ form'.oid \in Nat /\ form'.kind \in {"none", "user", "group"}
  BY <1>6
<1>8. form'.user_id \in DOMAIN users' \cup {0} /\ form'.connect \in BOOLEAN
      /\ form'.initial \notin form'.items
  BY <1>3, <1>4, <1>5, <1>6
<1>9. form'.oid \in DOMAIN roles' => roles'[form'.oid].login
  BY <1>6
<1> QED  BY <1>6, <1>7, <1>8, <1>9, Zenon DEF FormInv

LEMMA GroupOpens ==
  ASSUME NEW o \in Nat, form' = Accounts!role_perms_edit_dialog(o)
  PROVE  FormInv'
<1> DEFINE name == IF o \in DOMAIN roles THEN roles[o].name ELSE ""
           boxes == Accounts!ToSet(Abilities)
<1>1. form' = [Accounts!Closed EXCEPT !.kind = "group", !.oid = o, !.initial = name, !.login = name,
                 !.items = boxes, !.groups = Accounts!set_checkboxes(o)]
  BY DEF Accounts!role_perms_edit_dialog
<1>2. Accounts!set_checkboxes(o) \subseteq boxes
  BY DEF Accounts!set_checkboxes
<1> HIDE DEF name, boxes
<1>3. /\ IsForm(form') /\ form'.kind = "group" /\ form'.oid = o /\ form'.user_id = 0
      /\ form'.connect = FALSE /\ form'.items = boxes /\ form'.groups = Accounts!set_checkboxes(o)
  BY <1>1 DEF Accounts!Closed, IsForm
<1>4. form'.groups \subseteq form'.items /\ form'.oid \in Nat /\ form'.kind \in {"none", "user", "group"}
  BY <1>2, <1>3
<1>5. form'.user_id \in DOMAIN users' \cup {0} /\ form'.connect \in BOOLEAN /\ form'.kind # "user"
  BY <1>3
<1> QED  BY <1>3, <1>4, <1>5, Zenon DEF FormInv

LEMMA DialogOpens ==
  ASSUME AccountsInv, NEW t \in {"user", "group"}, NEW o \in Nat,
         o \in DOMAIN roles => roles[o].login = (t = "user"),
         form' = Accounts!opened(t, o), UNCHANGED <<roles, users>>
  PROVE  FormInv'
<1>1. CASE t = "user"
  BY <1>1, AccountOpens DEF Accounts!opened
<1>2. CASE t = "group"
  BY <1>2, GroupOpens DEF Accounts!opened
<1> QED  BY <1>1, <1>2

(* A field of the dialog that is edited.                                   *)
LEMMA EditKeeps ==
  ASSUME FormInv, NEW f, IsForm(f), f.kind = form.kind, f.oid = form.oid, f.user_id = form.user_id,
         f.initial = form.initial, f.items = form.items, f.groups \subseteq f.items, f.connect \in BOOLEAN,
         form' = f, UNCHANGED <<roles, users>>
  PROVE  FormInv'
<1>1. IsForm(form')
  OBVIOUS
<1>2. /\ form'.kind = form.kind /\ form'.oid = form.oid /\ form'.user_id = form.user_id
      /\ form'.initial = form.initial /\ form'.items = form.items /\ form'.groups \subseteq form'.items
      /\ form'.connect \in BOOLEAN
  OBVIOUS
<1> QED  BY <1>1, <1>2 DEF FormInv

LEMMA TypeKeeps ==
  ASSUME FormInv, Accounts!Type
  PROVE  FormInv'
<1>1. IsForm(form) /\ form.groups \subseteq form.items /\ form.connect \in BOOLEAN
  BY DEF FormInv
<1>2. ASSUME NEW n, Accounts!edit([form EXCEPT !.login = n]) PROVE FormInv'
  <2>1. PICK f : f = [form EXCEPT !.login = n]
    OBVIOUS
  <2>2. /\ IsForm(f) /\ f.kind = form.kind /\ f.oid = form.oid /\ f.user_id = form.user_id
        /\ f.connect = form.connect
        /\ f.initial = form.initial /\ f.items = form.items /\ f.groups = form.groups
    BY <1>1, <2>1 DEF IsForm
  <2> QED  BY <1>1, <1>2, <2>1, <2>2, EditKeeps DEF Accounts!edit
<1>3. ASSUME NEW p, NEW q, Accounts!edit([form EXCEPT !.password = p, !.again = q]) PROVE FormInv'
  <2>1. PICK f : f = [form EXCEPT !.password = p, !.again = q]
    OBVIOUS
  <2>2. /\ IsForm(f) /\ f.kind = form.kind /\ f.oid = form.oid /\ f.user_id = form.user_id
        /\ f.connect = form.connect
        /\ f.initial = form.initial /\ f.items = form.items /\ f.groups = form.groups
    BY <1>1, <2>1 DEF IsForm
  <2> QED  BY <1>1, <1>3, <2>1, <2>2, EditKeeps DEF Accounts!edit
<1>4. ASSUME NEW n, Accounts!edit([form EXCEPT !.name = n]) PROVE FormInv'
  <2>1. PICK f : f = [form EXCEPT !.name = n]
    OBVIOUS
  <2>2. /\ IsForm(f) /\ f.kind = form.kind /\ f.oid = form.oid /\ f.user_id = form.user_id
        /\ f.connect = form.connect
        /\ f.initial = form.initial /\ f.items = form.items /\ f.groups = form.groups
    BY <1>1, <2>1 DEF IsForm
  <2> QED  BY <1>1, <1>4, <2>1, <2>2, EditKeeps DEF Accounts!edit
<1> QED  BY <1>2, <1>3, <1>4 DEF Accounts!Type

LEMMA CheckKeeps ==
  ASSUME FormInv, Accounts!Check
  PROVE  FormInv'
<1>1. IsForm(form) /\ form.groups \subseteq form.items /\ form.connect \in BOOLEAN
  BY DEF FormInv
<1>2. ASSUME Accounts!edit([form EXCEPT !.change = ~@]) PROVE FormInv'
  <2>1. PICK f : f = [form EXCEPT !.change = ~@]
    OBVIOUS
  <2>2. /\ IsForm(f) /\ f.kind = form.kind /\ f.oid = form.oid /\ f.user_id = form.user_id
        /\ f.connect = form.connect
        /\ f.initial = form.initial /\ f.items = form.items /\ f.groups = form.groups
    BY <1>1, <2>1 DEF IsForm
  <2> QED  BY <1>1, <1>2, <2>1, <2>2, EditKeeps DEF Accounts!edit
<1>3. ASSUME Accounts!edit([form EXCEPT !.registered = ~@]) PROVE FormInv'
  <2>1. PICK f : f = [form EXCEPT !.registered = ~@]
    OBVIOUS
  <2>2. /\ IsForm(f) /\ f.kind = form.kind /\ f.oid = form.oid /\ f.user_id = form.user_id
        /\ f.connect = form.connect
        /\ f.initial = form.initial /\ f.items = form.items /\ f.groups = form.groups
    BY <1>1, <2>1 DEF IsForm
  <2> QED  BY <1>1, <1>3, <2>1, <2>2, EditKeeps DEF Accounts!edit
<1>4. ASSUME Accounts!edit([form EXCEPT !.connect = ~@]) PROVE FormInv'
  <2>1. PICK b : b = ~form.connect
    OBVIOUS
  <2>2. b \in BOOLEAN
    BY <2>1
  <2>3. PICK f : f = [form EXCEPT !.connect = b]
    OBVIOUS
  <2>4. /\ IsForm(f) /\ f.kind = form.kind /\ f.oid = form.oid /\ f.user_id = form.user_id /\ f.connect = b
        /\ f.initial = form.initial /\ f.items = form.items /\ f.groups = form.groups
    BY <1>1, <2>3 DEF IsForm
  <2> QED  BY <1>1, <1>4, <2>1, <2>2, <2>3, <2>4, EditKeeps DEF Accounts!edit
<1>5. ASSUME NEW g \in form.items,
             Accounts!edit([form EXCEPT !.groups = IF g \in @ THEN @ \ {g} ELSE @ \cup {g}])
      PROVE  FormInv'
  <2>1. PICK s : s = IF g \in form.groups THEN form.groups \ {g} ELSE form.groups \cup {g}
    OBVIOUS
  <2>2. s \subseteq form.items
    BY <1>1, <2>1
  <2>3. PICK f : f = [form EXCEPT !.groups = s]
    OBVIOUS
  <2>4. /\ IsForm(f) /\ f.kind = form.kind /\ f.oid = form.oid /\ f.user_id = form.user_id
        /\ f.connect = form.connect
        /\ f.initial = form.initial /\ f.items = form.items /\ f.groups = s
    BY <1>1, <2>3 DEF IsForm
  <2> QED  BY <1>1, <1>5, <2>1, <2>2, <2>3, <2>4, EditKeeps DEF Accounts!edit
<1> QED  BY <1>2, <1>3, <1>4, <1>5 DEF Accounts!Check

(* What changes the dialog only, and what opens or closes nothing.         *)
LEMMA OnlyTheForm ==
  ASSUME AccountsInv, FormInv', UNCHANGED <<roles, users, selected, me, outside>>, edited' \in 0..MaxEdits
  PROVE  AccountsInv'
<1>1. IsRoles(roles') /\ IsOperators(users')
  BY DEF AccountsInv
<1>2. SelectedInv'
  BY DEF AccountsInv, SelectedInv
<1> QED  BY <1>1, <1>2 DEF AccountsInv

LEMMA EditIsCounted ==
  ASSUME AccountsInv, MaxEdits \in Nat, Accounts!counted
  PROVE  edited' \in 0..MaxEdits
<1>1. edited \in 0..MaxEdits /\ edited < MaxEdits /\ edited' = edited + 1
  BY DEF AccountsInv, Accounts!counted
<1> QED  BY <1>1, OneMore

LEMMA CachesKeep ==
  ASSUME AccountsInv, MaxEdits \in Nat, NEW fails \in BOOLEAN,
         Accounts!current_user_id(fails) \/ \E a \in Accounts!ToSet(Abilities) : Accounts!has_permission(a, fails)
  PROVE  AccountsInv' /\ accepted' = Accounts!Closed
<1>1. CASE Accounts!current_user_id(fails)
  <2>1. UNCHANGED <<roles, users, form, selected, outside>> /\ Accounts!counted /\ accepted' = Accounts!Closed
    BY <1>1 DEF Accounts!current_user_id
  <2>2. me' \in {-1, 0} \cup DOMAIN users
    <3> DEFINE found == Accounts!user_of(roles[Me].name)
    <3>1. me' = IF fails \/ found = {} THEN 0 ELSE CHOOSE u \in found : TRUE
      BY <1>1 DEF Accounts!current_user_id
    <3>2. found \subseteq DOMAIN users
      BY DEF Accounts!user_of
    <3> HIDE DEF found
    <3> QED  BY <3>1, <3>2
  <2>3. outside' \in 0..MaxOthers
    BY <2>1 DEF AccountsInv
  <2> QED  BY <2>1, <2>2, <2>3, EditIsCounted, NothingWritten
<1>2. ASSUME NEW a \in Accounts!ToSet(Abilities), Accounts!has_permission(a, fails)
      PROVE  AccountsInv' /\ accepted' = Accounts!Closed
  <2>1. UNCHANGED <<roles, users, form, selected, me, outside>> /\ Accounts!counted
        /\ accepted' = Accounts!Closed
    BY <1>2 DEF Accounts!has_permission
  <2>2. me' \in {-1, 0} \cup DOMAIN users /\ outside' \in 0..MaxOthers
    BY <2>1 DEF AccountsInv
  <2> QED  BY <2>1, <2>2, EditIsCounted, NothingWritten
<1> QED  BY <1>1, <1>2

LEMMA ListsKeep ==
  ASSUME AccountsInv, MaxEdits \in Nat, NEW t \in {"user", "group"},
         Accounts!Select(t) \/ Accounts!add_user(t) \/ Accounts!edit_user(t)
  PROVE  AccountsInv' /\ accepted' = Accounts!Closed
<1>1. CASE Accounts!Select(t)
  <2>1. PICK o \in Accounts!Listed(t = "user") : selected' = [selected EXCEPT ![t] = o]
    BY <1>1 DEF Accounts!Select
  <2>2. UNCHANGED <<roles, users, form, me, outside>> /\ Accounts!counted /\ accepted' = Accounts!Closed
    BY <1>1 DEF Accounts!Select, Accounts!caches
  <2>3. o \in DOMAIN roles /\ roles[o].login = (t = "user") /\ o \in Nat
    BY <2>1, RolesAreRoles DEF Accounts!Listed
  <2>4. SelectedInv'
    BY <2>1, <2>2, <2>3 DEF AccountsInv, SelectedInv
  <2>5. FormInv'
    BY <2>2 DEF AccountsInv, FormInv
  <2>6. IsRoles(roles') /\ IsOperators(users') /\ me' \in {-1, 0} \cup DOMAIN users'
        /\ outside' \in 0..MaxOthers
    BY <2>2 DEF AccountsInv
  <2> QED  BY <2>2, <2>4, <2>5, <2>6, EditIsCounted DEF AccountsInv
<1>2. CASE Accounts!add_user(t)
  <2>1. form' = Accounts!opened(t, 0) /\ accepted' = Accounts!Closed
        /\ UNCHANGED <<roles, users, selected, me, edited, outside>>
    BY <1>2 DEF Accounts!add_user, Accounts!caches
  <2>2. 0 \notin DOMAIN roles
    BY RolesAreRoles
  <2>3. FormInv'
    BY <2>1, <2>2, DialogOpens
  <2>4. edited' \in 0..MaxEdits
    BY <2>1 DEF AccountsInv
  <2> QED  BY <2>1, <2>3, <2>4, OnlyTheForm
<1>3. CASE Accounts!edit_user(t)
  <2>1. form' = Accounts!opened(t, selected[t]) /\ accepted' = Accounts!Closed
        /\ UNCHANGED <<roles, users, selected, me, edited, outside>>
    BY <1>3 DEF Accounts!edit_user, Accounts!caches
  <2>2. selected[t] \in Nat /\ (selected[t] \in DOMAIN roles => roles[selected[t]].login = (t = "user"))
    BY DEF AccountsInv, SelectedInv
  <2>3. FormInv'
    BY <2>1, <2>2, DialogOpens
  <2>4. edited' \in 0..MaxEdits
    BY <2>1 DEF AccountsInv
  <2> QED  BY <2>1, <2>3, <2>4, OnlyTheForm
<1> QED  BY <1>1, <1>2, <1>3

LEMMA EditsKeep ==
  ASSUME AccountsInv, MaxEdits \in Nat, Accounts!Type \/ Accounts!Check \/ Accounts!Cancel
  PROVE  AccountsInv' /\ accepted' = Accounts!Closed
<1>1. CASE Accounts!Type \/ Accounts!Check
  <2>1. \E f : Accounts!edit(f)
    BY <1>1 DEF Accounts!Type, Accounts!Check
  <2>2. UNCHANGED <<roles, users, selected, me, outside>> /\ Accounts!counted /\ accepted' = Accounts!Closed
    BY <2>1 DEF Accounts!edit, Accounts!caches
  <2>3. FormInv'
    BY <1>1, TypeKeeps, CheckKeeps DEF AccountsInv
  <2> QED  BY <2>2, <2>3, EditIsCounted, OnlyTheForm
<1>2. CASE Accounts!Cancel
  <2>1. form' = Accounts!Closed /\ accepted' = Accounts!Closed
        /\ UNCHANGED <<roles, users, selected, me, edited, outside>>
    BY <1>2 DEF Accounts!Cancel, Accounts!caches
  <2>2. edited' \in 0..MaxEdits
    BY <2>1 DEF AccountsInv
  <2> QED  BY <2>1, <2>2, ClosedIsForm, OnlyTheForm
<1> QED  BY <1>1, <1>2

LEMMA AccountsStep ==
  ASSUME AccountsInv, Accounts!AccountAsEdited, "" \notin Logins, MaxEdits \in Nat,
         MaxOthers \in Nat,
         [Accounts!Next]_userVars
  PROVE  AccountsInv' /\ Accounts!AccountAsEdited'
<1>1. CASE UNCHANGED userVars
  <2>1. UNCHANGED <<roles, users, form, accepted, selected, me, edited, outside>>
    BY <1>1 DEF userVars
  <2>2. me' \in {-1, 0} \cup DOMAIN users /\ edited' \in 0..MaxEdits /\ outside' \in 0..MaxOthers
    BY <2>1 DEF AccountsInv
  <2>3. Accounts!AccountAsEdited' <=> Accounts!AccountAsEdited
    <3>1. \A o : Accounts!granted_roles(o)' = Accounts!granted_roles(o)
      BY <2>1 DEF Accounts!granted_roles
    <3>2. \A o : /\ Accounts!ConnectsAnyway(o)' = Accounts!ConnectsAnyway(o)
                 /\ Accounts!can_connect(o)' = Accounts!can_connect(o)
      BY <2>1, Zenon DEF Accounts!can_connect, Accounts!ConnectsAnyway, Accounts!Inherited
    <3>3. /\ Accounts!oid_db_role(accepted.login)' = Accounts!oid_db_role(accepted.login)
          /\ Accounts!user_of(accepted.login)' = Accounts!user_of(accepted.login)
          /\ Accounts!user_of(accepted.initial)' = Accounts!user_of(accepted.initial)
      BY <2>1 DEF Accounts!oid_db_role, Accounts!user_of
    <3>4. Accounts!SavedAsShown' <=> Accounts!SavedAsShown
      BY <2>1, <3>1, <3>2, <3>3, Zenon DEF Accounts!SavedAsShown
    <3> QED  BY <2>1, <3>4 DEF Accounts!AccountAsEdited
  <2> QED  BY <2>1, <2>2, <2>3, NothingWritten
<1>2. ASSUME accepted' = Accounts!Closed PROVE Accounts!AccountAsEdited'
  <2>1. accepted'.kind = "none"
    BY <1>2 DEF Accounts!Closed
  <2> QED  BY <2>1 DEF Accounts!AccountAsEdited
<1>3. CASE \E f \in BOOLEAN : Accounts!UserOk(f)
  BY <1>3, UserOkKeeps
<1>4. CASE \E f \in BOOLEAN : Accounts!GroupOk(f)
  BY <1>4, GroupOkKeeps
<1>5. CASE \E o \in DOMAIN roles : Accounts!OtherClient(o)
  BY <1>5, OtherClientKeepsAccounts
<1>6. CASE \E f \in BOOLEAN : Accounts!current_user_id(f) \/ \E a \in Accounts!ToSet(Abilities) : Accounts!has_permission(a, f)
  BY <1>2, <1>6, CachesKeep
<1>7. CASE \E t \in {"user", "group"} : Accounts!Select(t) \/ Accounts!add_user(t) \/ Accounts!edit_user(t)
  BY <1>2, <1>7, ListsKeep
<1>8. CASE Accounts!Type \/ Accounts!Check \/ Accounts!Cancel
  BY <1>2, <1>8, EditsKeep
<1> QED  BY <1>1, <1>3, <1>4, <1>5, <1>6, <1>7, <1>8 DEF Accounts!Next

LEMMA AccountsType ==
  ASSUME AccountsInv
  PROVE  Accounts!TypeOK
<1>1. \A i \in DOMAIN users : i \in Nat /\ i < Accounts!After(DOMAIN users)
  BY AfterIsFresh DEF AccountsInv, IsOperators
<1>2. Accounts!After(DOMAIN users) \in Nat \ {0}
  BY AfterIsFresh DEF AccountsInv, IsOperators
<1>3. me \in {-1, 0} \cup DOMAIN users
  BY DEF AccountsInv
<1>4. me \in -1 .. Accounts!After(DOMAIN users)
  BY <1>1, <1>2, <1>3
<1> QED  BY <1>4, RolesAreRoles DEF AccountsInv, FormInv, Accounts!TypeOK

(* users_dialog.cpp: when the dialog of an account closes on OK, for any   *)
(* roles, operators and names, whatever other clients rename or drop while *)
(* it is open, the server and the table of the operators are as the form   *)
(* showed: the right to log in, each group of the list, the operator and   *)
(* its name, and the right to connect, which without the box the account   *)
(* keeps only as a superuser, from PUBLIC or from one of its groups; unless *)
(* another account or another operator took one of its names meanwhile     *)
(* (heir).  The roles and operators at the start are any that the server   *)
(* can hold.                                                               *)
THEOREM AccountsAsShown ==
  ASSUME IsRoles(FirstRoles), IsOperators(FirstUsers), "" \notin Logins,
         MaxEdits \in Nat, MaxOthers \in Nat
  PROVE  Spec => [](AccountAsEdited /\ (part = "users" => Accounts!TypeOK))
<1> DEFINE Inv == part = "users" => AccountsInv /\ Accounts!AccountAsEdited
<1>1. Init => Inv
  <2>1. Accounts!Closed.kind = "none" /\ (Accounts!Init => accepted = Accounts!Closed)
    BY DEF Accounts!Init, Accounts!Closed
  <2>2. Accounts!Init => AccountsInv /\ Accounts!AccountAsEdited
    BY <2>1, AccountsInit DEF Accounts!AccountAsEdited
  <2> QED  BY <2>2 DEF Init
<1>2. Inv /\ [Next]_vars => Inv'
  <2>1. [Next]_vars => part' = part
    BY DEF Next, vars
  <2>2. part = "users" /\ [Next]_vars => [Accounts!Next]_userVars
    BY DEF Next, vars
  <2> QED  BY <2>1, <2>2, AccountsStep
<1>3. Inv => AccountAsEdited /\ (part = "users" => Accounts!TypeOK)
  BY AccountsType DEF AccountAsEdited
<1> QED  BY <1>1, <1>2, <1>3, PTL DEF Spec
================================================================================
