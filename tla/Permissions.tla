----------------------------- MODULE Permissions -----------------------------
(***************************************************************************)
(* Roles, overrides and the cached permission codes of an organization's   *)
(* users.  What a user may do is read from Redis, and from the database on *)
(* a miss; each change is committed first and clears the entries it        *)
(* affects afterwards, which may fail without notice.                      *)
(***************************************************************************)
EXTENDS Integers

CONSTANTS
  Users, Roles, NoRole, NoUser,
  PermissionCodes,
  org_role_manage,  \* ORG_ROLE_NON_DELEGABLE
  PERMISSION_CACHE_SECONDS,
  Requests,
  MaxNow            \* bound

PermissionsAssumption ==
  /\ NoRole \notin Roles /\ NoUser \notin Users /\ org_role_manage \in PermissionCodes
  /\ PERMISSION_CACHE_SECONDS \in Nat \ {0} /\ MaxNow \in Nat

VARIABLES
  now,
  role_permissions,  \* role_permissions: codes of each role that was created
  is_deleted,        \* roles that are deactivated
  role_of,           \* user_roles, of each user that was created
  overrides,         \* user_permission_overrides: codes allowed and denied
  permcache,         \* Redis
  requests,          \* what each request does next
  lost               \* history: an entry was to be cleared and was not

vars == <<now, role_permissions, is_deleted, role_of, overrides, permcache, requests, lost>>
database == <<role_permissions, is_deleted, role_of, overrides>>

NoEntry == [codes |-> {}, expires |-> 0, late |-> FALSE]

\* late: history, the codes were outdated when they were written
Entry == [codes : SUBSET PermissionCodes, expires : 0 .. MaxNow + PERMISSION_CACHE_SECONDS, late : BOOLEAN]

Idle == [next |-> "idle", user |-> NoUser, role |-> NoRole, codes |-> {}]

\* "fill": write the user's codes to the cache.  "clear": drop the entry of the
\* user, or of everybody with the role.  "deactivate": nobody had the role
Request == [next : {"idle", "fill", "clear", "deactivate"}, user : Users \cup {NoUser},
            role : Roles \cup {NoRole}, codes : SUBSET PermissionCodes]

TypeOK ==
  /\ now \in 0 .. MaxNow /\ lost \in BOOLEAN /\ is_deleted \subseteq Roles
  /\ DOMAIN role_permissions \subseteq Roles
  /\ role_permissions \in [DOMAIN role_permissions -> SUBSET PermissionCodes]
  /\ DOMAIN role_of \subseteq Users
  /\ role_of \in [DOMAIN role_of -> DOMAIN role_permissions \cup {NoRole}]
  /\ overrides \in [Users -> [allow : SUBSET PermissionCodes, deny : SUBSET PermissionCodes]]
  /\ permcache \in [Users -> Entry]
  /\ requests \in [Requests -> Request]

Init ==
  /\ now = 0 /\ lost = FALSE /\ is_deleted = {}
  /\ role_permissions = [x \in {} |-> {}]
  /\ role_of = [u \in {} |-> NoRole]
  /\ overrides = [u \in Users |-> [allow |-> {}, deny |-> {}]]
  /\ permcache = [u \in Users |-> NoEntry]
  /\ requests = [r \in Requests |-> Idle]

------------------------------------------------------------------------------
(* What a user may do                                                       *)

\* Of a deactivated role as well
_compute_user_permission_codes(u) ==
  ((UNION {role_permissions[x] : x \in {role_of[u]} \cap Roles}) \cup overrides[u].allow)
    \ overrides[u].deny

Cached(u) == permcache[u] # NoEntry

get_user_permission_codes(u) ==
  IF Cached(u) THEN permcache[u].codes ELSE _compute_user_permission_codes(u)

\* A page of the user misses the cache, reads the database
Miss(r, u) ==
  /\ requests[r] = Idle /\ u \in DOMAIN role_of /\ ~Cached(u)
  /\ requests' = [requests EXCEPT ![r] =
       [Idle EXCEPT !.next = "fill", !.user = u, !.codes = _compute_user_permission_codes(u)]]
  /\ UNCHANGED <<now, database, permcache, lost>>

\* and writes what it read
Fill(r) ==
  LET q == requests[r] IN
  /\ q.next = "fill"
  /\ permcache' = [permcache EXCEPT ![q.user] =
       [codes |-> q.codes, expires |-> now + PERMISSION_CACHE_SECONDS,
        late |-> q.codes # _compute_user_permission_codes(q.user)]]
  /\ requests' = [requests EXCEPT ![r] = Idle]
  /\ UNCHANGED <<now, database, lost>>

------------------------------------------------------------------------------
(* New roles and users                                                      *)

Live(x) == x \in DOMAIN role_permissions \ is_deleted

\* A row more
With(f, x, v) == [y \in DOMAIN f \cup {x} |-> IF y = x THEN v ELSE f[y]]

\* super_admin_role_create, organization_role_create: roles.code is UNIQUE
RoleCreate(x) ==
  /\ x \notin DOMAIN role_permissions
  /\ role_permissions' = With(role_permissions, x, {})
  /\ UNCHANGED <<now, is_deleted, role_of, overrides, permcache, requests, lost>>

\* super_admin_create_user; NoRole for a super admin
super_admin_create_user(u, x) ==
  /\ u \notin DOMAIN role_of /\ (x = NoRole \/ Live(x))
  /\ role_of' = With(role_of, u, x)
  /\ UNCHANGED <<now, role_permissions, is_deleted, overrides, permcache, requests, lost>>

------------------------------------------------------------------------------
(* Changes                                                                  *)

\* Committed; the entries are still to be cleared
Committed(r, u, role) ==
  /\ requests' = [requests EXCEPT ![r] = [Idle EXCEPT !.next = "clear", !.user = u, !.role = role]]
  /\ UNCHANGED <<now, permcache, lost>>

\* super_admin_roles_permissions
super_admin_roles_permissions(r, x, codes) ==
  /\ requests[r] = Idle /\ Live(x)
  /\ role_permissions' = [role_permissions EXCEPT ![x] = codes]
  /\ UNCHANGED <<is_deleted, role_of, overrides>>
  /\ Committed(r, NoUser, x)

\* _org_delegable_permissions
Delegable(m) == get_user_permission_codes(m) \ {org_role_manage}

\* organization_roles, by a user who may manage roles: codes the manager does not
\* hold are neither given nor taken away
organization_roles(r, m, x, codes) ==
  /\ requests[r] = Idle /\ Live(x)
  /\ org_role_manage \in get_user_permission_codes(m) /\ codes \subseteq Delegable(m)
  /\ role_permissions' = [role_permissions EXCEPT ![x] = (@ \ Delegable(m)) \cup codes]
  /\ UNCHANGED <<is_deleted, role_of, overrides>>
  /\ Committed(r, NoUser, x)

\* super_admin_user_permission_overrides
super_admin_user_permission_overrides(r, u, allow, deny) ==
  /\ requests[r] = Idle /\ u \in DOMAIN role_of /\ allow \cap deny = {}
  /\ overrides' = [overrides EXCEPT ![u] = [allow |-> allow, deny |-> deny]]
  /\ UNCHANGED <<role_permissions, is_deleted, role_of>>
  /\ Committed(r, u, NoRole)

\* super_admin_edit_user, NoRole for a new super admin
AssignRole(r, u, x) ==
  /\ requests[r] = Idle /\ u \in DOMAIN role_of /\ (x = NoRole \/ Live(x))
  /\ role_of' = [role_of EXCEPT ![u] = x]
  /\ UNCHANGED <<role_permissions, is_deleted, overrides>>
  /\ Committed(r, u, NoRole)

\* _org_assignable_roles
Assignable(m, x) ==
  Live(x) /\ org_role_manage \notin role_permissions[x] /\ role_permissions[x] \subseteq get_user_permission_codes(m)

\* organization_user_create: a new user has no entry in the cache
organization_user_create(m, u, x) == Assignable(m, x) /\ super_admin_create_user(u, x)

\* organization_user_edit, by somebody else, whose rights cover both roles
organization_user_edit(r, m, u, x) ==
  /\ m # u /\ u \in DOMAIN role_of /\ Assignable(m, x)
  /\ role_of[u] \in Roles => Assignable(m, role_of[u])
  /\ AssignRole(r, u, x)

Holders(x) == {u \in DOMAIN role_of : role_of[u] = x}

\* super_admin_role_deactivate, organization_role_deactivate: nobody has the role
CountUsers(r, x) ==
  /\ requests[r] = Idle /\ Live(x) /\ Holders(x) = {}
  /\ requests' = [requests EXCEPT ![r] = [Idle EXCEPT !.next = "deactivate", !.role = x]]
  /\ UNCHANGED <<now, database, permcache, lost>>

Deactivate(r) ==
  /\ requests[r].next = "deactivate"
  /\ is_deleted' = is_deleted \cup {requests[r].role}
  /\ UNCHANGED <<role_permissions, role_of, overrides>>
  /\ \/ Committed(r, NoUser, requests[r].role)  \* the organization's page
     \/ /\ requests' = [requests EXCEPT ![r] = Idle]
        /\ UNCHANGED <<now, permcache, lost>>

------------------------------------------------------------------------------
(* The cache                                                                *)

\* Mutant: a change of a role clears nobody.
OnlyTheUser(q) == {q.user} \cap Users

\* invalidate_user_permission_cache, or invalidate_role_permission_cache, which
\* looks up who has the role now
Cleared(q) == IF q.role = NoRole THEN {q.user} \cap Users ELSE Holders(q.role)

Clear(r) ==
  /\ requests[r].next = "clear"
  /\ permcache' = [u \in Users |-> IF u \in Cleared(requests[r]) THEN NoEntry ELSE permcache[u]]
  /\ requests' = [requests EXCEPT ![r] = Idle]
  /\ UNCHANGED <<now, database, lost>>

\* Redis does not answer, or the worker is killed
Lose(r) ==
  /\ requests[r] # Idle
  /\ requests' = [requests EXCEPT ![r] = Idle]
  /\ lost' = (lost \/ requests[r].next = "clear")
  /\ UNCHANGED <<now, database, permcache>>

Tick ==
  /\ now < MaxNow /\ now' = now + 1
  /\ permcache' = [u \in Users |-> IF permcache[u].expires <= now' THEN NoEntry ELSE permcache[u]]
  /\ UNCHANGED <<database, requests, lost>>

Next ==
  \/ \E r \in Requests : Fill(r) \/ Deactivate(r) \/ Clear(r) \/ Lose(r)
  \/ \E r \in Requests, u \in Users : Miss(r, u)
  \/ \E r \in Requests, x \in Roles : CountUsers(r, x)
  \/ \E x \in Roles : RoleCreate(x)
  \/ \E x \in Roles \cup {NoRole}, u \in Users : super_admin_create_user(u, x)
  \/ \E x \in Roles, u \in Users, m \in DOMAIN role_of : organization_user_create(m, u, x)
  \/ \E r \in Requests, x \in Roles \cup {NoRole}, u \in Users : AssignRole(r, u, x)
  \/ \E r \in Requests, x \in Roles, m \in DOMAIN role_of, u \in Users : organization_user_edit(r, m, u, x)
  \/ \E r \in Requests, x \in Roles, codes \in SUBSET PermissionCodes :
       super_admin_roles_permissions(r, x, codes)
  \/ \E r \in Requests, x \in Roles, m \in DOMAIN role_of, codes \in SUBSET PermissionCodes :
       organization_roles(r, m, x, codes)
  \/ \E r \in Requests, u \in Users, allow \in SUBSET PermissionCodes, deny \in SUBSET PermissionCodes :
       super_admin_user_permission_overrides(r, u, allow, deny)
  \/ Tick

Spec == Init /\ [][Next]_vars

\* "The cache is invalidated immediately whenever something that affects permissions
\* changes": an outdated entry is one a request is still to clear, one that a page
\* wrote with what it had read before the change, or one left when Redis was lost.
ChangesTakeEffect ==
  \A u \in Users :
    Cached(u) /\ permcache[u].codes # _compute_user_permission_codes(u) =>
      \/ lost \/ permcache[u].late
      \/ \E r \in Requests : requests[r].next = "clear" /\ u \in Cleared(requests[r])

------------------------------------------------------------------------------

\* Entries, and what is to become one, are of users that were created
Known ==
  /\ \A u \in Users : Cached(u) => u \in DOMAIN role_of
  /\ \A r \in Requests : requests[r].next = "fill" => requests[r].user \in DOMAIN role_of
  /\ \A r \in Requests : requests[r].next = "deactivate" => requests[r].role \in Roles

IInv == TypeOK /\ Known /\ ChangesTakeEffect
==============================================================================
