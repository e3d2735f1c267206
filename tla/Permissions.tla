---------------------------- MODULE Permissions ----------------------------
(***************************************************************************)
(* What a user may see and do: the permission lists of a login, of the     *)
(* profile and of one module (internal/service/auth.go 192-222,            *)
(* internal/service/user.go 35-60, internal/dal/permission.go), as the     *)
(* tables change under the request.                                        *)
(*                                                                         *)
(* A request reads its user's roles and then runs a query or two over      *)
(* them, outside any transaction.  The tables have no writer in this       *)
(* repository: rows come and go by hand and by migrations.  The join takes *)
(* the rows of sys_role_permission as they are: one that is deleted softly *)
(* counts like a live one, so that a pair of a role and a permission may   *)
(* hold both effects, and deleting softly is no step.                      *)
(***************************************************************************)
EXTENDS Integers, Sequences

CONSTANTS Roles, Perms,
          MenuPerms, RoutePerms, ModulePerms     \* the codes that each query is about

ASSUME PermissionsAssumption ==
    MenuPerms \subseteq Perms /\ RoutePerms \subseteq Perms /\ ModulePerms \subseteq Perms

VARIABLES
    roleOf,     \* the roles of the user
    effects,    \* the effects of the rows of a role and a permission
    view,       \* the request: its roles, the queries to come, what they gave
    (* history, for the properties *)
    moved       \* codes of which a row came or went since the roles were read

permissionsVars == <<roleOf, effects, view, moved>>

Effects == {"allow", "deny"}

Lists == {"menu", "route", "module"}

\* WHERE resource_type = ... or module = ...
Selected(list) ==
    CASE list = "menu" -> MenuPerms
      [] list = "route" -> RoutePerms
      [] list = "module" -> ModulePerms

\* Who has which role, and what the rows say of each pair.
Memberships == SUBSET Roles

Grants == [Roles -> [Perms -> SUBSET Effects]]

NoView == [roles |-> {}, todo |-> <<>>, got |-> <<>>]

PermissionsInit ==
    /\ roleOf \in Memberships
    /\ effects \in Grants
    /\ view = NoView
    /\ moved = {}

-----------------------------------------------------------------------------
(* The queries *)

\* The rows of the join, as pairs of a code and an effect.
Rows(roles, list) ==
    {row \in Selected(list) \X Effects : \E r \in roles : row[2] \in effects[r][row[1]]}

CodesWith(rows, effect) == {row[1] : row \in {x \in rows : x[2] = effect}}

\* (Mutation: the last row of a code decides, and an allow may be the last.)
ResolveAllowed(rows) == CodesWith(rows, "allow")

\* resolvePermissions
ResolvePermissions(rows) == CodesWith(rows, "allow") \ CodesWith(rows, "deny")

\* FindCodesByRoleIDsAndResourceType and FindCodesByRoleIDsAndModule
FindCodes(roles, list) ==
    IF roles = {} THEN {} ELSE ResolvePermissions(Rows(roles, list))

-----------------------------------------------------------------------------
(* Actions *)

\* FindByEmailWithRoles or FindByIDWithRoles, and the lists that will be asked.
ReadRoles(lists) ==
    /\ view.todo = <<>>
    /\ view' = [roles |-> roleOf, todo |-> lists, got |-> <<>>]
    /\ moved' = {}
    /\ UNCHANGED <<roleOf, effects>>

\* Login, once it has let the user in, and GetPermissionsForRoles
ViewLogin == ReadRoles(<<"menu", "route">>)

\* GetProfile
ViewUser == ReadRoles(<<"menu", "route">>)

\* GetPermissions of a module
ViewModule == ReadRoles(<<"module">>)

\* One query; an error ends the request with InternalError.
Query ==
    /\ view.todo # <<>>
    /\ LET list == Head(view.todo) IN
        \/ view' = [view EXCEPT !.todo = Tail(@),
                                !.got = Append(@, [list |-> list, codes |-> FindCodes(view.roles, list)])]
           /\ UNCHANGED moved
        \/ view' = NoView /\ moved' = {}
    /\ UNCHANGED <<roleOf, effects>>

\* An operator gives the user a role or takes it back.
ChangeRoles(r) ==
    /\ roleOf' \in {roleOf \cup {r}, roleOf \ {r}} \ {roleOf}
    /\ UNCHANGED <<effects, view, moved>>

\* An operator writes or erases a row.
ChangeGrant(r, c) ==
    /\ \E e \in Effects :
        effects' = [effects EXCEPT ![r][c] = IF e \in @ THEN @ \ {e} ELSE @ \cup {e}]
    /\ moved' = moved \cup {c}
    /\ UNCHANGED <<roleOf, view>>

PermissionsNext ==
    \/ ViewLogin \/ ViewUser \/ ViewModule \/ Query
    \/ \E r \in Roles : ChangeRoles(r) \/ \E c \in Perms : ChangeGrant(r, c)

PermissionsSpec == PermissionsInit /\ [][PermissionsNext]_permissionsVars

-----------------------------------------------------------------------------
(* Properties *)

PermissionsTypeOK ==
    /\ roleOf \in Memberships /\ effects \in Grants
    /\ view \in [roles : SUBSET Roles, todo : Seq(Lists),
                got : Seq([list : Lists, codes : SUBSET Perms])]
    /\ moved \in SUBSET Perms

\* Whatever else changes while the lists are being read, of a code that nobody
\* touches an answer says what is so: it is listed exactly when some of the
\* roles read allows it and none denies it, a denial of one role weighing more
\* than the allowances of the others (dal/permission.go 26-65).
PermissionsTrue ==
    \A i \in DOMAIN view.got : \A c \in Selected(view.got[i].list) \ moved :
        c \in view.got[i].codes <=>
            /\ \E r \in view.roles : "allow" \in effects[r][c]
            /\ \A r \in view.roles : "deny" \notin effects[r][c]

=============================================================================
