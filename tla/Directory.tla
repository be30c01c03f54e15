------------------------------ MODULE Directory ------------------------------
(***************************************************************************)
(* What crud.py and manage.py promise of accounts and roles: registration, *)
(* renaming, seeding and the role commands, each as one atomic step that   *)
(* either takes effect or does nothing.  Accounts.tla has the statements   *)
(* and the locks they really consist of.                                   *)
(***************************************************************************)
EXTENDS Naturals, Sequences

CONSTANTS
    Names,     \* display names
    AdminName  \* ADMIN_DISPLAY_NAME

RoleNames == {"user", "admin"}

VARIABLES
    roles,  \* the names in table roles
    names,  \* the display names of the users, by id
    grants  \* user_roles: which user has which role

vars == <<roles, names, grants>>

Taken(n) == \E u \in DOMAIN names : names[u] = n

Init == roles = {} /\ names = <<>> /\ grants = {}

\* A new user, with one role.
AddUser(n, role) ==
    /\ ~Taken(n)
    /\ names' = Append(names, n)
    /\ grants' = grants \cup {<<Len(names) + 1, role>>}

\* seed_auth: both roles, and the bootstrap admin if its settings are given.
Seed ==
    /\ roles' = RoleNames
    /\ \/ UNCHANGED <<names, grants>>
       \/ AddUser(AdminName, "admin")
       \/ \E u \in DOMAIN names :
             /\ names[u] = AdminName
             /\ grants' = grants \cup {<<u, "admin">>}
             /\ UNCHANGED names

\* A registered user has the plain role, whatever is going on beside it.
Register(n) ==
    /\ roles = RoleNames
    /\ AddUser(n, "user")
    /\ UNCHANGED roles

Rename(u, n) ==
    /\ ~Taken(n)
    /\ names' = [names EXCEPT ![u] = n]
    /\ UNCHANGED <<roles, grants>>

Grant(u, role) ==
    /\ role \in roles
    /\ <<u, role>> \notin grants
    /\ grants' = grants \cup {<<u, role>>}
    /\ UNCHANGED <<roles, names>>

Revoke(u, role) ==
    /\ <<u, role>> \in grants
    /\ grants' = grants \ {<<u, role>>}
    /\ UNCHANGED <<roles, names>>

Next ==
    \/ Seed
    \/ \E n \in Names : Register(n)
    \/ \E u \in DOMAIN names :
          \/ \E n \in Names : Rename(u, n)
          \/ \E role \in RoleNames : Grant(u, role) \/ Revoke(u, role)

Spec == Init /\ [][Next]_vars

=============================================================================
