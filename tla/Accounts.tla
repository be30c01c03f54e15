------------------------------ MODULE Accounts ------------------------------
(***************************************************************************)
(* Users and their roles: POST /users, PATCH /users/{id}, the role         *)
(* commands of manage.py, and the API's startup, which seeds the roles,    *)
(* the bootstrap admin and the demo data.                                  *)
(*                                                                         *)
(* Every database session is a transaction of SELECTs and writes, each a   *)
(* step.  A write of a unique key waits for the transaction that writes or *)
(* replaces the same key and has not ended, as Postgres makes it; then it  *)
(* fails if the key is in the table.  A transaction's writes are seen by   *)
(* others when it commits, and are gone if it fails or is killed.  Of      *)
(* transactions that wait in a circle, Postgres ends one.                  *)
(*                                                                         *)
(* Both settings of the bootstrap admin and the demo password are given.   *)
(* Users are never deleted and always active: no code changes is_active.   *)
(* There is one API process, as compose.yml starts it.                     *)
(***************************************************************************)
EXTENDS Naturals, Sequences

CONSTANTS
    App,        \* the session of the API's startup
    Slots,      \* sessions of API requests and of manage.py
    Names,      \* display names
    AdminName,  \* ADMIN_DISPLAY_NAME
    DemoNames,  \* USERS of demo_data.py
    DemoRows,   \* the commits that fill it: locations first, items, a match
    RoleArgs    \* bound: the roles that manage.py is called with

ASSUME AccountsAssumption ==
    /\ App \notin Slots
    /\ AdminName \in Names /\ DemoNames \subseteq Names
    /\ DemoRows \in Nat \ {0}
    /\ RoleArgs \subseteq {"user", "admin"}

RoleNames == {"user", "admin"}
ROLE_NAMES == <<"user", "admin">>
Sessions == Slots \cup {App}

VARIABLES
    roles,     \* the names in table roles
    names,     \* the display names of the users, by id
    grants,    \* user_roles: which user has which role
    demo,      \* how many rows of the demo data are there
    api,       \* the API process: "down", "starting" or "up"
    sessions,  \* session -> what it does next, and what it holds
    cutShort   \* history: the API stopped while it filled in the demo data

tables == <<roles, names, grants>>
vars == <<roles, names, grants, demo, api, sessions, cutShort>>

Taken(n) == \E u \in DOMAIN names : names[u] = n

\* task    what the session is for; "regrant" is a grant of a role already held
\* at      its next statement
\* todo    the roles it has yet to look up
\* made    the roles it has inserted and not committed
\* user, name, role   the rest of what the task is about
New(task, at, todo, user, name, role) ==
    [task |-> task, at |-> at, todo |-> todo, made |-> {},
     user |-> user, name |-> name, role |-> role]
Nobody == New("none", "idle", <<>>, 0, AdminName, "user")

Session ==
    [task : {"none", "start", "seed", "register", "rename", "grant", "regrant", "revoke"},
     at : {"idle", "selectRole", "insertRole", "selectAdmin", "insertUser",
           "lockUser", "updateName", "insertGrant", "shareUser", "deleteGrant",
           "commit", "demo", "demoRows", "failed"},
     todo : {<<>>, <<"user">>, <<"admin">>, ROLE_NAMES}, made : SUBSET RoleNames,
     user : Nat, name : Names, role : RoleNames]

\* No session uses an id that was not given out.
TypeOK ==
    /\ roles \subseteq RoleNames
    /\ names \in Seq(Names)
    /\ grants \subseteq (DOMAIN names) \X RoleNames
    /\ demo \in 0 .. DemoRows
    /\ api \in {"down", "starting", "up"}
    /\ sessions \in [Sessions -> Session]
    /\ \A c \in Sessions : sessions[c].user \in DOMAIN names \cup {0}
    /\ cutShort \in BOOLEAN

\* A new database; create_all has made the tables.
Init ==
    /\ roles = {} /\ names = <<>> /\ grants = {}
    /\ demo = 0
    /\ api = "down"
    /\ sessions = [c \in Sessions |-> Nobody]
    /\ cutShort = FALSE

-----------------------------------------------------------------------------
(* Who holds what, and who waits for whom *)

HoldsName(s, n) ==
    s.task \in {"register", "rename"} /\ s.at = "commit" /\ s.name = n

\* An UPDATE locks the row, and with it the name that it replaces.
LocksUser(s, u) == s.task = "rename" /\ s.at \in {"updateName", "commit"} /\ s.user = u
Replaces(s, n) == \E u \in DOMAIN names : LocksUser(s, u) /\ names[u] = n

HoldsGrant(s, u, role) ==
    /\ \/ s.task = "grant" /\ s.at \in {"shareUser", "commit"}
       \/ s.task = "revoke" /\ s.at = "commit"
    /\ s.user = u /\ s.role = role

\* The foreign key of a new user_roles row takes a share of the user's row.
SharesUser(s, u) == s.task = "grant" /\ s.at = "commit" /\ s.user = u

WaitsFor(c, d) ==
    LET s == sessions[c]
        t == sessions[d]
    IN  /\ c # d
        /\ \/ s.at = "insertRole" /\ Head(s.todo) \in t.made
           \/ /\ s.at \in {"insertUser", "updateName"}
              /\ HoldsName(t, s.name) \/ Replaces(t, s.name)
           \/ s.at = "insertGrant" /\ HoldsGrant(t, s.user, s.role)
           \/ s.at = "deleteGrant" /\ t.task = "revoke" /\ HoldsGrant(t, s.user, s.role)
           \/ s.at = "lockUser" /\ (LocksUser(t, s.user) \/ SharesUser(t, s.user))
           \/ s.at = "shareUser" /\ LocksUser(t, s.user)

Circle(waiting) ==
    \A c \in waiting : /\ \E d \in waiting : WaitsFor(c, d)
                       /\ \E d \in waiting : WaitsFor(d, c)

\* Session c is about to do this, and need not wait.
Ready(c, at) == sessions[c].at = at /\ \A d \in Sessions : ~WaitsFor(c, d)

Go(c, s) == sessions' = [sessions EXCEPT ![c] = s]
GoTo(c, at) == Go(c, [sessions[c] EXCEPT !.at = at])

\* An IntegrityError or a StaleDataError: the transaction is rolled back.
Fail(c) == Go(c, [sessions[c] EXCEPT !.at = "failed", !.made = {}])

OnlySessions == UNCHANGED <<tables, demo, api, cutShort>>

-----------------------------------------------------------------------------
(* The statements *)

AfterRoles(s) ==
    CASE s.task = "start" -> "selectAdmin"
      [] s.task = "register" -> "insertUser"
      [] s.task = "grant" -> "insertGrant"
      [] OTHER -> "commit"

\* The role is there, or has just been inserted: on to the next one.
RoleFound(c, made) ==
    LET s == [sessions[c] EXCEPT !.todo = Tail(@), !.made = made] IN
    Go(c, [s EXCEPT !.at = IF s.todo = <<>> THEN AfterRoles(s) ELSE "selectRole"])

\* get_or_create_role: SELECT, and INSERT with a flush if there is none.
SelectRole(c) ==
    /\ sessions[c].at = "selectRole"
    /\ IF Head(sessions[c].todo) \in roles \cup sessions[c].made
       THEN RoleFound(c, sessions[c].made)
       ELSE GoTo(c, "insertRole")
    /\ OnlySessions

\* Mutant: each role is committed as soon as it is inserted.
InsertRoleCommitted(c) ==
    /\ Ready(c, "insertRole")
    /\ LET n == Head(sessions[c].todo) IN
          /\ IF n \in roles THEN Fail(c) ELSE RoleFound(c, {})
          /\ roles' = roles \cup {n}
    /\ UNCHANGED <<names, grants, demo, api, cutShort>>

InsertRole(c) ==
    /\ Ready(c, "insertRole")
    /\ LET n == Head(sessions[c].todo) IN
          IF n \in roles THEN Fail(c) ELSE RoleFound(c, sessions[c].made \cup {n})
    /\ OnlySessions

\* seed_auth: is the bootstrap admin there, and is it an admin?
SelectAdmin(c) ==
    /\ sessions[c].at = "selectAdmin"
    /\ \/ /\ ~Taken(AdminName)
          /\ Go(c, [sessions[c] EXCEPT !.task = "register", !.at = "insertUser"])
       \/ \E u \in DOMAIN names :
             /\ names[u] = AdminName
             /\ Go(c, IF <<u, "admin">> \in grants
                      THEN [sessions[c] EXCEPT !.task = "seed", !.at = "commit"]
                      ELSE [sessions[c] EXCEPT !.task = "grant", !.at = "insertGrant",
                                               !.user = u])
    /\ OnlySessions

\* The user's row; its user_roles row cannot be in anybody's way.
InsertUser(c) ==
    /\ Ready(c, "insertUser")
    /\ IF Taken(sessions[c].name) THEN Fail(c) ELSE GoTo(c, "commit")
    /\ OnlySessions

\* UPDATE users: the row is locked, then its new name goes into the index.
LockUser(c) ==
    /\ Ready(c, "lockUser")
    /\ GoTo(c, "updateName")
    /\ OnlySessions

\* Mutant: the name is looked up instead of left to the index.
UpdateNameUnchecked(c) ==
    /\ sessions[c].at = "updateName"
    /\ GoTo(c, "commit")
    /\ OnlySessions

UpdateName(c) ==
    /\ Ready(c, "updateName")
    /\ IF \E v \in DOMAIN names \ {sessions[c].user} : names[v] = sessions[c].name
       THEN Fail(c)
       ELSE GoTo(c, "commit")
    /\ OnlySessions

InsertGrant(c) ==
    /\ Ready(c, "insertGrant")
    /\ IF <<sessions[c].user, sessions[c].role>> \in grants
       THEN Fail(c)
       ELSE GoTo(c, "shareUser")
    /\ OnlySessions

ShareUser(c) ==
    /\ Ready(c, "shareUser")
    /\ GoTo(c, "commit")
    /\ OnlySessions

DeleteGrant(c) ==
    /\ Ready(c, "deleteGrant")
    /\ IF <<sessions[c].user, sessions[c].role>> \in grants
       THEN GoTo(c, "commit")
       ELSE Fail(c)
    /\ OnlySessions

\* What the task has written becomes visible, and the locks are gone.
Commit(c) ==
    /\ sessions[c].at = "commit"
    /\ LET s == sessions[c] IN
          /\ roles' = roles \cup s.made
          /\ names' = CASE s.task = "register" -> Append(names, s.name)
                        [] s.task = "rename" -> [names EXCEPT ![s.user] = s.name]
                        [] OTHER -> names
          /\ grants' = CASE s.task = "register" -> grants \cup {<<Len(names) + 1, s.role>>}
                         [] s.task = "grant" -> grants \cup {<<s.user, s.role>>}
                         [] s.task = "revoke" -> grants \ {<<s.user, s.role>>}
                         [] OTHER -> grants
          /\ Go(c, IF c = App THEN [Nobody EXCEPT !.at = "demo"] ELSE Nobody)
    /\ UNCHANGED <<demo, api, cutShort>>

\* deadlock_timeout: the transaction that finds itself in a circle is ended, and
\* its caller gets an error that nobody catches.
Deadlock(c) ==
    /\ \E waiting \in SUBSET Sessions : c \in waiting /\ Circle(waiting)
    /\ Fail(c)
    /\ OnlySessions

-----------------------------------------------------------------------------
(* Requests and commands *)

BeginTask(c, task, at, todo, user, name, role) ==
    /\ sessions[c] = Nobody
    /\ Go(c, New(task, at, todo, user, name, role))
    /\ OnlySessions

\* POST /users: create_user
Register(c, n) ==
    /\ api = "up"
    /\ BeginTask(c, "register", "selectRole", <<"user">>, 0, n, "user")

\* PATCH /users/{id}, of a name that is another one than before
Rename(c, u, n) ==
    /\ api = "up" /\ names[u] # n
    /\ BeginTask(c, "rename", "lockUser", <<>>, u, n, "user")

\* Mutant: ROLE_NAMES is a set, which each process iterates in its own order.
SeedRolesAnyOrder(c) ==
    \E todo \in {<<"user", "admin">>, <<"admin", "user">>} :
        BeginTask(c, "seed", "selectRole", todo, 0, AdminName, "user")

\* manage.py seed-roles: seed_auth without a bootstrap admin
SeedRoles(c) == BeginTask(c, "seed", "selectRole", ROLE_NAMES, 0, AdminName, "user")

\* manage.py grant-role: the user is read with its roles before the role is.
GrantRole(c, u, role) ==
    BeginTask(c, IF <<u, role>> \in grants THEN "regrant" ELSE "grant",
              "selectRole", <<role>>, u, AdminName, role)

\* manage.py revoke-role; without the role there is nothing to do.
RevokeRole(c, u, role) ==
    /\ <<u, role>> \in grants
    /\ BeginTask(c, "revoke", "deleteGrant", <<>>, u, AdminName, role)

\* The answer is sent, or the command has printed its traceback.
Exit(c) ==
    /\ c # App /\ sessions[c].at = "failed"
    /\ Go(c, Nobody)
    /\ OnlySessions

\* A command is interrupted.
Kill(c) ==
    /\ sessions[c].task \in {"seed", "grant", "regrant", "revoke"}
    /\ Go(c, Nobody)
    /\ OnlySessions

-----------------------------------------------------------------------------
(* The API process *)

\* Mutant: requests are served while the seeding is going on.
StartAndServe ==
    /\ api = "down"
    /\ api' = "up"
    /\ Go(App, New("start", "selectRole", ROLE_NAMES, 0, AdminName, "admin"))
    /\ UNCHANGED <<tables, demo, cutShort>>

\* lifespan: nothing is served until it is through.
StartApi ==
    /\ api = "down"
    /\ api' = "starting"
    /\ Go(App, New("start", "selectRole", ROLE_NAMES, 0, AdminName, "admin"))
    /\ UNCHANGED <<tables, demo, cutShort>>

\* Requests end with the process that serves them.
Down ==
    /\ api' = "down"
    /\ sessions' = [c \in Sessions |->
                       IF c = App \/ sessions[c].task \in {"register", "rename"}
                       THEN Nobody
                       ELSE sessions[c]]
    /\ cutShort' = (cutShort \/ demo \in 1 .. DemoRows - 1)
    /\ UNCHANGED <<tables, demo>>

StopApi == api # "down" /\ Down

\* An error that nobody catches in lifespan ends the process.
StartFails == sessions[App].at = "failed" /\ Down

Serve ==
    /\ api' = "up"
    /\ Go(App, Nobody)

\* Mutant: the demo data is left alone as soon as there is a user for it.
DemoSkippedByUser ==
    /\ sessions[App].at = "demo"
    /\ \E n \in DemoNames : Taken(n)
    /\ Serve
    /\ UNCHANGED <<tables, demo, cutShort>>

\* demo_data.seed: one location, and the database is not new.  (The code looks
\* before it adds the users; nobody else adds locations until the API serves.)
DemoSkipped ==
    /\ sessions[App].at = "demo"
    /\ demo > 0
    /\ Serve
    /\ UNCHANGED <<tables, demo, cutShort>>

\* create_user for a name that is not there yet
DemoUser(n) ==
    /\ sessions[App].at = "demo"
    /\ demo = 0
    /\ ~Taken(n)
    /\ Go(App, New("register", "selectRole", <<"user">>, 0, n, "user"))
    /\ OnlySessions

DemoUsersDone ==
    /\ sessions[App].at = "demo"
    /\ demo = 0
    /\ \A n \in DemoNames : Taken(n)
    /\ GoTo(App, "demoRows")
    /\ OnlySessions

\* Mutant: one row too many.
DemoRowLate ==
    /\ sessions[App].at = "demoRows"
    /\ demo' = demo + 1
    /\ IF demo = DemoRows THEN Serve ELSE UNCHANGED <<api, sessions>>
    /\ UNCHANGED <<tables, cutShort>>

\* create_location, create_item and create_match each commit.
DemoRow ==
    /\ sessions[App].at = "demoRows"
    /\ demo' = demo + 1
    /\ IF demo' = DemoRows THEN Serve ELSE UNCHANGED <<api, sessions>>
    /\ UNCHANGED <<tables, cutShort>>

-----------------------------------------------------------------------------
Begin(c) ==
    \/ \E n \in Names : Register(c, n)
    \/ \E u \in DOMAIN names :
          \/ \E n \in Names : Rename(c, u, n)
          \/ \E role \in RoleArgs : GrantRole(c, u, role) \/ RevokeRole(c, u, role)
    \/ SeedRoles(c)

Continue(c) ==
    \/ SelectRole(c) \/ InsertRole(c) \/ SelectAdmin(c) \/ InsertUser(c)
    \/ LockUser(c) \/ UpdateName(c)
    \/ InsertGrant(c) \/ ShareUser(c) \/ DeleteGrant(c)
    \/ Commit(c) \/ Deadlock(c) \/ Exit(c)

Startup ==
    \/ StartFails \/ DemoSkipped
    \/ \E n \in DemoNames : DemoUser(n)
    \/ DemoUsersDone \/ DemoRow

Next ==
    \/ \E c \in Sessions : Continue(c)
    \/ \E c \in Slots : Begin(c) \/ Kill(c)
    \/ Startup
    \/ StartApi \/ StopApi

Spec == Init /\ [][Next]_vars

-----------------------------------------------------------------------------
\* Transactions that wait for each other in a circle are edits that swap names:
\* the app's startup, registrations and role commands take their keys in an
\* order that excludes it, although no code says so.
CirclesAreSwaps ==
    \A waiting \in SUBSET Sessions :
        Circle(waiting) => \A c \in waiting : sessions[c].at = "updateName"

Fails(c) == sessions[c].at # "failed" /\ sessions'[c].at = "failed"

\* routers/users.py takes every IntegrityError for a name that is taken.  It is
\* one: of no registration and no edit is it a role that was inserted twice.
NameTakenIsTrue ==
    [][\A c \in Slots :
          Fails(c) /\ sessions[c].task \in {"register", "rename"}
            => Taken(sessions[c].name)]_vars

\* manage.py: "Running one twice is fine".  A command that loses a race and ends
\* in a traceback finds its work done by the one that won; so does the startup.
FailedCommandsAreDone ==
    [][\A c \in Sessions :
          Fails(c) =>
             LET s == sessions[c] IN
             CASE s.task \in {"grant", "regrant"} -> <<s.user, s.role>> \in grants
               [] s.task = "revoke" -> <<s.user, s.role>> \notin grants
               [] s.task \in {"seed", "start"} -> roles = RoleNames
               [] OTHER -> Taken(s.name)]_vars

\* README.md: "a brand-new database is filled with demo data".  An API that
\* serves has the whole of it, unless one stopped between two of its commits.  (Of
\* two API processes that start together, one may serve while the other fills it.)
DemoIsWholeOrCutShort == api = "up" => demo = DemoRows \/ cutShort

\* What others see of users and roles are the atomic steps of Directory.
D == INSTANCE Directory
ImplementsDirectory == D!Spec

=============================================================================
