--------------------------- MODULE AccountsProofs ---------------------------
(***************************************************************************)
(* Theorems about Accounts, for any number of requests, commands, names    *)
(* and demo rows.                                                          *)
(*                                                                         *)
(* The invariant says of each session what it relies on: the roles it has  *)
(* looked up exist or will when it commits, the keys it holds are not in   *)
(* the tables, and no other session holds them.                            *)
(***************************************************************************)
EXTENDS Accounts, SequenceTheorems, TLAPS

\* Where a session may be with which task, and when its process is running.
Shape(c, s) ==
    /\ s.at = "idle" => s = Nobody
    /\ s.at \in {"demo", "demoRows"} => c = App /\ s.task = "none"
    /\ s.task = "none" => s.at \in {"idle", "demo", "demoRows"}
    /\ s.at \in {"selectRole", "insertRole"} => s.todo # <<>>
    /\ s.at = "selectRole" => s.task \in {"start", "seed", "register", "grant", "regrant"}
    /\ s.at = "insertRole" => s.task \in {"start", "seed"}
    /\ s.at = "selectAdmin" => s.task = "start" /\ s.todo = <<>>
    /\ s.at = "insertUser" => s.task = "register"
    /\ s.at \in {"lockUser", "updateName"} => s.task = "rename"
    /\ s.at \in {"insertGrant", "shareUser"} => s.task = "grant"
    /\ s.at = "deleteGrant" => s.task = "revoke"
    /\ s.at = "commit" => s.task \notin {"none", "start"}
    /\ s.at = "commit" /\ s.task = "seed" => s.todo = <<>>
    /\ s.task \in {"rename", "grant", "regrant", "revoke"} => s.user \in DOMAIN names
    /\ s.task = "start" => c = App /\ s.name = AdminName /\ s.role = "admin"
    /\ c = App => /\ s.task \in {"none", "start", "seed", "register", "grant"}
                  /\ s.at = "idle" <=> api # "starting"
    /\ c # App /\ s.task \in {"register", "rename"} => api = "up"
    /\ c # App /\ s.task = "register" => s.role = "user"

\* What a session knows of the roles: the ones it has looked up are there, or
\* will be when it commits.
Seeding(s) ==
    \/ s.todo = ROLE_NAMES /\ s.made = {}
    \/ s.todo = <<"admin">> /\ "user" \in roles \cup s.made /\ "admin" \notin s.made
    \/ s.todo = <<>> /\ RoleNames \subseteq roles \cup s.made
KnowsRoles(c, s) ==
    /\ s.made \cap roles = {}
    /\ s.at \in {"idle", "failed", "demo", "demoRows"} => s.made = {}
    /\ s.at # "failed" /\ s.task \in {"start", "seed"} => Seeding(s)
    /\ s.at \in {"demo", "demoRows"} => roles = RoleNames
    /\ c = App /\ s.at # "failed" /\ s.task \in {"register", "grant"} =>
          \/ /\ s.task = "register" /\ s.role = "user"
             /\ roles = RoleNames
          \/ /\ s.at # "selectRole"
             /\ s.name = AdminName /\ s.role = "admin"
             /\ RoleNames \subseteq roles \cup s.made
             /\ s.task = "grant" => names[s.user] = AdminName

\* What a session holds and is about to commit fits the tables.
Fits(s) ==
    /\ s.task = "register" /\ s.at = "commit" => ~Taken(s.name)
    /\ s.task = "rename" /\ s.at = "commit" =>
          \A v \in DOMAIN names \ {s.user} : names[v] # s.name
    /\ s.task = "grant" /\ s.at \in {"shareUser", "commit"} =>
          <<s.user, s.role>> \notin grants
    /\ s.task = "revoke" /\ s.at = "commit" => <<s.user, s.role>> \in grants

Sound(c, s) ==
    /\ s \in Session
    /\ s.user \in DOMAIN names \cup {0}
    /\ Shape(c, s) /\ KnowsRoles(c, s) /\ Fits(s)

\* Two sessions hold the same key.
Clash(s, t) ==
    \/ s.made \cap t.made # {}
    \/ \E n \in Names : HoldsName(s, n) /\ HoldsName(t, n)
    \/ \E u \in Nat, role \in RoleNames : HoldsGrant(s, u, role) /\ HoldsGrant(t, u, role)
    \/ \E u \in Nat : LocksUser(s, u) /\ LocksUser(t, u)

Tables ==
    /\ roles \in {{}, RoleNames}
    /\ names \in Seq(Names)
    /\ grants \subseteq (DOMAIN names) \X RoleNames
    /\ api \in {"down", "starting", "up"}
    /\ names # <<>> \/ api = "up" => roles = RoleNames
    /\ \A u, v \in DOMAIN names : names[u] = names[v] => u = v

Demo ==
    /\ demo \in 0 .. DemoRows
    /\ cutShort \in BOOLEAN
    /\ demo \in 1 .. DemoRows - 1 => cutShort \/ sessions[App].at = "demoRows"
    /\ sessions[App].at = "demoRows" => demo < DemoRows
    /\ DemoIsWholeOrCutShort

AccountsInv ==
    /\ Tables /\ Demo
    /\ sessions \in [Sessions -> Session]
    /\ \A c \in Sessions : Sound(c, sessions[c])
    /\ \A c, d \in Sessions : c # d => ~Clash(sessions[c], sessions[d])

-----------------------------------------------------------------------------
(* Lemmas about the definitions *)

Todos == {<<>>, <<"user">>, <<"admin">>, ROLE_NAMES}

\* The roles still to be looked up: first and rest.
LEMMA TodoFacts ==
    ASSUME NEW todo \in Todos, todo # <<>>
    PROVE  /\ Head(todo) \in RoleNames /\ Tail(todo) \in Todos
           /\ todo = ROLE_NAMES => Head(todo) = "user" /\ Tail(todo) = <<"admin">>
           /\ todo = <<"admin">> => Head(todo) = "admin" /\ Tail(todo) = <<>>
           /\ todo = <<"user">> => Head(todo) = "user" /\ Tail(todo) = <<>>
  <1>1. CASE todo = ROLE_NAMES
    <2>1. /\ Len(todo) = 2 /\ Head(todo) = "user"
          /\ Tail(todo) = <<"admin">>
      BY <1>1 DEF ROLE_NAMES
    <2>2. Len(<<"admin">>) = 1 /\ Len(<<"user">>) = 1
      OBVIOUS
    <2>3. QED
      BY <1>1, <2>1, <2>2 DEF Todos, RoleNames
  <1>2. ASSUME NEW role \in RoleNames, todo = <<role>>
        PROVE  Head(todo) = role /\ Tail(todo) = <<>> /\ Len(todo) = 1 /\ todo[1] = role
    BY <1>2
  <1>3. Len(ROLE_NAMES) = 2
    BY DEF ROLE_NAMES
  <1>4. CASE todo = <<"user">>
    BY <1>2, <1>3, <1>4 DEF Todos, RoleNames
  <1>5. CASE todo = <<"admin">>
    BY <1>2, <1>3, <1>5 DEF Todos, RoleNames
  <1>6. QED
    BY <1>1, <1>4, <1>5 DEF Todos

LEMMA NobodyIsASession == AccountsAssumption => Nobody \in Session
  BY DEF AccountsAssumption, Nobody, New, Session, RoleNames

\* A session that has just begun or ended holds nothing.
LEMMA NobodyHolds == \A s : ~Clash(Nobody, s)
  BY DEF Nobody, New, Clash, HoldsName, HoldsGrant, LocksUser

LEMMA ClashIsSymmetric == \A s, t : Clash(s, t) <=> Clash(t, s)
  BY DEF Clash

\* A session that goes on without a further key gets in nobody's way.
LEMMA NoNewKeys ==
    ASSUME AccountsInv, NEW c \in Sessions, NEW t,
           t.made \subseteq sessions[c].made,
           t.at \notin {"updateName", "shareUser", "commit"} \/ t.task \in {"seed", "regrant"}
    PROVE  \A d \in Sessions \ {c} : ~Clash(t, sessions[d])
  <1>1. ASSUME NEW d \in Sessions \ {c} PROVE ~Clash(t, sessions[d])
    <2>1. ~Clash(sessions[c], sessions[d])
      BY DEF AccountsInv
    <2>2. QED
      BY <2>1 DEF Clash, HoldsName, HoldsGrant, LocksUser
  <1>2. QED
    BY <1>1

\* One session moves and the tables stay.
LEMMA Move ==
    ASSUME AccountsAssumption, AccountsInv, NEW c \in Sessions, NEW t,
           OnlySessions, Go(c, t), Sound(c, t),
           c = App => /\ sessions[App].at # "demoRows"
                      /\ t.at = "demoRows" => demo = 0,
           \A d \in Sessions \ {c} : ~Clash(t, sessions[d])
    PROVE  AccountsInv'
  <1> DEFINE s(d) == sessions'[d]
  <1>1. /\ sessions' \in [Sessions -> Session]
        /\ s(c) = t
        /\ \A d \in Sessions \ {c} : s(d) = sessions[d]
    BY DEF AccountsInv, Go, Sound
  <1>2. UNCHANGED <<roles, names, grants, demo, api, cutShort>>
    BY DEF OnlySessions, tables
  <1>3. Tables'
    BY <1>2 DEF AccountsInv, Tables
  <1>4. App \in Sessions
    BY DEF Sessions
  <1>5. Demo'
    BY <1>1, <1>2, <1>4 DEF AccountsInv, Demo, DemoIsWholeOrCutShort
  <1>6. ASSUME NEW d \in Sessions PROVE Sound(d, sessions[d])'
    <2>1. Sound(d, s(d))
      BY <1>1, <1>6 DEF AccountsInv
    <2>2. QED
      BY <2>1, <1>2 DEF Sound, Shape, KnowsRoles, Seeding, Fits, Taken
  <1>7. ASSUME NEW d \in Sessions, NEW e \in Sessions, d # e
        PROVE  ~Clash(s(d), s(e))
    BY <1>1, <1>7, ClashIsSymmetric DEF AccountsInv
  <1>8. (\A d, e \in Sessions : d # e => ~Clash(sessions[d], sessions[e]))'
    BY <1>7, <1>2 DEF Clash, HoldsName, HoldsGrant, LocksUser
  <1>9. QED
    BY <1>1, <1>3, <1>5, <1>6, <1>8 DEF AccountsInv

\* What the invariant says of the session that moves.
LEMMA Current ==
    ASSUME AccountsInv, NEW c \in Sessions
    PROVE  /\ Sound(c, sessions[c])
           /\ sessions[c] \in Session
           /\ \A d \in Sessions \ {c} : ~Clash(sessions[c], sessions[d])
  BY DEF AccountsInv, Sound

\* A session that knows of a user, or serves a request, knows of the roles.
LEMMA RolesAreThere ==
    ASSUME AccountsInv, NEW c \in Sessions,
           \/ sessions[c].task \in {"rename", "grant", "regrant", "revoke"}
           \/ c # App /\ sessions[c].task = "register"
    PROVE  roles = RoleNames
  <1>1. Sound(c, sessions[c]) /\ Tables
    BY DEF AccountsInv
  <1>2. names # <<>> \/ api = "up"
    BY <1>1 DEF Sound, Shape, Tables
  <1>3. QED
    BY <1>1, <1>2 DEF Tables

-----------------------------------------------------------------------------
(* The statements preserve the invariant *)

LEMMA FailKeepsInv ==
    ASSUME AccountsAssumption, AccountsInv, NEW c \in Sessions,
           sessions[c].at \notin {"idle", "demo", "demoRows"}, Fail(c), OnlySessions
    PROVE  AccountsInv'
  <1> DEFINE s == sessions[c]
             t == [s EXCEPT !.at = "failed", !.made = {}]
  <1>1. Sound(c, s) /\ s \in Session
    BY Current
  <1>2. t \in Session /\ t.at = "failed" /\ t.made = {} /\ t.task = s.task
        /\ t.user = s.user /\ t.name = s.name /\ t.role = s.role /\ t.todo = s.todo
    BY <1>1 DEF Session
  <1>3. Sound(c, t)
    BY <1>1, <1>2 DEF Sound, Shape, KnowsRoles, Fits
  <1>4. \A d \in Sessions \ {c} : ~Clash(t, sessions[d])
    BY <1>2, NoNewKeys
  <1>5. Go(c, t)
    BY DEF Fail
  <1>6. QED
    BY <1>2, <1>3, <1>4, <1>5, Move

LEMMA SelectRoleKeepsInv ==
    ASSUME AccountsAssumption, AccountsInv, NEW c \in Sessions, SelectRole(c)
    PROVE  AccountsInv'
  <1> DEFINE s == sessions[c]
             rest == Tail(s.todo)
             n == Head(s.todo)
             next == [s EXCEPT !.todo = rest, !.made = s.made]
             found == [next EXCEPT !.at = IF next.todo = <<>> THEN AfterRoles(next)
                                          ELSE "selectRole"]
             missing == [s EXCEPT !.at = "insertRole"]
  <1>1. Sound(c, s) /\ s \in Session /\ s.at = "selectRole" /\ s.todo # <<>> /\ OnlySessions
    BY Current DEF SelectRole, Sound, Shape
  <1>2. s.todo \in Todos
    BY <1>1 DEF Session, Todos
  <1>3. CASE n \in roles \cup s.made
    <2>1. Go(c, found)
      BY <1>3 DEF SelectRole, RoleFound
    <2>2. /\ found.task = s.task /\ found.todo = rest /\ found.made = s.made
          /\ found.user = s.user /\ found.name = s.name /\ found.role = s.role
          /\ found.at = IF rest = <<>> THEN AfterRoles(next) ELSE "selectRole"
          /\ next.task = s.task
      BY <1>1 DEF Session
    <2>3. AfterRoles(next) = CASE s.task = "start" -> "selectAdmin"
                               [] s.task = "register" -> "insertUser"
                               [] s.task = "grant" -> "insertGrant"
                               [] OTHER -> "commit"
      BY <2>2 DEF AfterRoles
    <2>4. s.task \in {"start", "seed", "register", "grant", "regrant"}
      BY <1>1 DEF Sound, Shape
    <2>5. found \in Session
      BY <1>1, <1>2, <2>2, <2>3, TodoFacts, ZenonT(60) DEF Session, Todos
    <2>6. Shape(c, found)
      BY <1>1, <2>2, <2>3, <2>4 DEF Sound, Shape
    <2>7. s.task \in {"start", "seed"} => Seeding(found)
      BY <1>1, <1>2, <1>3, <2>2, TodoFacts, ZenonT(60) DEF Sound, KnowsRoles, Seeding, Todos, RoleNames
    <2>8. KnowsRoles(c, found)
      BY <1>1, <2>2, <2>3, <2>4, <2>7 DEF Sound, Shape, KnowsRoles
    <2>9. Fits(found)
      BY <1>1, <2>2, <2>3, <2>4 DEF Sound, Fits
    <2>10. Sound(c, found)
      BY <1>1, <2>2, <2>5, <2>6, <2>8, <2>9 DEF Sound
    <2>11. \A d \in Sessions \ {c} : ~Clash(found, sessions[d])
      <3>1. /\ found.made \subseteq s.made
            /\ \/ found.at \notin {"updateName", "shareUser", "commit"}
               \/ found.task \in {"seed", "regrant"}
        BY <2>2, <2>3, <2>4
      <3> HIDE DEF found
      <3>2. QED
        BY <3>1, NoNewKeys
    <2>12. QED
      BY <1>1, <2>1, <2>2, <2>3, <2>4, <2>10, <2>11, Move, ZenonT(60)
  <1>4. CASE n \notin roles \cup s.made
    <2>1. Go(c, missing)
      BY <1>4 DEF SelectRole, GoTo
    <2>2. /\ missing.task = s.task /\ missing.todo = s.todo /\ missing.made = s.made
          /\ missing.user = s.user /\ missing.name = s.name /\ missing.role = s.role
          /\ missing.at = "insertRole" /\ missing \in Session
      BY <1>1 DEF Session
    <2>3. s.task \in {"start", "seed"}
      <3>1. n \in RoleNames
        BY <1>1, <1>2, TodoFacts
      <3>2. roles # RoleNames
        BY <3>1, <1>4
      <3>3. s.task \notin {"grant", "regrant"} /\ (c # App => s.task # "register")
        BY <3>2, RolesAreThere
      <3>4. ~(c = App /\ s.task = "register")
        BY <3>2, <1>1 DEF Sound, KnowsRoles
      <3>5. QED
        BY <3>3, <3>4, <1>1 DEF Sound, Shape
    <2>4. Sound(c, missing)
      BY <1>1, <2>2, <2>3 DEF Sound, Shape, KnowsRoles, Seeding, Fits
    <2>5. \A d \in Sessions \ {c} : ~Clash(missing, sessions[d])
      BY <2>2, NoNewKeys
    <2>6. QED
      BY <1>1, <2>1, <2>2, <2>4, <2>5, Move
  <1>5. QED
    BY <1>3, <1>4

LEMMA InsertRoleKeepsInv ==
    ASSUME AccountsAssumption, AccountsInv, NEW c \in Sessions, InsertRole(c)
    PROVE  AccountsInv'
  <1> DEFINE s == sessions[c]
             rest == Tail(s.todo)
             n == Head(s.todo)
             next == [s EXCEPT !.todo = rest, !.made = s.made \cup {n}]
             t == [next EXCEPT !.at = IF next.todo = <<>> THEN AfterRoles(next)
                                      ELSE "selectRole"]
  <1>1. Sound(c, s) /\ s \in Session /\ s.at = "insertRole" /\ s.todo # <<>> /\ OnlySessions
        /\ s.task \in {"start", "seed"}
    BY Current DEF InsertRole, Ready, Sound, Shape
  <1>2. s.todo \in Todos /\ Seeding(s)
    BY <1>1 DEF Session, Todos, Sound, KnowsRoles
  <1>3. CASE n \in roles
    BY <1>1, <1>3, FailKeepsInv DEF InsertRole
  <1>4. CASE n \notin roles
    <2>1. Go(c, t)
      BY <1>4 DEF InsertRole, RoleFound
    <2>2. /\ t.task = s.task /\ t.todo = rest /\ t.made = s.made \cup {n}
          /\ t.user = s.user /\ t.name = s.name /\ t.role = s.role
          /\ t.at = IF rest = <<>> THEN AfterRoles(next) ELSE "selectRole"
          /\ next.task = s.task
      BY <1>1 DEF Session
    <2>3. AfterRoles(next) = IF s.task = "start" THEN "selectAdmin" ELSE "commit"
      BY <1>1, <2>2, SMTT(60) DEF AfterRoles
    <2>4. t \in Session
      <3>1. rest \in Todos /\ n \in RoleNames
        BY <1>1, <1>2, TodoFacts
      <3>2. QED
        BY <1>1, <2>2, <2>3, <3>1 DEF Session, Todos
    <2>5. Shape(c, t)
      BY <1>1, <2>2, <2>3 DEF Sound, Shape
    <2>6. Seeding(t)
      BY <1>1, <1>2, <2>2, TodoFacts DEF Seeding, Todos, RoleNames
    <2>7. KnowsRoles(c, t)
      BY <1>1, <1>4, <2>2, <2>3, <2>6 DEF Sound, KnowsRoles
    <2>8. Fits(t)
      BY <1>1, <2>2 DEF Sound, Fits
    <2>9. Sound(c, t)
      BY <1>1, <2>2, <2>4, <2>5, <2>7, <2>8 DEF Sound
    <2>10. ASSUME NEW d \in Sessions \ {c} PROVE ~Clash(t, sessions[d])
      <3>1. ~Clash(s, sessions[d]) /\ d \in Sessions
        BY Current
      <3>2. n \notin sessions[d].made
        BY <1>1 DEF InsertRole, Ready, WaitsFor
      <3>3. t.task \notin {"register", "rename", "grant", "revoke"}
        BY <1>1, <2>2
      <3>4. QED
        BY <2>2, <3>1, <3>2, <3>3 DEF Clash, HoldsName, HoldsGrant, LocksUser
    <2>11. c = App => s.at # "demoRows" /\ t.at # "demoRows"
      BY <1>1, <2>2, <2>3
    <2> HIDE DEF t
    <2>12. QED
      BY <1>1, <2>1, <2>9, <2>10, <2>11, Move
  <1>5. QED
    BY <1>3, <1>4

LEMMA SelectAdminKeepsInv ==
    ASSUME AccountsAssumption, AccountsInv, NEW c \in Sessions, SelectAdmin(c)
    PROVE  AccountsInv'
  <1> DEFINE s == sessions[c]
             new == [s EXCEPT !.task = "register", !.at = "insertUser"]
             done == [s EXCEPT !.task = "seed", !.at = "commit"]
             known(u) == [s EXCEPT !.task = "grant", !.at = "insertGrant", !.user = u]
  <1>1. /\ Sound(c, s) /\ s \in Session /\ s.at = "selectAdmin" /\ OnlySessions
        /\ s.task = "start" /\ s.todo = <<>> /\ c = App
        /\ s.name = AdminName /\ s.role = "admin"
        /\ RoleNames \subseteq roles \cup s.made
    <2>1. Sound(c, s) /\ s \in Session
      BY Current
    <2>2. s.at = "selectAdmin" /\ OnlySessions
      BY DEF SelectAdmin
    <2>3. s.task = "start" /\ s.todo = <<>> /\ c = App /\ s.name = AdminName
          /\ s.role = "admin"
      BY <2>1, <2>2 DEF Sound, Shape
    <2>4. Len(ROLE_NAMES) = 2 /\ Len(<<"admin">>) = 1 /\ Len(<<>>) = 0
      BY DEF ROLE_NAMES
    <2>5. Seeding(s)
      BY <2>1, <2>2, <2>3 DEF Sound, KnowsRoles
    <2>6. RoleNames \subseteq roles \cup s.made
      BY <2>3, <2>4, <2>5 DEF Seeding
    <2>7. QED
      BY <2>1, <2>2, <2>3, <2>6
  <1>2. ASSUME ~Taken(AdminName), Go(c, new)
        PROVE  AccountsInv'
    <2>1. /\ new.task = "register" /\ new.at = "insertUser" /\ new.todo = s.todo
          /\ new.made = s.made /\ new.user = s.user /\ new.name = s.name
          /\ new.role = s.role /\ new \in Session
      BY <1>1 DEF Session
    <2>2. Sound(c, new)
      BY <1>1, <2>1 DEF Sound, Shape, KnowsRoles, Fits
    <2>3. \A d \in Sessions \ {c} : ~Clash(new, sessions[d])
      <3>1. /\ new.made \subseteq s.made
            /\ \/ new.at \notin {"updateName", "shareUser", "commit"}
               \/ new.task \in {"seed", "regrant"}
        BY <2>1
      <3> HIDE DEF new
      <3>2. QED
        BY <3>1, NoNewKeys
    <2>4. QED
      BY <1>1, <1>2, <2>1, <2>2, <2>3, Move
  <1>3. ASSUME Go(c, done)
        PROVE  AccountsInv'
    <2>1. /\ done.task = "seed" /\ done.at = "commit" /\ done.todo = s.todo
          /\ done.made = s.made /\ done.user = s.user /\ done.name = s.name
          /\ done.role = s.role /\ done \in Session
      BY <1>1 DEF Session
    <2>2. Sound(c, done)
      BY <1>1, <2>1 DEF Sound, Shape, KnowsRoles, Seeding, Fits
    <2>3. \A d \in Sessions \ {c} : ~Clash(done, sessions[d])
      <3>1. /\ done.made \subseteq s.made
            /\ \/ done.at \notin {"updateName", "shareUser", "commit"}
               \/ done.task \in {"seed", "regrant"}
        BY <2>1
      <3> HIDE DEF done
      <3>2. QED
        BY <3>1, NoNewKeys
    <2>4. QED
      BY <1>1, <1>3, <2>1, <2>2, <2>3, Move
  <1>4. ASSUME NEW u \in DOMAIN names, names[u] = AdminName, Go(c, known(u))
        PROVE  AccountsInv'
    <2>1. u \in Nat
      BY DEF AccountsInv, Tables
    <2>2. /\ known(u).task = "grant" /\ known(u).at = "insertGrant"
          /\ known(u).todo = s.todo /\ known(u).made = s.made /\ known(u).user = u
          /\ known(u).name = s.name /\ known(u).role = s.role /\ known(u) \in Session
      BY <1>1, <2>1 DEF Session
    <2>3. Sound(c, known(u))
      BY <1>1, <1>4, <2>2 DEF Sound, Shape, KnowsRoles, Fits
    <2>4. \A d \in Sessions \ {c} : ~Clash(known(u), sessions[d])
      <3>1. /\ known(u).made \subseteq s.made
            /\ \/ known(u).at \notin {"updateName", "shareUser", "commit"}
               \/ known(u).task \in {"seed", "regrant"}
        BY <2>2
      <3> HIDE DEF known
      <3>2. QED
        BY <3>1, NoNewKeys
    <2>5. QED
      BY <1>1, <1>4, <2>2, <2>3, <2>4, Move
  <1>5. QED
    BY <1>1, <1>2, <1>3, <1>4 DEF SelectAdmin

\* The statements that move to another place and change nothing else of the session.
LEMMA GoToKeepsInv ==
    ASSUME AccountsAssumption, AccountsInv, NEW c \in Sessions, NEW at,
           GoTo(c, at), OnlySessions,
           sessions[c].at \in {"insertUser", "lockUser", "updateName",
                               "insertGrant", "shareUser", "deleteGrant"},
           at \in {"updateName", "shareUser", "commit"},
           NEW t, t = [sessions[c] EXCEPT !.at = at], Shape(c, t), Fits(t),
           \A d \in Sessions \ {c} : ~Clash(t, sessions[d])
    PROVE  AccountsInv'
  <1> DEFINE s == sessions[c]
  <1>1. Sound(c, s) /\ s \in Session
    BY Current
  <1>2. t \in Session /\ t.at = at /\ t.made = s.made /\ t.task = s.task
        /\ t.user = s.user /\ t.name = s.name /\ t.role = s.role /\ t.todo = s.todo
    BY <1>1 DEF Session
  <1>3. s.task \notin {"start", "seed"}
    BY <1>1 DEF Sound, Shape
  <1>4. Sound(c, t)
    BY <1>1, <1>2, <1>3 DEF Sound, KnowsRoles
  <1>5. QED
    BY <1>2, <1>4, Move DEF GoTo

\* What such a session looks like afterwards.
LEMMA MovedTo ==
    ASSUME AccountsInv, NEW c \in Sessions,
           NEW at \in {"updateName", "shareUser", "commit"}
    PROVE  \E t : /\ t = [sessions[c] EXCEPT !.at = at]
                  /\ t.at = at /\ t.made = sessions[c].made /\ t.todo = sessions[c].todo
                  /\ t.task = sessions[c].task /\ t.user = sessions[c].user
                  /\ t.name = sessions[c].name /\ t.role = sessions[c].role
  <1>1. sessions[c] \in Session
    BY Current
  <1> DEFINE t == [sessions[c] EXCEPT !.at = at]
  <1>2. /\ t.at = at /\ t.made = sessions[c].made /\ t.todo = sessions[c].todo
        /\ t.task = sessions[c].task /\ t.user = sessions[c].user
        /\ t.name = sessions[c].name /\ t.role = sessions[c].role
    BY <1>1 DEF Session
  <1>3. QED
    BY <1>2

LEMMA InsertUserKeepsInv ==
    ASSUME AccountsAssumption, AccountsInv, NEW c \in Sessions, InsertUser(c)
    PROVE  AccountsInv'
  <1> DEFINE s == sessions[c]
  <1>1. Sound(c, s) /\ s.at = "insertUser" /\ s.task = "register" /\ OnlySessions
    BY Current DEF InsertUser, Ready, Sound, Shape
  <1>2. CASE Taken(s.name)
    BY <1>1, <1>2, FailKeepsInv DEF InsertUser
  <1>3. CASE ~Taken(s.name)
    <2>1. PICK t : /\ t = [s EXCEPT !.at = "commit"]
                   /\ t.at = "commit" /\ t.made = s.made /\ t.todo = s.todo
                   /\ t.task = s.task /\ t.user = s.user
                   /\ t.name = s.name /\ t.role = s.role
      BY MovedTo
    <2>2. Shape(c, t) /\ Fits(t)
      BY <1>1, <1>3, <2>1 DEF Sound, Shape, Fits
    <2>3. ASSUME NEW d \in Sessions \ {c} PROVE ~Clash(t, sessions[d])
      <3>1. ~Clash(s, sessions[d])
        BY Current
      <3>2. ~HoldsName(sessions[d], s.name)
        BY <1>1 DEF InsertUser, Ready, WaitsFor
      <3>3. QED
        BY <1>1, <2>1, <3>1, <3>2 DEF Clash, HoldsName, HoldsGrant, LocksUser
    <2>4. GoTo(c, "commit")
      BY <1>3 DEF InsertUser
    <2>5. QED
      BY <1>1, <2>1, <2>2, <2>3, <2>4, GoToKeepsInv
  <1>4. QED
    BY <1>2, <1>3

LEMMA LockUserKeepsInv ==
    ASSUME AccountsAssumption, AccountsInv, NEW c \in Sessions, LockUser(c)
    PROVE  AccountsInv'
  <1> DEFINE s == sessions[c]
  <1>1. /\ Sound(c, s) /\ s.at = "lockUser" /\ s.task = "rename"
        /\ OnlySessions /\ GoTo(c, "updateName")
    BY Current DEF LockUser, Ready, Sound, Shape
  <1>2. PICK t : /\ t = [s EXCEPT !.at = "updateName"]
                 /\ t.at = "updateName" /\ t.made = s.made /\ t.todo = s.todo
                 /\ t.task = s.task /\ t.user = s.user
                 /\ t.name = s.name /\ t.role = s.role
    BY MovedTo
  <1>3. Shape(c, t) /\ Fits(t)
    BY <1>1, <1>2 DEF Sound, Shape, Fits
  <1>4. ASSUME NEW d \in Sessions \ {c} PROVE ~Clash(t, sessions[d])
    <2>1. ~Clash(s, sessions[d])
      BY Current
    <2>2. ~LocksUser(sessions[d], s.user)
      BY <1>1 DEF LockUser, Ready, WaitsFor
    <2>3. QED
      BY <1>1, <1>2, <2>1, <2>2 DEF Clash, HoldsName, HoldsGrant, LocksUser
  <1>5. QED
    BY <1>1, <1>2, <1>3, <1>4, GoToKeepsInv

LEMMA UpdateNameKeepsInv ==
    ASSUME AccountsAssumption, AccountsInv, NEW c \in Sessions, UpdateName(c)
    PROVE  AccountsInv'
  <1> DEFINE s == sessions[c]
             taken == \E v \in DOMAIN names \ {s.user} : names[v] = s.name
  <1>1. Sound(c, s) /\ s.at = "updateName" /\ s.task = "rename" /\ OnlySessions
    BY Current DEF UpdateName, Ready, Sound, Shape
  <1>2. CASE taken
    BY <1>1, <1>2, FailKeepsInv DEF UpdateName
  <1>3. CASE ~taken
    <2>1. PICK t : /\ t = [s EXCEPT !.at = "commit"]
                   /\ t.at = "commit" /\ t.made = s.made /\ t.todo = s.todo
                   /\ t.task = s.task /\ t.user = s.user
                   /\ t.name = s.name /\ t.role = s.role
      BY MovedTo
    <2>2. Shape(c, t) /\ Fits(t)
      BY <1>1, <1>3, <2>1 DEF Sound, Shape, Fits
    <2>3. ASSUME NEW d \in Sessions \ {c} PROVE ~Clash(t, sessions[d])
      <3>1. ~Clash(s, sessions[d])
        BY Current
      <3>2. ~HoldsName(sessions[d], s.name)
        BY <1>1 DEF UpdateName, Ready, WaitsFor
      <3>3. QED
        BY <1>1, <2>1, <3>1, <3>2 DEF Clash, HoldsName, HoldsGrant, LocksUser
    <2>4. GoTo(c, "commit")
      BY <1>3 DEF UpdateName
    <2>5. QED
      BY <1>1, <2>1, <2>2, <2>3, <2>4, GoToKeepsInv
  <1>4. QED
    BY <1>2, <1>3

LEMMA InsertGrantKeepsInv ==
    ASSUME AccountsAssumption, AccountsInv, NEW c \in Sessions, InsertGrant(c)
    PROVE  AccountsInv'
  <1> DEFINE s == sessions[c]
  <1>1. Sound(c, s) /\ s.at = "insertGrant" /\ s.task = "grant" /\ OnlySessions
    BY Current DEF InsertGrant, Ready, Sound, Shape
  <1>2. CASE <<s.user, s.role>> \in grants
    BY <1>1, <1>2, FailKeepsInv DEF InsertGrant
  <1>3. CASE <<s.user, s.role>> \notin grants
    <2>1. PICK t : /\ t = [s EXCEPT !.at = "shareUser"]
                   /\ t.at = "shareUser" /\ t.made = s.made /\ t.todo = s.todo
                   /\ t.task = s.task /\ t.user = s.user
                   /\ t.name = s.name /\ t.role = s.role
      BY MovedTo
    <2>2. Shape(c, t) /\ Fits(t)
      BY <1>1, <1>3, <2>1 DEF Sound, Shape, Fits
    <2>3. ASSUME NEW d \in Sessions \ {c} PROVE ~Clash(t, sessions[d])
      <3>1. ~Clash(s, sessions[d])
        BY Current
      <3>2. ~HoldsGrant(sessions[d], s.user, s.role)
        BY <1>1 DEF InsertGrant, Ready, WaitsFor
      <3>3. QED
        BY <1>1, <2>1, <3>1, <3>2 DEF Clash, HoldsName, HoldsGrant, LocksUser
    <2>4. GoTo(c, "shareUser")
      BY <1>3 DEF InsertGrant
    <2>5. QED
      BY <1>1, <2>1, <2>2, <2>3, <2>4, GoToKeepsInv
  <1>4. QED
    BY <1>2, <1>3

LEMMA ShareUserKeepsInv ==
    ASSUME AccountsAssumption, AccountsInv, NEW c \in Sessions, ShareUser(c)
    PROVE  AccountsInv'
  <1> DEFINE s == sessions[c]
  <1>1. /\ Sound(c, s) /\ s.at = "shareUser" /\ s.task = "grant"
        /\ OnlySessions /\ GoTo(c, "commit")
    BY Current DEF ShareUser, Ready, Sound, Shape
  <1>2. PICK t : /\ t = [s EXCEPT !.at = "commit"]
                 /\ t.at = "commit" /\ t.made = s.made /\ t.todo = s.todo
                 /\ t.task = s.task /\ t.user = s.user
                 /\ t.name = s.name /\ t.role = s.role
    BY MovedTo
  <1>3. Shape(c, t) /\ Fits(t)
    BY <1>1, <1>2 DEF Sound, Shape, Fits
  <1>4. ASSUME NEW d \in Sessions \ {c} PROVE ~Clash(t, sessions[d])
    <2>1. ~Clash(s, sessions[d])
      BY Current
    <2>2. QED
      BY <1>1, <1>2, <2>1 DEF Clash, HoldsName, HoldsGrant, LocksUser
  <1>5. QED
    BY <1>1, <1>2, <1>3, <1>4, GoToKeepsInv

LEMMA DeleteGrantKeepsInv ==
    ASSUME AccountsAssumption, AccountsInv, NEW c \in Sessions, DeleteGrant(c)
    PROVE  AccountsInv'
  <1> DEFINE s == sessions[c]
  <1>1. Sound(c, s) /\ s.at = "deleteGrant" /\ s.task = "revoke" /\ OnlySessions
    BY Current DEF DeleteGrant, Ready, Sound, Shape
  <1>2. CASE <<s.user, s.role>> \notin grants
    BY <1>1, <1>2, FailKeepsInv DEF DeleteGrant
  <1>3. CASE <<s.user, s.role>> \in grants
    <2>1. PICK t : /\ t = [s EXCEPT !.at = "commit"]
                   /\ t.at = "commit" /\ t.made = s.made /\ t.todo = s.todo
                   /\ t.task = s.task /\ t.user = s.user
                   /\ t.name = s.name /\ t.role = s.role
      BY MovedTo
    <2>2. Shape(c, t) /\ Fits(t)
      BY <1>1, <1>3, <2>1 DEF Sound, Shape, Fits
    <2>3. ASSUME NEW d \in Sessions \ {c} PROVE ~Clash(t, sessions[d])
      <3>1. ~Clash(s, sessions[d]) /\ Sound(d, sessions[d])
        BY Current
      <3>2. CASE sessions[d].task = "revoke"
        <4>1. ~HoldsGrant(sessions[d], s.user, s.role)
          BY <1>1, <3>2 DEF DeleteGrant, Ready, WaitsFor
        <4>2. QED
          BY <1>1, <2>1, <3>1, <4>1 DEF Clash, HoldsName, HoldsGrant, LocksUser
      <3>3. CASE sessions[d].task # "revoke"
        <4>1. ~HoldsGrant(sessions[d], s.user, s.role)
          BY <1>3, <3>1, <3>3 DEF Sound, Fits, HoldsGrant
        <4>2. QED
          BY <1>1, <2>1, <3>1, <4>1 DEF Clash, HoldsName, HoldsGrant, LocksUser
      <3>4. QED
        BY <3>2, <3>3
    <2>4. GoTo(c, "commit")
      BY <1>3 DEF DeleteGrant
    <2>5. QED
      BY <1>1, <2>1, <2>2, <2>3, <2>4, GoToKeepsInv
  <1>4. QED
    BY <1>2, <1>3

LEMMA DeadlockKeepsInv ==
    ASSUME AccountsAssumption, AccountsInv, NEW c \in Sessions, Deadlock(c)
    PROVE  AccountsInv'
  <1>1. PICK d \in Sessions : WaitsFor(c, d)
    BY DEF Deadlock, Circle
  <1>2. sessions[c].at \notin {"idle", "demo", "demoRows"}
    BY <1>1 DEF WaitsFor
  <1>3. QED
    BY <1>2, FailKeepsInv DEF Deadlock

\* The session commits: what it held becomes part of the tables.
LEMMA CommitTables ==
    ASSUME AccountsAssumption, AccountsInv, NEW c \in Sessions, Commit(c)
    PROVE  /\ roles' = RoleNames /\ roles \subseteq roles'
           /\ names' \in Seq(Names) /\ DOMAIN names \subseteq DOMAIN names'
           /\ grants' \subseteq (DOMAIN names') \X RoleNames
           /\ \A u, v \in DOMAIN names' : names'[u] = names'[v] => u = v
  <1> DEFINE s == sessions[c]
  <1>1. /\ Tables /\ Sound(c, s) /\ s \in Session /\ s.at = "commit"
        /\ s.task \in {"seed", "register", "rename", "grant", "regrant", "revoke"}
    BY Current DEF Commit, AccountsInv, Sound, Shape, Session
  <1>2. roles' = RoleNames /\ roles \subseteq roles'
    <2>1. roles' = roles \cup s.made /\ roles' \subseteq RoleNames
      BY <1>1 DEF Commit, Tables, Session
    <2>2. CASE s.task = "seed"
      <3>1. Len(ROLE_NAMES) = 2 /\ Len(<<"admin">>) = 1 /\ Len(<<>>) = 0
        BY DEF ROLE_NAMES
      <3>2. Seeding(s) /\ s.todo = <<>>
        BY <1>1, <2>2 DEF Sound, Shape, KnowsRoles
      <3>3. QED
        BY <2>1, <3>1, <3>2 DEF Seeding
    <2>3. CASE s.task # "seed" /\ (c # App \/ s.task \notin {"register", "grant"})
      <3>1. c = App => s.task \in {"register", "grant"}
        BY <1>1, <2>3 DEF Sound, Shape
      <3>2. roles = RoleNames
        BY <1>1, <2>3, <3>1, RolesAreThere
      <3>3. QED
        BY <2>1, <3>2
    <2>4. CASE c = App /\ s.task \in {"register", "grant"}
      BY <1>1, <2>1, <2>4 DEF Sound, KnowsRoles
    <2>5. QED
      BY <2>1, <2>2, <2>3, <2>4
  <1>3. CASE s.task = "register"
    <2>1. names' = Append(names, s.name) /\ s.name \in Names
          /\ grants' = grants \cup {<<Len(names) + 1, s.role>>} /\ s.role \in RoleNames
      BY <1>1, <1>3 DEF Commit, Session
    <2>2. /\ names' \in Seq(Names) /\ Len(names') = Len(names) + 1
          /\ \A u \in DOMAIN names : names'[u] = names[u]
          /\ names'[Len(names) + 1] = s.name
          /\ DOMAIN names' = DOMAIN names \cup {Len(names) + 1}
          /\ Len(names) + 1 \notin DOMAIN names
      BY <1>1, <2>1 DEF Tables
    <2>3. \A u \in DOMAIN names : names[u] # s.name
      BY <1>1, <1>3 DEF Sound, Fits, Taken
    <2>4. grants' \subseteq (DOMAIN names') \X RoleNames
      BY <1>1, <2>1, <2>2 DEF Tables
    <2>5. \A u, v \in DOMAIN names' : names'[u] = names'[v] => u = v
      BY <1>1, <2>2, <2>3 DEF Tables
    <2>6. QED
      BY <1>2, <2>2, <2>4, <2>5
  <1>4. CASE s.task = "rename"
    <2>1. names' = [names EXCEPT ![s.user] = s.name] /\ s.name \in Names
          /\ grants' = grants /\ s.user \in DOMAIN names
      BY <1>1, <1>4 DEF Commit, Session, Sound, Shape
    <2>2. /\ names' \in Seq(Names) /\ DOMAIN names' = DOMAIN names
          /\ \A u \in DOMAIN names : names'[u] = IF u = s.user THEN s.name ELSE names[u]
      BY <1>1, <2>1 DEF Tables
    <2>3. \A v \in DOMAIN names \ {s.user} : names[v] # s.name
      BY <1>1, <1>4 DEF Sound, Fits
    <2>4. \A u, v \in DOMAIN names' : names'[u] = names'[v] => u = v
      BY <1>1, <2>2, <2>3 DEF Tables
    <2>5. QED
      BY <1>1, <1>2, <2>1, <2>2, <2>4 DEF Tables
  <1>5. CASE s.task \in {"seed", "grant", "regrant", "revoke"}
    <2>1. names' = names
      BY <1>5 DEF Commit
    <2>2. s.task = "grant" => s.user \in DOMAIN names /\ s.role \in RoleNames
      BY <1>1 DEF Sound, Shape, Session
    <2>3. grants' \subseteq (DOMAIN names) \X RoleNames
      BY <1>1, <1>5, <2>2 DEF Commit, Tables
    <2>4. QED
      BY <1>1, <1>2, <2>1, <2>3 DEF Tables
  <1>6. QED
    BY <1>1, <1>3, <1>4, <1>5

\* What another session has looked up, and holds, is not affected by the commit.
LEMMA CommitLeavesOthers ==
    ASSUME AccountsAssumption, AccountsInv, NEW c \in Sessions, Commit(c),
           NEW d \in Sessions \ {c}, sessions'[d] = sessions[d]
    PROVE  Sound(d, sessions[d])'
  <1> DEFINE s == sessions[c]
             t == sessions[d]
  <1>1. /\ Tables /\ Sound(c, s) /\ s \in Session /\ s.at = "commit"
        /\ Sound(d, t) /\ t \in Session /\ ~Clash(s, t)
    BY Current DEF Commit, AccountsInv
  <1>2. /\ roles' = RoleNames /\ roles \subseteq roles' /\ roles' = roles \cup s.made
        /\ DOMAIN names \subseteq DOMAIN names' /\ api' = api
    BY CommitTables DEF Commit
  <1>3. s.task \in {"seed", "register", "rename", "grant", "regrant", "revoke"}
    BY <1>1 DEF Sound, Shape, Session
  <1>4. Shape(d, t)'
    BY <1>1, <1>2 DEF Sound, Shape
  <1>5. t.made \cap roles' = {}
    BY <1>1, <1>2 DEF Sound, KnowsRoles, Clash
  <1>6. t.task \in {"start", "seed"} /\ t.at # "failed" => Seeding(t)'
    BY <1>1, <1>2 DEF Sound, KnowsRoles, Seeding
  <1>7. d = App /\ t.at # "failed" /\ t.task = "grant" => names' = names \/ s.task = "register"
    <2>1. ASSUME d = App, t.task = "grant", s.task = "rename" PROVE FALSE
      <3>1. api = "starting"
        <4>1. t.at # "idle"
          BY <1>1, <2>1 DEF Sound, Shape, Nobody, New
        <4>2. QED
          BY <1>1, <2>1, <4>1 DEF Sound, Shape
      <3>2. api = "up"
        BY <1>1, <2>1 DEF Sound, Shape
      <3>3. QED
        BY <3>1, <3>2
    <2>2. QED
      BY <1>3, <2>1 DEF Commit
  <1>8. t.task = "grant" /\ (names' = names \/ s.task = "register") => names'[t.user] = names[t.user]
    <2>1. t.task = "grant" => t.user \in DOMAIN names
      BY <1>1 DEF Sound, Shape
    <2>2. s.task = "register" => names' = Append(names, s.name) /\ s.name \in Names
      BY <1>1 DEF Commit, Session
    <2>3. QED
      BY <1>1, <2>1, <2>2 DEF Tables
  <1>9. KnowsRoles(d, t)'
    BY <1>1, <1>2, <1>5, <1>6, <1>7, <1>8 DEF Sound, KnowsRoles
  <1>10. Fits(t)'
    <2>1. ASSUME t.task = "register", t.at = "commit", NEW u \in DOMAIN names'
          PROVE  names'[u] # t.name
      <3>1. \A v \in DOMAIN names : names[v] # t.name
        BY <1>1, <2>1 DEF Sound, Fits, Taken
      <3>2. t.name \in Names /\ s.name \in Names
        BY <1>1 DEF Session
      <3>3. s.task \in {"register", "rename"} => s.name # t.name
        BY <1>1, <2>1, <3>2 DEF Clash, HoldsName
      <3>4. CASE s.task = "register"
        BY <1>1, <2>1, <3>1, <3>2, <3>3, <3>4 DEF Commit, Tables
      <3>5. CASE s.task = "rename"
        BY <1>1, <2>1, <3>1, <3>2, <3>3, <3>5 DEF Commit, Tables
      <3>6. CASE s.task \notin {"register", "rename"}
        BY <2>1, <3>1, <3>6 DEF Commit
      <3>7. QED
        BY <3>4, <3>5, <3>6
    <2>2. ASSUME t.task = "rename", t.at = "commit", NEW v \in DOMAIN names' \ {t.user}
          PROVE  names'[v] # t.name
      <3>1. \A w \in DOMAIN names \ {t.user} : names[w] # t.name
        BY <1>1, <2>2 DEF Sound, Fits
      <3>2. t.name \in Names /\ s.name \in Names
        BY <1>1 DEF Session
      <3>3. s.task \in {"register", "rename"} => s.name # t.name
        BY <1>1, <2>2, <3>2 DEF Clash, HoldsName
      <3>4. CASE s.task = "register"
        BY <1>1, <2>2, <3>1, <3>2, <3>3, <3>4 DEF Commit, Tables
      <3>5. CASE s.task = "rename"
        BY <1>1, <2>2, <3>1, <3>2, <3>3, <3>5 DEF Commit, Tables
      <3>6. CASE s.task \notin {"register", "rename"}
        BY <2>2, <3>1, <3>6 DEF Commit
      <3>7. QED
        BY <3>4, <3>5, <3>6
    <2>3. t.user \in Nat /\ s.user \in Nat /\ t.role \in RoleNames /\ s.role \in RoleNames
      BY <1>1 DEF Session
    <2>4. ASSUME t.task = "grant", t.at \in {"shareUser", "commit"}
          PROVE  <<t.user, t.role>> \notin grants'
      <3>1. <<t.user, t.role>> \notin grants /\ t.user \in DOMAIN names
        BY <1>1, <2>4 DEF Sound, Shape, Fits
      <3>2. t.user # Len(names) + 1
        BY <1>1, <3>1 DEF Tables
      <3>3. s.task = "grant" => <<t.user, t.role>> # <<s.user, s.role>>
        BY <1>1, <2>3, <2>4 DEF Clash, HoldsGrant
      <3>4. QED
        BY <1>3, <3>1, <3>2, <3>3 DEF Commit
    <2>5. ASSUME t.task = "revoke", t.at = "commit"
          PROVE  <<t.user, t.role>> \in grants'
      <3>1. <<t.user, t.role>> \in grants
        BY <1>1, <2>5 DEF Sound, Fits
      <3>2. s.task = "revoke" => <<t.user, t.role>> # <<s.user, s.role>>
        BY <1>1, <2>3, <2>5 DEF Clash, HoldsGrant
      <3>3. QED
        BY <1>3, <3>1, <3>2 DEF Commit
    <2>6. QED
      BY <2>1, <2>2, <2>4, <2>5 DEF Fits, Taken
  <1>11. QED
    BY <1>1, <1>2, <1>4, <1>9, <1>10 DEF Sound

LEMMA CommitKeepsInv ==
    ASSUME AccountsAssumption, AccountsInv, NEW c \in Sessions, Commit(c)
    PROVE  AccountsInv'
  <1> DEFINE ended == [Nobody EXCEPT !.at = "demo"]
             t == IF c = App THEN ended ELSE Nobody
  <1>1. Sound(c, sessions[c]) /\ sessions[c].at = "commit"
    BY Current DEF Commit
  <1>2. /\ Nobody.at = "idle" /\ Nobody.task = "none" /\ Nobody.made = {} /\ Nobody.user = 0
        /\ ended.at = "demo" /\ ended.task = "none" /\ ended.made = {} /\ ended.user = 0
        /\ Nobody \in Session /\ ended \in Session
    BY NobodyIsASession DEF Nobody, New, Session
  <1>3. Go(c, t)
    BY DEF Commit
  <1>4. /\ sessions' \in [Sessions -> Session]
        /\ sessions'[c] = t
        /\ \A d \in Sessions \ {c} : sessions'[d] = sessions[d]
    BY <1>2, <1>3 DEF AccountsInv, Go
  <1>5. Tables' /\ UNCHANGED <<demo, api, cutShort>>
    BY CommitTables DEF AccountsInv, Tables, Commit
  <1>6. App \in Sessions
    BY DEF Sessions
  <1>7. Demo'
    BY <1>1, <1>2, <1>4, <1>5, <1>6 DEF AccountsInv, Demo, DemoIsWholeOrCutShort
  <1>8. Sound(c, t)'
    <2>1. api = "starting" <=> c = App \/ (c # App /\ api = "starting")
      BY <1>1 DEF Sound, Shape
    <2>2. roles' = RoleNames
      BY CommitTables
    <2>3. CASE c = App
      BY <1>2, <1>5, <2>1, <2>2, <2>3 DEF Sound, Shape, KnowsRoles, Fits
    <2>4. CASE c # App
      BY <1>2, <1>5, <2>4 DEF Sound, Shape, KnowsRoles, Fits
    <2>5. QED
      BY <2>3, <2>4
  <1>9. \A d \in Sessions : Sound(d, sessions[d])'
    BY <1>4, <1>8, CommitLeavesOthers
  <1>10. ASSUME NEW d \in Sessions, NEW e \in Sessions, d # e
         PROVE  ~Clash(sessions'[d], sessions'[e])
    <2>1. \A x : ~Clash(t, x)
      <3>1. t.made = {} /\ t.task = "none"
        BY <1>2
      <3>2. QED
        BY <3>1 DEF Clash, HoldsName, HoldsGrant, LocksUser
    <2>2. QED
      BY <1>4, <1>10, <2>1, ClashIsSymmetric DEF AccountsInv
  <1>11. (\A d, e \in Sessions : d # e => ~Clash(sessions[d], sessions[e]))'
    BY <1>10 DEF Clash, HoldsName, HoldsGrant, LocksUser
  <1>12. QED
    BY <1>4, <1>5, <1>7, <1>9, <1>11 DEF AccountsInv

-----------------------------------------------------------------------------
(* Requests, commands and the API process preserve the invariant *)

\* A session that begins or ends holds nothing yet, or any more.
LEMMA NewSession ==
    ASSUME AccountsAssumption,
           NEW task \in {"start", "seed", "register", "rename", "grant", "regrant", "revoke"},
           NEW at \in {"selectRole", "lockUser", "deleteGrant"},
           NEW todo \in Todos, NEW user \in Nat, NEW name \in Names,
           NEW role \in RoleNames
    PROVE  \E t \in Session :
              /\ t = New(task, at, todo, user, name, role)
              /\ t.task = task /\ t.at = at /\ t.todo = todo /\ t.made = {}
              /\ t.user = user /\ t.name = name /\ t.role = role
  <1> DEFINE t == New(task, at, todo, user, name, role)
  <1>1. /\ t.task = task /\ t.at = at /\ t.todo = todo /\ t.made = {}
        /\ t.user = user /\ t.name = name /\ t.role = role
    BY DEF New
  <1>2. t \in Session
    BY DEF New, Session, Todos
  <1>3. QED
    BY <1>1, <1>2

LEMMA NobodyIs ==
    ASSUME AccountsAssumption
    PROVE  /\ Nobody \in Session
           /\ Nobody.task = "none" /\ Nobody.at = "idle" /\ Nobody.made = {}
           /\ Nobody.user = 0
  BY NobodyIsASession DEF Nobody, New

LEMMA BeginKeepsInv ==
    ASSUME AccountsAssumption, AccountsInv, NEW c \in Slots, Begin(c)
    PROVE  AccountsInv'
  <1>1. c \in Sessions /\ c # App /\ names \in Seq(Names) /\ AdminName \in Names
    BY DEF AccountsAssumption, Sessions, AccountsInv, Tables
  <1>2. ROLE_NAMES \in Todos /\ <<>> \in Todos /\ ROLE_NAMES # <<>>
        /\ (\A role \in RoleNames : <<role>> \in Todos /\ <<role>> # <<>>)
    <2>1. Len(ROLE_NAMES) = 2
      BY DEF ROLE_NAMES
    <2>2. \A role \in RoleNames : Len(<<role>>) = 1
      OBVIOUS
    <2>3. QED
      BY <2>1, <2>2 DEF Todos, RoleNames
  <1>3. ASSUME NEW task \in {"seed", "register", "rename", "grant", "regrant", "revoke"},
               NEW at \in {"selectRole", "lockUser", "deleteGrant"},
               NEW todo \in Todos, NEW user \in DOMAIN names \cup {0},
               NEW name \in Names, NEW role \in RoleNames,
               BeginTask(c, task, at, todo, user, name, role),
               at = "selectRole" => /\ todo # <<>>
                                    /\ task \in {"seed", "register", "grant", "regrant"},
               at = "lockUser" => task = "rename",
               at = "deleteGrant" => task = "revoke",
               task \in {"register", "rename"} => api = "up",
               task = "register" => role = "user",
               task \in {"rename", "grant", "regrant", "revoke"} => user # 0,
               task = "seed" => todo = ROLE_NAMES
        PROVE  AccountsInv'
    <2>1. user \in Nat
      BY <1>1
    <2>2. PICK t \in Session :
              /\ t = New(task, at, todo, user, name, role)
              /\ t.task = task /\ t.at = at /\ t.todo = todo /\ t.made = {}
              /\ t.user = user /\ t.name = name /\ t.role = role
      BY <2>1, NewSession
    <2>3. Shape(c, t)
      BY <1>1, <1>3, <2>2 DEF Shape
    <2>4. KnowsRoles(c, t)
      BY <1>1, <1>3, <2>2 DEF KnowsRoles, Seeding
    <2>5. Fits(t)
      BY <2>2 DEF Fits
    <2>6. Sound(c, t)
      BY <2>2, <2>3, <2>4, <2>5 DEF Sound
    <2>7. \A d \in Sessions \ {c} : ~Clash(t, sessions[d])
      BY <1>1, <2>2, NoNewKeys
    <2>8. Go(c, t) /\ OnlySessions
      BY <1>3, <2>2 DEF BeginTask
    <2>9. QED
      BY <1>1, <2>6, <2>7, <2>8, Move
  <1>4. ASSUME NEW n \in Names, Register(c, n)
        PROVE  AccountsInv'
    BY <1>2, <1>3, <1>4 DEF Register, RoleNames
  <1>5. ASSUME NEW u \in DOMAIN names, NEW n \in Names, Rename(c, u, n)
        PROVE  AccountsInv'
    <2>1. u # 0
      BY <1>1
    <2>2. QED
      BY <1>2, <1>3, <1>5, <2>1 DEF Rename, RoleNames
  <1>6. ASSUME NEW u \in DOMAIN names, NEW role \in RoleArgs,
               GrantRole(c, u, role) \/ RevokeRole(c, u, role)
        PROVE  AccountsInv'
    <2>1. u # 0 /\ role \in RoleNames
      BY <1>1 DEF AccountsAssumption, RoleNames
    <2>2. CASE GrantRole(c, u, role)
      <3>1. PICK task \in {"grant", "regrant"} :
               BeginTask(c, task, "selectRole", <<role>>, u, AdminName, role)
        BY <2>2 DEF GrantRole
      <3>2. QED
        BY <1>1, <1>2, <1>3, <2>1, <3>1, SMTT(60)
    <2>3. CASE RevokeRole(c, u, role)
      BY <1>1, <1>2, <1>3, <2>1, <2>3 DEF RevokeRole
    <2>4. QED
      BY <1>6, <2>2, <2>3
  <1>7. ASSUME SeedRoles(c)
        PROVE  AccountsInv'
    BY <1>1, <1>2, <1>3, <1>7 DEF SeedRoles, RoleNames
  <1>8. QED
    BY <1>4, <1>5, <1>6, <1>7 DEF Begin

\* A request or a command ends.
LEMMA EndKeepsInv ==
    ASSUME AccountsAssumption, AccountsInv, NEW c \in Sessions \ {App},
           Go(c, Nobody), OnlySessions
    PROVE  AccountsInv'
  <1>1. Sound(c, Nobody)
    BY NobodyIs DEF Sound, Shape, KnowsRoles, Fits
  <1>2. \A d \in Sessions \ {c} : ~Clash(Nobody, sessions[d])
    BY NobodyHolds
  <1>3. QED
    BY <1>1, <1>2, Move

LEMMA StartApiKeepsInv ==
    ASSUME AccountsAssumption, AccountsInv, StartApi
    PROVE  AccountsInv'
  <1>1. App \in Sessions /\ AdminName \in Names /\ ROLE_NAMES \in Todos /\ ROLE_NAMES # <<>>
    <2>1. Len(ROLE_NAMES) = 2
      BY DEF ROLE_NAMES
    <2>2. QED
      BY <2>1 DEF AccountsAssumption, Sessions, Todos
  <1>2. PICK t \in Session :
            /\ t = New("start", "selectRole", ROLE_NAMES, 0, AdminName, "admin")
            /\ t.task = "start" /\ t.at = "selectRole" /\ t.todo = ROLE_NAMES /\ t.made = {}
            /\ t.user = 0 /\ t.name = AdminName /\ t.role = "admin"
    <2> DEFINE t == New("start", "selectRole", ROLE_NAMES, 0, AdminName, "admin")
    <2>1. /\ t.task = "start" /\ t.at = "selectRole" /\ t.todo = ROLE_NAMES /\ t.made = {}
          /\ t.user = 0 /\ t.name = AdminName /\ t.role = "admin"
      BY DEF New
    <2>2. t \in Session
      BY <1>1 DEF New, Session, Todos, RoleNames
    <2>3. QED
      BY <2>1, <2>2
  <1>3. /\ api = "down" /\ api' = "starting"
        /\ UNCHANGED <<roles, names, grants, demo, cutShort>>
        /\ sessions' \in [Sessions -> Session]
        /\ sessions'[App] = t
        /\ \A d \in Sessions \ {App} : sessions'[d] = sessions[d]
    BY <1>1, <1>2 DEF StartApi, AccountsInv, Go, tables
  <1>4. sessions[App] = Nobody
    BY <1>1, <1>3 DEF AccountsInv, Sound, Shape
  <1>5. Tables'
    BY <1>3 DEF AccountsInv, Tables
  <1>6. Demo'
    BY <1>2, <1>3, <1>4, NobodyIs DEF AccountsInv, Demo, DemoIsWholeOrCutShort
  <1>7. Sound(App, t)'
    BY <1>1, <1>2, <1>3 DEF Sound, Shape, KnowsRoles, Seeding, Fits
  <1>8. ASSUME NEW d \in Sessions \ {App} PROVE Sound(d, sessions[d])'
    <2>1. Sound(d, sessions[d])
      BY DEF AccountsInv
    <2>2. Shape(d, sessions[d])'
      BY <1>3, <2>1 DEF Sound, Shape
    <2>3. KnowsRoles(d, sessions[d])' /\ Fits(sessions[d])'
      BY <1>3, <2>1 DEF Sound, KnowsRoles, Seeding, Fits, Taken
    <2>4. QED
      BY <1>3, <2>1, <2>2, <2>3 DEF Sound
  <1>9. \A d \in Sessions : Sound(d, sessions[d])'
    BY <1>3, <1>7, <1>8
  <1>10. ASSUME NEW d \in Sessions \ {App} PROVE ~Clash(t, sessions[d])
    BY <1>1, <1>2, NoNewKeys
  <1>11. ASSUME NEW d \in Sessions, NEW e \in Sessions, d # e
         PROVE  ~Clash(sessions'[d], sessions'[e])
    BY <1>3, <1>10, <1>11, ClashIsSymmetric DEF AccountsInv
  <1>12. (\A d, e \in Sessions : d # e => ~Clash(sessions[d], sessions[e]))'
    BY <1>3, <1>11 DEF Clash, HoldsName, HoldsGrant, LocksUser
  <1>13. QED
    BY <1>3, <1>5, <1>6, <1>9, <1>12 DEF AccountsInv

LEMMA DownKeepsInv ==
    ASSUME AccountsAssumption, AccountsInv, Down
    PROVE  AccountsInv'
  <1>1. App \in Sessions /\ App \notin Slots
    BY DEF AccountsAssumption, Sessions
  <1>2. /\ api' = "down"
        /\ UNCHANGED <<roles, names, grants, demo>>
        /\ cutShort' = (cutShort \/ demo \in 1 .. DemoRows - 1)
        /\ sessions' \in [Sessions -> Session]
        /\ sessions'[App] = Nobody
        /\ \A d \in Sessions : \/ sessions'[d] = Nobody
                               \/ /\ sessions'[d] = sessions[d] /\ d # App
                                  /\ sessions[d].task \notin {"register", "rename"}
    BY <1>1, NobodyIs DEF Down, AccountsInv, tables
  <1>3. Tables'
    BY <1>2 DEF AccountsInv, Tables
  <1>4. Demo'
    BY <1>1, <1>2, NobodyIs DEF AccountsInv, Demo, DemoIsWholeOrCutShort
  <1>5. ASSUME NEW d \in Sessions PROVE Sound(d, sessions[d])'
    <2>1. CASE sessions'[d] = Nobody
      BY <1>2, <2>1, NobodyIs DEF Sound, Shape, KnowsRoles, Fits
    <2>2. CASE /\ sessions'[d] = sessions[d] /\ d # App
               /\ sessions[d].task \notin {"register", "rename"}
      <3>1. Sound(d, sessions[d])
        BY DEF AccountsInv
      <3>2. Shape(d, sessions[d])'
        BY <1>2, <2>2, <3>1 DEF Sound, Shape
      <3>3. KnowsRoles(d, sessions[d])' /\ Fits(sessions[d])'
        BY <1>2, <2>2, <3>1 DEF Sound, KnowsRoles, Seeding, Fits, Taken
      <3>4. QED
        BY <1>2, <2>2, <3>1, <3>2, <3>3 DEF Sound
    <2>3. QED
      BY <1>2, <2>1, <2>2
  <1>6. ASSUME NEW d \in Sessions, NEW e \in Sessions, d # e
        PROVE  ~Clash(sessions'[d], sessions'[e])
    BY <1>2, <1>6, NobodyHolds, ClashIsSymmetric DEF AccountsInv
  <1>7. (\A d, e \in Sessions : d # e => ~Clash(sessions[d], sessions[e]))'
    BY <1>2, <1>6 DEF Clash, HoldsName, HoldsGrant, LocksUser
  <1>8. QED
    BY <1>2, <1>3, <1>4, <1>5, <1>7 DEF AccountsInv

\* The API begins to serve: the startup is through, and the roles are there.
LEMMA ServeKeepsInv ==
    ASSUME AccountsAssumption, AccountsInv, Serve, UNCHANGED <<tables, cutShort>>,
           sessions[App].at \in {"demo", "demoRows"},
           demo' \in 0 .. DemoRows, demo' = DemoRows \/ cutShort
    PROVE  AccountsInv'
  <1>1. App \in Sessions
    BY DEF Sessions
  <1>2. /\ api' = "up"
        /\ UNCHANGED <<roles, names, grants, cutShort>>
        /\ sessions' \in [Sessions -> Session]
        /\ sessions'[App] = Nobody
        /\ \A d \in Sessions \ {App} : sessions'[d] = sessions[d]
    BY <1>1, NobodyIs DEF Serve, AccountsInv, Go, tables
  <1>3. roles = RoleNames /\ api = "starting"
    BY <1>1, NobodyIs DEF AccountsInv, Sound, Shape, KnowsRoles
  <1>4. Tables'
    BY <1>2, <1>3 DEF AccountsInv, Tables
  <1>5. Demo'
    BY <1>2, NobodyIs DEF AccountsInv, Demo, DemoIsWholeOrCutShort
  <1>6. Sound(App, Nobody)'
    BY <1>1, <1>2, <1>3, NobodyIs DEF Sound, Shape, KnowsRoles, Fits
  <1>7. ASSUME NEW d \in Sessions \ {App} PROVE Sound(d, sessions[d])'
    <2>1. Sound(d, sessions[d])
      BY DEF AccountsInv
    <2>2. Shape(d, sessions[d])'
      BY <1>2, <2>1 DEF Sound, Shape
    <2>3. KnowsRoles(d, sessions[d])' /\ Fits(sessions[d])'
      BY <1>2, <2>1 DEF Sound, KnowsRoles, Seeding, Fits, Taken
    <2>4. QED
      BY <1>2, <2>1, <2>2, <2>3 DEF Sound
  <1>8. \A d \in Sessions : Sound(d, sessions[d])'
    BY <1>2, <1>6, <1>7
  <1>9. ASSUME NEW d \in Sessions, NEW e \in Sessions, d # e
        PROVE  ~Clash(sessions'[d], sessions'[e])
    BY <1>2, <1>9, NobodyHolds, ClashIsSymmetric DEF AccountsInv
  <1>10. (\A d, e \in Sessions : d # e => ~Clash(sessions[d], sessions[e]))'
    BY <1>2, <1>9 DEF Clash, HoldsName, HoldsGrant, LocksUser
  <1>11. QED
    BY <1>2, <1>4, <1>5, <1>8, <1>10 DEF AccountsInv

LEMMA StartupKeepsInv ==
    ASSUME AccountsAssumption, AccountsInv, Startup
    PROVE  AccountsInv'
  <1> DEFINE s == sessions[App]
  <1>1. App \in Sessions /\ Sound(App, s) /\ s \in Session
    BY Current DEF Sessions
  <1>2. demo \in 0 .. DemoRows /\ DemoRows \in Nat \ {0}
        /\ (demo \in 1 .. DemoRows - 1 => cutShort \/ s.at = "demoRows")
        /\ (s.at = "demoRows" => demo < DemoRows)
    BY DEF AccountsInv, Demo, AccountsAssumption
  <1>3. CASE StartFails
    BY <1>3, DownKeepsInv DEF StartFails
  <1>4. CASE DemoSkipped
    <2>1. UNCHANGED <<tables, demo, cutShort>> /\ demo > 0 /\ s.at = "demo" /\ Serve
      BY <1>4 DEF DemoSkipped
    <2>2. demo' = DemoRows \/ cutShort
      BY <1>2, <2>1
    <2>3. QED
      BY <1>2, <2>1, <2>2, ServeKeepsInv
  <1>5. ASSUME NEW n \in DemoNames, DemoUser(n)
        PROVE  AccountsInv'
    <2>1. <<"user">> \in Todos /\ <<"user">> # <<>> /\ n \in Names /\ "user" \in RoleNames
      <3>1. Len(<<"user">>) = 1
        OBVIOUS
      <3>2. QED
        BY <3>1 DEF Todos, AccountsAssumption, RoleNames
    <2>2. PICK t \in Session :
              /\ t = New("register", "selectRole", <<"user">>, 0, n, "user")
              /\ t.task = "register" /\ t.at = "selectRole" /\ t.todo = <<"user">>
              /\ t.made = {} /\ t.user = 0 /\ t.name = n /\ t.role = "user"
      BY <2>1, NewSession
    <2>3. s.at = "demo" /\ Go(App, t) /\ OnlySessions
      BY <1>5, <2>2 DEF DemoUser
    <2>4. roles = RoleNames /\ api = "starting"
      BY <1>1, <2>3, NobodyIs DEF Sound, Shape, KnowsRoles
    <2>5. Sound(App, t)
      BY <2>1, <2>2, <2>4 DEF Sound, Shape, KnowsRoles, Fits
    <2>6. \A d \in Sessions \ {App} : ~Clash(t, sessions[d])
      BY <1>1, <2>2, NoNewKeys
    <2>7. QED
      BY <1>1, <2>2, <2>3, <2>5, <2>6, Move
  <1>6. CASE DemoUsersDone
    <2>1. s.at = "demo" /\ demo = 0 /\ OnlySessions /\ GoTo(App, "demoRows")
      BY <1>6 DEF DemoUsersDone
    <2> DEFINE t == [s EXCEPT !.at = "demoRows"]
    <2>2. t.at = "demoRows" /\ t.made = s.made /\ t.task = s.task /\ t.user = s.user
          /\ t.name = s.name /\ t.role = s.role /\ t \in Session
      BY <1>1 DEF Session
    <2>3. Sound(App, t)
      BY <1>1, <2>1, <2>2 DEF Sound, Shape, KnowsRoles, Fits
    <2>4. Go(App, t)
      BY <2>1 DEF GoTo
    <2> HIDE DEF t
    <2>5. \A d \in Sessions \ {App} : ~Clash(t, sessions[d])
      BY <1>1, <2>2, NoNewKeys
    <2>6. QED
      BY <1>1, <2>1, <2>2, <2>3, <2>4, <2>5, Move
  <1>7. CASE DemoRow
    <2>1. s.at = "demoRows" /\ demo' = demo + 1 /\ UNCHANGED <<tables, cutShort>>
      BY <1>7 DEF DemoRow
    <2>2. demo' \in 1 .. DemoRows
      BY <1>2, <2>1
    <2>3. CASE demo' = DemoRows
      <3>1. Serve
        BY <1>7, <2>3 DEF DemoRow
      <3>2. QED
        BY <2>1, <2>2, <2>3, <3>1, ServeKeepsInv
    <2>4. CASE demo' # DemoRows
      <3>1. UNCHANGED <<roles, names, grants, api, sessions, cutShort>>
        BY <1>7, <2>1, <2>4 DEF DemoRow, tables
      <3>2. api # "up"
        BY <1>1, <2>1, NobodyIs DEF Sound, Shape
      <3>3. Demo'
        BY <1>2, <2>1, <2>2, <2>4, <3>1, <3>2 DEF AccountsInv, Demo, DemoIsWholeOrCutShort
      <3>4. QED
        BY <3>1, <3>3
        DEF AccountsInv, Tables, Sound, Shape, KnowsRoles, Seeding, Fits, Taken, Clash,
            HoldsName, HoldsGrant, LocksUser
    <2>5. QED
      BY <2>3, <2>4
  <1>8. QED
    BY <1>3, <1>4, <1>5, <1>6, <1>7 DEF Startup

LEMMA NextKeepsInv ==
    AccountsAssumption /\ AccountsInv /\ [Next]_vars => AccountsInv'
  <1> SUFFICES ASSUME AccountsAssumption, AccountsInv, [Next]_vars
               PROVE  AccountsInv'
    OBVIOUS
  <1>1. ASSUME NEW c \in Sessions, Continue(c) PROVE AccountsInv'
    <2>1. CASE \/ SelectRole(c) \/ InsertRole(c) \/ SelectAdmin(c) \/ InsertUser(c)
               \/ LockUser(c) \/ UpdateName(c)
      BY <2>1, SelectRoleKeepsInv, InsertRoleKeepsInv, SelectAdminKeepsInv,
         InsertUserKeepsInv, LockUserKeepsInv, UpdateNameKeepsInv
    <2>2. CASE InsertGrant(c) \/ ShareUser(c) \/ DeleteGrant(c) \/ Commit(c)
      BY <2>2, InsertGrantKeepsInv, ShareUserKeepsInv, DeleteGrantKeepsInv,
         CommitKeepsInv
    <2>3. CASE Deadlock(c)
      BY <2>3, DeadlockKeepsInv
    <2>4. CASE Exit(c)
      BY <2>4, EndKeepsInv DEF Exit
    <2>5. QED
      BY <1>1, <2>1, <2>2, <2>3, <2>4 DEF Continue
  <1>2. ASSUME NEW c \in Slots, Begin(c) \/ Kill(c) PROVE AccountsInv'
    <2>1. c \in Sessions /\ c # App
      BY DEF Sessions, AccountsAssumption
    <2>2. QED
      BY <1>2, <2>1, BeginKeepsInv, EndKeepsInv DEF Kill
  <1>3. CASE StopApi
    BY <1>3, DownKeepsInv DEF StopApi
  <1>4. CASE UNCHANGED vars
    BY <1>4
    DEF vars, tables, AccountsInv, Tables, Demo, DemoIsWholeOrCutShort, Sound, Shape,
        KnowsRoles, Seeding, Fits, Taken, Clash, HoldsName, HoldsGrant, LocksUser
  <1>5. QED
    BY <1>1, <1>2, <1>3, <1>4, StartupKeepsInv, StartApiKeepsInv DEF Next

LEMMA InitHasInv == AccountsAssumption /\ Init => AccountsInv
  <1> SUFFICES ASSUME AccountsAssumption, Init PROVE AccountsInv
    OBVIOUS
  <1>1. sessions \in [Sessions -> Session] /\ (\A c \in Sessions : sessions[c] = Nobody)
    BY NobodyIs DEF Init
  <1>2. Tables
    BY DEF Init, Tables
  <1>3. Demo
    <2>1. sessions[App].at = "idle" /\ 0 \in 0 .. DemoRows /\ 0 \notin 1 .. DemoRows - 1
      BY <1>1, NobodyIs DEF Sessions, AccountsAssumption
    <2>2. QED
      BY <2>1 DEF Init, Demo, DemoIsWholeOrCutShort
  <1>4. \A c \in Sessions : Sound(c, Nobody)
    BY NobodyIs DEF Init, Sound, Shape, KnowsRoles, Fits
  <1>5. QED
    BY <1>1, <1>2, <1>3, <1>4, NobodyHolds DEF AccountsInv

\* The invariant: what each session has looked up and holds fits the tables, and
\* no two sessions hold the same key.
THEOREM AccountsInvariant == Spec => []AccountsInv
  <1>1. Init => AccountsInv
    BY InitHasInv, AccountsAssumption
  <1>2. AccountsInv /\ [Next]_vars => AccountsInv'
    BY NextKeepsInv, AccountsAssumption
  <1>3. QED
    BY <1>1, <1>2, PTL DEF Spec

\* The types of the tables and of the sessions: nobody has the role of a user who is
\* not there, and no session is about one.
THEOREM AccountsTypeCorrect == Spec => []TypeOK
  <1>1. AccountsInv => TypeOK
    <2>1. AccountsInv => roles \subseteq RoleNames
      BY DEF AccountsInv, Tables, RoleNames
    <2>2. QED
      BY <2>1 DEF AccountsInv, Tables, Demo, Sound, TypeOK
  <1>2. QED
    BY <1>1, AccountsInvariant, PTL

\* An API that serves has the whole of the demo data, unless one stopped while it
\* filled it in: with any number of rows, restarts and commands in between.
THEOREM AccountsDemo == Spec => []DemoIsWholeOrCutShort
  <1>1. AccountsInv => DemoIsWholeOrCutShort
    BY DEF AccountsInv, Demo
  <1>2. QED
    BY <1>1, AccountsInvariant, PTL

-----------------------------------------------------------------------------
(* Sessions that wait in a circle *)

\* The first role of ROLE_NAMES is waited for, the second is only waited for by
\* sessions that have made the first one, or have found it.
LEMMA NobodyInsertsRolesInACircle ==
    ASSUME AccountsInv, NEW waiting \in SUBSET Sessions, Circle(waiting),
           NEW c \in waiting, sessions[c].at = "insertRole"
    PROVE  FALSE
  <1>1. ASSUME NEW d \in waiting, sessions[d].at = "insertRole"
        PROVE  /\ \E e \in waiting : /\ sessions[e].at = "insertRole"
                                     /\ Head(sessions[e].todo) \in sessions[d].made
               /\ \/ sessions[d].made = {}
                  \/ sessions[d].made \subseteq {"user"} /\ Head(sessions[d].todo) = "admin"
    <2>1. /\ sessions[d].task \in {"start", "seed"} /\ sessions[d] \in Session
          /\ sessions[d].todo # <<>> /\ Seeding(sessions[d])
      BY <1>1, Current DEF Sound, Shape, KnowsRoles
    <2>2. PICK e \in waiting : WaitsFor(e, d)
      BY DEF Circle
    <2>3. sessions[e].at = "insertRole" /\ Head(sessions[e].todo) \in sessions[d].made
      BY <1>1, <2>1, <2>2
      DEF WaitsFor, HoldsName, HoldsGrant, LocksUser, SharesUser, Replaces
    <2>4. sessions[d].todo \in Todos /\ sessions[d].made \subseteq RoleNames
      BY <2>1 DEF Session, Todos
    <2>5. sessions[d].todo = <<"admin">> => Head(sessions[d].todo) = "admin"
      OBVIOUS
    <2>6. QED
      BY <2>1, <2>3, <2>4, <2>5 DEF Seeding, RoleNames
  <1>2. PICK d \in waiting : /\ sessions[d].at = "insertRole"
                             /\ Head(sessions[d].todo) \in sessions[c].made
    BY <1>1
  <1>3. Head(sessions[d].todo) = "user"
    BY <1>1, <1>2
  <1>4. sessions[d].made = {}
    BY <1>1, <1>2, <1>3
  <1>5. QED
    BY <1>1, <1>2, <1>4

LEMMA OnlyRenamesInACircle ==
    ASSUME AccountsInv, NEW waiting \in SUBSET Sessions, Circle(waiting), NEW c \in waiting
    PROVE  sessions[c].at = "updateName"
  <1> DEFINE s == sessions[c]
  <1>1. s \in Session /\ Sound(c, s)
    BY Current
  <1>2. s.at \in {"insertRole", "insertUser", "updateName", "insertGrant", "deleteGrant",
                  "lockUser", "shareUser"}
    BY DEF Circle, WaitsFor
  <1>3. PICK d \in waiting : WaitsFor(d, c)
    BY DEF Circle
  <1>4. sessions[d].at # "insertRole" /\ s.at # "insertRole"
    BY NobodyInsertsRolesInACircle
  <1>5. s.at \notin {"insertUser", "lockUser", "deleteGrant", "insertGrant"}
    BY <1>1, <1>3, <1>4
    DEF WaitsFor, HoldsName, HoldsGrant, LocksUser, SharesUser, Replaces, Sound, Shape
  <1>6. s.at # "shareUser"
    <2>1. ASSUME s.at = "shareUser" PROVE FALSE
      <3>1. s.task = "grant"
        BY <1>1, <2>1 DEF Sound, Shape
      <3>2. sessions[d].at = "insertGrant"
        BY <1>3, <1>4, <2>1, <3>1
        DEF WaitsFor, HoldsName, HoldsGrant, LocksUser, SharesUser, Replaces
      <3>3. Sound(d, sessions[d])
        BY Current
      <3>4. PICK e \in waiting : WaitsFor(e, d)
        BY DEF Circle
      <3>5. sessions[e].at # "insertRole"
        BY NobodyInsertsRolesInACircle
      <3>6. QED
        BY <3>2, <3>3, <3>4, <3>5
        DEF WaitsFor, HoldsName, HoldsGrant, LocksUser, SharesUser, Replaces, Sound, Shape
    <2>2. QED
      BY <2>1
  <1>7. QED
    BY <1>2, <1>4, <1>5, <1>6

\* Only edits of names ever wait for each other in a circle: the roles are always
\* inserted in one order, and every other key is the last one its session takes.
THEOREM AccountsCirclesAreSwaps == Spec => []CirclesAreSwaps
  <1>1. AccountsInv => CirclesAreSwaps
    BY OnlyRenamesInACircle DEF CirclesAreSwaps
  <1>2. QED
    BY <1>1, AccountsInvariant, PTL

-----------------------------------------------------------------------------
(* Sessions that fail *)

\* What makes a session fail.
LEMMA Failing ==
    ASSUME AccountsAssumption, AccountsInv, [Next]_vars, NEW c \in Sessions, Fails(c)
    PROVE  \/ /\ sessions[c].task \in {"start", "seed"}
              /\ roles = RoleNames
           \/ sessions[c].task \in {"register", "rename"} /\ Taken(sessions[c].name)
           \/ /\ sessions[c].task = "grant"
              /\ <<sessions[c].user, sessions[c].role>> \in grants
           \/ /\ sessions[c].task = "revoke"
              /\ <<sessions[c].user, sessions[c].role>> \notin grants
  <1> DEFINE s == sessions[c]
  <1>1. /\ Sound(c, s) /\ s \in Session /\ sessions \in [Sessions -> Session] /\ Tables
        /\ Nobody.at = "idle"
    BY Current, NobodyIs DEF AccountsInv
  <1>2. ASSUME NEW e \in Sessions, NEW t, Go(e, t), e # c \/ t.at # "failed"
        PROVE  FALSE
    BY <1>1, <1>2 DEF Go, Fails
  <1>3. ASSUME NEW e \in Sessions, NEW at, GoTo(e, at), at # "failed"
        PROVE  FALSE
    <2>1. Go(e, [sessions[e] EXCEPT !.at = at]) /\ sessions[e] \in Session
      BY <1>1, <1>3 DEF GoTo
    <2>2. [sessions[e] EXCEPT !.at = at].at = at
      BY <2>1 DEF Session
    <2>3. QED
      BY <1>2, <1>3, <2>1, <2>2
  <1>4. ASSUME NEW e \in Sessions, NEW made, RoleFound(e, made)
        PROVE  FALSE
    <2> DEFINE r == [sessions[e] EXCEPT !.todo = Tail(@), !.made = made]
               t == [r EXCEPT !.at = IF r.todo = <<>> THEN AfterRoles(r) ELSE "selectRole"]
    <2>1. Go(e, t) /\ sessions[e] \in Session
      BY <1>1, <1>4 DEF RoleFound
    <2>2. AfterRoles(r) # "failed"
      BY DEF AfterRoles
    <2>3. t.at # "failed"
      BY <2>1, <2>2 DEF Session
    <2> HIDE DEF t
    <2>4. QED
      BY <1>2, <2>1, <2>3
  <1>5. ASSUME NEW e \in Sessions, Fail(e)
        PROVE  e = c
    BY <1>2, <1>5 DEF Fail
  <1>6. ASSUME NEW e \in Sessions, InsertRole(e)
        PROVE  s.task \in {"start", "seed"} /\ roles = RoleNames
    <2>1. Fail(e) /\ Head(sessions[e].todo) \in roles /\ sessions[e].at = "insertRole"
      BY <1>4, <1>6 DEF InsertRole, Ready
    <2>2. e = c
      BY <1>5, <2>1
    <2>3. QED
      BY <1>1, <2>1, <2>2 DEF Sound, Shape, Tables
  <1>7. ASSUME NEW e \in Sessions, InsertUser(e)
        PROVE  s.task = "register" /\ Taken(s.name)
    <2>1. Fail(e) /\ Taken(sessions[e].name) /\ sessions[e].at = "insertUser"
      BY <1>3, <1>7 DEF InsertUser, Ready
    <2>2. e = c
      BY <1>5, <2>1
    <2>3. QED
      BY <1>1, <2>1, <2>2 DEF Sound, Shape
  <1>8. ASSUME NEW e \in Sessions, UpdateName(e)
        PROVE  s.task = "rename" /\ Taken(s.name)
    <2>1. Fail(e) /\ Taken(sessions[e].name) /\ sessions[e].at = "updateName"
      BY <1>3, <1>8 DEF UpdateName, Ready, Taken
    <2>2. e = c
      BY <1>5, <2>1
    <2>3. QED
      BY <1>1, <2>1, <2>2 DEF Sound, Shape
  <1>9. ASSUME NEW e \in Sessions, InsertGrant(e)
        PROVE  s.task = "grant" /\ <<s.user, s.role>> \in grants
    <2>1. /\ Fail(e) /\ <<sessions[e].user, sessions[e].role>> \in grants
          /\ sessions[e].at = "insertGrant"
      BY <1>3, <1>9 DEF InsertGrant, Ready
    <2>2. e = c
      BY <1>5, <2>1
    <2>3. QED
      BY <1>1, <2>1, <2>2 DEF Sound, Shape
  <1>10. ASSUME NEW e \in Sessions, DeleteGrant(e)
         PROVE  s.task = "revoke" /\ <<s.user, s.role>> \notin grants
    <2>1. /\ Fail(e) /\ <<sessions[e].user, sessions[e].role>> \notin grants
          /\ sessions[e].at = "deleteGrant"
      BY <1>3, <1>10 DEF DeleteGrant, Ready
    <2>2. e = c
      BY <1>5, <2>1
    <2>3. QED
      BY <1>1, <2>1, <2>2 DEF Sound, Shape
  <1>11. ASSUME NEW e \in Sessions, Deadlock(e)
         PROVE  s.task = "rename" /\ Taken(s.name)
    <2>1. e = c
      BY <1>5, <1>11 DEF Deadlock
    <2>2. PICK waiting \in SUBSET Sessions : c \in waiting /\ Circle(waiting)
      BY <1>11, <2>1 DEF Deadlock
    <2>3. PICK d \in waiting : WaitsFor(c, d)
      BY <2>2 DEF Circle
    <2>4. s.at = "updateName" /\ sessions[d].at = "updateName"
      BY <2>2, <2>3, OnlyRenamesInACircle
    <2>5. Replaces(sessions[d], s.name)
      BY <2>3, <2>4 DEF WaitsFor, HoldsName
    <2>6. QED
      BY <1>1, <2>4, <2>5 DEF Sound, Shape, Replaces, Taken
  <1>12. ASSUME NEW e \in Sessions,
                SelectRole(e) \/ SelectAdmin(e) \/ LockUser(e) \/ ShareUser(e)
         PROVE  FALSE
    <2>1. ~SelectRole(e)
      BY <1>3, <1>4 DEF SelectRole
    <2>2. ~LockUser(e) /\ ~ShareUser(e)
      BY <1>3 DEF LockUser, ShareUser
    <2>3. ~SelectAdmin(e)
      <3>1. sessions[e] \in Session
        BY <1>1
      <3>2. /\ [sessions[e] EXCEPT !.task = "register", !.at = "insertUser"].at = "insertUser"
            /\ [sessions[e] EXCEPT !.task = "seed", !.at = "commit"].at = "commit"
            /\ \A u : [sessions[e] EXCEPT !.task = "grant", !.at = "insertGrant",
                                          !.user = u].at = "insertGrant"
        BY <3>1 DEF Session
      <3>3. QED
        BY <1>2, <3>2 DEF SelectAdmin
    <2>4. QED
      BY <1>12, <2>1, <2>2, <2>3
  <1>13. ASSUME NEW e \in Sessions, Commit(e) \/ Exit(e) \/ Kill(e) PROVE FALSE
    <2>1. ~Exit(e) /\ ~Kill(e)
      BY <1>1, <1>2 DEF Exit, Kill
    <2>2. [Nobody EXCEPT !.at = "demo"].at = "demo"
      BY <1>1, NobodyIs DEF Session
    <2>3. ~Commit(e)
      BY <1>1, <1>2, <2>2 DEF Commit
    <2>4. QED
      BY <1>13, <2>1, <2>3
  <1>14. ASSUME NEW e \in Sessions, Begin(e) PROVE FALSE
    <2>1. ASSUME NEW task, NEW at \in {"selectRole", "lockUser", "deleteGrant"}, NEW todo,
                 NEW user, NEW name, NEW role, BeginTask(e, task, at, todo, user, name, role)
          PROVE  FALSE
      <3>1. New(task, at, todo, user, name, role).at = at
        BY DEF New
      <3>2. QED
        BY <1>2, <2>1, <3>1 DEF BeginTask
    <2>2. QED
      BY <1>14, <2>1 DEF Begin, Register, Rename, GrantRole, RevokeRole, SeedRoles
  <1>15. ~Down
    BY <1>1 DEF Down, Fails
  <1>16. ~Startup /\ ~StartApi /\ ~StopApi
    <2>1. App \in Sessions
      BY DEF Sessions
    <2>2. \A n : New("register", "selectRole", <<"user">>, 0, n, "user").at = "selectRole"
      BY DEF New
    <2>3. New("start", "selectRole", ROLE_NAMES, 0, AdminName, "admin").at = "selectRole"
      BY DEF New
    <2>4. ~Serve /\ sessions' # sessions
      BY <1>1, <1>2, <2>1 DEF Serve, Fails
    <2>5. ~StartFails /\ ~DemoSkipped /\ ~DemoRow /\ ~StopApi
      BY <1>15, <2>4 DEF StartFails, DemoSkipped, DemoRow, StopApi
    <2>6. ~DemoUsersDone
      BY <1>3, <2>1 DEF DemoUsersDone
    <2>7. \A n \in DemoNames : ~DemoUser(n)
      BY <1>2, <2>1, <2>2 DEF DemoUser
    <2>8. ~StartApi
      BY <1>2, <2>1, <2>3 DEF StartApi
    <2>9. QED
      BY <2>5, <2>6, <2>7, <2>8 DEF Startup
  <1>17. sessions' # sessions
    BY DEF Fails
  <1>18. QED
    BY <1>6, <1>7, <1>8, <1>9, <1>10, <1>11, <1>12, <1>13, <1>14, <1>16, <1>17
    DEF Next, Continue, vars, Sessions

\* A 409 of a registration or of an edit tells the truth about the name.
THEOREM AccountsNameTaken == Spec => NameTakenIsTrue
  <1> DEFINE Step == \A c \in Slots :
                        Fails(c) /\ sessions[c].task \in {"register", "rename"}
                          => Taken(sessions[c].name)
  <1>1. AccountsInv /\ [Next]_vars => [Step]_vars
    BY Failing, AccountsAssumption DEF Sessions
  <1>2. QED
    BY <1>1, AccountsInvariant, PTL DEF Spec, NameTakenIsTrue

\* A command that fails finds done what it was called for, and so does a startup
\* that fails: with any number of commands and requests at the same time.
THEOREM AccountsCommandsDone == Spec => FailedCommandsAreDone
  <1> DEFINE Step == \A c \in Sessions :
                        Fails(c) =>
                           LET s == sessions[c] IN
                           CASE s.task \in {"grant", "regrant"} -> <<s.user, s.role>> \in grants
                             [] s.task = "revoke" -> <<s.user, s.role>> \notin grants
                             [] s.task \in {"seed", "start"} -> roles = RoleNames
                             [] OTHER -> Taken(s.name)
  <1>1. AccountsInv /\ [Next]_vars => [Step]_vars
    BY Failing, AccountsAssumption
  <1>2. QED
    BY <1>1, AccountsInvariant, PTL DEF Spec, FailedCommandsAreDone

-----------------------------------------------------------------------------
(* Refinement: a commit is a step of Directory, and nothing else is *)

LEMMA CommitImplements ==
    ASSUME AccountsAssumption, AccountsInv, NEW c \in Sessions, Commit(c)
    PROVE  [D!Next]_(D!vars)
  <1> DEFINE s == sessions[c]
  <1>1. /\ Tables /\ Sound(c, s) /\ s \in Session /\ s.at = "commit"
        /\ s.task \in {"seed", "register", "rename", "grant", "regrant", "revoke"}
    BY Current DEF Commit, AccountsInv, Sound, Shape, Session
  <1>2. roles' = RoleNames /\ D!RoleNames = RoleNames
    BY CommitTables DEF D!RoleNames, RoleNames
  <1>3. (\/ s.task \in {"rename", "grant", "regrant", "revoke"}
         \/ c # App /\ s.task = "register") => roles = RoleNames
    BY RolesAreThere
  <1>4. s.name \in Names /\ s.role \in RoleNames /\ D!Taken(s.name) = Taken(s.name)
    BY <1>1 DEF Session, D!Taken, Taken
  <1>5. CASE s.task = "seed"
    BY <1>2, <1>5 DEF Commit, D!Next, D!Seed
  <1>6. CASE s.task = "register"
    <2>1. D!AddUser(s.name, s.role)
      BY <1>1, <1>4, <1>6 DEF Commit, D!AddUser, Sound, Fits
    <2>2. CASE s.role = "user" /\ roles = RoleNames
      BY <1>2, <1>4, <2>1, <2>2 DEF D!Next, D!Register
    <2>3. CASE s.role = "admin" /\ s.name = AdminName
      BY <1>2, <2>1, <2>3 DEF D!Next, D!Seed
    <2>4. QED
      BY <1>1, <1>3, <1>6, <2>2, <2>3 DEF Sound, Shape, KnowsRoles
  <1>7. CASE s.task = "rename"
    <2>1. /\ s.user \in DOMAIN names /\ UNCHANGED <<roles, grants>>
          /\ names' = [names EXCEPT ![s.user] = s.name]
      <3>1. roles' = roles
        BY <1>2, <1>3, <1>7
      <3>2. QED
        BY <1>1, <1>7, <3>1 DEF Commit, Sound, Shape
    <2>2. CASE names[s.user] = s.name
      <3>1. names' = names
        BY <1>1, <2>1, <2>2 DEF Tables
      <3>2. QED
        BY <2>1, <3>1 DEF D!vars
    <2>3. CASE names[s.user] # s.name
      <3>1. ~Taken(s.name)
        BY <1>1, <1>7, <2>3 DEF Sound, Fits, Taken
      <3>2. D!Rename(s.user, s.name)
        BY <1>4, <2>1, <3>1 DEF D!Rename
      <3>3. QED
        BY <1>4, <2>1, <3>2 DEF D!Next
    <2>4. QED
      BY <2>2, <2>3
  <1>8. CASE s.task = "grant"
    <2>1. /\ s.user \in DOMAIN names /\ UNCHANGED <<roles, names>>
          /\ grants' = grants \cup {<<s.user, s.role>>} /\ <<s.user, s.role>> \notin grants
      <3>1. roles' = roles
        BY <1>2, <1>3, <1>8
      <3>2. QED
        BY <1>1, <1>8, <3>1 DEF Commit, Sound, Shape, Fits
    <2>2. D!Grant(s.user, s.role)
      BY <1>2, <1>4, <2>1 DEF D!Grant
    <2>3. QED
      BY <1>2, <1>4, <2>1, <2>2 DEF D!Next
  <1>9. CASE s.task = "regrant"
    <2>1. roles' = roles
      BY <1>2, <1>3, <1>9
    <2>2. names' = names /\ grants' = grants
      BY <1>9 DEF Commit
    <2>3. QED
      BY <2>1, <2>2 DEF D!vars
  <1>10. CASE s.task = "revoke"
    <2>1. /\ s.user \in DOMAIN names /\ UNCHANGED <<roles, names>>
          /\ grants' = grants \ {<<s.user, s.role>>} /\ <<s.user, s.role>> \in grants
      <3>1. roles' = roles
        BY <1>2, <1>3, <1>10
      <3>2. QED
        BY <1>1, <1>10, <3>1 DEF Commit, Sound, Shape, Fits
    <2>2. D!Revoke(s.user, s.role)
      BY <2>1 DEF D!Revoke
    <2>3. QED
      BY <1>2, <1>4, <2>1, <2>2 DEF D!Next
  <1>11. QED
    BY <1>1, <1>5, <1>6, <1>7, <1>8, <1>9, <1>10

LEMMA OnlyCommitsAreSeen ==
    ASSUME [Next]_vars, \A c \in Sessions : ~Commit(c)
    PROVE  UNCHANGED <<roles, names, grants>>
  <1>1. ASSUME OnlySessions PROVE UNCHANGED <<roles, names, grants>>
    BY <1>1 DEF OnlySessions, tables
  <1>2. ASSUME NEW c \in Sessions, Continue(c)
        PROVE  UNCHANGED <<roles, names, grants>>
    BY <1>1, <1>2
    DEF Continue, SelectRole, InsertRole, SelectAdmin, InsertUser, LockUser, UpdateName,
        InsertGrant, ShareUser, DeleteGrant, Deadlock, Exit
  <1>3. ASSUME NEW c \in Slots, Begin(c) \/ Kill(c)
        PROVE  UNCHANGED <<roles, names, grants>>
    BY <1>1, <1>3
    DEF Begin, Kill, Register, Rename, GrantRole, RevokeRole, SeedRoles, BeginTask
  <1>4. ASSUME Startup \/ StartApi \/ StopApi
        PROVE  UNCHANGED <<roles, names, grants>>
    BY <1>1, <1>4
    DEF Startup, StartFails, Down, DemoSkipped, DemoUser, DemoUsersDone, DemoRow, StartApi,
        StopApi, tables
  <1>5. QED
    BY <1>2, <1>3, <1>4 DEF Next, vars, tables

\* The transactions implement the atomic steps of Directory, for any number of
\* requests, commands and restarts that overlap.
THEOREM AccountsImplementDirectory == Spec => ImplementsDirectory
  <1>1. Init => D!Init
    BY DEF Init, D!Init
  <1>2. AccountsInv /\ [Next]_vars => [D!Next]_(D!vars)
    BY CommitImplements, OnlyCommitsAreSeen, AccountsAssumption DEF D!vars
  <1>3. QED
    BY <1>1, <1>2, AccountsInvariant, PTL DEF Spec, ImplementsDirectory, D!Spec

=============================================================================
