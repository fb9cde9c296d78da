-------------------------------- MODULE Accounts --------------------------------
(***************************************************************************)
(* users/service.py with its router, the guards of auth/dependencies.py    *)
(* and the handlers of auth/router.py: accounts, sessions and what         *)
(* administrators do to accounts.  The handlers run in threads: one looks  *)
(* (guard and checks) and then writes, and others look and write between.  *)
(* An id is used once.  The session is a cookie of the browser.            *)
(***************************************************************************)
CONSTANTS
    Browsers,
    Ids,          \* ids of accounts that will ever be
    Names,
    NoId

ASSUME AccountsAssumption == NoId \notin Ids

VARIABLES
    users,        \* the rows: of each id, or Unused, or Gone
    cookie,       \* per browser: the user_id of its session
    handler       \* per browser: the write that its request is about to make

accountVars == <<users, cookie, handler>>

Unused == [state |-> "unused"]
Gone == [state |-> "gone"]
User(name, role, password) ==
    [state |-> "there", name |-> name, role |-> role, password |-> password]
UserRows ==
    [state : {"there"}, name : Names, role : {"admin", "user"}, password : BOOLEAN]

Existing == {i \in Ids : users[i].state = "there"}
Named(n) == {i \in Existing : users[i].name = n}

NoWrite == [op |-> "idle"]
Write(op, id, seen, row) == [op |-> op, id |-> id, seen |-> seen, row |-> row]

Writes ==
    [op : {"register", "create", "update", "delete"}, id : Ids, seen : UserRows, row : UserRows]

\* A fresh installation.
AccountsInit ==
    /\ users = [i \in Ids |-> Unused]
    /\ cookie = [b \in Browsers |-> NoId]
    /\ handler = [b \in Browsers |-> NoWrite]

AccountsTypeOK ==
    /\ users \in [Ids -> UserRows \union {Unused, Gone}]
    /\ cookie \in [Browsers -> Ids \union {NoId}]
    /\ handler \in [Browsers -> {NoWrite} \union Writes]

-------------------------------------------------------------------------------
(* Looks.                                                                  *)

Ready(b, write) ==
    /\ handler[b] = NoWrite
    /\ handler' = [handler EXCEPT ![b] = write]
    /\ UNCHANGED <<users, cookie>>

\* SessionGuard([ADMIN]).
Admin(b) == cookie[b] \in Existing /\ users[cookie[b]].role = "admin"

\* SessionGuard and OptionalSessionGuard: a session whose user is gone is cleared.
ForgetSession(b) ==
    /\ handler[b] = NoWrite
    /\ cookie[b] \in Ids \ Existing
    /\ cookie' = [cookie EXCEPT ![b] = NoId]
    /\ UNCHANGED <<users, handler>>

NewId == {i \in Ids : users[i] = Unused /\ \A b \in Browsers : handler[b] = NoWrite \/ handler[b].id # i}

\* POST /auth/register: only while there is no account; the first is an administrator.
LookRegister(b, n) ==
    /\ Existing = {}
    /\ \E i \in NewId : LET new == User(n, "admin", TRUE) IN Ready(b, Write("register", i, new, new))

\* Only a user may do without a password.
LookCreate(b, n, role, password) ==
    /\ Admin(b) /\ Named(n) = {}
    /\ password \/ role = "user"
    /\ \E i \in NewId : LET new == User(n, role, password) IN Ready(b, Write("create", i, new, new))

\* PUT /users/{id}: a new name must be free, also of the account itself; the rest is free.  A new
\* API key is a change of nothing that is modelled.
Changed(row) == {new \in UserRows : new.name = row.name \/ Named(new.name) = {}}

LookUpdate(b, i) ==
    /\ Admin(b) /\ i \in Existing
    /\ \E new \in Changed(users[i]) : Ready(b, Write("update", i, users[i], new))

\* PUT /me: any user, everything but the role.
LookUpdateOwn(b) ==
    /\ cookie[b] \in Existing
    /\ \E new \in Changed(users[cookie[b]]) :
         /\ new.role = users[cookie[b]].role
         /\ Ready(b, Write("update", cookie[b], users[cookie[b]], new))

\* Mutant of NotOneself: an administrator may leave.
AnyAccount(b, i) == TRUE

NotOneself(b, i) == i # cookie[b]

LookDelete(b, i) ==
    /\ Admin(b) /\ i \in Existing /\ NotOneself(b, i)
    /\ Ready(b, Write("delete", i, users[i], users[i]))

-------------------------------------------------------------------------------
(* Writes.                                                                 *)

\* The unique index: a name that was free at the look and is taken now fails the request.
Clash(w) == \E j \in Named(w.row.name) : j # w.id

\* UPDATE of the columns that changed; a row that is gone fails the request.
Merged(w) ==
    [f \in DOMAIN w.row |-> IF w.row[f] = w.seen[f] THEN users[w.id][f] ELSE w.row[f]]

Apply(w) ==
    CASE w.op = "delete" /\ w.id \in Existing -> [users EXCEPT ![w.id] = Gone]
      [] w.op = "update" /\ w.id \in Existing /\ ~Clash(w) ->
           [users EXCEPT ![w.id] = Merged(w)]
      [] w.op \in {"register", "create"} /\ ~Clash(w) -> [users EXCEPT ![w.id] = w.row]
      [] OTHER -> users

\* What a registration has created is signed in.
CommitWrite(b) ==
    /\ handler[b] # NoWrite
    /\ users' = Apply(handler[b])
    /\ cookie' = IF handler[b].op = "register" /\ ~Clash(handler[b])
                 THEN [cookie EXCEPT ![b] = handler[b].id] ELSE cookie
    /\ handler' = [handler EXCEPT ![b] = NoWrite]

\* POST /auth/login, AuthService.validate: an account without a password cannot sign in.
Login(b, n) ==
    /\ handler[b] = NoWrite
    /\ \E i \in Named(n) : users[i].password /\ cookie' = [cookie EXCEPT ![b] = i]
    /\ UNCHANGED <<users, handler>>

Logout(b) ==
    /\ handler[b] = NoWrite /\ cookie[b] \in Existing
    /\ cookie' = [cookie EXCEPT ![b] = NoId]
    /\ UNCHANGED <<users, handler>>

AccountsNext ==
    \E b \in Browsers :
      \/ ForgetSession(b) \/ CommitWrite(b) \/ Logout(b) \/ LookUpdateOwn(b)
      \/ \E n \in Names :
           \/ LookRegister(b, n) \/ Login(b, n)
           \/ \E role \in {"admin", "user"}, password \in BOOLEAN : LookCreate(b, n, role, password)
      \/ \E i \in Ids : LookDelete(b, i) \/ LookUpdate(b, i)

AccountsSpec == AccountsInit /\ [][AccountsNext]_accountVars

-------------------------------------------------------------------------------
\* Once there is an account there is one for ever, so that registration stays closed: the last one
\* can only be deleted by an administrator who is deleted himself after he passed the guard
\* (users/service.py:139-147, auth/router.py:28).
LastAccount ==
    [][Existing # {} /\ Existing' = {}
         => \E b \in Browsers :
              /\ handler[b] # NoWrite /\ handler[b].op = "delete" /\ handler'[b] = NoWrite
              /\ users[cookie[b]] = Gone]_accountVars
===============================================================================
