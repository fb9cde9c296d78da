---------------------------- MODULE Handlers_proofs ----------------------------
(***************************************************************************)
(* Proofs about the components whose handlers look and write in separate   *)
(* steps: Accounts, Pairings, Playbacks and Preferences.                   *)
(***************************************************************************)
EXTENDS Accounts, Pairings, Playbacks, Preferences, Integers, FiniteSetTheorems,
        WellFoundedInduction, TLAPS

-------------------------------------------------------------------------------
(* Accounts.                                                               *)

\* A write that is about to be made comes from a session whose user has existed; a deletion is not
\* of the session's own user.
SessionOfWrite ==
    \A b \in Browsers :
      handler[b] # NoWrite /\ handler[b].op # "register"
        => /\ cookie[b] \in Ids /\ users[cookie[b]] # Unused
           /\ handler[b].op = "delete" => handler[b].id # cookie[b]

AccountsIInv == AccountsTypeOK /\ SessionOfWrite

\* The null write is none of the writes.
LEMMA NoWriteApart == \A w \in Writes : w # NoWrite
  BY DEF Writes, NoWrite

\* A table entry is a row, or unused, or gone, and these are different.
LEMMA UserStates ==
  /\ \A row \in UserRows : row.state = "there" /\ row # Unused /\ row # Gone
  /\ Unused # Gone /\ Unused.state # "there" /\ Gone.state # "there"
  BY DEF UserRows, Unused, Gone

\* What a row becomes by an update is a row: every column is as written or as it is by now.
LEMMA MergedRow ==
  ASSUME NEW w \in Writes, users[w.id] \in UserRows
  PROVE  Merged(w) \in UserRows
<1> DEFINE merged == Merged(w)
<1>1. DOMAIN w.row = {"state", "name", "role", "password"}
  BY DEF Writes, UserRows
<1>2. \A f \in DOMAIN w.row : merged[f] \in {w.row[f], users[w.id][f]}
  BY DEF Merged
<1>3. /\ merged["state"] \in {"there"} /\ merged["name"] \in Names
      /\ merged["role"] \in {"admin", "user"} /\ merged["password"] \in BOOLEAN
  <2>1. w.row \in UserRows
    BY DEF Writes
  <2> QED  BY <1>1, <1>2, <2>1 DEF UserRows
<1>4. merged = [state |-> merged["state"], name |-> merged["name"], role |-> merged["role"],
                password |-> merged["password"]]
  BY <1>1 DEF Merged
<1> QED  BY <1>3, <1>4 DEF UserRows


LEMMA ExistingRow ==
  ASSUME AccountsTypeOK, NEW i \in Existing
  PROVE  i \in Ids /\ users[i] \in UserRows /\ users[i] # Unused
  BY UserStates DEF Existing, AccountsTypeOK

\* A look that fits the session is a step that keeps the invariant.
LEMMA ReadyKeeps ==
  ASSUME AccountsIInv, NEW b \in Browsers, NEW w \in Writes, Ready(b, w),
         w.op # "register" => /\ cookie[b] \in Existing
                              /\ w.op = "delete" => w.id # cookie[b]
  PROVE  AccountsIInv'
<1>1. AccountsTypeOK'
  BY DEF AccountsIInv, AccountsTypeOK, Ready
<1>2. SessionOfWrite'
  <2> SUFFICES ASSUME NEW c \in Browsers, handler'[c] # NoWrite, handler'[c].op # "register"
               PROVE  /\ cookie[c] \in Ids /\ users[cookie[c]] # Unused
                      /\ handler'[c].op = "delete" => handler'[c].id # cookie[c]
    BY DEF SessionOfWrite, Ready
  <2>1. CASE c = b
    <3>1. handler'[b] = w
      BY DEF Ready, AccountsIInv, AccountsTypeOK
    <3> QED  BY <2>1, <3>1, ExistingRow DEF AccountsIInv
  <2>2. CASE c # b
    <3>1. handler'[c] = handler[c]
      BY <2>2 DEF Ready, AccountsIInv, AccountsTypeOK
    <3> QED  BY <3>1 DEF AccountsIInv, SessionOfWrite
  <2> QED  BY <2>1, <2>2
<1> QED  BY <1>1, <1>2 DEF AccountsIInv

LEMMA LookRegisterKeeps ==
  ASSUME AccountsIInv, NEW b \in Browsers, NEW n \in Names, LookRegister(b, n)
  PROVE  AccountsIInv'
<1>1. PICK i \in NewId : Ready(b, Write("register", i, User(n, "admin", TRUE), User(n, "admin", TRUE)))
  BY DEF LookRegister
<1> DEFINE w == Write("register", i, User(n, "admin", TRUE), User(n, "admin", TRUE))
<1>2. w \in Writes /\ w.op = "register"
  BY DEF Write, Writes, User, UserRows, NewId
<1> QED  BY <1>1, <1>2, ReadyKeeps

LEMMA LookCreateKeeps ==
  ASSUME AccountsIInv, NEW b \in Browsers, NEW n \in Names, NEW role \in {"admin", "user"},
         NEW password \in BOOLEAN, LookCreate(b, n, role, password)
  PROVE  AccountsIInv'
<1>1. PICK i \in NewId :
        Ready(b, Write("create", i, User(n, role, password), User(n, role, password)))
  BY DEF LookCreate
<1> DEFINE w == Write("create", i, User(n, role, password), User(n, role, password))
<1>2. w \in Writes /\ w.op = "create"
  BY DEF Write, Writes, User, UserRows, NewId
<1>3. cookie[b] \in Existing
  BY DEF LookCreate, Admin
<1> QED  BY <1>1, <1>2, <1>3, ReadyKeeps

\* What an update may ask for is a row.
LEMMA ChangedRows ==
  ASSUME NEW row \in UserRows, NEW new \in Changed(row)
  PROVE  new \in UserRows
  BY DEF Changed

LEMMA LookUpdateKeeps ==
  ASSUME AccountsIInv, NEW b \in Browsers, NEW i \in Existing, cookie[b] \in Existing,
         NEW new \in Changed(users[i]), Ready(b, Write("update", i, users[i], new))
  PROVE  AccountsIInv'
<1>1. users[i] \in UserRows /\ i \in Ids
  BY ExistingRow DEF AccountsIInv
<1>2. new \in UserRows
  BY <1>1, ChangedRows
<1> DEFINE w == Write("update", i, users[i], new)
<1>3. w \in Writes /\ w.op = "update"
  BY <1>1, <1>2 DEF Write, Writes
<1> QED  BY <1>3, ReadyKeeps

LEMMA LookDeleteKeeps ==
  ASSUME AccountsIInv, NEW b \in Browsers, NEW i \in Ids, LookDelete(b, i)
  PROVE  AccountsIInv'
<1>1. users[i] \in UserRows
  BY ExistingRow DEF AccountsIInv, LookDelete
<1> DEFINE w == Write("delete", i, users[i], users[i])
<1>2. w \in Writes /\ w.op = "delete" /\ w.id = i
  BY <1>1 DEF Write, Writes
<1>3. cookie[b] \in Existing /\ i # cookie[b] /\ Ready(b, w)
  BY DEF LookDelete, Admin, NotOneself
<1> QED  BY <1>2, <1>3, ReadyKeeps

\* A write leaves rows where there were rows, and never takes an id back to unused.
LEMMA ApplyTable ==
  ASSUME AccountsTypeOK, NEW w \in Writes
  PROVE  /\ Apply(w) \in [Ids -> UserRows \union {Unused, Gone}]
         /\ \A i \in Ids : users[i] # Unused => Apply(w)[i] # Unused
         /\ \A i \in Existing : w.op # "delete" \/ w.id # i => Apply(w)[i].state = "there"
<1>1. CASE w.op = "delete" /\ w.id \in Existing
  <2>1. Apply(w) = [users EXCEPT ![w.id] = Gone]
    BY <1>1 DEF Apply
  <2> QED  BY <1>1, <2>1, UserStates DEF AccountsTypeOK, Existing
<1>2. CASE w.op = "update" /\ w.id \in Existing /\ ~Clash(w)
  <2>1. Apply(w) = [users EXCEPT ![w.id] = Merged(w)]
    BY <1>2 DEF Apply
  <2>2. Merged(w) \in UserRows
    BY <1>2, ExistingRow, MergedRow
  <2> QED  BY <1>2, <2>1, <2>2, UserStates DEF AccountsTypeOK, Existing
<1>3. CASE w.op \in {"register", "create"} /\ ~Clash(w)
  <2>1. Apply(w) = [users EXCEPT ![w.id] = w.row]
    BY <1>3 DEF Apply
  <2>2. w.row \in UserRows /\ w.id \in Ids
    BY DEF Writes
  <2> QED  BY <1>3, <2>1, <2>2, UserStates DEF AccountsTypeOK, Existing
<1>4. CASE Apply(w) = users
  BY <1>4 DEF AccountsTypeOK, Existing
<1> QED  BY <1>1, <1>2, <1>3, <1>4 DEF Apply

LEMMA CommitWriteKeeps ==
  ASSUME AccountsIInv, NEW b \in Browsers, CommitWrite(b)
  PROVE  AccountsIInv'
<1>1. handler[b] \in Writes
  BY DEF AccountsIInv, AccountsTypeOK, CommitWrite
<1>2. AccountsTypeOK'
  <2>1. users' \in [Ids -> UserRows \union {Unused, Gone}]
    BY <1>1, ApplyTable DEF CommitWrite, AccountsIInv
  <2>2. cookie' \in [Browsers -> Ids \union {NoId}]
    BY <1>1 DEF CommitWrite, AccountsIInv, AccountsTypeOK, Writes
  <2>3. handler' \in [Browsers -> {NoWrite} \union Writes]
    BY DEF CommitWrite, AccountsIInv, AccountsTypeOK
  <2> QED  BY <2>1, <2>2, <2>3 DEF AccountsTypeOK
<1>3. SessionOfWrite'
  <2> SUFFICES ASSUME NEW c \in Browsers, handler'[c] # NoWrite, handler'[c].op # "register"
               PROVE  /\ cookie'[c] \in Ids /\ users'[cookie'[c]] # Unused
                      /\ handler'[c].op = "delete" => handler'[c].id # cookie'[c]
    BY DEF SessionOfWrite
  <2>1. c # b /\ handler'[c] = handler[c]
    BY DEF CommitWrite, AccountsIInv, AccountsTypeOK
  <2>2. cookie'[c] = cookie[c]
    BY <2>1 DEF CommitWrite, AccountsIInv, AccountsTypeOK
  <2>3. cookie[c] \in Ids /\ users[cookie[c]] # Unused
    BY <2>1 DEF AccountsIInv, SessionOfWrite
  <2>4. users'[cookie[c]] # Unused
    BY <1>1, <2>3, ApplyTable DEF CommitWrite, AccountsIInv
  <2> QED  BY <2>1, <2>2, <2>3, <2>4 DEF AccountsIInv, SessionOfWrite
<1> QED  BY <1>2, <1>3 DEF AccountsIInv

\* Signing in and out changes the session of a browser that has no request under way.
LEMMA SessionKeeps ==
  ASSUME AccountsIInv, NEW b \in Browsers, NEW i \in Ids \union {NoId},
         handler[b] = NoWrite, cookie' = [cookie EXCEPT ![b] = i], UNCHANGED <<users, handler>>
  PROVE  AccountsIInv'
<1>1. AccountsTypeOK'
  BY DEF AccountsIInv, AccountsTypeOK
<1>2. \A c \in Browsers : c # b => cookie'[c] = cookie[c]
  BY DEF AccountsIInv, AccountsTypeOK
<1>3. SessionOfWrite'
  BY <1>2 DEF AccountsIInv, SessionOfWrite
<1> QED  BY <1>1, <1>3 DEF AccountsIInv

LEMMA AccountsStepKeeps ==
  ASSUME AccountsIInv, AccountsNext
  PROVE  AccountsIInv'
<1>1. PICK b \in Browsers :
        \/ ForgetSession(b) \/ CommitWrite(b) \/ Logout(b) \/ LookUpdateOwn(b)
        \/ \E n \in Names :
             \/ LookRegister(b, n) \/ Login(b, n)
             \/ \E role \in {"admin", "user"}, password \in BOOLEAN : LookCreate(b, n, role, password)
        \/ \E i \in Ids : LookDelete(b, i) \/ LookUpdate(b, i)
  BY DEF AccountsNext
<1>2. CASE ForgetSession(b) \/ Logout(b)
  BY <1>2, SessionKeeps DEF ForgetSession, Logout
<1>3. CASE CommitWrite(b)
  BY <1>3, CommitWriteKeeps
<1>4. CASE LookUpdateOwn(b)
  BY <1>4, LookUpdateKeeps DEF LookUpdateOwn
<1>5. CASE \E n \in Names : LookRegister(b, n)
  BY <1>5, LookRegisterKeeps
<1>6. CASE \E n \in Names : Login(b, n)
  BY <1>6, SessionKeeps DEF Login, Named, Existing
<1>7. CASE \E n \in Names, role \in {"admin", "user"}, password \in BOOLEAN :
             LookCreate(b, n, role, password)
  BY <1>7, LookCreateKeeps
<1>8. CASE \E i \in Ids : LookDelete(b, i)
  BY <1>8, LookDeleteKeeps
<1>9. CASE \E i \in Ids : LookUpdate(b, i)
  BY <1>9, LookUpdateKeeps DEF LookUpdate, Admin
<1> QED  BY <1>1, <1>2, <1>3, <1>4, <1>5, <1>6, <1>7, <1>8, <1>9

\* The table, the sessions and the writes that are about to be made have their types, and the
\* writes fit the sessions they come from (users/service.py, auth/dependencies.py).
THEOREM AccountsInvariance == AccountsSpec => []AccountsIInv
<1>1. AccountsInit => AccountsIInv
  BY DEF AccountsInit, AccountsIInv, AccountsTypeOK, SessionOfWrite
<1>2. AccountsIInv /\ [AccountsNext]_accountVars => AccountsIInv'
  <2>1. CASE AccountsNext
    BY <2>1, AccountsStepKeeps
  <2>2. CASE UNCHANGED accountVars
    BY <2>2 DEF AccountsIInv, AccountsTypeOK, SessionOfWrite, accountVars
  <2> QED  BY <2>1, <2>2
<1> QED  BY <1>1, <1>2, PTL DEF AccountsSpec

\* Only the write of a deletion takes the last account, and its own session's account is another
\* one, which must therefore have gone before.
LEMMA LastAccountStep ==
  ASSUME AccountsIInv, AccountsNext, Existing # {}, Existing' = {}
  PROVE  \E b \in Browsers :
           /\ handler[b] # NoWrite /\ handler[b].op = "delete" /\ handler'[b] = NoWrite
           /\ users[cookie[b]] = Gone
<1>1. users' # users
  BY DEF Existing
<1>2. PICK b \in Browsers : CommitWrite(b)
  BY <1>1 DEF AccountsNext, ForgetSession, Logout, LookUpdateOwn, LookRegister, Login, LookCreate,
              LookDelete, LookUpdate, Ready
<1>3. handler[b] \in Writes /\ handler'[b] = NoWrite /\ users' = Apply(handler[b])
  BY <1>2 DEF AccountsIInv, AccountsTypeOK, CommitWrite
<1>4. \A i \in Existing : handler[b].op = "delete" /\ handler[b].id = i
  <2> SUFFICES ASSUME NEW i \in Existing, handler[b].op # "delete" \/ handler[b].id # i
               PROVE  FALSE
    OBVIOUS
  <2>1. users'[i].state = "there"
    BY <1>3, ApplyTable DEF AccountsIInv
  <2> QED  BY <2>1 DEF Existing
<1>5. handler[b].op = "delete"
  BY <1>4
<1>6. handler[b] # NoWrite
  BY <1>3, NoWriteApart
<1>7. cookie[b] \in Ids /\ users[cookie[b]] # Unused /\ handler[b].id # cookie[b]
  BY <1>5, <1>6 DEF AccountsIInv, SessionOfWrite
<1>8. cookie[b] \notin Existing
  BY <1>4, <1>7
<1>9. users[cookie[b]] = Gone
  BY <1>7, <1>8, UserStates DEF AccountsIInv, AccountsTypeOK, Existing
<1> QED  BY <1>3, <1>5, <1>6, <1>9

\* Registration stays closed: the last account only goes by the hand of an administrator who was
\* deleted after the guard had let him pass (users/service.py:139-147, auth/router.py:28).
THEOREM LastAccountHolds == AccountsSpec => LastAccount
<1>1. AccountsIInv /\ [AccountsNext]_accountVars
        => [Existing # {} /\ Existing' = {}
             => \E b \in Browsers :
                  /\ handler[b] # NoWrite /\ handler[b].op = "delete" /\ handler'[b] = NoWrite
                  /\ users[cookie[b]] = Gone]_accountVars
  BY LastAccountStep
<1> QED  BY <1>1, AccountsInvariance, PTL DEF AccountsSpec, LastAccount

-------------------------------------------------------------------------------
(* Pairings.                                                               *)

\* The row of a device has the code that it shows.
RowShown == \A d \in Stored : asking[d].pc = "over" /\ pairing[d].code = shown[d]

\* The history knows of a device that has chosen a code every row with that code.
RowsKnown ==
    \A d \in Devices :
      /\ asking[d].pc = "idle" => asking[d].since = {}
      /\ asking[d].pc = "chosen" =>
           \A f \in Stored : pairing[f].code = asking[d].code => f \in asking[d].since

\* Two rows have one code only if their devices asked for it at the same time.
CodesApart ==
    \A d, f \in Stored : d # f /\ pairing[d].code = pairing[f].code => Together(d, f)

\* What a user is about to link has, or had, the code of the device in front of them.
EntryShown ==
    \A u \in Owners :
      entry[u].device \in Devices
        => /\ entry[u].found \in Devices
           /\ entry[u].found = entry[u].device \/ Together(entry[u].device, entry[u].found)

PairingsIInv == PairingsTypeOK /\ RowShown /\ RowsKnown /\ CodesApart /\ EntryShown

\* The history only grows.
LEMMA EntryKept ==
  ASSUME PairingsIInv, \A d, f \in Devices : f \in asking[d].since => f \in asking'[d].since,
         \A u \in Owners : entry'[u] = entry[u] \/ entry'[u] = NoEntry
  PROVE  EntryShown'
<1> SUFFICES ASSUME NEW u \in Owners, entry'[u].device \in Devices
             PROVE  /\ entry'[u].found \in Devices
                    /\ \/ entry'[u].found = entry'[u].device
                       \/ entry'[u].found \in asking'[entry'[u].device].since
                       \/ entry'[u].device \in asking'[entry'[u].found].since
  BY DEF EntryShown, Together
<1>1. entry'[u] = entry[u]
  BY PairingsAssumption DEF NoEntry
<1>2. /\ entry[u].found \in Devices
      /\ \/ entry[u].found = entry[u].device
         \/ entry[u].found \in asking[entry[u].device].since
         \/ entry[u].device \in asking[entry[u].found].since
  BY <1>1 DEF PairingsIInv, EntryShown, Together
<1> QED  BY <1>1, <1>2

\* Rows may go or change anything but their code, and entries end.
LEMMA RowsKept ==
  ASSUME PairingsIInv, PairingsTypeOK', UNCHANGED <<shown, asking>>,
         \A d \in Stored' : d \in Stored /\ pairing'[d].code = pairing[d].code,
         \A u \in Owners : entry'[u] = entry[u] \/ entry'[u] = NoEntry
  PROVE  PairingsIInv'
<1>1. EntryShown'
  BY EntryKept
<1>2. RowShown'
  BY DEF PairingsIInv, RowShown
<1>3. RowsKnown'
  BY DEF PairingsIInv, RowsKnown
<1>4. CodesApart'
  BY DEF PairingsIInv, CodesApart, Together
<1> QED  BY <1>1, <1>2, <1>3, <1>4 DEF PairingsIInv

LEMMA ChooseCodeKeeps ==
  ASSUME PairingsIInv, NEW d \in Devices, ChooseCode(d)
  PROVE  PairingsIInv'
<1>1. PICK c \in FreeCodes :
        asking' = [asking EXCEPT ![d] = [pc |-> "chosen", code |-> c, since |-> {}]]
  BY DEF ChooseCode
<1>2. asking[d].pc = "idle" /\ UNCHANGED <<pairing, shown, entry, token, owners>> /\ Stored' = Stored
  BY DEF ChooseCode, Stored
<1>3. c \in Codes /\ \A f \in Stored : pairing[f].code # c
  BY DEF FreeCodes, WithCode
<1>4. d \notin Stored
  BY <1>2 DEF PairingsIInv, RowShown
<1>5. PairingsTypeOK'
  BY <1>1, <1>2, <1>3 DEF PairingsIInv, PairingsTypeOK
<1>6. /\ \A e \in Devices : e # d => asking'[e] = asking[e]
      /\ asking'[d] = [pc |-> "chosen", code |-> c, since |-> {}]
  BY <1>1 DEF PairingsIInv, PairingsTypeOK
<1>7. RowShown'
  BY <1>2, <1>4, <1>6 DEF PairingsIInv, RowShown, Stored
<1>8. RowsKnown'
  BY <1>2, <1>3, <1>6 DEF PairingsIInv, RowsKnown
<1>9. \A e, f \in Devices : f \in asking[e].since => f \in asking'[e].since
  BY <1>2, <1>6 DEF PairingsIInv, RowsKnown
<1>10. CodesApart'
  BY <1>2, <1>9 DEF PairingsIInv, CodesApart, Together, Stored
<1>11. EntryShown'
  BY <1>2, <1>9, EntryKept
<1> QED  BY <1>5, <1>7, <1>8, <1>10, <1>11 DEF PairingsIInv

LEMMA InsertPairingKeeps ==
  ASSUME PairingsIInv, NEW d \in Devices, InsertPairing(d)
  PROVE  PairingsIInv'
<1> DEFINE new == [NoRow EXCEPT !.code = asking[d].code, !.status = "pending"]
<1>1. /\ asking[d].pc = "chosen"
      /\ pairing' = [pairing EXCEPT ![d] = new]
      /\ shown' = [shown EXCEPT ![d] = asking[d].code]
      /\ UNCHANGED <<entry, token, owners>>
  BY DEF InsertPairing
<1>2. new # NoRow /\ new.code = asking[d].code
  BY DEF NoRow
<1>3. /\ asking'[d].pc = "over" /\ asking'[d].since = asking[d].since
      /\ \A e \in Devices : e # d =>
           /\ asking'[e].pc = asking[e].pc /\ asking'[e].code = asking[e].code
           /\ asking[e].pc = "chosen" => asking'[e].since = asking[e].since \union {d}
           /\ asking[e].pc # "chosen" => asking'[e].since = asking[e].since
  BY DEF InsertPairing, PairingsIInv, PairingsTypeOK
<1>4. /\ \A e \in Devices : e # d => pairing'[e] = pairing[e] /\ shown'[e] = shown[e]
      /\ pairing'[d] = new /\ shown'[d] = asking[d].code
  BY <1>1 DEF PairingsIInv, PairingsTypeOK
<1>5. Stored' = Stored \union {d}
  BY <1>2, <1>4 DEF Stored
<1>6. PairingsTypeOK'
  <2>1. new \in PairingRows
    BY DEF PairingRows, NoRow, PairingsIInv, PairingsTypeOK
  <2>2. asking' \in [Devices -> [pc : {"idle", "chosen", "over"}, code : Codes \union {Nothing},
                                 since : SUBSET Devices]]
    BY DEF InsertPairing, PairingsIInv, PairingsTypeOK
  <2> QED  BY <1>1, <2>1, <2>2 DEF PairingsIInv, PairingsTypeOK
<1>7. d \notin Stored
  BY <1>1 DEF PairingsIInv, RowShown
<1>8. \A e, f \in Devices : f \in asking[e].since => f \in asking'[e].since
  BY <1>3 DEF PairingsIInv, PairingsTypeOK
<1>9. RowShown'
  BY <1>2, <1>3, <1>4, <1>5 DEF PairingsIInv, RowShown, Stored
<1>10. RowsKnown'
  <2> SUFFICES ASSUME NEW e \in Devices
               PROVE  /\ asking'[e].pc = "idle" => asking'[e].since = {}
                      /\ asking'[e].pc = "chosen" =>
                           \A f \in Stored' : pairing'[f].code = asking'[e].code => f \in asking'[e].since
    BY DEF RowsKnown
  <2>1. CASE e = d
    BY <1>3, <2>1
  <2>2. CASE e # d /\ asking[e].pc = "chosen"
    <3> SUFFICES ASSUME NEW f \in Stored', pairing'[f].code = asking'[e].code
                 PROVE  f \in asking'[e].since
      BY <1>3, <2>2
    <3>1. CASE f = d
      BY <1>3, <2>2, <3>1
    <3>2. CASE f # d
      BY <1>3, <1>4, <1>5, <2>2, <3>2 DEF PairingsIInv, RowsKnown, Stored
    <3> QED  BY <3>1, <3>2
  <2>3. CASE e # d /\ asking[e].pc # "chosen"
    BY <1>3, <2>3 DEF PairingsIInv, RowsKnown
  <2> QED  BY <2>1, <2>2, <2>3
<1>11. CodesApart'
  <2> SUFFICES ASSUME NEW e \in Stored', NEW f \in Stored', e # f, pairing'[e].code = pairing'[f].code
               PROVE  f \in asking'[e].since \/ e \in asking'[f].since
    BY DEF CodesApart, Together
  <2>1. CASE e # d /\ f # d
    BY <1>4, <1>5, <1>8, <2>1 DEF PairingsIInv, CodesApart, Together, Stored
  <2>2. ASSUME NEW g \in Stored, pairing[g].code = asking[d].code
        PROVE  g \in asking'[d].since
    BY <1>1, <1>3, <2>2 DEF PairingsIInv, RowsKnown
  <2>3. CASE e = d
    <3>1. f \in Stored /\ pairing[f].code = asking[d].code
      BY <1>2, <1>4, <1>5, <2>3 DEF Stored
    <3> QED  BY <2>2, <2>3, <3>1
  <2>4. CASE f = d
    <3>1. e \in Stored /\ pairing[e].code = asking[d].code
      BY <1>2, <1>4, <1>5, <2>4 DEF Stored
    <3> QED  BY <2>2, <2>4, <3>1
  <2> QED  BY <2>1, <2>3, <2>4
<1>12. EntryShown'
  BY <1>1, <1>8, EntryKept
<1> QED  BY <1>6, <1>9, <1>10, <1>11, <1>12 DEF PairingsIInv

\* A row that is over its time, and one that is linked.
LEMMA OldRow ==
  ASSUME NEW row \in PairingRows
  PROVE  [row EXCEPT !.old = TRUE] \in PairingRows
  BY Zenon DEF PairingRows

LEMMA LinkedRow ==
  ASSUME NEW row \in PairingRows, NEW u \in Owners
  PROVE  [code |-> row.code, status |-> "linked", user |-> u, old |-> row.old] \in PairingRows
  BY DEF PairingRows

LEMMA ExpiresKeeps ==
  ASSUME PairingsIInv, NEW d \in Devices, Expires(d)
  PROVE  PairingsIInv'
<1>1. pairing[d].code = pairing'[d].code /\ \A e \in Devices : e # d => pairing'[e] = pairing[e]
  BY DEF Expires, PairingsIInv, PairingsTypeOK
<1>2. \A e \in Stored' : e \in Stored /\ pairing'[e].code = pairing[e].code
  BY <1>1 DEF Expires, Stored
<1>3. PairingsTypeOK'
  <2>1. [pairing[d] EXCEPT !.old = TRUE] \in PairingRows
    BY OldRow DEF PairingsIInv, PairingsTypeOK
  <2> QED  BY <2>1 DEF Expires, PairingsIInv, PairingsTypeOK
<1> QED  BY <1>2, <1>3, RowsKept DEF Expires

LEMMA PollKeeps ==
  ASSUME PairingsIInv, NEW d \in Devices, Poll(d)
  PROVE  PairingsIInv'
<1>1. PairingsTypeOK'
  BY DEF Poll, PairingsIInv, PairingsTypeOK
<1> QED  BY <1>1, RowsKept DEF Poll, Stored

LEMMA EnterCodeKeeps ==
  ASSUME PairingsIInv, NEW u \in Owners, NEW d \in Devices, EnterCode(u, d)
  PROVE  PairingsIInv'
<1>1. UNCHANGED <<pairing, shown, asking, token, owners>> /\ Stored' = Stored
  BY DEF EnterCode, Stored
<1>2. CASE UNCHANGED entry
  <2>1. PairingsTypeOK'
    BY <1>1, <1>2 DEF PairingsIInv, PairingsTypeOK
  <2> QED  BY <1>1, <1>2, <2>1, RowsKept
<1>3. ASSUME NEW f \in WithCode(shown[d]),
             entry' = [entry EXCEPT ![u] =
                         IF pairing[f].old THEN NoEntry
                         ELSE [pc |-> "linking", device |-> IF d \in Stored THEN d ELSE Nothing,
                               found |-> f]]
      PROVE  PairingsIInv'
  <2>1. f \in Devices
    BY DEF WithCode, Stored
  <2>2. PairingsTypeOK'
    BY <1>1, <1>3, <2>1 DEF PairingsIInv, PairingsTypeOK, NoEntry
  <2>3. CASE pairing[f].old \/ d \notin Stored
    <3>1. entry'[u].device = Nothing /\ \A v \in Owners : v # u => entry'[v] = entry[v]
      BY <1>3, <2>3 DEF PairingsIInv, PairingsTypeOK, NoEntry
    <3>2. EntryShown'
      BY <1>1, <3>1, PairingsAssumption DEF PairingsIInv, EntryShown, Together
    <3> QED  BY <1>1, <2>2, <3>2 DEF PairingsIInv, RowShown, RowsKnown, CodesApart, Together
  <2>4. CASE ~pairing[f].old /\ d \in Stored
    <3>1. /\ entry'[u].device = d /\ entry'[u].found = f
          /\ \A v \in Owners : v # u => entry'[v] = entry[v]
      BY <1>3, <2>4 DEF PairingsIInv, PairingsTypeOK
    <3>2. f = d \/ Together(d, f)
      BY <2>4 DEF WithCode, PairingsIInv, RowShown, CodesApart
    <3>3. EntryShown'
      BY <1>1, <2>1, <3>1, <3>2 DEF PairingsIInv, EntryShown, Together
    <3> QED  BY <1>1, <2>2, <3>3 DEF PairingsIInv, RowShown, RowsKnown, CodesApart, Together
  <2> QED  BY <2>3, <2>4
<1> QED  BY <1>2, <1>3 DEF EnterCode

LEMMA LinkKeeps ==
  ASSUME PairingsIInv, NEW u \in Owners, Link(u)
  PROVE  PairingsIInv'
<1> DEFINE f == entry[u].found
           linked == [code |-> pairing[f].code, status |-> "linked", user |-> u, old |-> pairing[f].old]
<1>1. /\ UNCHANGED <<shown, asking, token, owners>>
      /\ entry' = [entry EXCEPT ![u] = NoEntry]
      /\ \/ pairing' = pairing
         \/ f \in Stored /\ pairing' = [pairing EXCEPT ![f] = linked]
  BY DEF Link
<1>2. \A e \in Devices : pairing'[e].code = pairing[e].code /\ (e # f => pairing'[e] = pairing[e])
  BY <1>1 DEF PairingsIInv, PairingsTypeOK, Stored
<1>3. \A e \in Stored' : e \in Stored /\ pairing'[e].code = pairing[e].code
  BY <1>1, <1>2 DEF Stored
<1>4. PairingsTypeOK'
  <2>1. ASSUME f \in Stored
        PROVE  linked \in PairingRows
    BY <2>1, LinkedRow DEF PairingsIInv, PairingsTypeOK, Stored
  <2>2. pairing' \in [Devices -> PairingRows]
    BY <1>1, <2>1 DEF PairingsIInv, PairingsTypeOK
  <2> QED  BY <1>1, <2>2 DEF PairingsIInv, PairingsTypeOK, NoEntry
<1>5. \A v \in Owners : entry'[v] = entry[v] \/ entry'[v] = NoEntry
  BY <1>1 DEF PairingsIInv, PairingsTypeOK
<1> QED  BY <1>1, <1>3, <1>4, <1>5, RowsKept

\* The hourly job, and the deletion of a user.
LEMMA RowsGoKeeps ==
  ASSUME PairingsIInv, UNCHANGED <<shown, asking, entry, token>>, owners' \subseteq owners,
         pairing' = [d \in Devices |-> pairing'[d]],
         \A d \in Devices : pairing'[d] = NoRow \/ pairing'[d] = pairing[d]
  PROVE  PairingsIInv'
<1>1. \A e \in Stored' : e \in Stored /\ pairing'[e].code = pairing[e].code
  BY DEF Stored
<1>2. PairingsTypeOK'
  <2>1. NoRow \in PairingRows
    BY DEF NoRow, PairingRows
  <2>2. pairing' \in [Devices -> PairingRows]
    BY <2>1 DEF PairingsIInv, PairingsTypeOK
  <2> QED  BY <2>2 DEF PairingsIInv, PairingsTypeOK
<1> QED  BY <1>1, <1>2, RowsKept

LEMMA PairingsStepKeeps ==
  ASSUME PairingsIInv, PairingsNext
  PROVE  PairingsIInv'
<1>1. CASE \E d \in Devices : ChooseCode(d) \/ InsertPairing(d) \/ Expires(d) \/ Poll(d)
  BY <1>1, ChooseCodeKeeps, InsertPairingKeeps, ExpiresKeeps, PollKeeps
<1>2. CASE \E u \in Owners : Link(u)
  BY <1>2, LinkKeeps
<1>3. CASE \E u \in Owners, d \in Devices : EnterCode(u, d)
  BY <1>3, EnterCodeKeeps
<1>4. CASE \E u \in Owners : DeleteOwner(u)
  <2>1. PICK u \in Owners : DeleteOwner(u)
    BY <1>4
  <2>2. pairing' = [d \in Devices |-> IF pairing[d].user = u THEN NoRow ELSE pairing[d]]
    BY <2>1 DEF DeleteOwner
  <2>3. /\ pairing' = [d \in Devices |-> pairing'[d]]
        /\ \A d \in Devices : pairing'[d] = NoRow \/ pairing'[d] = pairing[d]
    BY <2>2
  <2> QED  BY <2>1, <2>3, RowsGoKeeps DEF DeleteOwner
<1>5. CASE CleanUp
  <2>1. pairing' = [d \in Devices |-> IF pairing[d].old THEN NoRow ELSE pairing[d]]
    BY <1>5 DEF CleanUp
  <2>2. /\ pairing' = [d \in Devices |-> pairing'[d]]
        /\ \A d \in Devices : pairing'[d] = NoRow \/ pairing'[d] = pairing[d]
    BY <2>1
  <2> QED  BY <1>5, <2>2, RowsGoKeeps DEF CleanUp
<1> QED  BY <1>1, <1>2, <1>3, <1>4, <1>5 DEF PairingsNext

\* Rows have their types and the codes that are shown, two of them share a code only when their
\* devices asked at the same time, and a user links what they see (pairings/service.py:24-103).
THEOREM PairingsInvariance == PairingsSpec => []PairingsIInv
<1>1. PairingsInit => PairingsIInv
  BY PairingsAssumption DEF PairingsInit, PairingsIInv, PairingsTypeOK, RowShown, RowsKnown, CodesApart,
     EntryShown, Stored, NoRow, NoEntry, PairingRows
<1>2. PairingsIInv /\ [PairingsNext]_pairingVars => PairingsIInv'
  <2>1. CASE PairingsNext
    BY <2>1, PairingsStepKeeps
  <2>2. CASE UNCHANGED pairingVars
    BY <2>2 DEF PairingsIInv, PairingsTypeOK, RowShown, RowsKnown, CodesApart, EntryShown, Stored,
       Together, pairingVars
  <2> QED  BY <2>1, <2>2
<1> QED  BY <1>1, <1>2, PTL DEF PairingsSpec

\* A code links the device that it was read from, or one that asked for its code at the same time.
THEOREM LinkedAsSeenHolds == PairingsSpec => LinkedAsSeen
<1>1. PairingsIInv /\ [PairingsNext]_pairingVars
        => [\A u \in Owners :
              entry[u].pc = "linking" /\ entry'[u].pc = "idle" /\ entry[u].device \in Stored
                => entry[u].found = entry[u].device
                     \/ Together(entry[u].device, entry[u].found)]_pairingVars
  BY DEF PairingsIInv, EntryShown, Stored
<1> QED  BY <1>1, PairingsInvariance, PTL DEF PairingsSpec, LinkedAsSeen

-------------------------------------------------------------------------------
(* Playbacks.                                                              *)

\* Of any of the starts that overlapped no other, not only of all: when the rest have ended, what
\* is left is still within the limit of one that is left.
AloneAllowed ==
    \A u \in Viewers : \A some \in SUBSET Alone(u) :
      some # {} => \E s \in some : Allows(s, some)

PlaybacksIInv == PlaybacksTypeOK /\ AloneAllowed

LEMMA NoStartTyped ==
  ASSUME NEW pc \in {"idle", "over"}
  PROVE  /\ NoStart(pc) \in Starts
         /\ NoStart(pc).pc = pc
         /\ NoStart(pc).pc \notin {"verified", "playing"} \union Starting
  BY DEF NoStart, Starts, NoLimit, Starting

\* A request that is under way has a record of its own.
LEMMA UnderWayOf ==
  ASSUME NEW row \in Starts, row.pc \in {"verified", "playing"} \union Starting
  PROVE  row \in UnderWay
  BY NoStartTyped DEF Starts

LEMMA StartChanges ==
  ASSUME NEW row \in UnderWay, NEW flag \in BOOLEAN, NEW pc \in {"saving", "playing"}
  PROVE  /\ [row EXCEPT !.pc = pc] \in Starts
         /\ [row EXCEPT !.pc = "preparing", !.overlapped = flag] \in Starts
<1>1. [row EXCEPT !.pc = pc] \in UnderWay
  BY SMT DEF UnderWay, Starting
<1>2. [row EXCEPT !.pc = "preparing", !.overlapped = flag] \in UnderWay
  BY Zenon DEF UnderWay, Starting
<1> QED  BY <1>1, <1>2 DEF Starts

\* Starts end, or get on: the others are as they were.
LEMMA StartsKept ==
  ASSUME PlaybacksIInv, PlaybacksTypeOK',
         \A u \in Viewers : \A s \in Alone(u)' :
           s \in Alone(u) /\ start'[s].play = start[s].play /\ start'[s].lim = start[s].lim
  PROVE  PlaybacksIInv'
<1> SUFFICES ASSUME NEW u \in Viewers, NEW some \in SUBSET (Alone(u)'), some # {}
             PROVE  \E s \in some : \/ start'[s].lim = NoLimit
                                   \/ Cardinality({start'[t].play : t \in some}) <= start'[s].lim
  BY DEF PlaybacksIInv, AloneAllowed, Allows
<1>1. \A s \in some : start'[s].play = start[s].play /\ start'[s].lim = start[s].lim
  OBVIOUS
<1>2. {start'[t].play : t \in some} = {start[t].play : t \in some}
  BY <1>1
<1>3. some \in SUBSET Alone(u)
  OBVIOUS
<1>4. PICK s \in some : start[s].lim = NoLimit \/ Cardinality({start[t].play : t \in some}) <= start[s].lim
  BY <1>3 DEF PlaybacksIInv, AloneAllowed, Allows
<1> QED  BY <1>1, <1>2, <1>4

\* Only one start changes, and it ends or goes on as it is.
LEMMA OneStart ==
  ASSUME PlaybacksIInv, NEW s \in Streams, NEW new \in Starts, start' = [start EXCEPT ![s] = new],
         UNCHANGED <<limit, viewers, stored, changes>>, histories' \subseteq [play : PlayIds, user : Viewers],
         \/ new.pc \notin Starting \union {"playing"}
         \/ /\ start[s].pc \in Starting \union {"playing"} /\ new.user = start[s].user
            /\ new.play = start[s].play /\ new.lim = start[s].lim
            /\ new.overlapped = start[s].overlapped /\ new.hidden = start[s].hidden
  PROVE  PlaybacksIInv'
<1>1. PlaybacksTypeOK'
  BY DEF PlaybacksIInv, PlaybacksTypeOK
<1>2. start'[s] = new /\ \A t \in Streams : t # s => start'[t] = start[t]
  BY DEF PlaybacksIInv, PlaybacksTypeOK
<1>3. \A u \in Viewers : \A t \in Alone(u)' :
        t \in Alone(u) /\ start'[t].play = start[t].play /\ start'[t].lim = start[t].lim
  BY <1>2 DEF Alone
<1> QED  BY <1>1, <1>3, StartsKept

LEMMA VerifyKeeps ==
  ASSUME PlaybacksIInv, NEW s \in Streams, NEW u \in Viewers, Verify(s, u)
  PROVE  PlaybacksIInv'
<1> DEFINE verified == [pc |-> "verified", user |-> u, play |-> PlayOf(s), lim |-> limit[u],
                     overlapped |-> FALSE, hidden |-> FALSE]
<1>1. verified \in Starts /\ verified.pc = "verified"
  <2>1. limit[u] \in Nat
    BY PlaybacksAssumption DEF PlaybacksIInv, PlaybacksTypeOK, NoLimit
  <2>2. verified \in UnderWay
    BY <2>1, PlaybacksAssumption DEF UnderWay
  <2> QED  BY <2>2 DEF Starts
<1>2. PICK new \in {verified, NoStart("over")} : start' = [start EXCEPT ![s] = new]
  BY DEF Verify
<1>3. new \in Starts /\ new.pc \notin Starting \union {"playing"}
  BY <1>1, NoStartTyped DEF Starting
<1>4. histories' \subseteq [play : PlayIds, user : Viewers] /\ UNCHANGED <<limit, viewers, stored, changes>>
  BY DEF Verify, PlaybacksIInv, PlaybacksTypeOK
<1> QED  BY <1>2, <1>3, <1>4, OneStart

\* The playbacks of a set of starts are finitely many.
LEMMA PlaysFinite ==
  ASSUME NEW some \in SUBSET Streams
  PROVE  IsFiniteSet({start[t].play : t \in some})
<1> DEFINE plays == {start[t].play : t \in some}
           playOf == [t \in some |-> start[t].play]
<1>1. IsFiniteSet(some)
  BY PlaybacksAssumption, FS_Subset
<1>2. playOf \in Surjection(some, plays)
  BY DEF Surjection
<1> QED  BY <1>1, <1>2, FS_Surjection

\* Who is let in overlapping no other is within his own limit, together with any of those that
\* overlapped no other: they play what he plays, or were counted.
LEMMA LetInWithin ==
  ASSUME PlaybacksIInv, NEW s \in Streams, start[s].pc = "verified", ~AtLimit(s), start[s].lim # NoLimit,
         NEW some \in SUBSET Streams,
         \A t \in some : t = s \/ t \in {a \in Active : start[a].user = start[s].user}
                                \/ start[t].play = start[s].play
  PROVE  Cardinality({start[t].play : t \in some}) <= start[s].lim
<1> DEFINE others == OtherPlays(start[s].user, start[s].play)
           plays == {start[t].play : t \in some}
<1>1. plays \subseteq others \union {start[s].play}
  BY DEF OtherPlays
<1>2. IsFiniteSet(others)
  <2> DEFINE counted == {t \in Active : start[t].user = start[s].user}
  <2>1. IsFiniteSet({start[t].play : t \in counted})
    BY PlaysFinite DEF Active
  <2> QED  BY <2>1, FS_Subset DEF OtherPlays
<1> HIDE DEF others
<1>3. Cardinality(others) \in Nat /\ Cardinality(plays) \in Nat /\ start[s].lim \in Nat
  BY <1>2, FS_CardinalityType, PlaysFinite, UnderWayOf DEF PlaybacksIInv, PlaybacksTypeOK, UnderWay
<1>4. Cardinality(others) < start[s].lim
  BY <1>3 DEF AtLimit, others
<1> DEFINE all == others \union {start[s].play}
<1>5. IsFiniteSet(all) /\ (Cardinality(all) = Cardinality(others) \/ Cardinality(all) = Cardinality(others) + 1)
  <2> DEFINE x == start[s].play
  <2>1. /\ IsFiniteSet(others \union {x})
        /\ Cardinality(others \union {x}) = IF x \in others THEN Cardinality(others) ELSE Cardinality(others) + 1
    <3> HIDE DEF x
    <3> QED  BY <1>2, FS_AddElement
  <2> QED  BY <2>1
<1>6. Cardinality(plays) <= Cardinality(all)
  BY <1>1, <1>5, FS_Subset
<1> HIDE DEF all, plays
<1> QED  BY <1>3, <1>4, <1>5, <1>6 DEF plays

LEMMA CheckLimitKeeps ==
  ASSUME PlaybacksIInv, NEW s \in Streams, CheckLimit(s)
  PROVE  PlaybacksIInv'
<1> DEFINE before == {t \in Streams : /\ start[t].pc \in Starting
                                      /\ start[t].user = start[s].user
                                      /\ start[t].play # start[s].play}
           flag == before # {}
           new == [start[s] EXCEPT !.pc = "preparing", !.overlapped = flag]
<1>1. start[s] \in UnderWay /\ start[s].pc = "verified"
  BY UnderWayOf DEF PlaybacksIInv, PlaybacksTypeOK, CheckLimit
<1>2. UNCHANGED <<limit, viewers, stored, histories, changes>>
  BY DEF CheckLimit
<1>3. CASE AtLimit(s)
  <2>1. start' = [start EXCEPT ![s] = NoStart("over")]
    BY <1>3 DEF CheckLimit
  <2>2. /\ NoStart("over") \in Starts
        /\ NoStart("over").pc \notin Starting \union {"playing"}
    BY NoStartTyped DEF Starting
  <2> QED  BY <1>2, <2>1, <2>2, OneStart DEF PlaybacksIInv, PlaybacksTypeOK
<1>4. CASE ~AtLimit(s)
  <2>1. start' = [start EXCEPT ![s] = new]
    BY <1>4 DEF CheckLimit
  <2>2. flag \in BOOLEAN
    OBVIOUS
  <2>3. new \in Starts
    BY <1>1, <2>2, StartChanges
  <2>4. /\ new.user = start[s].user /\ new.play = start[s].play /\ new.lim = start[s].lim
        /\ new.overlapped = flag /\ new.hidden = start[s].hidden
    BY <1>1 DEF UnderWay
  <2>5. start'[s] = new /\ \A t \in Streams : t # s => start'[t] = start[t]
    BY <2>1 DEF PlaybacksIInv, PlaybacksTypeOK
  <2>6. PlaybacksTypeOK'
    BY <1>2, <2>1, <2>3 DEF PlaybacksIInv, PlaybacksTypeOK
  <2> SUFFICES ASSUME NEW u \in Viewers, NEW some \in SUBSET (Alone(u)'), some # {}
               PROVE  \E t \in some : \/ start'[t].lim = NoLimit
                                     \/ Cardinality({start'[r].play : r \in some}) <= start'[t].lim
    BY <2>6 DEF PlaybacksIInv, AloneAllowed, Allows
  <2>7. \A t \in Streams : start'[t].play = start[t].play /\ start'[t].lim = start[t].lim
                          /\ start'[t].user = start[t].user
    BY <2>4, <2>5
  <2>8. some \subseteq Streams /\ {start'[r].play : r \in some} = {start[r].play : r \in some}
    BY <2>7 DEF Alone
  <2>9. CASE s \notin some
    <3>1. some \in SUBSET Alone(u)
      BY <2>5, <2>9 DEF Alone
    <3>2. PICK t \in some : start[t].lim = NoLimit \/ Cardinality({start[r].play : r \in some}) <= start[t].lim
      BY <3>1 DEF PlaybacksIInv, AloneAllowed, Allows
    <3> QED  BY <2>7, <2>8, <3>2
  <2>10. CASE s \in some
    <3>1. start[s].user = u /\ before = {}
      BY <2>4, <2>5, <2>10 DEF Alone
    <3>2. \A t \in some : t = s \/ t \in {a \in Active : start[a].user = start[s].user}
                                \/ start[t].play = start[s].play
      BY <2>5, <2>8, <3>1 DEF Alone, Active
    <3>3. start[s].lim = NoLimit \/ Cardinality({start[r].play : r \in some}) <= start[s].lim
      BY <1>1, <1>4, <2>8, <3>2, LetInWithin
    <3> QED  BY <2>7, <2>8, <2>10, <3>3
  <2> QED  BY <2>9, <2>10
<1> QED  BY <1>3, <1>4

\* A start goes on as it is, or ends.
LEMMA GoesOnOrEnds ==
  ASSUME PlaybacksIInv, NEW s \in Streams, start[s].pc \in Starting \union {"playing"},
         UNCHANGED <<limit, viewers, stored, changes>>, histories' \subseteq [play : PlayIds, user : Viewers],
         \/ \E pc \in {"saving", "playing"} : start' = [start EXCEPT ![s].pc = pc]
         \/ start' = [start EXCEPT ![s] = NoStart("over")]
  PROVE  PlaybacksIInv'
<1>1. start[s] \in UnderWay
  BY UnderWayOf DEF PlaybacksIInv, PlaybacksTypeOK
<1>2. ASSUME NEW pc \in {"saving", "playing"}, start' = [start EXCEPT ![s].pc = pc]
      PROVE  PlaybacksIInv'
  <2> DEFINE new == [start[s] EXCEPT !.pc = pc]
  <2>1. new \in Starts
    BY <1>1, StartChanges
  <2>2. /\ new.user = start[s].user /\ new.play = start[s].play /\ new.lim = start[s].lim
        /\ new.overlapped = start[s].overlapped /\ new.hidden = start[s].hidden
    BY <1>1 DEF UnderWay
  <2>3. start' = [start EXCEPT ![s] = new]
    BY <1>2
  <2> HIDE DEF new
  <2> QED  BY <2>1, <2>2, <2>3, OneStart
<1>3. ASSUME start' = [start EXCEPT ![s] = NoStart("over")]
      PROVE  PlaybacksIInv'
  <2>1. /\ NoStart("over") \in Starts
        /\ NoStart("over").pc \notin Starting \union {"playing"}
    BY NoStartTyped DEF Starting
  <2> QED  BY <1>3, <2>1, OneStart
<1> QED  BY <1>2, <1>3

LEMMA SaveAndRegisterKeeps ==
  ASSUME PlaybacksIInv, NEW s \in Streams, SaveAndRegister(s)
  PROVE  PlaybacksIInv'
<1>1. start[s] \in UnderWay /\ start[s].pc = "saving"
  BY UnderWayOf DEF PlaybacksIInv, PlaybacksTypeOK, SaveAndRegister, Starting
<1>2. histories' \subseteq [play : PlayIds, user : Viewers]
  BY <1>1 DEF PlaybacksIInv, PlaybacksTypeOK, SaveAndRegister, HistoriesAfter, UnderWay
<1> QED  BY <1>1, <1>2, GoesOnOrEnds DEF SaveAndRegister, Starting

\* Hiding a start takes it out of those that are alone, and changes nothing else of any.
LEMMA HideTyped ==
  ASSUME PlaybacksIInv, NEW h
  PROVE  /\ Hide(h) \in [Streams -> Starts]
         /\ \A s \in Streams :
              /\ Hide(h)[s].pc = start[s].pc /\ Hide(h)[s].user = start[s].user
              /\ Hide(h)[s].play = start[s].play /\ Hide(h)[s].lim = start[s].lim
              /\ Hide(h)[s].overlapped = start[s].overlapped
              /\ ~Hide(h)[s].hidden => ~start[s].hidden
              /\ Hide(h)[s] = start[s] \/ start[s].pc \in {"saving", "playing"}
<1>1. ASSUME NEW s \in Streams, start[s].pc \in {"saving", "playing"}
      PROVE  /\ [start[s] EXCEPT !.hidden = TRUE] \in Starts
             /\ [start[s] EXCEPT !.hidden = TRUE].pc = start[s].pc
             /\ [start[s] EXCEPT !.hidden = TRUE].user = start[s].user
             /\ [start[s] EXCEPT !.hidden = TRUE].play = start[s].play
             /\ [start[s] EXCEPT !.hidden = TRUE].lim = start[s].lim
             /\ [start[s] EXCEPT !.hidden = TRUE].overlapped = start[s].overlapped
             /\ [start[s] EXCEPT !.hidden = TRUE].hidden
  <2>1. start[s] \in UnderWay
    BY <1>1, UnderWayOf DEF PlaybacksIInv, PlaybacksTypeOK, Starting
  <2>2. [start[s] EXCEPT !.hidden = TRUE] \in UnderWay
    BY <2>1, Zenon DEF UnderWay
  <2> QED  BY <2>1, <2>2 DEF UnderWay, Starts
<1>2. start \in [Streams -> Starts]
  BY DEF PlaybacksIInv, PlaybacksTypeOK
<1> QED  BY <1>1, <1>2 DEF Hide

\* The file of the start that adds a torrent is one of the new object.
LEMMA AddTorrentKeeps ==
  ASSUME PlaybacksIInv, NEW s \in Streams, AddTorrent(s)
  PROVE  PlaybacksIInv'
<1> DEFINE h == HashOf(ReleaseOf(start[s].play))
           hiding == Hide(h)
<1>1. start[s] \in UnderWay /\ start[s].pc = "preparing"
  BY UnderWayOf DEF PlaybacksIInv, PlaybacksTypeOK, AddTorrent, Starting
<1>2. /\ UNCHANGED <<limit, viewers, histories, changes>>
      /\ stored' \subseteq {ReleaseOf(p) : p \in PlayIds}
  BY <1>1 DEF AddTorrent, PlaybacksIInv, PlaybacksTypeOK, UnderWay
<1>3. hiding \in [Streams -> Starts] /\ hiding[s] = start[s]
  BY <1>1, HideTyped
<1>4. PICK new \in {[start[s] EXCEPT !.pc = "saving"], NoStart("over")} :
        start' = [hiding EXCEPT ![s] = new]
  <2>1. \/ start' = [hiding EXCEPT ![s] = [hiding[s] EXCEPT !.pc = "saving"]]
        \/ start' = [hiding EXCEPT ![s] = NoStart("over")]
    BY DEF AddTorrent
  <2> QED  BY <1>3, <2>1
<1>5. /\ new \in Starts
      /\ \/ new.pc \notin Starting \union {"playing"}
         \/ /\ new.user = start[s].user /\ new.play = start[s].play /\ new.lim = start[s].lim
            /\ new.overlapped = start[s].overlapped /\ new.hidden = start[s].hidden
  <2>1. CASE new = NoStart("over")
    BY <2>1, NoStartTyped
  <2>2. CASE new = [start[s] EXCEPT !.pc = "saving"]
    BY <1>1, <2>2, StartChanges DEF UnderWay
  <2> QED  BY <2>1, <2>2
<1>6. \A t \in Streams :
        /\ hiding[t].pc = start[t].pc /\ hiding[t].user = start[t].user
        /\ hiding[t].play = start[t].play /\ hiding[t].lim = start[t].lim
        /\ hiding[t].overlapped = start[t].overlapped
        /\ ~hiding[t].hidden => ~start[t].hidden
  BY HideTyped
<1> HIDE DEF hiding
<1>7. start'[s] = new /\ \A t \in Streams : t # s => start'[t] = hiding[t]
  BY <1>3, <1>4
<1>8. PlaybacksTypeOK'
  BY <1>2, <1>3, <1>4, <1>5 DEF PlaybacksIInv, PlaybacksTypeOK
<1>9. \A u \in Viewers : \A t \in Alone(u)' :
        t \in Alone(u) /\ start'[t].play = start[t].play /\ start'[t].lim = start[t].lim
  BY <1>1, <1>5, <1>6, <1>7 DEF Alone, Starting
<1> QED  BY <1>8, <1>9, StartsKept

LEMMA DeleteTorrentKeeps ==
  ASSUME PlaybacksIInv, NEW h, DeleteTorrent(h)
  PROVE  PlaybacksIInv'
<1>1. PlaybacksTypeOK'
  BY HideTyped DEF DeleteTorrent, PlaybacksIInv, PlaybacksTypeOK
<1>2. \A u \in Viewers : \A t \in Alone(u)' :
        t \in Alone(u) /\ start'[t].play = start[t].play /\ start'[t].lim = start[t].lim
  BY HideTyped DEF DeleteTorrent, Alone
<1> QED  BY <1>1, <1>2, StartsKept

LEMMA PlaybacksStepKeeps ==
  ASSUME PlaybacksIInv, PlaybacksNext
  PROVE  PlaybacksIInv'
<1>1. CASE \E s \in Streams, u \in Viewers : Verify(s, u)
  BY <1>1, VerifyKeeps
<1>2. CASE \E s \in Streams : CheckLimit(s)
  BY <1>2, CheckLimitKeeps
<1>3. CASE \E s \in Streams : FindTorrent(s)
  BY <1>3, GoesOnOrEnds DEF FindTorrent, Starting, PlaybacksIInv, PlaybacksTypeOK
<1>4. CASE \E s \in Streams : SaveAndRegister(s)
  BY <1>4, SaveAndRegisterKeeps
<1>5. CASE \E s \in Streams : EndStream(s)
  BY <1>5, GoesOnOrEnds DEF EndStream, PlaybacksIInv, PlaybacksTypeOK
<1>6. CASE \E u \in Viewers, n \in NoLimit..MaxLimit : SetLimit(u, n)
  <2>1. PlaybacksTypeOK' /\ UNCHANGED start
    BY <1>6, PlaybacksAssumption DEF SetLimit, PlaybacksIInv, PlaybacksTypeOK
  <2> QED  BY <2>1, StartsKept DEF Alone
<1>7. CASE \E u \in Viewers : DeleteViewer(u)
  <2>1. PlaybacksTypeOK' /\ UNCHANGED start
    BY <1>7, PlaybacksAssumption DEF DeleteViewer, PlaybacksIInv, PlaybacksTypeOK
  <2> QED  BY <2>1, StartsKept DEF Alone
<1>8. CASE \E s \in Streams : AddTorrent(s)
  BY <1>8, AddTorrentKeeps
<1>9. CASE \E p \in PlayIds : DeleteTorrent(HashOf(ReleaseOf(p)))
  BY <1>9, DeleteTorrentKeeps
<1> QED  BY <1>1, <1>2, <1>3, <1>4, <1>5, <1>6, <1>7, <1>8, <1>9 DEF PlaybacksNext

\* However starts, ends, additions and deletions of torrents and changes of the limit mix, the starts
\* that overlapped no other and whose Torrent object is the relay's are within the limit that one
\* of them was held against, and so is every set of some of them (playbacks/service.py:39-59).
THEOREM PlaybacksInvariance == PlaybacksSpec => []PlaybacksIInv
<1>1. PlaybacksInit => PlaybacksIInv
  <2> SUFFICES ASSUME PlaybacksInit
               PROVE  PlaybacksIInv
    OBVIOUS
  <2>1. start = [s \in Streams |-> NoStart("idle")]
    BY DEF PlaybacksInit
  <2>2. \A u : Alone(u) = {}
    BY <2>1 DEF Alone, NoStart, Starting
  <2>3. NoStart("idle") \in Starts
    BY NoStartTyped
  <2>4. PlaybacksTypeOK
    BY <2>1, <2>3, PlaybacksAssumption DEF PlaybacksInit, PlaybacksTypeOK, NoLimit
  <2> QED  BY <2>2, <2>4 DEF PlaybacksIInv, AloneAllowed
<1>2. PlaybacksIInv /\ [PlaybacksNext]_playbackVars => PlaybacksIInv'
  <2>1. CASE PlaybacksNext
    BY <2>1, PlaybacksStepKeeps
  <2>2. CASE UNCHANGED playbackVars
    BY <2>2, StartsKept DEF PlaybacksIInv, PlaybacksTypeOK, Alone, playbackVars
  <2> QED  BY <2>1, <2>2
<1> QED  BY <1>1, <1>2, PTL DEF PlaybacksSpec

\* A user plays more than the limit allowed only through starts that overlap and streams of a Torrent
\* object that the relay has replaced or dropped.
THEOREM OverrunNeedsOverlapHolds == PlaybacksSpec => []OverrunNeedsOverlap
<1>1. PlaybacksIInv => OverrunNeedsOverlap
  BY DEF PlaybacksIInv, AloneAllowed, OverrunNeedsOverlap
<1> QED  BY <1>1, PlaybacksInvariance, PTL

-------------------------------------------------------------------------------
(* Preferences.                                                            *)

\* The rows of owner o are numbered from zero, in any table.
Exact(table, o) ==
    {table[d].order : d \in RowsOf(table, o)} = 0..(Cardinality(RowsOf(table, o)) - 1)

PreferencesIInv == PreferencesTypeOK /\ \A o \in PrefOwners \ disturbed : Exact(defs, o)

LEMMA RowsOfOwner ==
  ASSUME NEW table, NEW o \in PrefOwners
  PROVE  /\ RowsOf(table, o) = {d \in Definitions : table[d].owner = o}
         /\ IsFiniteSet(RowsOf(table, o)) /\ Cardinality(RowsOf(table, o)) \in Nat
<1>1. RowsOf(table, o) = {d \in Definitions : table[d].owner = o}
  BY PreferencesAssumption DEF RowsOf, NoDef
<1>2. IsFiniteSet(RowsOf(table, o))
  BY PreferencesAssumption, FS_Subset DEF RowsOf
<1> QED  BY <1>1, <1>2, FS_CardinalityType

\* Whose rows and orders are as they were is numbered as before.
LEMMA SameRows ==
  ASSUME NEW table, NEW after, NEW o \in PrefOwners, Exact(table, o),
         \A d \in Definitions : after[d].owner = o <=> table[d].owner = o,
         \A d \in Definitions : table[d].owner = o => after[d].order = table[d].order
  PROVE  Exact(after, o)
<1>1. RowsOf(after, o) = RowsOf(table, o)
  BY RowsOfOwner
<1>2. \A d \in RowsOf(table, o) : after[d].order = table[d].order
  BY RowsOfOwner
<1>3. {after[d].order : d \in RowsOf(table, o)} = {table[d].order : d \in RowsOf(table, o)}
  BY <1>2
<1> QED  BY <1>1, <1>3 DEF Exact

\* An enumeration of a finite set without waste does not repeat.
LEMMA EnumerationInjective ==
  ASSUME NEW S, IsFiniteSet(S), NEW s \in [1..Cardinality(S) -> S],
         \A x \in S : \E i \in 1..Cardinality(S) : s[i] = x
  PROVE  \A i, j \in 1..Cardinality(S) : s[i] = s[j] => i = j
<1> DEFINE n == Cardinality(S)
<1>1. n \in Nat
  BY FS_CardinalityType
<1>2. IsFiniteSet(1..n) /\ Cardinality(1..n) = n
  BY <1>1, FS_Interval
<1>3. s \in Surjection(1..n, S)
  BY DEF Surjection
<1>4. s \in Injection(1..n, S)
  BY <1>2, <1>3, FS_SurjSameCardinalityImpliesInj
<1> QED  BY <1>4 DEF Injection, IsInjective

\* Rows that get their places in such an enumeration, less one, are numbered from zero.
LEMMA PlacesExact ==
  ASSUME NEW table, NEW o \in PrefOwners, NEW s \in [1..Cardinality(RowsOf(table, o)) -> RowsOf(table, o)],
         \A i \in 1..Cardinality(RowsOf(table, o)) : table[s[i]].order = i - 1,
         \A d \in RowsOf(table, o) : \E i \in 1..Cardinality(RowsOf(table, o)) : s[i] = d
  PROVE  Exact(table, o)
<1> DEFINE rows == RowsOf(table, o)
           n == Cardinality(rows)
<1>1. n \in Nat
  BY RowsOfOwner
<1>2. \A k \in 0..(n - 1) : k + 1 \in 1..n /\ table[s[k + 1]].order = k
  BY <1>1
<1>3. \A d \in rows : \E k \in 0..(n - 1) : table[d].order = k
  <2> SUFFICES ASSUME NEW d \in rows
               PROVE  \E k \in 0..(n - 1) : table[d].order = k
    OBVIOUS
  <2>1. PICK i \in 1..n : s[i] = d
    OBVIOUS
  <2> QED  BY <1>1, <2>1
<1>4. \A k \in 0..(n - 1) : \E d \in rows : table[d].order = k
  BY <1>2
<1> HIDE DEF rows, n
<1>5. {table[d].order : d \in rows} = 0..(n - 1)
  BY <1>3, <1>4
<1> QED  BY <1>5 DEF Exact, rows, n

\* A set of natural numbers that is not empty has a least one.
LEMMA LeastNumber ==
  ASSUME NEW numbers \in SUBSET Nat, numbers # {}
  PROVE  \E m \in numbers : \A k \in numbers : m <= k
<1> DEFINE less == OpToRel(<, Nat)
<1>1. IsWellFoundedOn(less, Nat)
  BY NatLessThanWellFounded
<1>2. PICK m \in numbers : \A k \in numbers : <<k, m>> \notin less
  <2> HIDE DEF less
  <2> QED  BY <1>1, WFMin
<1>3. \A k \in numbers : ~(k < m)
  <2> SUFFICES ASSUME NEW k \in numbers, k < m
               PROVE  FALSE
    OBVIOUS
  <2>1. <<k, m>> \in Nat \X Nat /\ <<k, m>>[1] = k /\ <<k, m>>[2] = m
    OBVIOUS
  <2>2. <<k, m>> \in less
    BY <2>1 DEF OpToRel
  <2> QED  BY <1>2, <2>2
<1> QED  BY <1>3

\* What is in a list has a last place there.
LEMMA LastPlace ==
  ASSUME NEW items \in Seq(Definitions), NEW d, NEW place \in DOMAIN items, items[place] = d
  PROVE  \E i \in DOMAIN items :
           items[i] = d /\ \A j \in DOMAIN items : items[j] = d => j <= i
<1> DEFINE fromEnd == {k \in Nat : k < Len(items) /\ items[Len(items) - k] = d}
<1>1. Len(items) \in Nat /\ DOMAIN items = 1..Len(items)
  OBVIOUS
<1>2. Len(items) - place \in fromEnd
  <2>1. Len(items) - place \in Nat /\ Len(items) - place < Len(items)
    BY <1>1
  <2>2. Len(items) - (Len(items) - place) = place
    BY <1>1
  <2> QED  BY <2>1, <2>2
<1>3. PICK m \in fromEnd : \A k \in fromEnd : m <= k
  BY <1>2, LeastNumber
<1>4. Len(items) - m \in DOMAIN items /\ items[Len(items) - m] = d
  BY <1>1, <1>3
<1>5. ASSUME NEW j \in DOMAIN items, items[j] = d
      PROVE  j <= Len(items) - m
  <2>1. Len(items) - j \in Nat /\ Len(items) - j < Len(items) /\ Len(items) - (Len(items) - j) = j
    BY <1>1, <1>5
  <2>2. Len(items) - j \in fromEnd
    BY <1>5, <2>1
  <2>3. m <= Len(items) - j
    BY <1>3, <2>2
  <2> QED  BY <1>1, <1>3, <2>3
<1> QED  BY <1>4, <1>5

\* NewOrders gives every listed row a place of its own in the list, less one.
LEMMA NewOrdersPlace ==
  ASSUME NEW items \in Seq(Definitions), NEW d \in DOMAIN NewOrders(items)
  PROVE  \E i \in DOMAIN items :
           /\ items[i] = d /\ NewOrders(items)[d] = i - 1 /\ i - 1 \in Nat
           /\ \A j \in DOMAIN items : items[j] = d => j <= i
<1>1. PICK place \in DOMAIN items : items[place] = d
  BY DEF NewOrders
<1> DEFINE last(i) == items[i] = d /\ \A j \in DOMAIN items : items[j] = d => j <= i
           chosen == CHOOSE i \in DOMAIN items : last(i)
<1>2. \E i \in DOMAIN items : last(i)
  BY <1>1, LastPlace
<1>3. chosen \in DOMAIN items /\ last(chosen)
  <2> HIDE DEF last
  <2> QED  BY <1>2
<1>4. NewOrders(items)[d] = chosen - 1
  BY DEF NewOrders
<1>5. chosen - 1 \in Nat
  BY <1>3
<1> QED  BY <1>3, <1>4, <1>5

\* What changing one part of a row leaves.
LEMMA RowChanges ==
  ASSUME NEW row \in DefRows
  PROVE  /\ \A n \in Nat : LET new == [row EXCEPT !.order = n]
                           IN new \in DefRows /\ new.owner = row.owner /\ new.order = n
         /\ \A held \in SUBSET Attributes : LET new == [row EXCEPT !.attributes = held]
                           IN new \in DefRows /\ new.owner = row.owner /\ new.order = row.order
         /\ LET new == [row EXCEPT !.owner = Nobody]
            IN new \in DefRows /\ new.owner = Nobody /\ new.order = row.order
BY DEF DefRows

LEMMA RowTyped ==
  ASSUME PreferencesTypeOK, NEW d \in Definitions, defs[d] # NoDef
  PROVE  defs[d] \in DefRows
BY DEF PreferencesTypeOK

LEMMA RowOfTyped ==
  ASSUME PreferencesTypeOK, NEW o, NEW d \in RowsOf(defs, o)
  PROVE  d \in Definitions /\ defs[d] \in DefRows /\ defs[d].owner = o /\ defs[d].order \in Nat
<1>1. d \in Definitions /\ defs[d] # NoDef /\ defs[d].owner = o
  BY DEF RowsOf
<1>2. defs[d] \in DefRows
  BY <1>1, RowTyped
<1> QED  BY <1>1, <1>2 DEF DefRows

LEMMA LookCreateDefinitionKeeps ==
  ASSUME PreferencesIInv, NEW e \in Editors, NEW o \in PrefOwners, NEW c \in Categories,
         LookCreateDefinition(e, o, c)
  PROVE  PreferencesIInv'
<1> DEFINE new == [op |-> "create", owner |-> o, category |-> c]
<1>1. new \in Creations
  BY DEF Creations
<1>2. edit' = [edit EXCEPT ![e] = new] /\ UNCHANGED <<defs, disturbed>>
  BY DEF LookCreateDefinition
<1> HIDE DEF new
<1>3. PreferencesTypeOK'
  BY <1>1, <1>2 DEF PreferencesIInv, PreferencesTypeOK
<1> QED  BY <1>2, <1>3 DEF PreferencesIInv, Exact, RowsOf

LEMMA LookReorderKeeps ==
  ASSUME PreferencesIInv, NEW e \in Editors, NEW o \in PrefOwners, NEW ids \in IdLists,
         LookReorder(e, o, ids)
  PROVE  PreferencesIInv'
<1>1. PICK item \in [{ids[i] : i \in DOMAIN ids} -> Definitions] :
         edit' = [edit EXCEPT ![e] =
                    [op |-> "reorder", owner |-> o,
                     items |-> [i \in DOMAIN ids |-> item[ids[i]]],
                     seen |-> [d \in RowsOf(defs, o) |-> defs[d].order]]]
  BY DEF LookReorder
<1> DEFINE items == [i \in DOMAIN ids |-> item[ids[i]]]
           seen == [d \in RowsOf(defs, o) |-> defs[d].order]
           new == [op |-> "reorder", owner |-> o, items |-> items, seen |-> seen]
<1>2. PICK n \in 1..MaxIds : ids \in [1..n -> Categories]
  BY DEF IdLists
<1>3. items \in Seq(Definitions)
  BY <1>2
<1>4. seen \in [RowsOf(defs, o) -> Nat] /\ RowsOf(defs, o) \in SUBSET Definitions
  BY RowOfTyped DEF PreferencesIInv, RowsOf
<1>5. edit' = [edit EXCEPT ![e] = new] /\ UNCHANGED <<defs, disturbed>>
  BY <1>1 DEF LookReorder
<1> HIDE DEF items, seen
<1>6. seen \in UNION {[rows -> Nat] : rows \in SUBSET Definitions}
  BY <1>4
<1>7. new \in Reorders
  BY <1>3, <1>6 DEF Reorders
<1> HIDE DEF new
<1>8. PreferencesTypeOK'
  BY <1>5, <1>7 DEF PreferencesIInv, PreferencesTypeOK
<1> QED  BY <1>5, <1>8 DEF PreferencesIInv, Exact, RowsOf

LEMMA WriteCreateDefinitionKeeps ==
  ASSUME PreferencesIInv, NEW e \in Editors, NEW attributes \in SUBSET Attributes,
         WriteCreateDefinition(e, attributes)
  PROVE  PreferencesIInv'
<1> DEFINE o == edit[e].owner
           rows == RowsOf(defs, o)
           n == Cardinality(rows)
           new == [owner |-> o, category |-> edit[e].category, order |-> n, attributes |-> attributes]
<1>1. edit[e] \in Creations
  BY DEF PreferencesIInv, PreferencesTypeOK, WriteCreateDefinition, NoEdit, Reorders
<1>2. o \in PrefOwners /\ edit[e].category \in Categories
  BY <1>1 DEF Creations
<1>3. n \in Nat /\ IsFiniteSet(rows)
  BY <1>2, RowsOfOwner
<1>4. new \in DefRows /\ new.owner = o /\ new.order = n
  BY <1>2, <1>3 DEF DefRows
<1>5. PICK d \in Definitions :
         /\ defs[d] = NoDef
         /\ defs' = [defs EXCEPT ![d] = new]
  BY DEF WriteCreateDefinition, NextOrder
<1>6. edit' = [edit EXCEPT ![e] = NoEdit] /\ UNCHANGED disturbed
  BY DEF WriteCreateDefinition
<1> HIDE DEF new
<1>7. PreferencesTypeOK'
  BY <1>4, <1>5, <1>6 DEF PreferencesIInv, PreferencesTypeOK
<1>8. defs'[d] = new /\ \A x \in Definitions : x # d => defs'[x] = defs[x]
  BY <1>5 DEF PreferencesIInv, PreferencesTypeOK
<1>9. defs[d].owner = Nobody
  BY <1>5 DEF NoDef
<1>10. ASSUME NEW p \in PrefOwners \ disturbed, p # o
       PROVE  Exact(defs', p)
  <2>1. \A x \in Definitions : defs'[x].owner = p <=> defs[x].owner = p
    BY <1>4, <1>8, <1>9, <1>10, PreferencesAssumption
  <2>2. \A x \in Definitions : defs[x].owner = p => defs'[x].order = defs[x].order
    BY <1>8, <1>9, <1>10, PreferencesAssumption
  <2>3. Exact(defs, p) /\ p \in PrefOwners
    BY DEF PreferencesIInv
  <2> QED  BY <2>1, <2>2, <2>3, SameRows
<1>11. ASSUME o \notin disturbed
       PROVE  Exact(defs', o)
  <2>1. RowsOf(defs', o) = rows \union {d} /\ d \notin rows
    <3>1. RowsOf(defs', o) = {x \in Definitions : defs'[x].owner = o}
      BY <1>2, RowsOfOwner
    <3>2. rows = {x \in Definitions : defs[x].owner = o}
      BY <1>2, RowsOfOwner
    <3> HIDE DEF rows
    <3> QED  BY <1>2, <1>4, <1>8, <1>9, <3>1, <3>2, PreferencesAssumption
  <2>2. {defs[x].order : x \in rows} = 0..(n - 1)
    BY <1>2, <1>11 DEF PreferencesIInv, Exact
  <2>3. \A x \in rows : defs'[x] = defs[x]
    BY <1>8, <2>1 DEF RowsOf
  <2>4. Cardinality(rows \union {d}) = n + 1
    <3> HIDE DEF rows, o
    <3> QED  BY <1>3, <2>1, FS_AddElement
  <2> HIDE DEF rows, n
  <2>5. {defs'[x].order : x \in rows \union {d}} = {defs[x].order : x \in rows} \union {n}
    BY <1>4, <1>8, <2>3
  <2>6. {defs'[x].order : x \in rows \union {d}} = 0..((n + 1) - 1)
    BY <1>3, <2>2, <2>5
  <2> QED  BY <2>1, <2>4, <2>6 DEF Exact
<1> QED  BY <1>6, <1>7, <1>10, <1>11 DEF PreferencesIInv, Exact

LEMMA UpdateDefinitionKeeps ==
  ASSUME PreferencesIInv, NEW d \in Definitions, NEW attributes \in SUBSET Attributes,
         UpdateDefinition(d, attributes)
  PROVE  PreferencesIInv'
<1> DEFINE new == [defs[d] EXCEPT !.attributes = attributes]
<1>1. defs[d] \in DefRows
  BY RowTyped DEF UpdateDefinition, PreferencesIInv
<1>2. new \in DefRows /\ new.owner = defs[d].owner /\ new.order = defs[d].order
  BY <1>1, RowChanges
<1>3. defs' = [defs EXCEPT ![d] = new] /\ UNCHANGED <<edit, disturbed>>
  BY DEF UpdateDefinition
<1> HIDE DEF new
<1>4. PreferencesTypeOK'
  BY <1>2, <1>3 DEF PreferencesIInv, PreferencesTypeOK
<1>5. defs'[d] = new /\ \A x \in Definitions : x # d => defs'[x] = defs[x]
  BY <1>3 DEF PreferencesIInv, PreferencesTypeOK
<1>6. \A x \in Definitions : defs'[x].owner = defs[x].owner /\ defs'[x].order = defs[x].order
  BY <1>2, <1>5
<1>7. ASSUME NEW o \in PrefOwners \ disturbed
      PROVE  Exact(defs', o)
  <2>1. Exact(defs, o) /\ o \in PrefOwners
    BY DEF PreferencesIInv
  <2> QED  BY <1>6, <2>1, SameRows
<1> QED  BY <1>3, <1>4, <1>7 DEF PreferencesIInv, Exact

\* The rows in any sorting of an owner's, numbered by their place, are numbered from zero.
LEMMA SortedExact ==
  ASSUME NEW table, NEW o \in PrefOwners, NEW s \in Sorted(table, o), NEW after,
         \A d \in Definitions : after[d].owner = o <=> table[d].owner = o,
         \A d \in RowsOf(table, o) : after[d].order = Position(s, d) - 1
  PROVE  Exact(after, o)
<1> DEFINE rows == RowsOf(table, o)
           n == Cardinality(rows)
<1>1. RowsOf(after, o) = rows
  <2>1. RowsOf(after, o) = {d \in Definitions : after[d].owner = o}
    BY RowsOfOwner
  <2>2. rows = {d \in Definitions : table[d].owner = o}
    BY RowsOfOwner
  <2> HIDE DEF rows
  <2> QED  BY <2>1, <2>2
<1>2. s \in [1..n -> rows] /\ \A d \in rows : \E i \in 1..n : s[i] = d
  BY DEF Sorted
<1>3. \A i, j \in 1..n : s[i] = s[j] => i = j
  BY <1>2, RowsOfOwner, EnumerationInjective
<1>4. \A i \in 1..n : after[s[i]].order = i - 1
  <2> SUFFICES ASSUME NEW i \in 1..n
               PROVE  after[s[i]].order = i - 1
    OBVIOUS
  <2>1. s[i] \in rows
    BY <1>2
  <2>2. Position(s, s[i]) = i
    <3> HIDE DEF rows, n
    <3> QED  BY <1>2, <1>3 DEF Position
  <2> QED  BY <2>1, <2>2
<1> HIDE DEF rows
<1>5. s \in [1..Cardinality(RowsOf(after, o)) -> RowsOf(after, o)]
  BY <1>1, <1>2
<1> QED  BY <1>1, <1>2, <1>4, <1>5, PlacesExact

LEMMA PositionOf ==
  ASSUME NEW table, NEW o \in PrefOwners, NEW s \in Sorted(table, o), NEW d \in RowsOf(table, o)
  PROVE  Position(s, d) - 1 \in Nat
<1>1. Cardinality(RowsOf(table, o)) \in Nat
  BY RowsOfOwner
<1>2. Position(s, d) \in 1..Cardinality(RowsOf(table, o))
  BY DEF Sorted, Position
<1> QED  BY <1>1, <1>2

LEMMA DeleteDefinitionKeeps ==
  ASSUME PreferencesIInv, NEW d \in Definitions, DeleteDefinition(d)
  PROVE  PreferencesIInv'
<1> DEFINE o == defs[d].owner
           rest == [defs EXCEPT ![d] = NoDef]
           rows == RowsOf(rest, o)
<1>1. defs[d] \in DefRows /\ o \in PrefOwners
  <2>1. defs[d] \in DefRows
    BY RowTyped DEF PreferencesIInv, DeleteDefinition
  <2> QED  BY <2>1 DEF DefRows, DeleteDefinition
<1>2. PICK s \in Sorted(rest, o) :
         defs' = [x \in Definitions |->
                    IF x \in rows THEN [rest[x] EXCEPT !.order = Position(s, x) - 1] ELSE rest[x]]
  BY DEF DeleteDefinition
<1>3. disturbed' = disturbed \ {o} /\ UNCHANGED edit
  BY DEF DeleteDefinition
<1>4. rest \in [Definitions -> {NoDef} \union DefRows] /\ rest[d] = NoDef
      /\ \A x \in Definitions : x # d => rest[x] = defs[x]
  BY DEF PreferencesIInv, PreferencesTypeOK
<1>5. rows = {x \in Definitions : rest[x].owner = o} /\ \A x \in rows : rest[x] # NoDef
  BY <1>1, RowsOfOwner DEF RowsOf
<1> HIDE DEF rest, rows
<1>6. \A x \in rows : /\ defs'[x] \in DefRows /\ defs'[x].owner = rest[x].owner
                      /\ defs'[x].order = Position(s, x) - 1
  <2> SUFFICES ASSUME NEW x \in rows
               PROVE  /\ defs'[x] \in DefRows /\ defs'[x].owner = rest[x].owner
                      /\ defs'[x].order = Position(s, x) - 1
    OBVIOUS
  <2>1. rest[x] \in DefRows /\ x \in Definitions
    BY <1>4, <1>5
  <2>2. Position(s, x) - 1 \in Nat
    BY <1>1, PositionOf DEF rows
  <2>3. defs'[x] = [rest[x] EXCEPT !.order = Position(s, x) - 1]
    BY <1>2, <2>1
  <2> DEFINE new == [rest[x] EXCEPT !.order = Position(s, x) - 1]
  <2>4. new \in DefRows /\ new.owner = rest[x].owner /\ new.order = Position(s, x) - 1
    BY <2>1, <2>2, RowChanges
  <2> QED  BY <2>3, <2>4
<1>7. \A x \in Definitions : x \notin rows => defs'[x] = rest[x]
  BY <1>2
<1>8. PreferencesTypeOK'
  <2>1. \A x \in Definitions : defs'[x] \in {NoDef} \union DefRows
    BY <1>4, <1>6, <1>7
  <2>2. defs' \in [Definitions -> {NoDef} \union DefRows]
    BY <1>2, <2>1
  <2> QED  BY <1>3, <2>2 DEF PreferencesIInv, PreferencesTypeOK
<1>9. \A x \in Definitions : defs'[x].owner = rest[x].owner
  BY <1>6, <1>7
<1>10. Exact(defs', o)
  <2>1. \A x \in RowsOf(rest, o) : defs'[x].order = Position(s, x) - 1
    BY <1>6 DEF rows
  <2> QED  BY <1>1, <1>9, <2>1, SortedExact
<1>11. ASSUME NEW p \in PrefOwners \ disturbed, p # o
       PROVE  Exact(defs', p)
  <2>1. \A x \in Definitions : defs'[x].owner = p <=> defs[x].owner = p
    BY <1>4, <1>9, <1>11, PreferencesAssumption DEF NoDef
  <2>2. \A x \in Definitions : defs[x].owner = p => defs'[x].order = defs[x].order
    BY <1>4, <1>5, <1>7, <1>11
  <2>3. Exact(defs, p) /\ p \in PrefOwners
    BY DEF PreferencesIInv
  <2> QED  BY <2>1, <2>2, <2>3, SameRows
<1>12. \A p \in PrefOwners \ disturbed' : Exact(defs', p)
  BY <1>3, <1>10, <1>11
<1> QED  BY <1>8, <1>12 DEF PreferencesIInv, Exact

\* A complete list of an owner's rows numbers them from zero.
LEMMA ListExact ==
  ASSUME NEW table, NEW o \in PrefOwners, NEW items \in Seq(Definitions), NEW after,
         DOMAIN NewOrders(items) = RowsOf(table, o),
         Len(items) = Cardinality(RowsOf(table, o)),
         \A d \in Definitions : after[d].owner = o <=> table[d].owner = o,
         \A d \in RowsOf(table, o) : after[d].order = NewOrders(items)[d]
  PROVE  Exact(after, o)
<1> DEFINE rows == RowsOf(table, o)
           n == Cardinality(rows)
<1>1. RowsOf(after, o) = rows
  <2>1. RowsOf(after, o) = {d \in Definitions : after[d].owner = o}
    BY RowsOfOwner
  <2>2. rows = {d \in Definitions : table[d].owner = o}
    BY RowsOfOwner
  <2> HIDE DEF rows
  <2> QED  BY <2>1, <2>2
<1>2. n \in Nat /\ IsFiniteSet(rows) /\ DOMAIN items = 1..n
  BY RowsOfOwner
<1>3. rows = {items[i] : i \in 1..n}
  BY <1>2 DEF NewOrders
<1>4. items \in [1..n -> rows] /\ \A d \in rows : \E i \in 1..n : items[i] = d
  <2> HIDE DEF rows, n
  <2> QED  BY <1>2, <1>3
<1>5. \A i, j \in 1..n : items[i] = items[j] => i = j
  BY <1>2, <1>4, EnumerationInjective
<1>6. \A i \in 1..n : after[items[i]].order = i - 1
  <2> SUFFICES ASSUME NEW i \in 1..n
               PROVE  after[items[i]].order = i - 1
    OBVIOUS
  <2>1. items[i] \in rows
    BY <1>4
  <2>2. PICK j \in DOMAIN items : items[j] = items[i] /\ NewOrders(items)[items[i]] = j - 1
    BY <2>1, NewOrdersPlace
  <2>3. j = i
    BY <1>2, <1>5, <2>2
  <2> QED  BY <2>1, <2>2, <2>3
<1> HIDE DEF rows, n
<1> QED  BY <1>1, <1>4, <1>6, PlacesExact DEF rows, n

LEMMA WriteReorderKeeps ==
  ASSUME PreferencesIInv, NEW e \in Editors, WriteReorder(e)
  PROVE  PreferencesIInv'
<1> DEFINE o == edit[e].owner
           items == edit[e].items
           seen == edit[e].seen
           rows == RowsOf(defs, o)
           new == NewOrders(items)
           written == {d \in DOMAIN new : new[d] # seen[d]}
           partial == \/ seen # [d \in rows |-> defs[d].order] \/ DOMAIN new # rows
                      \/ Len(items) # Cardinality(DOMAIN new)
<1>1. edit[e] \in Reorders
  BY DEF PreferencesIInv, PreferencesTypeOK, WriteReorder, NoEdit, Creations
<1>2. o \in PrefOwners /\ items \in Seq(Definitions)
  BY <1>1 DEF Reorders
<1>3. edit' = [edit EXCEPT ![e] = NoEdit]
  BY DEF WriteReorder
<1>4. CASE ~(written \subseteq rows)
  <2>1. UNCHANGED <<defs, disturbed>>
    BY <1>4 DEF WriteReorder
  <2> QED  BY <1>3, <2>1 DEF PreferencesIInv, PreferencesTypeOK, Exact, RowsOf
<1>5. CASE written \subseteq rows
  <2>1. /\ defs' = [d \in Definitions |->
                      IF d \in written THEN [defs[d] EXCEPT !.order = new[d]] ELSE defs[d]]
        /\ disturbed' = IF partial THEN disturbed \union {o} ELSE disturbed \ {o}
    BY <1>5 DEF WriteReorder
  <2> HIDE DEF partial
  <2>2. \A d \in written : /\ defs'[d] \in DefRows /\ defs'[d].owner = o /\ defs'[d].order = new[d]
                           /\ d \in rows /\ defs[d].owner = o
    <3> SUFFICES ASSUME NEW d \in written
                 PROVE  /\ defs'[d] \in DefRows /\ defs'[d].owner = o /\ defs'[d].order = new[d]
                        /\ d \in rows /\ defs[d].owner = o
      OBVIOUS
    <3>1. d \in Definitions /\ defs[d] \in DefRows /\ defs[d].owner = o /\ d \in rows
      BY <1>5, RowOfTyped DEF PreferencesIInv
    <3>2. new[d] \in Nat
      BY <1>2, NewOrdersPlace
    <3>3. LET row == [defs[d] EXCEPT !.order = new[d]]
          IN row \in DefRows /\ row.owner = defs[d].owner /\ row.order = new[d]
      BY <3>1, <3>2, RowChanges
    <3> QED  BY <2>1, <3>1, <3>3
  <2>3. \A d \in Definitions : d \notin written => defs'[d] = defs[d]
    BY <2>1
  <2> HIDE DEF written
  <2>4. PreferencesTypeOK'
    <3>1. \A d \in Definitions : defs'[d] \in {NoDef} \union DefRows
      BY <2>2, <2>3 DEF PreferencesIInv, PreferencesTypeOK
    <3>2. defs' \in [Definitions -> {NoDef} \union DefRows]
      BY <2>1, <3>1
    <3> QED  BY <1>3, <3>2 DEF PreferencesIInv, PreferencesTypeOK
  <2>5. \A d \in Definitions : defs'[d].owner = defs[d].owner
    BY <2>2, <2>3
  <2>6. ASSUME NEW p \in PrefOwners \ disturbed, p # o
        PROVE  Exact(defs', p)
    <3>1. \A d \in Definitions : defs[d].owner = p => defs'[d].order = defs[d].order
      BY <2>2, <2>3, <2>6
    <3>2. Exact(defs, p) /\ p \in PrefOwners
      BY DEF PreferencesIInv
    <3> QED  BY <2>5, <3>1, <3>2, SameRows
  <2>7. ASSUME ~partial
        PROVE  Exact(defs', o)
    <3>1. seen = [d \in rows |-> defs[d].order] /\ DOMAIN new = rows /\ Len(items) = Cardinality(rows)
      BY <2>7 DEF partial
    <3>2. \A d \in rows : d \in Definitions
      BY DEF RowsOf
    <3>3. \A d \in rows : defs'[d].order = new[d]
      <4> SUFFICES ASSUME NEW d \in rows
                   PROVE  defs'[d].order = new[d]
        OBVIOUS
      <4>1. CASE d \in written
        BY <2>2, <4>1
      <4>2. CASE d \notin written
        BY <2>3, <3>1, <3>2, <4>2 DEF written
      <4> QED  BY <4>1, <4>2
    <3> HIDE DEF o, items
    <3> QED  BY <1>2, <2>5, <3>1, <3>3, ListExact
  <2>8. \A p \in PrefOwners \ disturbed' : Exact(defs', p)
    BY <2>1, <2>6, <2>7
  <2> QED  BY <2>4, <2>8 DEF PreferencesIInv, Exact
<1> QED  BY <1>4, <1>5

LEMMA RemoveAttributeKeeps ==
  ASSUME PreferencesIInv, NEW a \in Attributes, RemoveAttribute(a)
  PROVE  PreferencesIInv'
<1> DEFINE holding == {d \in Definitions : defs[d] # NoDef /\ a \in defs[d].attributes}
           empty == {d \in holding : defs[d].attributes = {a}}
<1>1. /\ defs' = [d \in Definitions |->
                    IF d \in empty THEN NoDef
                    ELSE IF d \in holding THEN [defs[d] EXCEPT !.attributes = @ \ {a}]
                    ELSE defs[d]]
      /\ disturbed' = disturbed \union {defs[d].owner : d \in empty}
      /\ UNCHANGED edit
  BY DEF RemoveAttribute
<1>2. ASSUME NEW d \in Definitions
      PROVE  \/ d \in empty /\ defs'[d] = NoDef
             \/ /\ d \notin empty /\ defs'[d] \in {NoDef} \union DefRows
                /\ defs'[d].owner = defs[d].owner
                /\ defs[d] # NoDef => defs'[d].order = defs[d].order
  <2>1. CASE d \in empty
    BY <1>1, <2>1
  <2>2. CASE d \in holding /\ d \notin empty
    <3> DEFINE held == defs[d].attributes \ {a}
    <3>1. defs[d] \in DefRows
      BY <2>2, RowTyped DEF PreferencesIInv
    <3>2. held \in SUBSET Attributes
      BY <3>1 DEF DefRows
    <3>3. LET row == [defs[d] EXCEPT !.attributes = held]
          IN row \in DefRows /\ row.owner = defs[d].owner /\ row.order = defs[d].order
      BY <3>1, <3>2, RowChanges
    <3>4. defs'[d] = [defs[d] EXCEPT !.attributes = held]
      BY <1>1, <2>2
    <3> QED  BY <2>2, <3>3, <3>4
  <2>3. CASE d \notin holding
    <3>1. defs'[d] = defs[d] /\ d \notin empty
      BY <1>1, <2>3
    <3> QED  BY <3>1 DEF PreferencesIInv, PreferencesTypeOK
  <2> QED  BY <2>1, <2>2, <2>3
<1>3. PreferencesTypeOK'
  <2>1. defs' \in [Definitions -> {NoDef} \union DefRows]
    <3>1. \A d \in Definitions : defs'[d] \in {NoDef} \union DefRows
      BY <1>2
    <3> QED  BY <1>1, <3>1
  <2> QED  BY <1>1, <2>1 DEF PreferencesIInv, PreferencesTypeOK
<1>4. ASSUME NEW p \in PrefOwners \ disturbed'
      PROVE  Exact(defs', p)
  <2>1. p \in PrefOwners \ disturbed /\ \A d \in empty : defs[d].owner # p
    BY <1>1
  <2> HIDE DEF empty
  <2>2. \A d \in Definitions : defs'[d].owner = p <=> defs[d].owner = p
    BY <1>2, <2>1, PreferencesAssumption DEF NoDef
  <2>3. \A d \in Definitions : defs[d].owner = p => defs'[d].order = defs[d].order
    BY <1>2, <2>1, PreferencesAssumption DEF NoDef
  <2>4. Exact(defs, p) /\ p \in PrefOwners
    BY <2>1 DEF PreferencesIInv
  <2> QED  BY <2>2, <2>3, <2>4, SameRows
<1> QED  BY <1>3, <1>4 DEF PreferencesIInv, Exact

LEMMA DeleteUserKeeps ==
  ASSUME PreferencesIInv, NEW u \in PrefOwners, DeleteUser(u)
  PROVE  PreferencesIInv'
<1>1. /\ defs' = [d \in Definitions |->
                    IF d \in RowsOf(defs, u) THEN [defs[d] EXCEPT !.owner = Nobody] ELSE defs[d]]
      /\ disturbed' = disturbed \ {u}
      /\ UNCHANGED edit
  BY DEF DeleteUser
<1>2. \A d \in RowsOf(defs, u) : /\ defs[d].owner = u /\ defs'[d] \in DefRows
                                 /\ defs'[d].owner = Nobody
  <2> SUFFICES ASSUME NEW d \in RowsOf(defs, u)
               PROVE  defs[d].owner = u /\ defs'[d] \in DefRows /\ defs'[d].owner = Nobody
    OBVIOUS
  <2>1. d \in Definitions /\ defs[d] \in DefRows /\ defs[d].owner = u
    BY RowOfTyped DEF PreferencesIInv
  <2>2. LET row == [defs[d] EXCEPT !.owner = Nobody]
        IN row \in DefRows /\ row.owner = Nobody
    BY <2>1, RowChanges
  <2>3. defs'[d] = [defs[d] EXCEPT !.owner = Nobody]
    BY <1>1, <2>1
  <2> QED  BY <2>1, <2>2, <2>3
<1>3. \A d \in Definitions : d \notin RowsOf(defs, u) => defs'[d] = defs[d] /\ defs[d].owner # u
  BY <1>1, RowsOfOwner
<1>4. PreferencesTypeOK'
  <2>1. defs' \in [Definitions -> {NoDef} \union DefRows]
    <3>1. \A d \in Definitions : defs'[d] \in {NoDef} \union DefRows
      BY <1>2, <1>3 DEF PreferencesIInv, PreferencesTypeOK
    <3> QED  BY <1>1, <3>1
  <2> QED  BY <1>1, <2>1 DEF PreferencesIInv, PreferencesTypeOK
<1>5. Exact(defs', u)
  <2>1. RowsOf(defs', u) = {d \in Definitions : defs'[d].owner = u}
    BY RowsOfOwner
  <2>2. RowsOf(defs', u) = {}
    BY <1>2, <1>3, <2>1, PreferencesAssumption
  <2>3. Cardinality({}) = 0
    BY FS_EmptySet
  <2>4. {defs'[d].order : d \in {}} = {} /\ 0..(0 - 1) = {}
    OBVIOUS
  <2> QED  BY <2>2, <2>3, <2>4 DEF Exact
<1>6. ASSUME NEW p \in PrefOwners \ disturbed, p # u
      PROVE  Exact(defs', p)
  <2>1. \A d \in Definitions : defs'[d].owner = p <=> defs[d].owner = p
    BY <1>2, <1>3, <1>6, PreferencesAssumption
  <2>2. \A d \in Definitions : defs[d].owner = p => defs'[d].order = defs[d].order
    BY <1>2, <1>3, <1>6
  <2>3. Exact(defs, p) /\ p \in PrefOwners
    BY DEF PreferencesIInv
  <2> QED  BY <2>1, <2>2, <2>3, SameRows
<1>7. \A p \in PrefOwners \ disturbed' : Exact(defs', p)
  BY <1>1, <1>5, <1>6
<1> QED  BY <1>4, <1>7 DEF PreferencesIInv, Exact

LEMMA PreferencesStepKeeps ==
  ASSUME PreferencesIInv, PreferencesNext
  PROVE  PreferencesIInv'
<1>1. CASE \E e \in Editors, o \in PrefOwners, c \in Categories : LookCreateDefinition(e, o, c)
  BY <1>1, LookCreateDefinitionKeeps
<1>2. CASE \E e \in Editors, o \in PrefOwners, ids \in IdLists : LookReorder(e, o, ids)
  BY <1>2, LookReorderKeeps
<1>3. CASE \E e \in Editors, attributes \in SUBSET Attributes : WriteCreateDefinition(e, attributes)
  BY <1>3, WriteCreateDefinitionKeeps
<1>4. CASE \E e \in Editors : WriteReorder(e)
  BY <1>4, WriteReorderKeeps
<1>5. CASE \E d \in Definitions : DeleteDefinition(d)
  BY <1>5, DeleteDefinitionKeeps
<1>6. CASE \E d \in Definitions, attributes \in SUBSET Attributes : UpdateDefinition(d, attributes)
  BY <1>6, UpdateDefinitionKeeps
<1>7. CASE \E a \in Attributes : RemoveAttribute(a)
  BY <1>7, RemoveAttributeKeeps
<1>8. CASE \E u \in PrefOwners : DeleteUser(u)
  BY <1>8, DeleteUserKeeps
<1> QED  BY <1>1, <1>2, <1>3, <1>4, <1>5, <1>6, <1>7, <1>8 DEF PreferencesNext

\* Whatever requests create, delete and reorder definitions at the same time, the rows of an owner
\* that no partial change renumbered last are numbered from zero without a gap and without a tie
\* (user_preference_definitions/service.py:52-134).
THEOREM PreferencesInvariance == PreferencesSpec => []PreferencesIInv
<1>1. PreferencesInit => PreferencesIInv
  <2> SUFFICES ASSUME PreferencesInit
               PROVE  PreferencesIInv
    OBVIOUS
  <2>1. PreferencesTypeOK
    BY DEF PreferencesInit, PreferencesTypeOK
  <2>2. ASSUME NEW o \in PrefOwners
        PROVE  Exact(defs, o)
    <3>1. RowsOf(defs, o) = {}
      BY DEF PreferencesInit, RowsOf
    <3>2. Cardinality({}) = 0
      BY FS_EmptySet
    <3>3. {defs[d].order : d \in {}} = {} /\ 0..(0 - 1) = {}
      OBVIOUS
    <3> QED  BY <3>1, <3>2, <3>3 DEF Exact
  <2> QED  BY <2>1, <2>2 DEF PreferencesIInv
<1>2. PreferencesIInv /\ [PreferencesNext]_preferenceVars => PreferencesIInv'
  <2> SUFFICES ASSUME PreferencesIInv, [PreferencesNext]_preferenceVars
               PROVE  PreferencesIInv'
    OBVIOUS
  <2>1. CASE PreferencesNext
    BY <2>1, PreferencesStepKeeps
  <2>2. CASE UNCHANGED preferenceVars
    BY <2>2 DEF PreferencesIInv, PreferencesTypeOK, Exact, RowsOf, preferenceVars
  <2> QED  BY <2>1, <2>2
<1> QED  BY <1>1, <1>2, PTL DEF PreferencesSpec

\* The orders the code shows are exact wherever PriorityExact says so.
THEOREM PriorityExactHolds == PreferencesSpec => []PriorityExact
<1>1. PreferencesIInv => PriorityExact
  BY DEF PreferencesIInv, PriorityExact, Exact
<1> QED  BY <1>1, PreferencesInvariance, PTL
===============================================================================
