---------------------------- MODULE IndexerAccounts ----------------------------
(***************************************************************************)
(* The account of one indexer: signing in and out, the renewal of its      *)
(* session, and the clean-up that deletes what the site no longer wants    *)
(* seeded (indexers/service.py, indexer_accounts, the login and            *)
(* find_hit_and_run_ids of BaseIndexerDefinition).  The client of an       *)
(* indexer lives as long as the process and outlives its account; the      *)
(* cookies of a session are named by the user they are of.                 *)
(***************************************************************************)
EXTENDS Integrations

CONSTANTS
    SiteUsers,      \* users of the site
    SiteTorrents,
    Indexers,       \* the sites, of those in Sites
    Rules,          \* of "system", "on" and "off", what an account may have
    Logins,         \* calls of POST /indexers/login
    UserOfLogin(_), \* per call: the user it names
    NoOne

ASSUME IndexerAccountsAssumption ==
    NoOne \notin SiteUsers /\ \A l \in Logins : UserOfLogin(l) \in SiteUsers

VARIABLES
    indexer,        \* the site
    account,        \* the row of indexer_accounts, or SignedOut
    jar,            \* whose session the client holds
    userId,         \* _cached_user_id
    login,          \* per call: where it stands, and whom it signs in
    relogin,        \* the same of the renewal
    sweep,          \* the clean-up: its stage, its rule, the list it has, and its history
    kept,           \* the torrents of this indexer
    owed,           \* of every user, the torrents the site wants seeded on
    overlapped      \* history: two sign-ins were under way at once

indexerAccountVars ==
    <<indexer, account, jar, userId, login, relogin, sweep, kept, owed, overlapped>>

SignedOut == [user |-> NoOne, cookies |-> NoOne, hitAndRun |-> "system", keepSeed |-> "system"]
SignIdle == [pc |-> "idle", user |-> NoOne]
\* late: what the site began to want of the account after the list was read; astray: the list was
\* read from another page; orphaned: the account was signed out since.
SweepIdle ==
    [pc |-> "idle", byList |-> FALSE, list |-> {}, late |-> {}, astray |-> FALSE, orphaned |-> FALSE]

Signs == {SignIdle} \union [pc : {"posting", "saving"}, user : SiteUsers]
Sweeps ==
    {SweepIdle} \union
    [pc : {"listing", "deleting"}, byList : BOOLEAN, list : SUBSET SiteTorrents,
     late : SUBSET SiteTorrents, astray : BOOLEAN, orphaned : BOOLEAN]

IndexerAccountsTypeOK ==
    /\ indexer \in Indexers
    /\ account \in [user : SiteUsers \union {NoOne}, cookies : SiteUsers \union {NoOne},
                   hitAndRun : Rules \union {"system"}, keepSeed : Rules \union {"system"}]
    /\ jar \in SiteUsers \union {NoOne} /\ userId \in SiteUsers \union {NoOne}
    /\ login \in [Logins -> Signs] /\ relogin \in Signs
    /\ sweep \in Sweeps
    /\ kept \subseteq SiteTorrents /\ owed \in [SiteUsers -> SUBSET SiteTorrents]
    /\ overlapped \in BOOLEAN

\* The process starts with the account of the last one, if it had one.
IndexerAccountsInit ==
    /\ indexer \in Indexers
    /\ account \in {SignedOut} \union {[SignedOut EXCEPT !.user = u, !.cookies = u] : u \in SiteUsers}
    /\ jar = account.cookies /\ userId = NoOne
    /\ login = [l \in Logins |-> SignIdle] /\ relogin = SignIdle
    /\ sweep = SweepIdle
    /\ kept = {} /\ owed = [u \in SiteUsers |-> {}] /\ overlapped = FALSE

HasAccount == account.user # NoOne
SigningIn == relogin # SignIdle \/ \E l \in Logins : login[l] # SignIdle

-------------------------------------------------------------------------------
(* Signing in and out.                                                     *)

\* The cookies go first; whoever else is signing in shares them.
LoginStart(l) ==
    /\ login[l] = SignIdle /\ ~HasAccount
    /\ login' = [login EXCEPT ![l] = [pc |-> "posting", user |-> UserOfLogin(l)]]
    /\ jar' = NoOne /\ overlapped' = (overlapped \/ SigningIn)
    /\ UNCHANGED <<indexer, account, userId, relogin, sweep, kept, owed>>

LoginPosted(l) ==
    /\ login[l].pc = "posting"
    /\ \/ SignsIn(indexer) /\ login' = [login EXCEPT ![l].pc = "saving"] /\ jar' = login[l].user
       \/ login' = [login EXCEPT ![l] = SignIdle] /\ UNCHANGED jar
    /\ UNCHANGED <<indexer, account, userId, relogin, sweep, kept, owed, overlapped>>

\* create() looks again; the loser of two logins is refused, its cookies stay with the client.
LoginSaved(l) ==
    /\ login[l].pc = "saving"
    /\ account' = IF HasAccount THEN account
                  ELSE [SignedOut EXCEPT !.user = login[l].user, !.cookies = jar]
    /\ login' = [login EXCEPT ![l] = SignIdle]
    /\ UNCHANGED <<indexer, jar, userId, relogin, sweep, kept, owed, overlapped>>

\* Its torrents go first, then the row; the client keeps what it has.
DeleteAccount ==
    /\ HasAccount
    /\ account' = SignedOut /\ kept' = {}
    /\ sweep' = [sweep EXCEPT !.orphaned = sweep # SweepIdle]
    /\ UNCHANGED <<indexer, jar, userId, login, relogin, owed, overlapped>>

UpdateRules(hitAndRun, keepSeed) ==
    /\ HasAccount
    /\ account' = [account EXCEPT !.hitAndRun = hitAndRun, !.keepSeed = keepSeed]
    /\ UNCHANGED <<indexer, jar, userId, login, relogin, sweep, kept, owed, overlapped>>

-------------------------------------------------------------------------------
(* The session: it ends at the site, is renewed with the credentials of    *)
(* the row, and is persisted there for the next start.                     *)

Expire ==
    /\ jar # NoOne /\ ~SigningIn
    /\ jar' = NoOne
    /\ UNCHANGED <<indexer, account, userId, login, relogin, sweep, kept, owed, overlapped>>

ReloginStart ==
    /\ relogin = SignIdle /\ jar = NoOne /\ HasAccount
    /\ relogin' = [pc |-> "posting", user |-> account.user]
    /\ overlapped' = (overlapped \/ SigningIn)
    /\ UNCHANGED <<indexer, account, jar, userId, login, sweep, kept, owed>>

ReloginPosted ==
    /\ relogin.pc = "posting"
    /\ \/ SignsIn(indexer) /\ relogin' = [relogin EXCEPT !.pc = "saving"] /\ jar' = relogin.user
       \/ relogin' = SignIdle /\ UNCHANGED jar
    /\ UNCHANGED <<indexer, account, userId, login, sweep, kept, owed, overlapped>>

\* update_cookies finds the row by the indexer, whosever it is by now.
ReloginSaved ==
    /\ relogin.pc = "saving"
    /\ account' = IF HasAccount THEN [account EXCEPT !.cookies = relogin.user] ELSE account
    /\ relogin' = SignIdle
    /\ UNCHANGED <<indexer, jar, userId, login, sweep, kept, owed, overlapped>>

RestartClient ==
    /\ jar' = account.cookies /\ userId' = NoOne
    /\ login' = [l \in Logins |-> SignIdle] /\ relogin' = SignIdle
    /\ sweep' = SweepIdle
    /\ UNCHANGED <<indexer, account, kept, owed, overlapped>>

Play(t) ==
    /\ HasAccount /\ t \notin kept /\ kept' = kept \union {t}
    /\ UNCHANGED <<indexer, account, jar, userId, login, relogin, sweep, owed, overlapped>>

\* The site: what it wants of a user changes with what is downloaded, here or elsewhere, and seeded.
Counts(u, wanted) ==
    /\ owed' = [owed EXCEPT ![u] = wanted]
    /\ sweep' = IF sweep.pc = "deleting" /\ u = account.user
                THEN [sweep EXCEPT !.late = @ \union (wanted \ owed[u])] ELSE sweep
    /\ UNCHANGED <<indexer, account, jar, userId, login, relogin, kept, overlapped>>

-------------------------------------------------------------------------------
(* cleanup_torrent_by_rules.                                               *)

\* The account's rule, or the system's where it has none.
Effective(rule, system) == IF rule = "system" THEN system ELSE rule = "on"

SweepStart(hitAndRun, keepSeed) ==
    LET byList == Effective(account.hitAndRun, hitAndRun)
        byAge == Effective(account.keepSeed, keepSeed)
    IN /\ sweep = SweepIdle /\ HasAccount
       /\ byList \/ byAge
       /\ sweep' = [SweepIdle EXCEPT !.pc = IF byList THEN "listing" ELSE "deleting",
                                     !.byList = byList]
       /\ UNCHANGED <<indexer, account, jar, userId, login, relogin, kept, owed, overlapped>>

\* Mutant of ReportOf: a list that cannot be had is empty.
ReportOrNothing(u, stranger, unclear) ==
    [usable |-> TRUE, ids |-> IF ListUsable(indexer, stranger, unclear) /\ ~stranger THEN owed[u] ELSE {}]

\* What find_hit_and_run_ids makes of the page of user u.
ReportOf(u, stranger, unclear) ==
    [usable |-> ListUsable(indexer, stranger, unclear),
     ids |-> IF stranger THEN {} ELSE owed[u]]

\* The list is that of the session, or of the user whose id was looked up first.
SweepList ==
    /\ sweep.pc = "listing" /\ jar # NoOne
    /\ userId' = IF CachesUserId(indexer) /\ userId = NoOne THEN jar ELSE userId
    /\ \E stranger, unclear \in BOOLEAN :
         LET report == ReportOf(IF CachesUserId(indexer) THEN userId' ELSE jar, stranger, unclear)
         IN sweep' = IF ~report.usable THEN SweepIdle
                     ELSE [sweep EXCEPT !.pc = "deleting", !.list = report.ids,
                                        !.astray = stranger]
    /\ UNCHANGED <<indexer, account, jar, login, relogin, kept, owed, overlapped>>

\* An error of the site or of a relogin: this account is left for the next day.
SweepFails ==
    /\ sweep.pc = "listing" /\ sweep' = SweepIdle
    /\ UNCHANGED <<indexer, account, jar, userId, login, relogin, kept, owed, overlapped>>

\* Pinned torrents, and by age those played lately, are spared; which they are is free.
SweepDelete ==
    /\ sweep.pc = "deleting"
    /\ \E spared \in SUBSET kept :
         kept' = spared \union (IF sweep.byList THEN kept \intersect sweep.list ELSE {})
    /\ sweep' = SweepIdle
    /\ UNCHANGED <<indexer, account, jar, userId, login, relogin, owed, overlapped>>

IndexerAccountsNext ==
    \/ \E l \in Logins : LoginStart(l) \/ LoginPosted(l) \/ LoginSaved(l)
    \/ DeleteAccount \/ \E h, k \in Rules : UpdateRules(h, k)
    \/ Expire \/ ReloginStart \/ ReloginPosted \/ ReloginSaved \/ RestartClient
    \/ \E t \in SiteTorrents : Play(t)
    \/ \E u \in SiteUsers, wanted \in SUBSET SiteTorrents : Counts(u, wanted)
    \/ \E h, k \in BOOLEAN : SweepStart(h, k)
    \/ SweepList \/ SweepFails \/ SweepDelete

IndexerAccountsSpec == IndexerAccountsInit /\ [][IndexerAccountsNext]_indexerAccountVars

-------------------------------------------------------------------------------
\* With the hit-and-run rule on, a clean-up deletes no torrent the site wants its account to seed,
\* whatever the site answers and whoever signs in and out meanwhile - but for what the site began to
\* want after its list was read, as a torrent first played then (service.py:353 and 370; only a rule
\* by age spares it), and unless two sign-ins overlapped, the account was signed out and in since the
\* clean-up began (with bithumen, as another user since the process looked the first one up), or the
\* site sent a stranger page and its code does not tell that from an empty list (service.py:341-375,
\* torrents/repository.py:57-66, bithumen.py:205-253).
OwedKept ==
    [][sweep.pc = "deleting" /\ sweep'.pc = "idle" /\ sweep.byList /\ HasAccount
         => \/ owed[account.user] \intersect kept \subseteq kept' \union sweep.late
            \/ overlapped
            \/ sweep.orphaned
            \/ CachesUserId(indexer) /\ userId # account.user
            \/ sweep.astray /\ ~RecognisesList(indexer)]_indexerAccountVars
===============================================================================
