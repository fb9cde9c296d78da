--------------------------- MODULE NetworkSettings ---------------------------
(***************************************************************************)
(* network/service.py, network/ssl/service.py, the DDNS providers, the     *)
(* settings row and the boot that serves with it: a set-up, the five       *)
(* minute address synchronisation and the daily certificate check work on  *)
(* one row, on the DNS records of the provider and on the certificate, and *)
(* a change ends the process two seconds later.  Without a reverse proxy,  *)
(* under which the row is neither read nor written.                        *)
(*                                                                         *)
(* A set-up task has the name of the request that started it.  The         *)
(* provider is determined by the host (its domain_regex), and the token    *)
(* changes whenever the connection does.  A certificate is its host and a  *)
(* serial number; a local one is made anew whenever the process starts, so *)
(* that its number says nothing.                                           *)
(***************************************************************************)
EXTENDS Naturals

CONSTANTS
    Setups,         \* calls of POST /network/setup
    Asks(_),        \* Asks(r): what request r may ask for
    AutoHosts,      \* names at a DDNS provider
    ClearsTxt,      \* hosts whose provider clears TXT records (duckdns does, myaddr does not)
    HostIp,         \* config.host_ip
    Addresses,      \* public addresses
    Emails,
    Absent,
    MaxIssued,      \* bound: how many certificates the authority issues
    MaxEvents       \* bound: how often the public address changes, a synchronisation fails, a
                    \* certificate is about to expire or the process ends by itself

VARIABLES
    settings,   \* the committed settings row of key "network"
    tx,         \* the open write transaction: its owner and the row it has flushed
    active,     \* _active_setup_task
    call,       \* per request: where its handler stands, what it asks for, whose task it awaits
    job,        \* per set-up task and background job: its stage and what it works with
    dns,        \* per host: the address record at the provider
    txt,        \* per host: the challenge in its TXT record, named by its job
    issued,     \* how many certificates the authority has issued
    publicIp,
    exiting,    \* a SystemService.restart() sleeps its two seconds
    served,     \* the row the process was booted with
    budget      \* what is left of MaxEvents

networkVars == <<settings, tx, active, call, job, dns, txt, issued, publicIp,
                 exiting, served, budget>>

Jobs == Setups \union {"sync", "renewal"}
Ips == Addresses \union {HostIp, Absent}
Certificate(host, n) == [host |-> host, serial |-> n]
NoCertificate == Certificate(Absent, 0)
Certificates == [host : AutoHosts \union {"lan", Absent}, serial : 0..MaxIssued]

Row(mode, host, conn, email, ip, cert) ==
    [mode |-> mode, host |-> host, conn |-> conn, email |-> email,
     ip |-> ip, cert |-> cert]
\* NetworkAutoSettings, NetworkLocalSettings, NetworkManualSettings.
Rows ==
    [mode : {"auto", "local", "manual"}, host : AutoHosts \union {"lan", "proxy"},
     conn : {"public", "local", Absent}, email : Emails \union {Absent},
     ip : Ips, cert : Certificates]
LocalRow == Row("local", "lan", Absent, Absent, HostIp, Certificate("lan", 0))
ManualRow == Row("manual", "proxy", Absent, Absent, Absent, NoCertificate)
AutoPayload(host, conn, email) == Row("auto", host, conn, email, Absent, NoCertificate)
Payloads ==
    {LocalRow, ManualRow} \union
    {AutoPayload(h, c, e) : h \in AutoHosts, c \in {"public", "local"}, e \in Emails}

Idle == [stage |-> "idle", seen |-> ManualRow, row |-> ManualRow]
NoTx == [by |-> Absent, row |-> ManualRow]
NoCall == [pc |-> "idle", payload |-> ManualRow, task |-> Absent]

JobStages == {"idle", "reading", "selfsigning", "locating", "pointing", "reaching", "restoring",
              "challenging", "proving", "clearing", "giving up", "saving", "done", "failed"}

NetworkTypeOK ==
    /\ settings \in Rows /\ served \in Rows
    /\ tx \in [by : Setups \union {Absent}, row : Rows]
    /\ active \in Setups \union {Absent}
    /\ call \in [Setups -> [pc : {"idle", "leading", "following", "replying", "failing",
                                  "answered", "refused", "cut"},
                            payload : Payloads, task : Setups \union {Absent}]]
    /\ job \in [Jobs -> [stage : JobStages, seen : Rows, row : Rows]]
    /\ dns \in [AutoHosts -> Ips] /\ txt \in [AutoHosts -> Jobs \union {Absent}]
    /\ publicIp \in Addresses /\ exiting \in BOOLEAN
    /\ issued \in 0..MaxIssued /\ budget \in 0..MaxEvents

NetworkConstantsOK ==
    /\ Addresses # {} /\ MaxEvents \in Nat /\ MaxIssued \in Nat
    /\ Setups \intersect {"sync", "renewal"} = {}
    /\ \A r \in Setups : Asks(r) \subseteq Payloads

\* A first start (a local row), or an installation that was set up before.
NetworkInit ==
    /\ publicIp = CHOOSE a \in Addresses : TRUE
    /\ \/ settings = LocalRow /\ dns = [h \in AutoHosts |-> Absent]
       \/ \E h \in AutoHosts, e \in Emails :
            /\ settings = Row("auto", h, "public", e, publicIp, Certificate(h, 0))
            /\ dns = [g \in AutoHosts |-> IF g = h THEN publicIp ELSE Absent]
    /\ served = settings
    /\ tx = NoTx /\ active = Absent /\ exiting = FALSE
    /\ call = [r \in Setups |-> NoCall]
    /\ job = [j \in Jobs |-> Idle]
    /\ txt = [h \in AutoHosts |-> Absent]
    /\ issued = 0 /\ budget = MaxEvents

\* DDNSService.get_current_ip
CurrentIp(conn) == IF conn = "local" THEN HostIp ELSE publicIp

-------------------------------------------------------------------------------
(* setup(): the handler of a request.                                      *)

Running(t) == t # Absent /\ job[t].stage \notin {"done", "failed"}

Ask(r, p) ==
    /\ call[r].pc = "idle"
    /\ IF active # Absent /\ Running(active)
       THEN /\ call' = [call EXCEPT ![r] = [pc |-> "following", payload |-> p, task |-> active]]
            /\ UNCHANGED <<active, job>>
       ELSE /\ call' = [call EXCEPT ![r] = [pc |-> "leading", payload |-> p, task |-> r]]
            /\ active' = r
            /\ job' = [job EXCEPT ![r] = [Idle EXCEPT !.stage = "reading"]]
    /\ UNCHANGED <<settings, tx, dns, txt, issued, publicIp, exiting, served, budget>>

\* The finally block clears the variable, whatever task it names by now.
Wake(r) ==
    /\ call[r].pc \in {"leading", "following"} /\ ~Running(call[r].task)
    /\ call' = [call EXCEPT ![r].pc =
                  IF job[call[r].task].stage = "done" THEN "replying" ELSE "failing"]
    /\ active' = IF call[r].pc = "leading" THEN Absent ELSE active
    /\ UNCHANGED <<settings, tx, job, dns, txt, issued, publicIp, exiting, served, budget>>

\* The answer goes out, then get_db commits the session, or it rolls it back.
EndRequest(r) ==
    /\ call[r].pc \in {"replying", "failing"}
    /\ settings' = IF tx.by = r /\ call[r].pc = "replying" THEN tx.row ELSE settings
    /\ tx' = IF tx.by = r THEN NoTx ELSE tx
    /\ call' = [call EXCEPT ![r] =
                  [NoCall EXCEPT !.pc = IF call[r].pc = "replying" THEN "answered" ELSE "refused"]]
    /\ UNCHANGED <<active, job, dns, txt, issued, publicIp, exiting, served, budget>>

-------------------------------------------------------------------------------
(* _do_setup(), _setup_auto(): the task.                                   *)

\* Mutant of SslFields: a new host keeps the certificate.
SslFieldsAnyHost(row) == <<row.mode, row.email>>

DnsFields(row) == <<row.mode, row.host, row.conn>>
SslFields(row) == <<row.mode, row.host, row.email>>

DnsNeedsUpdate(payload, current) == DnsFields(payload) # DnsFields(current)
SslNeedsUpdate(payload, current) ==
    SslFields(payload) # SslFields(current) \/ current.cert = NoCertificate

\* What the new row takes over from the current one.
Inherited(p, current) ==
    IF current.mode = "auto"
    THEN [p EXCEPT !.ip = current.ip,
                   !.cert = IF SslNeedsUpdate(p, current) THEN NoCertificate
                            ELSE current.cert]
    ELSE p

FirstStage(p, current) ==
    IF p.mode # "auto" THEN IF p.mode = "local" THEN "selfsigning" ELSE "saving"
    ELSE IF DnsNeedsUpdate(p, current) THEN "locating"
    ELSE IF SslNeedsUpdate(p, current) THEN "challenging" ELSE "done"

\* A job that is over forgets its rows.
JobGoes(j, stage) ==
    job' = [job EXCEPT ![j] = IF stage \in {"done", "failed"} THEN [Idle EXCEPT !.stage = stage]
                              ELSE [@ EXCEPT !.stage = stage]]

ReadSettings(r) ==
    /\ job[r].stage = "reading"
    /\ LET p == call[r].payload IN
       job' = [job EXCEPT ![r] =
                 IF FirstStage(p, settings) = "done" THEN [Idle EXCEPT !.stage = "done"]
                 ELSE [stage |-> FirstStage(p, settings), seen |-> settings,
                       row |-> IF p.mode = "auto" THEN Inherited(p, settings) ELSE p]]
    /\ UNCHANGED <<dns, txt, issued, tx, exiting>>

\* The public certificate of local-ip, or a self-signed one: both are for this machine.
SelfSign(r) ==
    /\ job[r].stage = "selfsigning" /\ JobGoes(r, "saving")
    /\ UNCHANGED <<dns, txt, issued, tx, exiting>>

AfterDns(r) ==
    IF SslNeedsUpdate(job[r].row, job[r].seen) THEN "challenging" ELSE "saving"

Locate(r) ==
    /\ job[r].stage = "locating"
    /\ \/ JobGoes(r, "failed")
       \/ job' = [job EXCEPT ![r].stage = "pointing",
                    ![r].row.ip = CurrentIp(job[r].row.conn)]
    /\ UNCHANGED <<dns, txt, issued, tx, exiting>>

Point(r) ==
    /\ job[r].stage = "pointing"
    /\ \/ JobGoes(r, "failed") /\ UNCHANGED dns
       \/ /\ dns' = [dns EXCEPT ![job[r].row.host] = job[r].row.ip]
          /\ JobGoes(r, "reaching")
    /\ UNCHANGED <<txt, issued, tx, exiting>>

\* check_connectivity, six attempts: the server answers under its new name or does not.
Reach(r) ==
    /\ job[r].stage = "reaching"
    /\ \/ JobGoes(r, AfterDns(r))
       \/ JobGoes(r, IF job[r].seen.mode = "auto" THEN "restoring" ELSE "failed")
    /\ UNCHANGED <<dns, txt, issued, tx, exiting>>

\* The old record of the old host; the record of the new one stays.
Restore(r) ==
    /\ job[r].stage = "restoring"
    /\ dns' \in {dns, [dns EXCEPT ![job[r].seen.host] = job[r].seen.ip]}
    /\ JobGoes(r, "failed")
    /\ UNCHANGED <<txt, issued, tx, exiting>>

\* A flush takes SQLite's write lock until the request ends; after ten seconds without it
\* the task fails.
SaveSetup(r) ==
    /\ job[r].stage = "saving"
    /\ \/ /\ tx = NoTx
          /\ tx' = [by |-> r, row |-> job[r].row]
          /\ JobGoes(r, "done") /\ exiting' = TRUE
       \/ /\ tx # NoTx /\ JobGoes(r, "failed") /\ UNCHANGED <<tx, exiting>>
    /\ UNCHANGED <<dns, txt, issued>>

-------------------------------------------------------------------------------
(* generate_acme_certificate(), for a set-up or the renewal.               *)

HostOf(j) == job[j].row.host

\* Account, order and key, then the TXT record; only what comes before the record fails
\* outside the try block.
Challenge(j) ==
    /\ job[j].stage = "challenging"
    /\ \/ JobGoes(j, "failed") /\ UNCHANGED txt
       \/ JobGoes(j, "giving up") /\ UNCHANGED txt
       \/ JobGoes(j, "proving") /\ txt' = [txt EXCEPT ![HostOf(j)] = j]
    /\ UNCHANGED <<dns, issued, tx, exiting>>

\* The record was seen, and the authority issues the certificate before the loop runs on;
\* or it refuses, or 300 seconds are over.
Prove(j) ==
    /\ job[j].stage = "proving"
    /\ \/ /\ txt[HostOf(j)] = j /\ issued < MaxIssued
          /\ issued' = issued + 1
          /\ job' = [job EXCEPT ![j].stage = "clearing",
                                ![j].row.cert = Certificate(HostOf(j), issued')]
       \/ JobGoes(j, "giving up") /\ UNCHANGED issued
    /\ UNCHANGED <<dns, txt, tx, exiting>>

\* The finally block; a failure of its own is only logged, and the record it clears may be
\* that of the other job.
ClearTxt(j) ==
    /\ job[j].stage \in {"clearing", "giving up"}
    /\ JobGoes(j, IF job[j].stage = "clearing" THEN "saving" ELSE "failed")
    /\ txt' \in {txt} \union
         {[txt EXCEPT ![h] = Absent] : h \in {HostOf(j)} \intersect ClearsTxt}
    /\ UNCHANGED <<dns, issued, tx, exiting>>

TaskStep(r) ==
    /\ \/ ReadSettings(r) \/ SelfSign(r) \/ Locate(r) \/ Point(r) \/ Reach(r) \/ Restore(r)
       \/ Challenge(r) \/ Prove(r) \/ ClearTxt(r) \/ SaveSetup(r)
    /\ UNCHANGED <<settings, active, call, publicIp, served, budget>>

-------------------------------------------------------------------------------
(* sync_ip() and check_ssl_certificate(): the jobs.                        *)

\* They save in a session of their own, which commits at once.
SaveRow(j) ==
    /\ job[j].stage = "saving" /\ tx = NoTx
    /\ settings' = job[j].row
    /\ job' = [job EXCEPT ![j] = Idle]

\* Mutant of ShouldSync: the record is only written when the address in the row is another.
ShouldSyncChanged(row, ip, overdue) == row.ip # ip

ShouldSync(row, ip, overdue) == row.ip # ip \/ overdue

SyncRead ==
    /\ job["sync"].stage = "idle" /\ settings.mode = "auto"
    /\ job' = [job EXCEPT !["sync"] = [Idle EXCEPT !.stage = "locating", !.row = settings]]
    /\ UNCHANGED <<settings, dns, budget>>

\* overdue: last_ip_sync_at is more than a day ago, which it is sooner or later.
SyncLocate(overdue) ==
    /\ job["sync"].stage = "locating"
    /\ LET row == job["sync"].row
           ip == CurrentIp(row.conn)
       IN job' = [job EXCEPT !["sync"] =
                    IF ShouldSync(row, ip, overdue)
                    THEN [@ EXCEPT !.stage = "pointing", !.row.ip = ip] ELSE Idle]
    /\ UNCHANGED <<settings, dns, budget>>

SyncPoint ==
    /\ job["sync"].stage = "pointing"
    /\ dns' = [dns EXCEPT ![HostOf("sync")] = job["sync"].row.ip]
    /\ JobGoes("sync", "saving")
    /\ UNCHANGED <<settings, budget>>

SyncSave == SaveRow("sync") /\ UNCHANGED <<dns, budget>>

\* The address service, the provider or the database fails: it is logged, and tried again
\* five minutes later.
SyncFails ==
    /\ job["sync"].stage # "idle" /\ budget > 0
    /\ budget' = budget - 1
    /\ job' = [job EXCEPT !["sync"] = Idle]
    /\ UNCHANGED <<settings, dns>>

SyncStep ==
    /\ SyncRead \/ (\E overdue \in BOOLEAN : SyncLocate(overdue)) \/ SyncPoint \/ SyncSave \/ SyncFails
    /\ UNCHANGED <<tx, active, call, txt, issued, publicIp, exiting, served>>

\* The age of the certificate is free: less than 30 days left for a set-up row, less than 2
\* for a local one, which is replaced by starting again.
RenewalRead ==
    /\ job["renewal"].stage = "idle" /\ budget > 0
    /\ budget' = budget - 1
    /\ \/ /\ settings.mode = "auto"
          /\ job' = [job EXCEPT !["renewal"] =
                       [Idle EXCEPT !.stage = "challenging", !.row = settings]]
          /\ UNCHANGED exiting
       \/ settings.mode = "local" /\ exiting' = TRUE /\ UNCHANGED job
    /\ UNCHANGED <<settings, dns, txt, issued, tx>>

\* Mutant of RenewalSave: nothing restarts.
RenewalSaveOnly ==
    /\ SaveRow("renewal")
    /\ UNCHANGED <<dns, txt, issued, tx, exiting>>

RenewalSave ==
    /\ SaveRow("renewal") /\ exiting' = TRUE
    /\ UNCHANGED <<dns, txt, issued, tx>>

RenewalFails ==
    /\ job["renewal"].stage = "failed"
    /\ job' = [job EXCEPT !["renewal"] = Idle]
    /\ UNCHANGED <<settings, dns, txt, issued, tx, exiting>>

RenewalStep ==
    /\ \/ RenewalRead
       \/ (RenewalSave \/ RenewalFails) /\ UNCHANGED budget
       \/ (Challenge("renewal") \/ Prove("renewal") \/ ClearTxt("renewal"))
          /\ UNCHANGED <<settings, budget>>
    /\ UNCHANGED <<active, call, publicIp, served>>

-------------------------------------------------------------------------------
(* The process ends and starts again; the world goes on.                   *)

\* ensure_network_settings(): a local row is made anew, and the row's certificate is served.
Boot ==
    /\ settings' = IF settings.mode = "local" THEN LocalRow ELSE settings
    /\ served' = settings'
    /\ tx' = NoTx /\ active' = Absent /\ exiting' = FALSE
    /\ call' = [r \in Setups |->
                  IF call[r].pc \in {"idle", "answered", "refused"} THEN call[r]
                  ELSE [NoCall EXCEPT !.pc = "cut"]]
    /\ job' = [j \in Jobs |-> Idle]
    /\ UNCHANGED <<dns, txt, issued, publicIp>>

Restart == exiting /\ Boot /\ UNCHANGED budget

Crash ==
    /\ budget > 0 /\ Boot
    /\ budget' = budget - 1

AddressChanges ==
    /\ budget > 0
    /\ publicIp' \in Addresses \ {publicIp}
    /\ budget' = budget - 1
    /\ UNCHANGED <<settings, tx, active, call, job, dns, txt, issued, exiting, served>>

NetworkNext ==
    \/ \E r \in Setups : \E p \in Asks(r) : Ask(r, p)
    \/ \E r \in Setups : Wake(r) \/ EndRequest(r) \/ TaskStep(r)
    \/ SyncStep \/ RenewalStep
    \/ Restart \/ Crash \/ AddressChanges

\* The loop runs what is ready, every HTTP exchange has a timeout, the scheduler starts its
\* jobs, a restart that sleeps wakes up, and a row that is looked at again and again is a day
\* old at some time.
NetworkFairness ==
    /\ \A r \in Setups : WF_networkVars(Wake(r) \/ EndRequest(r) \/ TaskStep(r))
    /\ SF_networkVars(SyncStep /\ SyncLocate(TRUE)) /\ WF_networkVars(SyncStep)
    /\ WF_networkVars(RenewalStep)
    /\ WF_networkVars(Restart)

NetworkSpec == NetworkInit /\ [][NetworkNext]_networkVars
FairNetworkSpec == NetworkSpec /\ NetworkFairness

-------------------------------------------------------------------------------
(* Properties.                                                             *)

\* A row that makes the server answer under a DDNS name carries a certificate that was issued
\* for that name, in whatever order set-ups, synchronisations, renewals and restarts
\* read and write the row (service.py:145-234, :276-330, :332-365).
CertificateOfHost == settings.mode = "auto" => settings.cert.host = settings.host

\* Once addresses and set-ups rest, the record of the host in the settings has the address of the
\* server and keeps it, also when a set-up of a new host pointed it elsewhere, failed and put an old
\* address back, or a write was lost (service.py:276-319).
RecordHeals ==
    <>[](settings.mode = "auto" => dns[settings.host] = CurrentIp(settings.conn))

\* In the end the process serves under the host and with the very certificate of the settings, the
\* renewed one too: every write that changes them is followed by a restart that sees it
\* (service.py:116-143, :233, :363, boot/network.py).
ServesSettings ==
    <>[](served.mode = settings.mode /\ served.host = settings.host /\ served.cert = settings.cert)
===============================================================================
