---------------------------- MODULE NamedTunnel ----------------------------
(* The single named Cloudflare tunnel of yerdd: created and deleted on the   *)
(* account, recorded in the config, and served by one consolidated process.  *)
(* create, delete and start run one at a time under tunnel_mutate, which they *)
(* keep across their account commands and across the start's readiness loop;  *)
(* StopNamedTunnel and SetSiteTunnel do not take it.  A step is the stretch   *)
(* of a handler between two awaits.  Requests that are refused before they   *)
(* take the lock (no binary, no login, a bad name) leave no trace here; the   *)
(* process under NAMED_KEY is the one TunnelManager supervises.              *)
(* Beside them two caches: state.cloudflared_resolution remembers which      *)
(* cloudflared binary is used, the one that Yerd installed or one found on    *)
(* the user's PATH by a slow search; ZONE_CACHE remembers the Cloudflare zone *)
(* of the account certificate, keyed by the file's mtime.  Install and login  *)
(* jobs compete for tunnel_mutate too.                                       *)
EXTENDS Naturals, FiniteSets

CONSTANTS
    Names,     \* valid tunnel names
    TunnelSites,     \* sites the router resolves
    Callers,     \* IPC tasks
    NoCaller,    \* nobody
    NoName,    \* no tunnel name
    MaxEvents  \* bound: tunnels ever created on the account and certificates ever written

ASSUME NamedTunnelAssumption == MaxEvents \in Nat /\ NoCaller \notin Callers

VARIABLES
    account,   \* name -> uuid of the tunnel on the Cloudflare account, or 0
    uuids,     \* how many uuids the account has handed out
    creds,     \* name -> uuid in its credentials file, or 0
    named,     \* config.tunnel.named: name -> recorded uuid, or 0
    hosts,     \* config.tunnel.sites: the sites with a hostname
    serving,   \* the process under NAMED_KEY: the uuid it serves, or 0
    managed,   \* {data}/tunnel/bin/cloudflared exists
    sysbin,    \* a usable cloudflared is on the user's PATH
    cache,     \* source of the cached resolution, or "none"
    installed, \* some install job has ended as Succeeded
    cert,      \* cert.pem: 0 absent, else the number (and mtime) of its login
    zone,      \* ZONE_CACHE: the mtime it is keyed by, the login it is from
    mutate,    \* holder of tunnel_mutate
    call,      \* task -> the local state of its create, delete or start
    job        \* task -> of its install, login, resolution or listing

acctvars == <<account, uuids, creds>>
cfgvars == <<named, hosts>>
binvars == <<managed, sysbin, cache, installed>>
zonevars == <<cert, zone>>
namedvars == <<acctvars, cfgvars, serving, binvars, zonevars, mutate, call, job>>

CallOps == {"none", "create", "delete", "start"}
NoCall == [op |-> "none", at |-> "idle", name |-> NoName, uuid |-> 0]
Sources == {"none", "Managed", "System"}
NoJob == [at |-> "idle", fresh |-> "none", mtime |-> 0, pem |-> 0]

Requests ==
    [op : CallOps, name : Names \cup {NoName}, uuid : 0 .. MaxEvents,
     at : {"idle", "lock", "check", "oneshot", "save", "rules", "begin", "driving"}]
Jobs ==
    [at : {"idle", "resolve", "probe", "cachewrite", "wait_install", "install",
           "refresh", "wait_login", "login", "zone", "mtime", "pem"},
     fresh : Sources, mtime : 0 .. MaxEvents, pem : 0 .. MaxEvents]

NamedTypeOK ==
    /\ account \in [Names -> 0 .. MaxEvents] /\ uuids \in 0 .. MaxEvents
    /\ creds \in [Names -> 0 .. MaxEvents]
    /\ named \in [Names -> 0 .. MaxEvents] /\ hosts \subseteq TunnelSites
    /\ serving \in 0 .. MaxEvents
    /\ mutate \in Callers \cup {NoCaller}
    /\ call \in [Callers -> Requests]
    /\ managed \in BOOLEAN /\ sysbin \in BOOLEAN /\ installed \in BOOLEAN /\ cache \in Sources
    /\ cert \in 0 .. MaxEvents /\ zone \in [mtime : 0 .. MaxEvents, from : 0 .. MaxEvents]
    /\ job \in [Callers -> Jobs]

NamedInit ==
    /\ account = [n \in Names |-> 0] /\ uuids = 0
    /\ creds = [n \in Names |-> 0]
    /\ named = [n \in Names |-> 0] /\ hosts = {}
    /\ serving = 0 /\ mutate = NoCaller
    /\ call = [t \in Callers |-> NoCall]
    /\ managed \in BOOLEAN /\ sysbin \in BOOLEAN
    /\ cache = "none" /\ installed = FALSE
    /\ cert = 0 /\ zone = [mtime |-> 0, from |-> 0]
    /\ job = [t \in Callers |-> NoJob]

Is(t, op, at) == call[t].op = op /\ call[t].at = at
CallGoTo(t, at) == call' = [call EXCEPT ![t].at = at] /\ UNCHANGED mutate
Return(t) == call' = [call EXCEPT ![t] = NoCall] /\ mutate' = NoCaller
Recorded == {n \in Names : named[n] # 0}

-----------------------------------------------------------------------------
AskCall(t, op, n) ==
    /\ call[t].at = "idle" /\ job[t].at = "idle"
    /\ call' = [call EXCEPT ![t] = [NoCall EXCEPT !.op = op, !.name = n, !.at = "lock"]]
    /\ UNCHANGED <<acctvars, cfgvars, serving, mutate>>

\* Mutant: create does not wait for the account lock.
Lock_Skipped(t) ==
    /\ call[t].at = "lock"
    /\ call[t].op = "create" \/ mutate = NoCaller
    /\ mutate' = IF call[t].op = "create" THEN mutate ELSE t
    /\ call' = [call EXCEPT ![t].at = "check"]
    /\ UNCHANGED <<acctvars, cfgvars, serving>>

Lock(t) ==
    /\ call[t].at = "lock" /\ mutate = NoCaller
    /\ mutate' = t
    /\ call' = [call EXCEPT ![t].at = "check"]
    /\ UNCHANGED <<acctvars, cfgvars, serving>>

\* create refuses a second name, delete an unrecorded one, and start needs a
\* tunnel and an enabled site.
Refused(t) ==
    /\ call[t].at = "check"
    /\ CASE call[t].op = "create" -> Recorded \ {call[t].name} # {}
         [] call[t].op = "delete" -> call[t].name \notin Recorded
         [] OTHER -> Recorded = {} \/ hosts = {}
    /\ Return(t)
    /\ UNCHANGED <<acctvars, cfgvars, serving>>

-----------------------------------------------------------------------------
(* create.                                                                   *)

CreateStart(t) ==
    /\ Is(t, "create", "check") /\ Recorded \ {call[t].name} = {}
    /\ CallGoTo(t, "oneshot")
    /\ UNCHANGED <<acctvars, cfgvars, serving>>

\* `cloudflared tunnel create` makes the tunnel and writes its credentials; it
\* refuses a name the account already has.
AccountCreates(n) ==
    /\ account[n] = 0 /\ uuids + cert < MaxEvents
    /\ uuids' = uuids + 1
    /\ account' = [account EXCEPT ![n] = uuids']

CreateDone(t) ==
    /\ Is(t, "create", "oneshot")
    /\ AccountCreates(call[t].name)
    /\ creds' = [creds EXCEPT ![call[t].name] = uuids']
    /\ call' = [call EXCEPT ![t].at = "save", ![t].uuid = uuids']
    /\ UNCHANGED <<cfgvars, serving, mutate>>

\* It fails, times out (perhaps after the account accepted it), or its output
\* has no uuid: nothing is recorded.
CreateFails(t) ==
    /\ Is(t, "create", "oneshot")
    /\ \/ UNCHANGED acctvars
       \/ /\ AccountCreates(call[t].name)
          /\ creds' \in {creds, [creds EXCEPT ![call[t].name] = uuids']}
    /\ Return(t)
    /\ UNCHANGED <<cfgvars, serving>>

\* The config is cloned, changed, saved and only then committed.
CreateSaved(t) ==
    /\ Is(t, "create", "save")
    /\ named' \in {named, [named EXCEPT ![call[t].name] = call[t].uuid]}
    /\ Return(t)
    /\ UNCHANGED <<acctvars, hosts, serving>>

-----------------------------------------------------------------------------
(* delete.                                                                   *)

\* Mutant: the running process is not stopped.
DeleteStart_Running(t) ==
    /\ Is(t, "delete", "check") /\ call[t].name \in Recorded
    /\ CallGoTo(t, "oneshot")
    /\ UNCHANGED <<acctvars, cfgvars, serving>>

\* The running process is stopped first; if the kill fails the handle is
\* dropped, which kills the process, and delete gives up.
DeleteStart(t) ==
    /\ Is(t, "delete", "check") /\ call[t].name \in Recorded
    /\ serving' = 0
    /\ CallGoTo(t, "oneshot") \/ Return(t)
    /\ UNCHANGED <<acctvars, cfgvars>>

\* `cleanup`, whose result is ignored, and `delete`; then the credentials file.
DeleteDone(t) ==
    /\ Is(t, "delete", "oneshot")
    /\ account' = [account EXCEPT ![call[t].name] = 0]
    /\ creds' = [creds EXCEPT ![call[t].name] = 0]
    /\ CallGoTo(t, "save")
    /\ UNCHANGED <<uuids, cfgvars, serving>>

\* A timeout may hide a deletion that went through.
DeleteFails(t) ==
    /\ Is(t, "delete", "oneshot")
    /\ account' \in {account, [account EXCEPT ![call[t].name] = 0]}
    /\ Return(t)
    /\ UNCHANGED <<uuids, creds, cfgvars, serving>>

DeleteSaved(t) ==
    /\ Is(t, "delete", "save")
    /\ \/ named' = [named EXCEPT ![call[t].name] = 0] /\ hosts' = {}
       \/ UNCHANGED cfgvars
    /\ Return(t)
    /\ UNCHANGED <<acctvars, serving>>

-----------------------------------------------------------------------------
(* The consolidated process, and the hostnames it serves.                    *)

\* One look at the config; the rules and named.yml are written from it.
StartReads(t) ==
    /\ Is(t, "start", "check") /\ hosts # {}
    /\ \E n \in Recorded :
         call' = [call EXCEPT ![t].at = "rules", ![t].uuid = named[n]]
    /\ UNCHANGED <<acctvars, cfgvars, serving, mutate>>

\* The old process is stopped, unless no enabled site exists any more or
\* named.yml cannot be written.
StartStops(t) ==
    /\ Is(t, "start", "rules")
    /\ \/ serving' = 0 /\ CallGoTo(t, "begin")
       \/ serving' \in {0, serving} /\ Return(t)
    /\ UNCHANGED <<acctvars, cfgvars>>

\* run_to_ready: begin spawns the process, or fails.
StartRuns(t) ==
    /\ Is(t, "start", "begin")
    /\ \/ serving = 0 /\ serving' = call[t].uuid /\ CallGoTo(t, "driving")
       \/ UNCHANGED serving /\ Return(t)
    /\ UNCHANGED <<acctvars, cfgvars>>

\* Its loop ends: ready or gone, or failed and then stopped.  cloudflared
\* registers a connection only for a tunnel that the account has.
StartEnds(t) ==
    /\ Is(t, "start", "driving")
    /\ serving' \in {0} \cup {u \in {serving} : \E n \in Names : account[n] = u}
    /\ Return(t)
    /\ UNCHANGED <<acctvars, cfgvars>>

\* StopNamedTunnel takes only the manager's lock; the process may also die.
StopNamed ==
    /\ serving # 0 /\ serving' = 0
    /\ UNCHANGED <<acctvars, cfgvars, mutate, call>>

\* SetSiteTunnel sets or clears one site's hostname under the config lock.
SetSiteHostname(s) ==
    /\ hosts' \in {hosts \cup {s}, hosts \ {s}}
    /\ UNCHANGED <<named, acctvars, serving, mutate, call>>

-----------------------------------------------------------------------------
(* The caches.                                                               *)

JobGoTo(t, at) == job' = [job EXCEPT ![t].at = at]
JobReturn(t) == job' = [job EXCEPT ![t] = NoJob]

-----------------------------------------------------------------------------
(* Requests.  Tunnel actions and status polls resolve the binary; a listing   *)
(* resolves the zone; installs and logins are jobs under tunnel_mutate.      *)

AskJob(t, at) ==
    /\ job[t].at = "idle" /\ call[t].at = "idle"
    /\ JobGoTo(t, at)
    /\ UNCHANGED <<binvars, zonevars, mutate>>

\* The user installs or removes a system cloudflared.
PathChanges ==
    /\ sysbin' = ~sysbin
    /\ UNCHANGED <<managed, cache, installed, zonevars, mutate, job>>

-----------------------------------------------------------------------------
(* resolved_cloudflared.                                                     *)

cached_cloudflared_if_valid == cache = "Managed" \/ (cache = "System" /\ sysbin)

CacheHit(t) ==
    /\ job[t].at = "resolve" /\ cached_cloudflared_if_valid
    /\ JobReturn(t)
    /\ UNCHANGED <<binvars, zonevars, mutate>>

\* A miss: the managed binary wins; otherwise PATH is searched, which awaits.
resolve(t) ==
    /\ job[t].at = "resolve" /\ ~cached_cloudflared_if_valid
    /\ job' = [job EXCEPT ![t].at = IF managed THEN "cachewrite" ELSE "probe",
                            ![t].fresh = IF managed THEN "Managed" ELSE "none"]
    /\ UNCHANGED <<binvars, zonevars, mutate>>

\* The search and the version probe end: nothing is found, the version cannot
\* be read or is too old, or the binary is usable.
probe(t) ==
    /\ job[t].at = "probe"
    /\ \E f \in {"none"} \cup IF sysbin THEN {"System"} ELSE {} :
         job' = [job EXCEPT ![t].at = "cachewrite", ![t].fresh = f]
    /\ UNCHANGED <<binvars, zonevars, mutate>>

\* Mutant: a slow probe overwrites what an install has just cached.
is_downgrade_Never(fresh) == FALSE

is_downgrade(fresh) == cache = "Managed" /\ fresh # "Managed"

CacheWrite(t) ==
    /\ job[t].at = "cachewrite"
    /\ cache' = IF is_downgrade(job[t].fresh) THEN cache ELSE job[t].fresh
    /\ JobReturn(t)
    /\ UNCHANGED <<managed, sysbin, installed, zonevars, mutate>>

-----------------------------------------------------------------------------
(* The install job and the login job.                                        *)

LockJob(t) ==
    /\ job[t].at \in {"wait_install", "wait_login"} /\ mutate = NoCaller
    /\ mutate' = t
    /\ JobGoTo(t, IF job[t].at = "wait_install" THEN "install" ELSE "login")
    /\ UNCHANGED <<binvars, zonevars>>

\* An install job can be cancelled while it waits for the lock; a login job
\* looks at its cancel flag only once its child runs.
CancelWaiting(t) ==
    /\ job[t].at = "wait_install"
    /\ JobReturn(t)
    /\ UNCHANGED <<binvars, zonevars, mutate>>

\* The release is fetched and verified, and the binary renamed into place;
\* then the version marker is written, which may still fail.
install(t) ==
    /\ job[t].at = "install"
    /\ \/ managed' = TRUE /\ JobGoTo(t, "refresh")
       \/ managed' \in {managed, TRUE} /\ JobReturn(t)
    /\ mutate' = NoCaller
    /\ UNCHANGED <<sysbin, cache, installed, zonevars>>

\* refresh_cloudflared_cache_after_install, after the lock is released, and
\* then the job's end as Succeeded.
InstallRefresh(t) ==
    /\ job[t].at = "refresh"
    /\ cache' = "Managed" /\ installed' = TRUE
    /\ JobReturn(t)
    /\ UNCHANGED <<managed, sysbin, zonevars, mutate>>

\* The child writes the certificate and exits, or exits without; a cancel or
\* the timeout kills it, perhaps just after it wrote.
login(t) ==
    /\ job[t].at = "login"
    /\ cert' \in {cert} \cup IF uuids + cert < MaxEvents THEN {cert + 1} ELSE {}
    /\ JobReturn(t)
    /\ mutate' = NoCaller
    /\ UNCHANGED <<binvars, zone>>

-----------------------------------------------------------------------------
(* resolve_zone.                                                             *)

ZoneLookup(t) ==
    /\ job[t].at = "zone"
    /\ IF cert = 0 \/ zone.mtime = cert THEN JobReturn(t)
       ELSE job' = [job EXCEPT ![t].at = "mtime", ![t].mtime = cert]
    /\ UNCHANGED <<binvars, zonevars, mutate>>

\* A login may replace the file between the look at its mtime and the read.
ReadPem(t) ==
    /\ job[t].at = "mtime"
    /\ job' = [job EXCEPT ![t].at = "pem", ![t].pem = cert]
    /\ UNCHANGED <<binvars, zonevars, mutate>>

\* Mutant: the entry is keyed by the mtime at the time of the answer.
ZoneAnswer_Rekeyed(t) ==
    /\ job[t].at = "pem"
    /\ zone' \in {zone, [mtime |-> cert, from |-> job[t].pem]}
    /\ JobReturn(t)
    /\ UNCHANGED <<binvars, cert, mutate>>

\* The API answers, or does not.
ZoneAnswer(t) ==
    /\ job[t].at = "pem"
    /\ zone' \in {zone, [mtime |-> job[t].mtime, from |-> job[t].pem]}
    /\ JobReturn(t)
    /\ UNCHANGED <<binvars, cert, mutate>>

-----------------------------------------------------------------------------
CallStep(t) ==
    \/ Lock(t) \/ Refused(t)
    \/ CreateStart(t) \/ CreateDone(t) \/ CreateFails(t) \/ CreateSaved(t)
    \/ DeleteStart(t) \/ DeleteDone(t) \/ DeleteFails(t) \/ DeleteSaved(t)
    \/ StartReads(t) \/ StartStops(t) \/ StartRuns(t) \/ StartEnds(t)

JobStep(t) ==
    \/ CacheHit(t) \/ resolve(t) \/ probe(t) \/ CacheWrite(t)
    \/ LockJob(t) \/ CancelWaiting(t) \/ install(t) \/ InstallRefresh(t) \/ login(t)
    \/ ZoneLookup(t) \/ ReadPem(t) \/ ZoneAnswer(t)

TunnelNext ==
    \/ \E t \in Callers : CallStep(t)
    \/ \E t \in Callers, n \in Names, op \in {"create", "delete"} : AskCall(t, op, n)
    \/ \E t \in Callers : AskCall(t, "start", NoName)
    \/ StopNamed
    \/ \E s \in TunnelSites : SetSiteHostname(s)

CacheNext ==
    \/ \E t \in Callers : JobStep(t)
    \/ \E t \in Callers, at \in {"resolve", "wait_install", "wait_login", "zone"} : AskJob(t, at)
    \/ PathChanges

NamedNext ==
    \/ TunnelNext /\ UNCHANGED <<binvars, zonevars, job>>
    \/ CacheNext /\ UNCHANGED <<acctvars, cfgvars, serving, call>>

NamedSpec == NamedInit /\ [][NamedNext]_namedvars

-----------------------------------------------------------------------------
(* Properties.                                                               *)

\* Yerd supports one named tunnel: `start` serves "the" recorded tunnel, so
\* the config never records two, however creates and deletes interleave.
OneNamedTunnel == Cardinality(Recorded) <= 1

\* The consolidated process always serves the tunnel that is recorded: delete
\* never leaves it running for a tunnel that it forgets, although a start
\* reads the tunnel long before it spawns the process.
ServesRecorded == serving # 0 => \E n \in Names : named[n] = serving

\* Once an install job has succeeded the managed binary is the one in use,
\* even if a PATH search that started before the install ends after it.
ManagedWins == installed => cache = "Managed"

\* The zone shown is that of the current login: an entry of ZONE_CACHE that
\* would be a hit was computed from the certificate now on disk, although the
\* file may be replaced between the look at its mtime, the read and the answer.
ZoneIsCurrent == cert # 0 /\ zone.mtime = cert => zone.from = cert

\* The named tunnel that runs is the only one and the recorded one, and uses the
\* managed binary and the zone of the current certificate.
NamedTunnelIsRecorded == OneNamedTunnel /\ ServesRecorded /\ ManagedWins /\ ZoneIsCurrent
=============================================================================
