------------------------------- MODULE Doctor -------------------------------
(***************************************************************************)
(* `yerd status`, `yerd doctor` and `yerd doctor fix`: the daemon samples  *)
(* its own state and the host one probe at a time (ipc_server.rs,          *)
(* build_status_report), the pure yerd-doctor crate turns the sample into  *)
(* findings, the daemon applies the safe repairs, and the user follows the *)
(* remedies.  Faults happen between any two of those steps.                *)
(***************************************************************************)
EXTENDS Integers, Sequences, FiniteSets

CONSTANTS
    HostOs,         \* subset of {"linux", "macos"}
    Versions,       \* PHP versions
    MaxFaults       \* faults and changes from outside

\* The probes of build_status_report in their order, then the two inputs of
\* diagnose that are read after it.
Probes == <<"config", "pools", "installed", "ca", "browser", "resolver", "redirect", "backup", "phpca", "snapshots",
            "services", "path", "override">>
Privileged == 80
Fallbacks == {1, 2}     \* the rootless pairs that may be configured
ServiceIds == {"mysql", "reverb:a"}     \* one of a kind, and one of a site
Dialects == {"MyCnf", "PostgresConf", "RedisConf"}
\* The lines of a hand-edited override file: a comment, "[group]", "name",
\* "name = value", "name value" and a directive Yerd manages.
LineKinds == {"comment", "header", "flag", "pair", "words", "reserved"}

VARIABLES
    os,
    host,       \* the host and the disk, see DocInit
    live,       \* the daemon's process: its ports, its pools, what it read when it started
    ask,        \* the request: [pc, next probe, report, performed, findings]
    user,       \* the remedies still to follow
    was,        \* problems present at some moment of the request
    gone,       \* problems absent at some moment of the request
    fresh,      \* a fault happened during the request
    faults

\* A report before its probes: nothing determined.
StatusReport ==
    [config |-> [default |-> 0, lan |-> FALSE, shadows |-> {}, sites |-> FALSE, symlinks |-> TRUE],
     pools |-> [v \in Versions |-> "none"], installed |-> {}, ca |-> "unknown", browser |-> "unknown",
     resolver |-> "unknown", redirect |-> [active |-> "unknown", foreign |-> FALSE, targets |-> 0, lan |-> 0],
     backup |-> FALSE, phpca |-> "unknown", snapshots |-> [s \in ServiceIds |-> "none"], services |-> {},
     path |-> FALSE, override |-> {}]

NoAsk == [pc |-> "none", fix |-> FALSE, at |-> 1, report |-> StatusReport, plan |-> <<>>, performed |-> {}, findings |-> {}]

-----------------------------------------------------------------------------
\* The web ports: on Linux the daemon binds 80 and 443 itself once it has the
\* capability, on macOS it never does and pf carries them to its fallback pair.
BindWeb(h) ==
    CASE os = "linux" /\ h.cap /\ h.others \cap {80, 443} = {} -> Privileged
      [] h.fallback \in h.others -> 0
      [] OTHER -> h.fallback

\* Whether 127.0.0.1:80, and :443, are answered by the proxy, or by anything.
Carried == os = "macos" /\ host.pf /\ host.anchor # 0
ReachesProxy == live.bound = Privileged \/ (Carried /\ host.anchor = live.bound /\ live.bound # 0)
Reachable(port) == ReachesProxy \/ (IF Carried THEN host.anchor ELSE port) \in host.others

is_active == IF os = "macos" THEN (IF ReachesProxy /\ Reachable(443) THEN "yes" ELSE "no") ELSE "unknown"
foreign_web_listener == ~ReachesProxy /\ (Reachable(80) \/ Reachable(443))
redirect_targets == IF os = "macos" THEN host.anchor ELSE 0
lan_redirect_targets == IF os = "macos" THEN host.lanAnchor ELSE 0

\* php_trusts_ca: unknown when no managed bundle was wired at start-up.
php_trusts_ca == IF ~live.wired THEN "unknown" ELSE IF host.bundle THEN "yes" ELSE "no"

\* path_needs_setup: a dev tool is installed and no start-up file has the block.
path_needs_setup == host.tools /\ ~host.rcBlock

\* domain_shadows: the sites that lost a domain to an earlier one.
domain_shadows == {s \in DOMAIN host.claims : \E w \in 1 .. s - 1 : host.claims[w] \cap host.claims[s] # {}}

\* latest_resolver_backup: the newest, if it is not older than a week.
latest_resolver_backup == os = "macos" /\ host.backup = "recent"

\* service_statuses: the services of a kind, and those of a site that have an
\* entry in the config; the state is the one of the snapshot taken before.
build_status(snapshots, s) == [service |-> s, state |-> IF snapshots[s] = "none" THEN "stopped" ELSE snapshots[s]]
service_statuses(snapshots) == {build_status(snapshots, s) : s \in {"mysql"} \cup host.instances}

\* What each probe reads; r is the report so far.
Sample(probe, r) ==
    CASE probe = "config" -> [default |-> host.default, lan |-> host.lan, shadows |-> domain_shadows,
                              sites |-> host.sites, symlinks |-> TRUE]
      [] probe = "pools" -> live.pools
      [] probe = "installed" -> host.installed
      [] probe = "ca" -> host.ca
      [] probe = "browser" -> host.browser
      [] probe = "resolver" -> host.resolver
      [] probe = "redirect" -> [active |-> is_active, foreign |-> foreign_web_listener,
                                targets |-> redirect_targets, lan |-> lan_redirect_targets]
      [] probe = "backup" -> latest_resolver_backup
      [] probe = "phpca" -> php_trusts_ca
      [] probe = "snapshots" -> live.services
      [] probe = "services" -> service_statuses(r.snapshots)
      [] probe = "path" -> path_needs_setup
      [] probe = "override" -> host.local

-----------------------------------------------------------------------------
\* yerd-doctor.  r is the report, by probe; bound, webUnbound and dnsUnbound are
\* facts of the process.
privileged_fallback == live.bound # Privileged

redirect_stale_finding(r) == r.redirect.targets # 0 /\ r.redirect.targets # live.bound
lan_redirect_stale_finding(r) ==
    r.config.lan /\ r.redirect.lan # 0 /\ r.redirect.lan # live.bound

port_findings_Quiet(r) ==
    LET web == r.redirect
    IN (IF live.dnsUnbound THEN {"DnsPortUnbound"} ELSE {})
         \cup (IF web.foreign THEN {"ForeignWebListener"} ELSE {})
         \cup (IF live.bound = 0 THEN {"WebPortsUnbound"}
               ELSE IF privileged_fallback /\ web.active # "yes" /\ ~web.foreign /\ web.targets = 0
                    THEN {"PortFallback"} ELSE {})

port_findings(r) ==
    LET web == r.redirect
    IN (IF live.dnsUnbound THEN {"DnsPortUnbound"} ELSE {})
         \cup (IF web.foreign THEN {"ForeignWebListener"} ELSE {})
         \cup (IF live.bound = 0 THEN {"WebPortsUnbound"}
               ELSE (IF redirect_stale_finding(r) THEN {"PortRedirectStale"} ELSE {})
                      \cup (IF lan_redirect_stale_finding(r) THEN {"LanRedirectStale"} ELSE {})
                      \cup (IF privileged_fallback /\ web.active # "yes" /\ ~web.foreign /\ ~redirect_stale_finding(r)
                            THEN {"PortFallback"} ELSE {}))

trust_findings(r) ==
    {p \in {"CaNotTrusted", "CaNotTrustedByBrowsers", "PhpCaNotTrusted", "ResolverNotInstalled"} :
        CASE p = "CaNotTrusted" -> r.ca = "no"
          [] p = "CaNotTrustedByBrowsers" -> r.browser = "no"
          [] p = "PhpCaNotTrusted" -> r.phpca = "no"
          [] p = "ResolverNotInstalled" -> r.resolver = "no"}

\* A version's row: its pool, if the manager has one.
FailedPools(r) == {v \in r.installed : r.pools[v] = "failed"}

php_state_findings(r) ==
    (CASE r.installed = {} -> {"NoPhpInstalled"}
       [] r.installed # {} /\ r.config.default \notin r.installed -> {"DefaultPhpNotInstalled"}
       [] OTHER -> {})
      \cup (IF FailedPools(r) = {} THEN {} ELSE {"FpmPoolFailed"})

service_findings(r) == IF \E s \in r.services : s.state = "failed" THEN {"ServiceFailed"} ELSE {}

\* scan_local, on one line: what is neither skipped nor a directive of the
\* dialect, or is one that Yerd manages.
local_line_key(dialect, line) ==
    CASE dialect = "MyCnf" -> line \in {"flag", "pair", "reserved"}
      [] dialect = "PostgresConf" -> line \in {"pair", "words", "reserved"}
      [] dialect = "RedisConf" -> line \in {"pair", "words", "reserved"}
scan_local(dialect, line) ==
    /\ line # "comment" /\ ~(dialect = "MyCnf" /\ line = "header")
    /\ local_line_key(dialect, line) => line = "reserved"
service_override_findings(r) ==
    IF \E file \in r.override : scan_local(file[1], file[2]) THEN {"ServiceOverrideInvalid"} ELSE {}

shadow_findings(r) == IF r.config.shadows # {} THEN {"DomainShadowed"} ELSE {}
path_finding(r) == IF r.path THEN {"BinDirNotOnPath"} ELSE {}

\* What only informs.
no_sites_finding(r) == IF r.config.sites THEN {} ELSE {"NoSites"}
resolver_backup_finding(r) == IF r.backup THEN {"ResolverBackupSaved"} ELSE {}
Informs == {"NoSites", "ResolverBackupSaved"}

\* diagnose, without the updates and the switched-off symlink protection, which
\* inform as well.
diagnose(r) ==
    LET out == UNION {port_findings(r), trust_findings(r), php_state_findings(r), service_findings(r),
                      service_override_findings(r), resolver_backup_finding(r), no_sites_finding(r),
                      shadow_findings(r), path_finding(r)}
    IN IF out \subseteq Informs THEN out \cup {"AllGood"} ELSE out

\* plan_auto_fixes, in its order.
SetToOrder(S) == CHOOSE q \in [1 .. Cardinality(S) -> S] : \A i, j \in DOMAIN q : i < j => q[i] < q[j]
plan_auto_fixes(r) ==
    [i \in 1 .. Cardinality(FailedPools(r)) |-> [fix |-> "pool", version |-> SetToOrder(FailedPools(r))[i]]]
      \o (IF r.phpca = "no" THEN <<[fix |-> "bundle", version |-> 0]>> ELSE <<>>)

-----------------------------------------------------------------------------
\* What is wrong, whatever the doctor sees of it.
Problems == {"dns", "ports", "lan", "ca", "browser", "phpca", "resolver", "nophp", "default", "pool", "service",
             "override", "shadow", "path"}
\* The lines an engine refuses, or that fight with what Yerd writes.
Bad == [MyCnf |-> {"words", "reserved"}, PostgresConf |-> {"header", "flag", "reserved"},
        RedisConf |-> {"header", "flag", "reserved"}]
Present(p) ==
    CASE p = "dns" -> live.dnsUnbound
      [] p = "ports" -> ~ReachesProxy
      [] p = "lan" -> os = "macos" /\ host.lan /\ host.lanAnchor # 0 /\ host.lanAnchor # live.bound
      [] p = "ca" -> host.ca = "no"
      [] p = "browser" -> host.browser = "no"
      [] p = "phpca" -> live.wired /\ ~host.bundle
      [] p = "resolver" -> host.resolver = "no"
      [] p = "nophp" -> host.installed = {}
      [] p = "default" -> host.default \notin host.installed
      [] p = "pool" -> \E v \in host.installed : live.pools[v] = "failed"
      [] p = "service" -> \E s \in {"mysql"} \cup host.instances : live.services[s] = "failed"
      [] p = "override" -> \E file \in host.local : file[2] \in Bad[file[1]]
      [] p = "shadow" -> \E s, t \in DOMAIN host.claims : s # t /\ host.claims[s] \cap host.claims[t] # {}
      [] p = "path" -> host.tools /\ ~host.rcBlock

\* The problem a finding states.
About(f) ==
    CASE f = "DnsPortUnbound" -> "dns"
      [] f \in {"ForeignWebListener", "WebPortsUnbound", "PortRedirectStale", "PortFallback"} -> "ports"
      [] f = "LanRedirectStale" -> "lan" [] f = "CaNotTrusted" -> "ca" [] f = "CaNotTrustedByBrowsers" -> "browser"
      [] f = "PhpCaNotTrusted" -> "phpca" [] f = "ResolverNotInstalled" -> "resolver"
      [] f = "NoPhpInstalled" -> "nophp" [] f = "DefaultPhpNotInstalled" -> "default" [] f = "FpmPoolFailed" -> "pool"
      [] f = "ServiceFailed" -> "service" [] f = "ServiceOverrideInvalid" -> "override"
      [] f = "DomainShadowed" -> "shadow" [] f = "BinDirNotOnPath" -> "path"

Now == {p \in Problems : Present(p)}

-----------------------------------------------------------------------------
Healthy ==
    [fallback |-> 1, others |-> {}, cap |-> TRUE, pf |-> TRUE, anchor |-> 1, lanAnchor |-> 1, lan |-> TRUE,
     ca |-> "yes", browser |-> "yes", resolver |-> "yes", bundle |-> TRUE, roots |-> TRUE, installed |-> Versions,
     default |-> CHOOSE v \in Versions : TRUE, claims |-> <<{1}, {2}>>, tools |-> TRUE, rcBlock |-> TRUE,
     local |-> {}, dnsBusy |-> FALSE, sites |-> TRUE, backup |-> "recent", instances |-> {"reverb:a"}]

\* The hosts one change away.
Damaged(h) ==
    {[h EXCEPT !.pf = FALSE], [h EXCEPT !.cap = FALSE], [h EXCEPT !.fallback = 2], [h EXCEPT !.dnsBusy = TRUE],
     [h EXCEPT !.claims = <<{1}, {1, 2}>>], [h EXCEPT !.rcBlock = FALSE], [h EXCEPT !.instances = {}],
     [h EXCEPT !.local = {<<"MyCnf", "reserved">>}]}
      \cup UNION {{[h EXCEPT !.ca = s], [h EXCEPT !.browser = s], [h EXCEPT !.resolver = s]} : s \in {"no", "unknown"}}
      \cup {[h EXCEPT !.bundle = FALSE, !.roots = r] : r \in BOOLEAN}
      \cup {[h EXCEPT !.default = v] : v \in Versions}

\* build_php_ca_bundle: rewritten from the host's roots, or the existing one when
\* it holds roots and the CA; otherwise none.
build_php_ca_bundle(h) == h.roots \/ h.bundle

Started_Wired(h) ==
    [bound |-> BindWeb(h), dnsUnbound |-> h.dnsBusy, wired |-> TRUE,
     pools |-> [v \in Versions |-> "none"], services |-> [s \in ServiceIds |-> "running"]]

\* The daemon's process after a start: what it could bind, whether it wired a
\* bundle, no pool yet, its services up.
Started(h) ==
    [bound |-> BindWeb(h), dnsUnbound |-> h.dnsBusy, wired |-> build_php_ca_bundle(h),
     pools |-> [v \in Versions |-> "none"], services |-> [s \in ServiceIds |-> "running"]]

\* A new machine, nothing set up yet, or one where everything, or all but one
\* thing, is.
New == [Healthy EXCEPT !.cap = FALSE, !.pf = FALSE, !.anchor = 0, !.lanAnchor = 0, !.lan = FALSE, !.ca = "no",
                       !.browser = "no", !.resolver = "no", !.installed = {}, !.rcBlock = FALSE, !.sites = FALSE,
                       !.backup = "none"]

DocInit ==
    /\ os \in HostOs
    /\ host \in {Healthy, New} \cup Damaged(Healthy)
                  \cup {[Healthy EXCEPT !.local = {file}] : file \in Dialects \X LineKinds}
    /\ \E pool \in {"none"} \cup IF host.local = {} THEN {"failed"} ELSE {} :
         live = [Started(host) EXCEPT !.pools = [v \in Versions |-> IF v \in host.installed THEN pool ELSE "none"]]
    /\ ask = NoAsk /\ user = {} /\ was = {} /\ gone = {} /\ fresh = FALSE /\ faults = 0

\* `yerd doctor`, or `yerd doctor fix`.
Begin(fix) ==
    /\ ask.pc = "none" /\ (IF fix THEN "fix" \in user ELSE user = {})
    /\ ask' = [NoAsk EXCEPT !.pc = "probe", !.fix = fix]
    /\ user' = user \ {"fix"}
    /\ was' = Now /\ gone' = Problems \ Now /\ fresh' = FALSE
    /\ UNCHANGED <<os, host, live, faults>>

\* build_status_report, one probe; after the last, diagnose or the first fix.
build_status_report ==
    /\ ask.pc = "probe"
    /\ LET report == [ask.report EXCEPT ![Probes[ask.at]] = Sample(Probes[ask.at], ask.report)]
       IN ask' = IF ask.at < Len(Probes) /\ ~(ask.fix /\ Probes[ask.at] = "services")
                 THEN [ask EXCEPT !.at = @ + 1, !.report = report]
                 ELSE IF ask.fix
                 THEN [ask EXCEPT !.pc = "fixing", !.at = 1, !.report = StatusReport, !.plan = plan_auto_fixes(report)]
                 ELSE [ask EXCEPT !.pc = "answered", !.report = StatusReport, !.findings = diagnose(report)]
    /\ UNCHANGED <<os, host, live, user, was, gone, fresh, faults>>

\* restart of a pool: it runs afterwards, or (not installed, or it fails to come
\* up) the fix failed.
RestartFpm(v) ==
    \/ /\ v \in host.installed
       /\ live' = [live EXCEPT !.pools[v] = "running"]
       /\ ask' = [ask EXCEPT !.plan = Tail(@), !.performed = @ \cup {[code |-> "FpmPoolFailed", ok |-> TRUE]}]
       /\ UNCHANGED faults
    \/ /\ v \notin host.installed \/ faults < MaxFaults
       /\ faults' = IF v \in host.installed THEN faults + 1 ELSE faults
       /\ live' = [live EXCEPT !.pools[v] = "failed"]
       /\ ask' = [ask EXCEPT !.plan = Tail(@), !.performed = @ \cup {[code |-> "FpmPoolFailed", ok |-> FALSE]}]

rebuild_php_ca_bundle_Ok ==
    /\ host' = [host EXCEPT !.bundle = build_php_ca_bundle(host)]
    /\ ask' = [ask EXCEPT !.plan = Tail(@), !.performed = @ \cup {[code |-> "PhpCaNotTrusted", ok |-> TRUE]}]

rebuild_php_ca_bundle ==
    LET ok == build_php_ca_bundle(host)
    IN /\ host' = [host EXCEPT !.bundle = ok]
       /\ ask' = [ask EXCEPT !.plan = Tail(@), !.performed = @ \cup {[code |-> "PhpCaNotTrusted", ok |-> ok]}]

\* run_doctor_fix: the planned fixes in order, then a fresh report.
run_doctor_fix ==
    /\ ask.pc = "fixing"
    /\ IF ask.plan = <<>>
       THEN ask' = [ask EXCEPT !.pc = "probe", !.fix = FALSE] /\ UNCHANGED <<host, live, faults>>
       ELSE IF Head(ask.plan).fix = "pool" THEN RestartFpm(Head(ask.plan).version) /\ UNCHANGED host
       ELSE rebuild_php_ca_bundle /\ UNCHANGED <<live, faults>>
    /\ UNCHANGED <<os, user, fresh>>
    /\ was' = was \cup Now' /\ gone' = gone \cup (Problems \ Now')

-----------------------------------------------------------------------------
\* The user reads the answer and follows its remedies.
Read ==
    /\ ask.pc = "answered"
    /\ user' = {IF f \in {"FpmPoolFailed", "PhpCaNotTrusted"} /\ [code |-> f, ok |-> FALSE] \notin ask.performed THEN "fix"
                ELSE f : f \in ask.findings \ (Informs \cup {"AllGood"})}
    /\ ask' = NoAsk /\ was' = {} /\ gone' = {}
    /\ UNCHANGED <<os, host, live, fresh, faults>>

\* The host after `sudo yerd elevate ports`, which is refused while nothing is
\* bound and, on macOS, while a privileged port is.
ElevatePorts(h, bound) ==
    IF os = "linux" THEN [h EXCEPT !.cap = TRUE]
    ELSE IF bound \in Fallbacks THEN [h EXCEPT !.pf = TRUE, !.anchor = bound] ELSE h

\* The remedy of each finding; the commands of a remedy one after the other.
Restarted(h) == host' = h /\ live' = Started(h)
Remedy(f) ==
    CASE f = "DnsPortUnbound" -> Restarted([host EXCEPT !.dnsBusy = FALSE])
      [] f = "WebPortsUnbound" -> Restarted([host EXCEPT !.others = @ \ {host.fallback}])
      [] f \in {"ForeignWebListener", "PortFallback"} ->
           LET h == ElevatePorts([host EXCEPT !.others = IF f = "PortFallback" THEN @ ELSE @ \ ({80, 443} \cup Fallbacks)], live.bound)
           IN IF os = "linux" THEN Restarted(h) ELSE host' = h /\ UNCHANGED live
      [] f = "PortRedirectStale" -> live' = Started(host) /\ host' = ElevatePorts(host, live'.bound)
      [] f = "LanRedirectStale" -> host' = [host EXCEPT !.lanAnchor = IF live.bound = 0 THEN @ ELSE live.bound] /\ UNCHANGED live
      [] f \in {"CaNotTrusted", "CaNotTrustedByBrowsers"} ->
           host' = [host EXCEPT !.ca = "yes", !.browser = "yes"] /\ UNCHANGED live
      [] f = "ResolverNotInstalled" ->
           host' = [host EXCEPT !.resolver = IF live.dnsUnbound THEN @ ELSE "yes"] /\ UNCHANGED live
      [] f \in {"NoPhpInstalled", "DefaultPhpNotInstalled"} ->
           host' = [host EXCEPT !.installed = @ \cup {host.default}] /\ UNCHANGED live
      [] f = "FpmPoolFailed" -> live' = [live EXCEPT !.pools = [v \in Versions |-> IF @[v] = "failed" THEN "running" ELSE @[v]]]
                                /\ UNCHANGED host
      [] f = "PhpCaNotTrusted" -> Restarted(host)
      [] f = "ServiceFailed" -> live' = [live EXCEPT !.services = [s \in ServiceIds |-> "running"]] /\ UNCHANGED host
      [] f = "ServiceOverrideInvalid" -> host' = [host EXCEPT !.local = {}] /\ UNCHANGED live
      [] f = "DomainShadowed" -> host' = [host EXCEPT !.claims[2] = @ \ host.claims[1]] /\ UNCHANGED live
      [] f = "BinDirNotOnPath" -> host' = [host EXCEPT !.rcBlock = TRUE] /\ UNCHANGED live

Follow ==
    /\ ask.pc = "none"
    /\ \E f \in user \ {"fix"} : Remedy(f) /\ user' = user \ {f}
    /\ UNCHANGED <<os, ask, was, gone, fresh, faults>>

\* Faults, and changes by others, at any time; a restart may find a port taken.
Fault ==
    /\ faults < MaxFaults /\ faults' = faults + 1 /\ fresh' = TRUE
    /\ \/ host' \in Damaged(host) /\ UNCHANGED live
       \/ live.bound # Privileged /\ UNCHANGED live
            /\ \E p \in {80, 443} : host' = [host EXCEPT !.others = @ \cup {p}]
       \/ \E v \in host.installed : host' = [host EXCEPT !.installed = @ \ {v}]
                                     /\ live' = [live EXCEPT !.pools[v] = "none"]
       \/ \E v \in host.installed : live' = [live EXCEPT !.pools[v] = "failed"] /\ UNCHANGED host
       \/ \E s \in {"mysql"} \cup host.instances : live' = [live EXCEPT !.services[s] = "failed"] /\ UNCHANGED host
       \/ ask.pc = "none" /\ \E taken \in {{}, {80}, {host.fallback}} :
            Restarted([host EXCEPT !.others = @ \cup taken])
    /\ UNCHANGED <<os, ask, user>>
    /\ was' = was \cup Now' /\ gone' = gone \cup (Problems \ Now')

DocNext ==
    \/ \E fix \in BOOLEAN : Begin(fix)
    \/ build_status_report \/ run_doctor_fix \/ Read \/ Follow \/ Fault

-----------------------------------------------------------------------------
\* Every finding of `yerd doctor` was true at some moment of the request, and
\* what it does not report was absent, or could not be determined, at some
\* moment: with no finding the sites really are served on 80 and 443, whoever
\* holds the ports and wherever pf points (diagnose, port_findings and the
\* probes).  DefaultPhpNotInstalled compares a default and a directory listing
\* that were read apart, and is excepted when the request saw a change.
DoctorTellsTheTruth ==
    ask.pc = "answered" =>
      /\ \A f \in ask.findings \ (Informs \cup {"AllGood"}) : About(f) \in was \/ (f = "DefaultPhpNotInstalled" /\ fresh)
      /\ \A p \in Problems : (\A f \in ask.findings \ (Informs \cup {"AllGood"}) : About(f) # p) => p \in gone
             \/ (p = "default" /\ "NoPhpInstalled" \in ask.findings)
             \/ (p = "lan" /\ "WebPortsUnbound" \in ask.findings)

\* "A successfully restarted pool won't reappear": when `yerd doctor fix` says
\* that a repair worked, what still needs attention does not list it, unless
\* something failed again meanwhile (run_doctor_fix, plan_auto_fixes).
FixHelps ==
    (ask.pc = "answered" /\ ~fresh) =>
      \A f \in ask.findings \cap {"FpmPoolFailed", "PhpCaNotTrusted"} :
        [code |-> f, ok |-> TRUE] \notin ask.performed \/ [code |-> f, ok |-> FALSE] \in ask.performed

\* Following the remedies leads out of every combination of faults: once they
\* stop, `yerd doctor` comes to say that all is good, again and again.
RemediesWork == []<>(ask.pc = "answered" /\ "AllGood" \in ask.findings)
=============================================================================
