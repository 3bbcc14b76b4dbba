----------------------------- MODULE HostSetup ------------------------------
(***************************************************************************)
(* The changes Yerd makes to the host as root: `yerd elevate` and its undo *)
(* (yerd elevate.rs, desktop elevate.rs), `yerd uninstall` (uninstall.rs), *)
(* and the helper they spawn (yerd-helper), step by step.  A write or a    *)
(* command may fail and the helper may be killed between two steps.        *)
(***************************************************************************)
EXTENDS Integers, Sequences, SequencesExt, FiniteSets, TLC

CONSTANTS
    Hosts,       \* a subset of {"resolved", "nm", "mac"}
    Ports,       \* ports Yerd's DNS server may have
    UserFiles,   \* what may be in /etc/resolver/<tld> before: "none", "user", "junk"
    MaxOps,      \* commands
    MaxFaults    \* failing writes and commands, kills

ASSUME HostAssumption == {MaxOps, MaxFaults} \subseteq Nat

None == "none"
Anchors == {"host", "lan"}
AnchorFile == [host |-> "anchor.host", lan |-> "anchor.lan"]
Plist == [host |-> "plist.host", lan |-> "plist.lan"]
Paths == {"resolver", "nm", "dns", "ca", "pf"} \cup {AnchorFile[a] : a \in Anchors}
           \cup {Plist[a] : a \in Anchors}

\* /etc/pf.conf: the user's translation and filter lines, and Yerd's two per
\* anchor, which end in its marker.
RdrLine == [host |-> "rdr.host", lan |-> "rdr.lan"]
LoadLine == [host |-> "load.host", lan |-> "load.lan"]
Marked(a) == {RdrLine[a], LoadLine[a]}
Translation == {"nat-anchor", "rdr.host", "rdr.lan"}
PfFiles == {<<"nat-anchor", "filter">>, <<"filter">>}

VARIABLES
    host,
    files,      \* [Paths -> content]; "none" is no file
    temps,      \* the files whose temporary sibling was left behind
    backups,    \* copies of replaced resolver files, oldest first
    live,       \* [dns, ca, user, pf]: what the resolver, the system's and the
                \* user's trust settings and pf use
    browsers,   \* whether the browser's NSS store has the CA
    h,          \* the helper: [pc, inv, orig, old, note]; note: a warning was printed
    cmd,        \* the command: [kind, todo, undo, gui, facts, failed, residue]
    installed,  \* whether Yerd's own files are still there
    ops, faults

vars == <<host, files, temps, backups, live, browsers, h, cmd, installed, ops, faults>>

Mac == host = "mac"

-----------------------------------------------------------------------------
(* The invocation of the helper and its argument vector (helper.rs).       *)

CaFlags == ("install-ca" :> <<"pem", "fingerprint">>) @@ ("uninstall-ca" :> <<"fingerprint">>)
ResolverFlags ==
  ("install-resolver" :> <<"tld", "addr">>) @@ ("uninstall-resolver" :> <<"tld">>)
    @@ ("setcap" :> <<"binary">>)
RedirectFlags ==
  LET ports == <<"http-from", "http-to", "https-from", "https-to">>
  IN ("install-port-redirect" :> ports) @@ ("uninstall-port-redirect" :> <<>>)
       @@ ("install-lan-port-redirect" :> <<"lan-ip">> \o ports)
       @@ ("uninstall-lan-port-redirect" :> <<>>)
Flags == CaFlags @@ ResolverFlags @@ RedirectFlags

Invocation(op, addr) == [op |-> op, addr |-> addr]
\* A vector that does not parse ends the helper with a usage error.
NoInvocation == Invocation("err", None)

\* to_argv: the tag, then each flag with its value; only the address varies.
ToArgv(inv) ==
  <<inv.op>> \o FlattenSeq([i \in DOMAIN Flags[inv.op] |->
     <<Flags[inv.op][i], IF Flags[inv.op][i] = "addr" THEN inv.addr ELSE "value">>])

\* from_argv: pairs of known flags, none of them missing, nothing trailing.
FromArgv(argv) ==
  LET op == argv[1]
      flag == {argv[i] : i \in {j \in 2 .. Len(argv) : j % 2 = 0}}
      addr == {argv[i + 1] : i \in {j \in 2 .. Len(argv) - 1 : argv[j] = "addr"}}
  IN IF op \in DOMAIN Flags /\ Len(argv) % 2 = 1 /\ flag = ToSet(Flags[op])
     THEN Invocation(op, IF addr = {} THEN None ELSE CHOOSE a \in addr : TRUE)
     ELSE NoInvocation

-----------------------------------------------------------------------------
(* Edits of /etc/pf.conf (pf_anchor.rs).                                   *)

\* insert_refs_for: the reference after the last translation anchor, or
\* first; the load line last; nothing if the marker is there.
InsertRefs(pf, a) ==
  LET rdrs == {i \in DOMAIN pf : pf[i] \in Translation}
      after == IF rdrs = {} THEN 0 ELSE CHOOSE i \in rdrs : \A j \in rdrs : j <= i
  IN IF \E i \in DOMAIN pf : pf[i] \in Marked(a) THEN pf
     ELSE Append(InsertAt(pf, after + 1, RdrLine[a]), LoadLine[a])

\* remove_refs_for: the lines with the anchor's marker.
RemoveRefs_AnyMarker(pf, a) == SelectSeq(pf, LAMBDA l : l \notin Marked("host") \cup Marked("lan"))
RemoveRefs(pf, a) == SelectSeq(pf, LAMBDA l : l \notin Marked(a))

\* What pfctl -f loads: the anchors that pf.conf names.  It rejects a load
\* line whose file is missing.
PfLoads == {a \in Anchors : LoadLine[a] \in ToSet(files["pf"])}
PfAccepts == \A a \in PfLoads : files[AnchorFile[a]] # None

-----------------------------------------------------------------------------
NoHelper == [pc |-> "idle", inv |-> NoInvocation, orig |-> <<>>, old |-> <<None, None>>,
             note |-> FALSE]
NoFacts == [port |-> None, dns |-> FALSE, web |-> FALSE]
NoCommand == [kind |-> "none", todo |-> <<>>, undo |-> FALSE, gui |-> FALSE, facts |-> NoFacts,
              failed |-> FALSE, residue |-> {}, trust |-> FALSE]

Contents == Ports \cup {None, "user", "junk", "yerd"}

TypeOK ==
  /\ host \in Hosts
  /\ \A p \in Paths \ {"pf"} : files[p] \in Contents
  /\ temps \subseteq Paths
  /\ backups \in Seq(Contents)
  /\ live.dns \in Contents /\ live.pf \subseteq Anchors
  /\ browsers \in BOOLEAN /\ installed \in BOOLEAN

Init ==
  /\ host \in Hosts
  /\ \E u \in UserFiles, pf \in PfFiles :
       /\ files = [p \in Paths |-> CASE p = "pf" -> pf
                                     [] p = "resolver" /\ Mac -> u
                                     [] OTHER -> None]
       /\ live = [dns |-> IF Mac THEN u ELSE None, ca |-> FALSE, user |-> FALSE, pf |-> {}]
  /\ temps = {} /\ backups = <<>> /\ browsers = FALSE
  /\ h = NoHelper /\ cmd = NoCommand /\ installed = TRUE
  /\ ops = 0 /\ faults = 0

-----------------------------------------------------------------------------
(* The helper.  Its pc is the next step; "ok", "err" and "skip" are exits. *)

Goto(pc) == h' = [h EXCEPT !.pc = pc]
Fault == faults < MaxFaults /\ faults' = faults + 1
NoFault == UNCHANGED faults
Others == UNCHANGED <<host, backups, browsers, cmd, installed, ops>>

\* atomic_write: the temporary sibling must not exist; a failed write leaves it.
AtomicWrite(p, v, ok, err) ==
  \/ /\ p \notin temps /\ NoFault
     /\ files' = [files EXCEPT ![p] = v]
     /\ Goto(ok)
     /\ UNCHANGED temps
  \/ p \in temps /\ NoFault /\ Goto(err) /\ UNCHANGED <<files, temps>>
  \/ /\ p \notin temps /\ Fault
     /\ temps' \in {temps, temps \cup {p}}
     /\ Goto(err)
     /\ UNCHANGED files

\* The macOS resolver reads /etc/resolver itself.
Resolved(p, v) == IF Mac /\ p = "resolver" THEN [live EXCEPT !.dns = v] ELSE live
WriteResolver(p, v, ok, err) ==
  /\ AtomicWrite(p, v, ok, err)
  /\ live' = Resolved(p, files'[p])

\* remove_if_present.
RemoveFile(p, ok, err) ==
  /\ UNCHANGED temps
  /\ \/ NoFault /\ files' = [files EXCEPT ![p] = None] /\ Goto(ok)
     \/ files[p] # None /\ Fault /\ Goto(err) /\ UNCHANGED files
  /\ live' = Resolved(p, files'[p])

\* run_command: its effect, or a failure without one.
RunCommand(effect, ok, err) ==
  /\ UNCHANGED <<files, temps>>
  /\ \/ NoFault /\ live' = effect /\ Goto(ok)
     \/ Fault /\ Goto(err) /\ UNCHANGED live

At(pc) == h.pc = pc

\* install_ca.  On macOS a certificate already there is deleted first.
InstallCa ==
  /\ At("install-ca") /\ Others
  /\ \/ ~Mac /\ AtomicWrite("ca", "yerd", "ca-update", "err") /\ UNCHANGED live
     \/ Mac /\ files["ca"] = None /\ Goto("ca-add") /\ NoFault /\ UNCHANGED <<files, temps, live>>
     \/ /\ Mac /\ files["ca"] # None /\ UNCHANGED temps
        /\ \/ NoFault /\ files' = [files EXCEPT !["ca"] = None]
              /\ live' = [live EXCEPT !.ca = FALSE] /\ Goto("ca-add")
           \/ Fault /\ Goto("err") /\ UNCHANGED <<files, live>>

CaAdd ==
  /\ At("ca-add") /\ Others /\ UNCHANGED temps
  /\ \/ NoFault /\ files' = [files EXCEPT !["ca"] = "yerd"]
        /\ live' = [live EXCEPT !.ca = TRUE] /\ Goto("ok")
     \/ Fault /\ Goto("err") /\ UNCHANGED <<files, live>>

\* linux_post_install_cmd: the bundle is rebuilt from the anchors.
CaUpdate ==
  /\ At("ca-update") /\ Others
  /\ RunCommand([live EXCEPT !.ca = files["ca"] # None], "ok", "err")

\* uninstall_ca: absent is success.
UninstallCa ==
  /\ At("uninstall-ca") /\ Others
  /\ \/ files["ca"] = None /\ Goto("ok") /\ NoFault /\ UNCHANGED <<files, temps, live>>
     \/ files["ca"] # None /\ ~Mac /\ RemoveFile("ca", "ca-update", "err")
     \/ /\ files["ca"] # None /\ Mac /\ UNCHANGED temps
        /\ \/ NoFault /\ files' = [files EXCEPT !["ca"] = None]
              /\ live' = [live EXCEPT !.ca = FALSE] /\ Goto("ok")
           \/ Fault /\ Goto("err") /\ UNCHANGED <<files, live>>

\* setcap.
Setcap ==
  /\ At("setcap") /\ Others
  /\ RunCommand(live, "ok", "err")

-----------------------------------------------------------------------------
(* The resolver.                                                           *)

Addr == h.inv.addr

\* install_resolver with systemd-resolved: the same file is success at once.
InstallResolverResolved ==
  /\ At("install-resolver") /\ host = "resolved" /\ Others /\ UNCHANGED live
  /\ \/ files["resolver"] = Addr /\ Goto("ok") /\ NoFault /\ UNCHANGED <<files, temps>>
     \/ files["resolver"] # Addr /\ AtomicWrite("resolver", Addr, "resolved-reload", "err")

ResolvedReload ==
  /\ At("resolved-reload") /\ Others
  /\ RunCommand([live EXCEPT !.dns = files["resolver"]], "ok", "err")

\* networkmanager_ready: dnsmasq answers for the domain.
NetworkManagerReady == live.dns = Addr /\ cmd.facts.dns

\* install_networkmanager: the tools are checked and both files read first.
InstallNetworkManager ==
  /\ At("install-resolver") /\ host = "nm" /\ UNCHANGED <<files, temps, live>> /\ Others
  /\ \/ Fault /\ h' = [h EXCEPT !.pc = "err", !.old = <<files["nm"], files["dns"]>>]
     \/ /\ files["nm"] # None /\ files["dns"] = Addr /\ NetworkManagerReady
        /\ NoFault /\ Goto("ok")
     \/ /\ ~(files["nm"] # None /\ files["dns"] = Addr /\ NetworkManagerReady)
        /\ NoFault
        /\ h' = [h EXCEPT !.pc = "nm-write", !.old = <<files["nm"], files["dns"]>>]

NmWrite ==
  /\ At("nm-write") /\ Others /\ UNCHANGED live
  /\ AtomicWrite("nm", "yerd", "dns-write", "files-restore")

DnsWrite_NoRestore ==
  /\ At("dns-write") /\ Others /\ UNCHANGED live
  /\ AtomicWrite("dns", Addr, "nm-reload", "err")

DnsWrite ==
  /\ At("dns-write") /\ Others /\ UNCHANGED live
  /\ AtomicWrite("dns", Addr, "nm-reload", "files-restore")

Reloaded == [live EXCEPT !.dns = IF files["nm"] # None THEN files["dns"] ELSE None]

NmReload ==
  /\ At("nm-reload") /\ Others
  /\ RunCommand(Reloaded, "nm-wait", "nm-restore")

\* wait_for_networkmanager: it answers in time or the change is undone.
NmWait ==
  /\ At("nm-wait") /\ Others /\ UNCHANGED <<files, temps, live>>
  /\ \/ NetworkManagerReady /\ NoFault /\ Goto("ok")
     \/ ~NetworkManagerReady /\ NoFault /\ Goto("nm-restore")
     \/ NetworkManagerReady /\ Fault /\ Goto("nm-restore")

\* restore_file of both files; a failure is only warned of.
Restore(p, old, next) ==
  /\ UNCHANGED live
  /\ \/ /\ p \notin temps \/ old = None
        /\ NoFault
        /\ files' = [files EXCEPT ![p] = old]
        /\ Goto(next) /\ UNCHANGED temps
     \/ /\ old # None /\ p \in temps /\ NoFault
        /\ h' = [h EXCEPT !.pc = next, !.note = TRUE] /\ UNCHANGED <<files, temps>>
     \/ /\ old # files[p] /\ p \notin temps /\ Fault
        /\ h' = [h EXCEPT !.pc = next, !.note = TRUE] /\ UNCHANGED <<files, temps>>

NmRestore ==
  /\ At("nm-restore") \/ At("files-restore")
  /\ Others
  /\ Restore("nm", h.old[1], IF At("nm-restore") THEN "dns-restore" ELSE "dns-restore-only")

DnsRestore ==
  /\ At("dns-restore") \/ At("dns-restore-only")
  /\ Others
  /\ Restore("dns", h.old[2], IF At("dns-restore") THEN "nm-back" ELSE "err")

NmBack ==
  /\ At("nm-back") /\ Others
  /\ RunCommand(Reloaded, "err", "err")

\* install_resolver on macOS: a file that is not what would be written is
\* copied to the backups first; a failing copy does not fail the install.
MacInstallResolver_NoBackup ==
  /\ At("install-resolver") /\ Mac
  /\ Goto("resolver-write") /\ NoFault
  /\ UNCHANGED <<host, files, temps, backups, live, browsers, cmd, installed, ops>>

MacInstallResolver ==
  /\ At("install-resolver") /\ Mac
  /\ \/ /\ NoFault /\ Goto("resolver-write")
        /\ backups' = IF files["resolver"] \in {None, Addr} THEN backups
                      ELSE Append(backups, files["resolver"])
     \/ /\ files["resolver"] \notin {None, Addr} /\ Fault /\ UNCHANGED backups
        /\ h' = [h EXCEPT !.pc = "resolver-write", !.note = TRUE]
  /\ UNCHANGED <<host, files, temps, live, browsers, cmd, installed, ops>>

MacWriteResolver ==
  /\ At("resolver-write") /\ Others
  /\ WriteResolver("resolver", Addr, "ok", "err")

\* uninstall_resolver on Linux: both backends' files, then the reload of
\* what was removed; its failure is ignored.
UninstallResolver ==
  /\ At("uninstall-resolver") /\ ~Mac /\ Others
  /\ IF \A p \in {"resolver", "nm", "dns"} : files[p] = None
     THEN Goto("ok") /\ NoFault /\ UNCHANGED <<files, temps, live>>
     ELSE RemoveFile("resolver", "nm-remove", "err")

NmRemove == At("nm-remove") /\ Others /\ RemoveFile("nm", "dns-remove", "err")
DnsRemove == At("dns-remove") /\ Others /\ RemoveFile("dns", "unroute", "err")

Unroute ==
  /\ At("unroute") /\ Others
  /\ RunCommand([live EXCEPT !.dns = IF host = "nm" THEN Reloaded.dns ELSE files["resolver"]], "ok", "ok")

\* macos_try_restore_backup: the latest backup if it parses, and then all are
\* deleted; else the file is removed.
Restorable(text) == text # "junk"
MacUninstallResolver ==
  /\ At("uninstall-resolver") /\ Mac
  /\ UNCHANGED <<host, browsers, cmd, installed, ops>>
  /\ IF backups # <<>> /\ Restorable(Last(backups))
     THEN /\ WriteResolver("resolver", Last(backups), "ok", "err")
          /\ backups' = IF h'.pc = "ok" THEN <<>> ELSE backups
     ELSE RemoveFile("resolver", "ok", "err") /\ UNCHANGED backups

-----------------------------------------------------------------------------
(* The pf redirects: the loopback one and the LAN one, alike.              *)

Anchor == IF h.inv.op \in {"install-lan-port-redirect", "uninstall-lan-port-redirect"}
          THEN "lan" ELSE "host"
PfOp(op) == At(op) /\ Mac

InstallPortRedirect ==
  /\ PfOp("install-port-redirect") \/ PfOp("install-lan-port-redirect")
  /\ Others /\ UNCHANGED live
  /\ AtomicWrite(AnchorFile[Anchor], "yerd", "pf-edit", "err")

\* pf.conf is read, kept for the rollback, and written only if it changes.
PfEdit ==
  /\ At("pf-edit") /\ Others /\ UNCHANGED live
  /\ LET updated == InsertRefs(files["pf"], Anchor)
     IN IF updated = files["pf"]
        THEN h' = [h EXCEPT !.pc = "pf-load", !.orig = <<>>] /\ NoFault /\ UNCHANGED <<files, temps>>
        ELSE \/ /\ "pf" \notin temps /\ NoFault /\ UNCHANGED temps
                /\ files' = [files EXCEPT !["pf"] = updated]
                /\ h' = [h EXCEPT !.pc = "pf-load", !.orig = files["pf"]]
             \/ "pf" \in temps /\ NoFault /\ Goto("err") /\ UNCHANGED <<files, temps>>
             \/ /\ "pf" \notin temps /\ Fault /\ temps' \in {temps, temps \cup {"pf"}}
                /\ Goto("err") /\ UNCHANGED files

PfLoad ==
  /\ At("pf-load") /\ Others
  /\ IF PfAccepts THEN RunCommand([live EXCEPT !.pf = PfLoads], "plist-write", "pf-rollback")
     ELSE Goto("pf-rollback") /\ NoFault /\ UNCHANGED <<files, temps, live>>

\* The rollback of pf.conf; pfctl -e and its exit code are ignored.
PfRollback ==
  /\ At("pf-rollback") /\ Others /\ UNCHANGED live
  /\ IF h.orig = <<>> THEN Goto("err") /\ NoFault /\ UNCHANGED <<files, temps>>
     ELSE AtomicWrite("pf", h.orig, "err", "err")

PlistWrite ==
  /\ At("plist-write") /\ Others /\ UNCHANGED live
  /\ AtomicWrite(Plist[Anchor], "yerd", "bootstrap", "err")

\* chown, bootout and bootstrap of the LaunchDaemon, which reloads pf.conf.
Bootstrap ==
  /\ At("bootstrap") /\ Others
  /\ RunCommand([live EXCEPT !.pf = IF PfAccepts THEN PfLoads ELSE @], "ok", "err")

\* uninstall_port_redirect: the references go before the anchor file.
UninstallPortRedirect_AnchorFirst ==
  /\ PfOp("uninstall-port-redirect") \/ PfOp("uninstall-lan-port-redirect")
  /\ Others /\ UNCHANGED live
  /\ files' = [files EXCEPT ![AnchorFile[Anchor]] = None]
  /\ Goto("pf-clean") /\ NoFault /\ UNCHANGED temps

UninstallPortRedirect ==
  /\ PfOp("uninstall-port-redirect") \/ PfOp("uninstall-lan-port-redirect")
  /\ Others /\ UNCHANGED <<files, temps, live>>
  /\ Goto("pf-clean") /\ NoFault

PfClean ==
  /\ At("pf-clean") /\ Others /\ UNCHANGED live
  /\ LET cleaned == RemoveRefs(files["pf"], Anchor)
     IN IF cleaned = files["pf"] THEN Goto("anchor-remove") /\ NoFault /\ UNCHANGED <<files, temps>>
        ELSE AtomicWrite("pf", cleaned, "pf-reload", "err")

PfReload ==
  /\ At("pf-reload") /\ Others
  /\ RunCommand([live EXCEPT !.pf = IF PfAccepts THEN PfLoads ELSE @], "anchor-remove", "anchor-remove")

AnchorRemove == At("anchor-remove") /\ Others /\ RemoveFile(AnchorFile[Anchor], "plist-remove", "err")
PlistRemove == At("plist-remove") /\ Others /\ RemoveFile(Plist[Anchor], "ok", "err")

\* The redirects off macOS: unsupported, exit 78.
Unsupported ==
  /\ h.pc \in {"install-port-redirect", "uninstall-port-redirect",
               "install-lan-port-redirect", "uninstall-lan-port-redirect"}
  /\ ~Mac
  /\ Goto("skip") /\ NoFault /\ Others /\ UNCHANGED <<files, temps, live>>

\* validate.rs: a path, TLD or certificate that does not pass is refused.
Declined ==
  /\ h.pc \in DOMAIN Flags \ {"uninstall-port-redirect", "uninstall-lan-port-redirect"}
  /\ Fault /\ Others /\ UNCHANGED <<files, temps, live>>
  /\ h' = [h EXCEPT !.pc = "err", !.old = <<files["nm"], files["dns"]>>]

\* The file the step at a pc writes, if it is a write.
WriteTarget ==
  CASE At("nm-write") -> {"nm"} [] At("dns-write") -> {"dns"}
    [] At("install-ca") /\ ~Mac -> {"ca"}
    [] At("resolver-write") -> {"resolver"}
    [] At("install-resolver") /\ host = "resolved" -> {"resolver"}
    [] h.pc \in {"install-port-redirect", "install-lan-port-redirect"} -> {AnchorFile[Anchor]}
    [] h.pc \in {"pf-edit", "pf-clean", "pf-rollback"} -> {"pf"}
    [] At("plist-write") -> {Plist[Anchor]}
    [] OTHER -> {}

\* The helper is killed.
Killed ==
  /\ h.pc \notin {"idle", "ok", "err", "skip", "killed"} /\ Fault
  /\ temps' \in {temps, temps \cup WriteTarget}
  /\ Goto("killed")
  /\ Others /\ UNCHANGED <<files, live>>

HelperStep ==
  \/ InstallCa \/ CaAdd \/ CaUpdate \/ UninstallCa \/ Setcap
  \/ InstallResolverResolved \/ ResolvedReload
  \/ InstallNetworkManager \/ NmWrite \/ DnsWrite \/ NmReload \/ NmWait
  \/ NmRestore \/ DnsRestore \/ NmBack
  \/ MacInstallResolver \/ MacWriteResolver
  \/ UninstallResolver \/ NmRemove \/ DnsRemove \/ Unroute \/ MacUninstallResolver
  \/ InstallPortRedirect \/ PfEdit \/ PfLoad \/ PfRollback \/ PlistWrite \/ Bootstrap
  \/ UninstallPortRedirect \/ PfClean \/ PfReload \/ AnchorRemove \/ PlistRemove
  \/ Unsupported \/ Declined

-----------------------------------------------------------------------------
(* The commands.                                                           *)

\* targets: trust, resolver and ports by default.
Targets(t) == IF t = "all" THEN <<"trust", "resolver", "ports">> ELSE <<t>>
FactSet == {f \in [port : Ports, dns : BOOLEAN, web : BOOLEAN] : f.dns \/ f.web}

\* run_elevate and unelevate; the desktop's run_many stops at an error.
RunElevate ==
  /\ cmd.kind = "none" /\ installed /\ ops < MaxOps /\ ops' = ops + 1
  /\ \E t \in {"all", "trust", "resolver", "ports", "lan"}, undo \in BOOLEAN, gui \in BOOLEAN,
        facts \in FactSet :
       cmd' = [NoCommand EXCEPT !.kind = "elevate", !.todo = Targets(t), !.undo = undo,
                                !.gui = gui, !.facts = facts]
  /\ UNCHANGED <<host, files, temps, backups, live, browsers, h, installed, faults>>

\* plan_invocation.
Plan(t, undo, facts) ==
  CASE t = "trust" -> Invocation(IF undo THEN "uninstall-ca" ELSE "install-ca", None)
    [] t = "resolver" -> IF undo THEN Invocation("uninstall-resolver", None)
                         ELSE Invocation("install-resolver", facts.port)
    [] t = "ports" /\ Mac -> Invocation(IF undo THEN "uninstall-port-redirect"
                                        ELSE "install-port-redirect", None)
    [] t = "lan" /\ Mac -> Invocation(IF undo THEN "uninstall-lan-port-redirect"
                                      ELSE "install-lan-port-redirect", None)
    [] OTHER -> Invocation("setcap", None)
Refused(t, undo, facts) ==
  ~undo /\ (\/ t = "resolver" /\ ~facts.dns
            \/ t \in {"ports", "lan"} /\ Mac /\ ~facts.web)

Idle == h.pc = "idle"
Next1(c) == [c EXCEPT !.todo = Tail(@)]
Failed(c, t) ==
  [c EXCEPT !.failed = TRUE, !.residue = @ \cup {t}, !.todo = IF c.gui THEN <<>> ELSE Tail(@)]

\* run_one: spawns the helper with the planned invocation, or refuses.
RunOne ==
  /\ cmd.todo # <<>> /\ Idle
  /\ LET t == Head(cmd.todo)
     IN IF t \in {"ports", "lan"} /\ cmd.undo /\ ~Mac
        THEN cmd' = Next1(cmd) /\ UNCHANGED h
        ELSE IF Refused(t, cmd.undo, cmd.facts) THEN cmd' = Failed(cmd, t) /\ UNCHANGED h
        ELSE /\ h' = [NoHelper EXCEPT !.inv = FromArgv(ToArgv(Plan(t, cmd.undo, cmd.facts))),
                                      !.pc = FromArgv(ToArgv(Plan(t, cmd.undo, cmd.facts))).op]
             /\ UNCHANGED cmd
  /\ UNCHANGED <<host, files, temps, backups, live, browsers, installed, ops, faults>>

\* The helper's exit code: 0 and 78 are success, anything else a failure; for
\* uninstall it is a line of the summary.
HelperExit_KilledIsOk ==
  /\ h.pc \in {"ok", "err", "skip", "killed"}
  /\ h' = NoHelper
  /\ LET t == Head(cmd.todo)
     IN cmd' = IF h.pc = "err" THEN Failed(cmd, t)
               ELSE [Next1(cmd) EXCEPT !.trust = @ \/ t = "trust"]
  /\ UNCHANGED <<host, files, temps, backups, live, browsers, installed, ops, faults>>

HelperExit ==
  /\ h.pc \in {"ok", "err", "skip", "killed"}
  /\ h' = NoHelper
  /\ LET t == Head(cmd.todo)
     IN cmd' = IF h.pc \in {"err", "killed"} THEN Failed(cmd, t)
               ELSE [Next1(cmd) EXCEPT !.trust = @ \/ t = "trust"]
  /\ UNCHANGED <<host, files, temps, backups, live, browsers, installed, ops, faults>>

\* The browsers' stores: without certutil nothing changes; else the old
\* certificate is deleted and the new one added, which may fail.
InstallNss(certutil) == IF certutil THEN {TRUE, FALSE} ELSE {browsers}
UninstallNss(certutil) == IF certutil THEN {FALSE} ELSE {browsers}

\* The end of elevate; once trust was applied the daemon is asked to update the
\* browsers, if it can be reached (report_browser_trust).
ElevateEnds ==
  /\ cmd.kind = "elevate" /\ cmd.todo = <<>> /\ Idle
  /\ \E certutil \in BOOLEAN :
       browsers' \in IF ~cmd.trust THEN {browsers}
                     ELSE IF cmd.undo THEN UninstallNss(certutil) ELSE InstallNss(certutil)
  /\ cmd' = NoCommand
  /\ UNCHANGED <<host, files, temps, backups, live, h, installed, ops, faults>>

\* The desktop app on macOS trusts the CA for the user alone, without a helper.
TrustCa(undo) ==
  /\ Mac /\ cmd.kind = "none" /\ installed /\ ops < MaxOps /\ ops' = ops + 1
  /\ live' = [live EXCEPT !.user = ~undo]
  /\ UNCHANGED <<host, files, temps, backups, browsers, h, cmd, installed, faults>>

\* `yerd uninstall`: as root, what it can identify of Yerd is reverted through
\* the helper (revert_system_changes); else it is listed as residue.
RunUninstall ==
  /\ cmd.kind = "none" /\ installed /\ ops < MaxOps /\ ops' = ops + 1
  /\ \E root \in BOOLEAN, ca \in BOOLEAN, tld \in BOOLEAN :
       cmd' = [NoCommand EXCEPT !.kind = "uninstall", !.undo = TRUE,
                 !.facts = [NoFacts EXCEPT !.dns = tld],
                 !.todo = IF ~root THEN <<>>
                          ELSE (IF ca THEN <<"trust">> ELSE <<>>)
                            \o (IF tld THEN <<"resolver">> ELSE <<>>)
                            \o (IF Mac THEN <<"ports", "lan">> ELSE <<>>),
                 !.residue = IF ~root THEN {"trust", "resolver", "ports", "lan"}
                             ELSE IF ca THEN {} ELSE {"trust"}]
  /\ UNCHANGED <<host, files, temps, backups, live, browsers, h, installed, faults>>

\* The daemon, the unit, the directories and the binaries go last.
UninstallEnds ==
  /\ cmd.kind = "uninstall" /\ cmd.todo = <<>> /\ Idle
  /\ installed' = FALSE
  /\ cmd' = [cmd EXCEPT !.kind = "uninstalled"]
  /\ UNCHANGED <<host, files, temps, backups, live, browsers, h, ops, faults>>

Next ==
  \/ HelperStep \/ Killed
  \/ RunElevate \/ (\E undo \in BOOLEAN : TrustCa(undo)) \/ RunOne \/ HelperExit \/ ElevateEnds \/ RunUninstall \/ UninstallEnds

Spec == Init /\ [][Next]_vars

-----------------------------------------------------------------------------
\* pf.conf never loads an anchor from a file that is not there, whichever step
\* of either redirect's install or removal fails or is the last one: else
\* `pfctl -f` rejects the user's whole rule set at the next boot.
RefsHaveAnchors == \A a \in PfLoads : files[AnchorFile[a]] # None

\* Installing or removing one redirect leaves the other one's lines and the
\* user's own lines of pf.conf as they are, rollbacks included.
OwnLines(pf) == SelectSeq(pf, LAMBDA l : l \notin Marked("host") \cup Marked("lan"))
KeepsOthers ==
    /\ OwnLines(files'["pf"]) = OwnLines(files["pf"])
    /\ \A a \in Anchors \ {Anchor} :
         Marked(a) \cap ToSet(files'["pf"]) = Marked(a) \cap ToSet(files["pf"])
\* An install of the NetworkManager route that fails leaves both of its files
\* as they were, unless it warned that it could not restore one.
FailedInstallRestores ==
  At("err") /\ h.inv.op = "install-resolver" /\ host = "nm" /\ ~h.note =>
    files["nm"] = h.old[1] /\ files["dns"] = h.old[2]

UserCopy == files["resolver"] = "user" \/ "user" \in ToSet(backups)

\* The resolver file the user had is not lost to an install: it is backed up
\* unless the helper said that it could not, and a backup of it is kept until
\* it is back in place.
KeepsUserFile ==
    /\ "user" \in ToSet(backups) => UserCopy'
    /\ UserCopy /\ At("resolver-write") => UserCopy' \/ h.note
UserFileKept == [][KeepsUserFile]_vars

\* What the status and the doctor probe.
ResolverInstalled(port) ==
  \/ files["resolver"] # None /\ (Mac => files["resolver"] = port)
  \/ files["nm"] # None /\ files["dns"] = port
CaPresent == files["ca"] # None
RedirectTargets(a) == files[AnchorFile[a]] # None

\* A report is true: an install that exits 0 is seen by the probes, and what a
\* removal that exits 0 or an uninstall's summary does not list is gone.
ReportsAreTrue ==
  /\ At("ok") =>
       /\ h.inv.op = "install-ca" => CaPresent /\ live.ca
       /\ h.inv.op = "install-resolver" => ResolverInstalled(Addr)
       /\ h.inv.op \in {"install-port-redirect", "install-lan-port-redirect"} =>
            RedirectTargets(Anchor) /\ Anchor \in live.pf
  /\ cmd.kind = "uninstalled" /\ cmd.facts.dns =>
       /\ "trust" \in cmd.residue \/ ~CaPresent
       /\ "resolver" \in cmd.residue \/ \A port \in Ports : ~ResolverInstalled(port)
       /\ "ports" \in cmd.residue \/ "host" \notin PfLoads
       /\ "lan" \in cmd.residue \/ "lan" \notin PfLoads
-----------------------------------------------------------------------------
(***************************************************************************)
(* The PATH block Yerd keeps in a shell start-up file                      *)
(* (yerd-platform pure/shell_profile.rs) and the command that edits it     *)
(* (yerd path_cmd.rs).  A file is the sequence of its lines as             *)
(* split('\n') gives them: "" is an empty line, a last "" stands for a     *)
(* trailing newline, and <<"">> is the empty file.                         *)
(***************************************************************************)
CONSTANTS
    RcFiles,    \* the start-up files of the user's shell (rc_relpaths)
    MaxEdits    \* commands and edits by the user

MarkerOpen == "open"
MarkerClose == "close"
Markers == {MarkerOpen, MarkerClose}
Body == "body"
Lines == {"", "u", "v"} \cup Markers \cup {Body}
UserLines(text) == SelectSeq(text, LAMBDA l : l \notin Markers \cup {"", Body})

Empty == <<"">>
IsEmpty(text) == text \in {Empty, <<>>}

\* marker_line_indices: the first opening line and the first closing line
\* after it; none is <<0, 0>>.
MarkerLineIndices(text) ==
    LET opens == {i \in DOMAIN text : text[i] = MarkerOpen}
        open == CHOOSE i \in opens : \A j \in opens : i <= j
        closes == {i \in DOMAIN text : text[i] = MarkerClose /\ i > open}
    IN IF opens = {} \/ closes = {} THEN <<0, 0>>
       ELSE <<open, CHOOSE i \in closes : \A j \in closes : i <= j>>

RenderBlock == <<MarkerOpen, Body, MarkerClose>>

\* The lines without the newlines the text ends with.
RECURSIVE Trimmed(_)
Trimmed(text) ==
    IF Len(text) > 1 /\ Last(text) = "" THEN Trimmed(Front(text)) ELSE text

UpsertBlock(text) ==
    LET at == MarkerLineIndices(text)
        before == SubSeq(text, 1, at[1] - 1)
        after == SubSeq(text, at[2] + 1, Len(text))
    IN IF at = <<0, 0>>
       THEN (IF IsEmpty(text) THEN <<>> ELSE Trimmed(text) \o <<"">>) \o RenderBlock \o <<"">>
       ELSE (IF IsEmpty(before) THEN <<>> ELSE before) \o RenderBlock
              \o (IF IsEmpty(after) THEN <<"">> ELSE after)

RemoveBlock_AnyLineBefore(text) ==
    LET at == MarkerLineIndices(text)
        before == SubSeq(text, 1, at[1] - 2)
        after == SubSeq(text, at[2] + 1, Len(text))
    IN IF at = <<0, 0>> THEN text
       ELSE CASE IsEmpty(before) /\ IsEmpty(after) -> Empty
              [] IsEmpty(before) /\ ~IsEmpty(after) -> after
              [] ~IsEmpty(before) /\ IsEmpty(after) ->
                   IF Last(text) = "" THEN before \o <<"">> ELSE before
              [] OTHER -> before \o after

RemoveBlock(text) ==
    LET at == MarkerLineIndices(text)
        start == IF at[1] > 1 /\ text[at[1] - 1] = "" THEN at[1] - 1 ELSE at[1]
        before == SubSeq(text, 1, start - 1)
        after == SubSeq(text, at[2] + 1, Len(text))
    IN IF at = <<0, 0>> THEN text
       ELSE CASE IsEmpty(before) /\ IsEmpty(after) -> Empty
              [] IsEmpty(before) /\ ~IsEmpty(after) -> after
              [] ~IsEmpty(before) /\ IsEmpty(after) ->
                   IF Last(text) = "" THEN before \o <<"">> ELSE before
              [] OTHER -> before \o after

-----------------------------------------------------------------------------
VARIABLES
    rc,      \* the start-up files; <<>> is no file
    bak,     \* their ".yerd.bak" copies; <<>> is none
    edits

profilevars == <<rc, bak, edits>>

ProfileTypeOK ==
    /\ rc \in [RcFiles -> Seq(Lines)] /\ bak \in [RcFiles -> Seq(Lines)]
    /\ edits \in 0 .. MaxEdits

Texts == {<<>>, Empty, <<"u">>, <<"u", "">>, <<"u", "", "v">>, <<"", "u", "", "">>}

ProfileInit ==
    /\ rc \in [RcFiles -> Texts]
    /\ bak = [f \in RcFiles |-> <<>>]
    /\ edits = 0

Text(f) == IF rc[f] = <<>> THEN Empty ELSE rc[f]

\* edit_one: no change, no write; the first change of an existing file keeps
\* a copy of it; a failing write leaves the file.
Edited(f, install) == IF install THEN UpsertBlock(Text(f)) ELSE RemoveBlock(Text(f))
EditOne(edited, install) ==
    /\ edits < MaxEdits /\ edits' = edits + 1
    /\ \E fails \in SUBSET edited :
         LET changed == {f \in edited : Edited(f, install) # Text(f)}
         IN /\ rc' = [f \in RcFiles |->
                 IF f \in changed \ fails THEN Edited(f, install) ELSE rc[f]]
            /\ bak' = [f \in RcFiles |-> IF f \in changed /\ bak[f] = <<>> THEN rc[f] ELSE bak[f]]

\* `yerd path install`, and ensure_installed_after_tool after a tool install.
PathInstall == EditOne(RcFiles, TRUE)

\* `yerd path uninstall`, and remove_block_for_user of `yerd uninstall`: only
\* the files that exist.
PathUninstall == EditOne({f \in RcFiles : rc[f] # <<>>}, FALSE)

\* The user adds or deletes a line of theirs; the block is left alone (with a
\* marker line deleted, the next edit takes the lines up to the other one).
UserEdits ==
    /\ edits < MaxEdits /\ edits' = edits + 1
    /\ \E f \in RcFiles :
         \/ Len(rc[f]) < 8 /\ \E i \in 1 .. Len(rc[f]) + 1, l \in {"", "v"} :
              /\ \A at \in {MarkerLineIndices(rc[f])} : ~(at[1] < i /\ i <= at[2])
              /\ rc' = [rc EXCEPT ![f] = InsertAt(@, i, l)]
         \/ \E i \in 1 .. Len(rc[f]) :
              /\ rc[f][i] \in {"", "u", "v"}
              /\ rc' = [rc EXCEPT ![f] = RemoveAt(@, i)]
    /\ UNCHANGED bak

ProfileNext == PathInstall \/ PathUninstall \/ UserEdits
ProfileSpec == ProfileInit /\ [][ProfileNext]_profilevars

-----------------------------------------------------------------------------
\* Every edit of Yerd's keeps the user's own lines in their order: "Never
\* consumes a non-empty user line" (shell_profile.rs, remove_block).
KeepsOwnLines ==
    (\A f \in RcFiles : UserLines(rc'[f]) = UserLines(rc[f])) \/ UserEdits
=============================================================================
