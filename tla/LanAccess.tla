----------------------------- MODULE LanAccess ------------------------------
(***************************************************************************)
(* Reaching the sites from another device of the LAN: the one-shot code    *)
(* and the installer the daemon serves (yerdd lan_setup.rs, ipc_server.rs), *)
(* the installer's own steps on the device, the split-horizon DNS answers  *)
(* (yerd-dns), and the certificates issued for a name (yerdd cert_store.rs, *)
(* yerd-tls).  Daemons restart, LAN mode is toggled, the machine changes   *)
(* address, the CA is lost and made anew; installers fail at any step.     *)
(***************************************************************************)
EXTENDS Naturals, Sequences, FiniteSets

CONSTANTS
  Devices,                  \* named by their addresses
  Oses, Ips,
  MaxBoots, MaxCodes, MaxCas

VARIABLES
  lanEnabled, \* config.lan_enabled
  lanIp,      \* the address the machine has
  ca,         \* the CA on disk, a number
  boot,       \* what the running daemon captured: [n, lan, ip, bound, ca, sha]
  cfgLock,    \* the config lock is held by the handler that mints
  minting,    \* that handler is past its checks
  code,       \* remote_setup_code
  codes,      \* codes minted
  served,     \* scripts served: [code, lan, fresh, last]
  dev         \* the devices

hostvars == <<lanEnabled, lanIp, ca, boot, cfgLock, minting, code, codes, served>>
lanvars == <<hostvars, dev>>

NoIp == "no ip"
NoCode == [value |-> 0, used |-> TRUE, fresh |-> FALSE]
NoConf == [ip |-> NoIp]
Fresh(os) == [os |-> os, pc |-> "idle", conf |-> NoConf, ca |-> 0, armed |-> FALSE,
              script |-> [ip |-> NoIp, ca |-> 0], resolver |-> TRUE]

(* discover LAN address, read the CA, bind: spawn_lan_setup with            *)
(* installer_script.  The script is made once per boot.                     *)
Booted(n, lan, ip, theCa, bound) ==
  [n |-> n, lan |-> lan, ip |-> IF lan THEN ip ELSE NoIp, ca |-> theCa,
   bound |-> lan /\ ip # NoIp /\ bound]
InstallerScript == [ip |-> boot.ip, ca |-> boot.ca]

DeviceRecords ==
  [os : Oses, conf : [ip : Ips \cup {NoIp}], ca : Nat, armed : BOOLEAN, resolver : BOOLEAN,
   script : [ip : Ips \cup {NoIp}, ca : Nat],
   pc : {"idle", "script", "remove old", "trust", "copy", "conf", "verify", "installed", "failed"}]
LanTypeOK ==
  /\ lanEnabled \in BOOLEAN /\ lanIp \in Ips /\ ca \in Nat /\ cfgLock \in BOOLEAN /\ minting \in BOOLEAN
  /\ boot \in [n : Nat, lan : BOOLEAN, ip : Ips \cup {NoIp}, ca : Nat, bound : BOOLEAN]
  /\ code \in [value : Nat, used : BOOLEAN, fresh : BOOLEAN] /\ codes \in Nat
  /\ served \in Seq([code : Nat, last : BOOLEAN, lan : BOOLEAN, fresh : BOOLEAN])
  /\ dev \in [Devices -> DeviceRecords]

LanInit ==
  /\ lanEnabled = FALSE /\ lanIp \in Ips /\ ca = 1 /\ cfgLock = FALSE /\ minting = FALSE
  /\ boot = Booted(1, FALSE, lanIp, 1, FALSE)
  /\ code = NoCode /\ codes = 0 /\ served = <<>>
  /\ \E os \in [Devices -> Oses] : dev = [d \in Devices |-> Fresh(os[d])]

-----------------------------------------------------------------------------
(* The daemon. *)
SpawnLanSetup ==
  /\ boot.n < MaxBoots
  /\ \E bound \in BOOLEAN, lost \in BOOLEAN :
       /\ lost => ca < MaxCas
       /\ ca' = IF lost THEN ca + 1 ELSE ca
       /\ boot' = Booted(boot.n + 1, lanEnabled, lanIp, ca', bound)
  /\ code' = NoCode /\ cfgLock' = FALSE /\ minting' = FALSE
  /\ UNCHANGED <<lanEnabled, lanIp, codes, served, dev>>
SetLanEnabled ==
  /\ ~cfgLock
  /\ lanEnabled' = ~lanEnabled
  /\ code' = IF lanEnabled THEN NoCode ELSE code
  /\ UNCHANGED <<lanIp, ca, boot, cfgLock, minting, codes, served, dev>>
(* mint_remote_setup_code: the checks, then the code, the config locked     *)
(* from the one to the other.                                               *)
(* Mutant: the config is only looked at. *)
MintCheck_Look ==
  /\ codes < MaxCodes /\ ~minting
  /\ lanEnabled /\ boot.bound /\ boot.ip # NoIp
  /\ minting' = TRUE
  /\ UNCHANGED <<lanEnabled, lanIp, ca, boot, cfgLock, code, codes, served, dev>>
MintCheck ==
  /\ codes < MaxCodes /\ ~minting
  /\ lanEnabled /\ boot.bound /\ boot.ip # NoIp
  /\ minting' = TRUE /\ cfgLock' = TRUE
  /\ UNCHANGED <<lanEnabled, lanIp, ca, boot, code, codes, served, dev>>
MintStore ==
  /\ minting
  /\ codes' = codes + 1
  /\ code' = [value |-> codes + 1, used |-> FALSE, fresh |-> TRUE]
  /\ minting' = FALSE /\ cfgLock' = FALSE
  /\ UNCHANGED <<lanEnabled, lanIp, ca, boot, served, dev>>
(* REMOTE_SETUP_CODE_TTL passes. *)
Expire ==
  /\ code.fresh
  /\ code' = [code EXCEPT !.fresh = FALSE]
  /\ UNCHANGED <<lanEnabled, lanIp, ca, boot, cfgLock, minting, codes, served, dev>>
(* The machine moves to another network. *)
MoveHost ==
  /\ lanIp' \in Ips \ {lanIp}
  /\ UNCHANGED <<lanEnabled, ca, boot, cfgLock, minting, code, codes, served, dev>>

(* Responder::answer and handle_request of yerd-dns, for a question asked    *)
(* by the machine itself or by a device: the address given, or none.        *)
Answer(name, qtype) ==
  CASE name = "elsewhere" -> "refused"
    [] name = "apex" -> "nodata"
    [] name = "empty label" -> "nxdomain"
    [] OTHER -> IF qtype = "A" THEN "loopback4" ELSE IF qtype = "AAAA" THEN "loopback6" ELSE "nodata"
Loopback == "127.0.0.1"
ASSUME LanAssumption == Loopback \notin Devices
ARecordFor(src) == IF boot.lan /\ src # Loopback THEN boot.ip ELSE Loopback
(* Mutant: every client is answered as the machine itself. *)
HandleRequest_One(src, lan, name, qtype) ==
  CASE boot.lan /\ ~lan -> NoIp
    [] Answer(name, qtype) = "loopback4" -> Loopback
    [] Answer(name, qtype) = "loopback6" /\ ~boot.lan -> "::1"
    [] OTHER -> NoIp
HandleRequest(src, lan, name, qtype) ==
  CASE boot.lan /\ ~lan -> NoIp
    [] Answer(name, qtype) = "loopback4" -> ARecordFor(src)
    [] Answer(name, qtype) = "loopback6" /\ ~boot.lan -> "::1"
    [] OTHER -> NoIp

-----------------------------------------------------------------------------
(* decide, with classify, extract_code and consume_code: the right path     *)
(* with the code that is in force.                                          *)
ConsumeCode(c) ==
  /\ c = code.value /\ ~code.used /\ code.fresh
  /\ code' = [code EXCEPT !.used = TRUE]
Fetch(d) ==
  /\ dev[d].pc \in {"idle", "installed", "failed"} /\ boot.bound
  /\ \E c \in 1..codes :
       /\ ConsumeCode(c)
       /\ served' = Append(served, [code |-> c, last |-> c = codes, lan |-> lanEnabled,
                                    fresh |-> code.fresh])
  /\ dev' = [dev EXCEPT ![d].pc = "script", ![d].script = InstallerScript]
  /\ UNCHANGED <<lanEnabled, lanIp, ca, boot, cfgLock, minting, codes>>

(* The installer's steps.  `armed` is the rollback trap; any step may fail, *)
(* and the script with it.                                                  *)
At(d, os, pc) == dev[d].os = os /\ dev[d].pc = pc
DarwinConf(d) ==
  /\ At(d, "mac", "script")
  /\ dev' = [dev EXCEPT ![d].pc = "remove old", ![d].armed = TRUE,
                        ![d].conf = [ip |-> dev[d].script.ip]]
  /\ UNCHANGED hostvars
MacosRemoveCa(d) ==
  /\ At(d, "mac", "remove old")
  /\ \E left \in {0, dev[d].ca} : dev' = [dev EXCEPT ![d].pc = "trust", ![d].ca = left]
  /\ UNCHANGED hostvars
DarwinTrust(d) ==
  /\ At(d, "mac", "trust")
  /\ dev' = [dev EXCEPT ![d].pc = "installed", ![d].armed = FALSE, ![d].ca = dev[d].script.ca]
  /\ UNCHANGED hostvars
(* The resolver that is active and the anchor directory come first. *)
LinuxPick(d) ==
  /\ At(d, "linux", "script")
  /\ dev' = [dev EXCEPT ![d].pc = IF dev[d].resolver THEN "copy" ELSE "failed"]
  /\ UNCHANGED hostvars
(* Mutant: the trap is set when the resolver is written. *)
LinuxTrust_Unarmed(d) ==
  /\ At(d, "linux", "copy")
  /\ dev' = [dev EXCEPT ![d].pc = "conf", ![d].ca = dev[d].script.ca]
  /\ UNCHANGED hostvars
LinuxTrust(d) ==
  /\ At(d, "linux", "copy")
  /\ dev' = [dev EXCEPT ![d].pc = "conf", ![d].armed = TRUE, ![d].ca = dev[d].script.ca]
  /\ UNCHANGED hostvars
LinuxConf(d) ==
  /\ At(d, "linux", "conf")
  /\ dev' = [dev EXCEPT ![d].pc = "verify", ![d].armed = TRUE,
                        ![d].conf = [ip |-> dev[d].script.ip]]
  /\ UNCHANGED hostvars
(* resolves: a probe name, through the resolver just configured; then the   *)
(* browser stores, which never fail the script.                             *)
Resolves(d) ==
  /\ dev[d].resolver /\ boot.lan /\ boot.ip = lanIp /\ dev[d].conf.ip = boot.ip
  /\ HandleRequest(d, TRUE, "site", "A") # NoIp
NssInstall(d) ==
  /\ At(d, "linux", "verify") /\ Resolves(d)
  /\ dev' = [dev EXCEPT ![d].pc = "installed", ![d].armed = FALSE]
  /\ UNCHANGED hostvars
(* set -e on a command that fails, or a name that does not resolve: the EXIT trap. *)
Fails(d) ==
  /\ dev[d].pc \in {"script", "remove old", "trust", "copy", "conf", "verify"}
  /\ dev' = [dev EXCEPT ![d].pc = "failed", ![d].armed = FALSE,
       ![d].conf = IF dev[d].armed THEN NoConf ELSE dev[d].conf,
       ![d].ca   = IF dev[d].armed /\ dev[d].os = "linux" THEN 0 ELSE dev[d].ca]
  /\ UNCHANGED hostvars
(* uninstall; the user may also stop the device's resolver. *)
Uninstall(d) ==
  /\ dev[d].pc \in {"installed", "failed"}
  /\ dev' = [dev EXCEPT ![d].pc = "idle", ![d].conf = NoConf, ![d].ca = 0]
  /\ UNCHANGED hostvars
StopResolver(d) ==
  /\ At(d, "linux", "script") /\ dev[d].resolver
  /\ dev' = [dev EXCEPT ![d].resolver = FALSE]
  /\ UNCHANGED hostvars

-----------------------------------------------------------------------------
(* The certificate for a name (certified_key, issue_and_cache, issue_leaf): *)
(* signed by the CA the daemon loaded.                                      *)
CertifiedKey(host) == [host |-> host, by |-> boot.ca]
(* What a device gets of a site: the name resolves to the machine as it     *)
(* stands in the LAN, its proxy lets LAN peers in, the certificate's CA is   *)
(* trusted.                                                                 *)
Visit(d, host) ==
  /\ dev[d].conf.ip = lanIp /\ boot.lan
  /\ HandleRequest(d, TRUE, host, "A") = lanIp
  /\ CertifiedKey(host).by = dev[d].ca

LanNext ==
  \/ SpawnLanSetup \/ SetLanEnabled \/ MintCheck \/ MintStore \/ Expire \/ MoveHost
  \/ \E d \in Devices :
       \/ Fetch(d) \/ DarwinConf(d) \/ MacosRemoveCa(d) \/ DarwinTrust(d) \/ LinuxPick(d)
       \/ LinuxTrust(d) \/ LinuxConf(d) \/ NssInstall(d) \/ Fails(d) \/ Uninstall(d)
       \/ StopResolver(d)
LanSpec == LanInit /\ [][LanNext]_lanvars

-----------------------------------------------------------------------------
(* A setup code opens the installer once: the newest code only, while it    *)
(* is fresh and while LAN mode is on; turning LAN mode off withdraws it,     *)
(* whatever was being minted at that moment.                                *)
CodeOnce ==
  /\ \A i \in DOMAIN served : served[i].last /\ served[i].fresh /\ served[i].lan
  /\ \A i, j \in DOMAIN served : served[i].code = served[j].code => i = j

(* The installer never leaves a device trusting the CA without the resolver *)
(* that goes with it, nor, on macOS, the resolver without the CA.           *)
PairedTrust ==
  \A d \in Devices : dev[d].pc = "failed" =>
     IF dev[d].os = "linux" THEN dev[d].ca # 0 => dev[d].conf # NoConf
     ELSE dev[d].conf # NoConf => dev[d].ca # 0

(* A device that finished its setup reaches a site: as long as the daemon   *)
(* that served the installer, or one like it, runs at the same address with *)
(* the same CA.                                                             *)
SetUpWorks ==
  \A d \in Devices : dev[d].pc = "installed" /\ boot.lan /\ boot.ip = lanIp
                       /\ dev[d].conf.ip = lanIp /\ dev[d].script.ca = boot.ca
                       => Visit(d, "site")

(* LAN access: a setup code opens the installer once, fresh, and never with *)
(* LAN mode off; an installer that fails leaves no CA without its resolver; *)
(* a device that was set up reaches the sites while the host keeps its      *)
(* address and CA (LanTypeOK).                                              *)
LanIsSafe == LanTypeOK /\ CodeOnce /\ PairedTrust /\ SetUpWorks
=============================================================================
