----------------------------- MODULE Lifecycle -----------------------------
(***************************************************************************)
(* The life of a yerdd process, from bring_up to the re-exec of a restart  *)
(* (bin/yerdd main.rs, lib.rs, startup.rs, single_instance.rs), with a     *)
(* second process started beside it and crashes between any two steps.     *)
(* The config file is the set of changes saved in it; the CA is a pair of  *)
(* files written one after the other; ports may be in other hands.         *)
(***************************************************************************)
EXTENDS Naturals

CONSTANTS Daemons,     \* processes; a restarted one keeps its name
          Oses,        \* "linux", "macos"
          Foreign,     \* ports other programs may hold when a daemon binds
          MaxStarts,   \* bound: processes started by hand or by the service manager
          MaxChanges,  \* bound: config changes
          MaxCrashes,  \* bound: crashes
          MaxFlips     \* bound: changes of the port redirect by others

VARIABLES
  os,      \* the platform
  proc,    \* proc[d]: how far process d is and what it holds in memory
  lock,    \* who holds yerd.lock
  disk,    \* the changes saved in yerd.toml
  acked,   \* history: [ok: the changes answered Ok, raced: those a process
           \* overwrote that had read the file before they were saved]
  ca,      \* ca.cert.pem and ca.key.pem: Missing, Half written or a generation
  sock,    \* whose listener yerd.sock leads to
  held,    \* held[port]: the process listening there
  pf,      \* is the 443 redirect installed
  used     \* what the bounds have been spent on

vars == <<os, proc, lock, disk, acked, ca, sock, held, pf, used>>

Nobody == "nobody"
ASSUME LifecycleAssumption == Nobody \notin Daemons /\ {MaxStarts, MaxChanges, MaxCrashes, MaxFlips} \subseteq Nat

Missing == 0
Half == 1
Ports == {"desired http", "desired https", "fallback http", "fallback https", "dns", "mail"}
Desired == {"desired http", "desired https"}
Fallback == {"fallback http", "fallback https"}

Fresh == [pc |-> "off", config |-> {}, ca |-> Missing, web |-> "none", redirect |-> "none",
          restart |-> FALSE, raced |-> FALSE]

Init ==
  /\ os \in Oses
  /\ proc = [d \in Daemons |-> Fresh]
  /\ lock = Nobody /\ sock = Nobody
  /\ disk = {} /\ acked = [ok |-> {}, raced |-> {}]
  /\ ca = [cert |-> Missing, key |-> Missing]
  /\ held = [p \in Ports |-> Nobody]
  /\ pf \in IF os = "macos" THEN BOOLEAN ELSE {FALSE}
  /\ used = [starts |-> 0, changes |-> 0, crashes |-> 0, flips |-> 0, ca |-> Half]

At(d, pc) == proc[d].pc = pc
Go(d, pc) == proc' = [proc EXCEPT ![d].pc = pc]
(* From Acquire to Release a process owns the daemon's files. *)
Owning == {"locked", "cert open", "cert", "key open", "ca", "web", "ipc", "dns",
           "mail", "assembled", "serving", "draining", "stopped"}
(* A process is gone: its lock, its listeners and its memory with it. *)
Dropped(d) == [p \in Ports |-> IF held[p] = d THEN Nobody ELSE held[p]]

Start(d) ==
  /\ At(d, "off") /\ used.starts < MaxStarts
  /\ proc' = [proc EXCEPT ![d] = [Fresh EXCEPT !.pc = "starting"]]
  /\ used' = [used EXCEPT !.starts = @ + 1]
  /\ UNCHANGED <<os, lock, disk, acked, ca, sock, held, pf>>

(* bring_up, load_or_default_config: the config is read before the lock is  *)
(* taken, and is empty if there is no file yet.                             *)
(* Mutant: a file that cannot be read for once counts as absent. *)
Load_Default(d) ==
  /\ At(d, "starting")
  /\ \E config \in {disk, {}} :
       proc' = [proc EXCEPT ![d].pc = "loaded", ![d].config = config]
  /\ UNCHANGED <<os, lock, disk, acked, ca, sock, held, pf, used>>
Load(d) ==
  /\ At(d, "starting")
  /\ proc' = [proc EXCEPT ![d].pc = "loaded", ![d].config = disk]
  /\ UNCHANGED <<os, lock, disk, acked, ca, sock, held, pf, used>>

(* InstanceLock::acquire; AlreadyRunning ends the process. *)
(* Mutant: the lock is taken whoever holds it. *)
Acquire_Blind(d) ==
  /\ At(d, "loaded")
  /\ lock' = d /\ Go(d, "locked")
  /\ UNCHANGED <<os, disk, acked, ca, sock, held, pf, used>>
Acquire(d) ==
  /\ At(d, "loaded")
  /\ IF lock = Nobody THEN lock' = d /\ Go(d, "locked")
     ELSE Go(d, "off") /\ UNCHANGED lock
  /\ UNCHANGED <<os, disk, acked, ca, sock, held, pf, used>>

(* A startup error: the process ends and drops what it has. *)
Fail(d) ==
  /\ proc' = [proc EXCEPT ![d] = Fresh]
  /\ lock' = IF lock = d THEN Nobody ELSE lock
  /\ held' = Dropped(d)

(* load_or_generate_ca: two files that are both there are read; a half      *)
(* written one does not parse.                                              *)
CaPresent == ca.cert # Missing /\ ca.key # Missing
LoadCa(d) ==
  /\ At(d, "locked") /\ CaPresent
  /\ IF Half \in {ca.cert, ca.key}
     THEN Fail(d)
     ELSE /\ proc' = [proc EXCEPT ![d].pc = "ca", ![d].ca = ca.key]
          /\ UNCHANGED <<os, lock, held>>
  /\ UNCHANGED <<os, disk, acked, ca, sock, pf, used>>
(* Otherwise a new pair is made and each file truncated, then written. *)
(* Mutant: a certificate that is there is kept. *)
GenerateCa_Keep(d) ==
  /\ At(d, "locked") /\ ~CaPresent
  /\ proc' = [proc EXCEPT ![d].ca = used.ca + 1,
                          ![d].pc = IF ca.cert > Half THEN "cert" ELSE "cert open"]
  /\ used' = [used EXCEPT !.ca = @ + 1]
  /\ ca' = [ca EXCEPT !.cert = IF @ > Half THEN @ ELSE Half]
  /\ UNCHANGED <<os, lock, disk, acked, sock, held, pf>>
GenerateCa(d) ==
  /\ At(d, "locked") /\ ~CaPresent
  /\ proc' = [proc EXCEPT ![d].pc = "cert open", ![d].ca = used.ca + 1]
  /\ used' = [used EXCEPT !.ca = @ + 1]
  /\ ca' = [ca EXCEPT !.cert = Half]
  /\ UNCHANGED <<os, lock, disk, acked, sock, held, pf>>
WriteCert(d) ==
  /\ At(d, "cert open")
  /\ ca' = [ca EXCEPT !.cert = proc[d].ca]
  /\ Go(d, "cert")
  /\ UNCHANGED <<os, lock, disk, acked, sock, held, pf, used>>
WriteKey(d) ==
  /\ \/ At(d, "cert") /\ ca' = [ca EXCEPT !.key = Half] /\ Go(d, "key open")
     \/ At(d, "key open") /\ ca' = [ca EXCEPT !.key = proc[d].ca] /\ Go(d, "ca")
  /\ UNCHANGED <<os, lock, disk, acked, sock, held, pf, used>>

-----------------------------------------------------------------------------
Free(p) == held[p] = Nobody
(* A bind of p fails with a retry kind (in use, not permitted), or with some *)
(* other error, if p is in foreign hands; `busy` says how.                  *)
BindOutcome(p, busy) ==
  IF ~Free(p) THEN "retry" ELSE IF p \in DOMAIN busy THEN busy[p] ELSE "ok"

ClassifyDesired(http, https) ==
  CASE http = "ok" /\ https = "ok" -> "KeepDesired"
    [] "hard" \in {http, https} -> "HardFail"
    [] OTHER -> "UseFallback"
ClassifyFallback(http, https) ==
  IF http = "ok" /\ https = "ok" THEN "KeepFallback" ELSE "BothFailed"

(* bind_pair_impl: the pair it ends up with; a half-bound pair is dropped.  *)
(* On macOS strip_privileged_desired leaves only the fallback pair to try.   *)
BindPairMacos(busy) ==
  IF ClassifyFallback(BindOutcome("fallback http", busy),
                      BindOutcome("fallback https", busy)) = "KeepFallback"
  THEN Fallback ELSE {}
BindPairLinux(busy) ==
  CASE ClassifyDesired(BindOutcome("desired http", busy),
                       BindOutcome("desired https", busy)) = "KeepDesired" -> Desired
    [] ClassifyDesired(BindOutcome("desired http", busy),
                       BindOutcome("desired https", busy)) = "HardFail" -> {}
    [] OTHER -> BindPairMacos(busy)

(* bring_up_with_dirs, the web ports: without a pair the boot goes on. *)
BindWeb(d) ==
  /\ At(d, "ca")
  /\ \E taken \in SUBSET (Foreign \cap (Desired \cup Fallback)) :
     \E busy \in [taken -> {"retry", "hard"}] :
       LET pair == IF os = "macos" THEN BindPairMacos(busy) ELSE BindPairLinux(busy)
           web == CASE pair = Desired -> "desired" [] pair = Fallback -> "fallback"
                    [] OTHER -> "unbound"
       IN /\ held' = [p \in Ports |-> IF p \in pair THEN d ELSE held[p]]
          /\ proc' = [proc EXCEPT ![d].pc = "web", ![d].web = web]
  /\ UNCHANGED <<os, lock, disk, acked, ca, sock, pf, used>>

(* build_ipc_listener: the socket file is removed and made anew. *)
BuildIpcListener(d) ==
  /\ At(d, "web")
  /\ sock' = d
  /\ Go(d, "ipc")
  /\ UNCHANGED <<os, lock, disk, acked, ca, held, pf, used>>

(* The DNS and mail listeners; the daemon goes on without either. *)
BindOne(d, p, from, to) ==
  /\ At(d, from)
  /\ \E got \in BOOLEAN :
       /\ ~got => p \in Foreign \/ ~Free(p)
       /\ got => Free(p)
       /\ held' = [held EXCEPT ![p] = IF got THEN d ELSE @]
  /\ Go(d, to)
  /\ UNCHANGED <<os, lock, disk, acked, ca, sock, pf, used>>
BindDns(d) == BindOne(d, "dns", "ipc", "dns")
BindMail(d) == BindOne(d, "mail", "dns", "mail")

(* The rest of bring_up_with_dirs: the state the handlers share, with the   *)
(* HTTPS port that redirects name, which is the bound one at first.         *)
Assemble(d) ==
  /\ At(d, "mail")
  /\ proc' = [proc EXCEPT ![d].pc = "assembled", ![d].redirect = proc[d].web]
  /\ UNCHANGED <<os, lock, disk, acked, ca, sock, held, pf, used>>
(* run_until_shutdown starts its tasks, the IPC server among them. *)
Serve(d) ==
  /\ At(d, "assembled")
  /\ Go(d, "serving")
  /\ UNCHANGED <<os, lock, disk, acked, ca, sock, held, pf, used>>

-----------------------------------------------------------------------------
(* A handler's config change: build, save, commit, answer (ConfigStore.tla). *)
(* Handlers run on while the daemon drains, and even after it has released  *)
(* the lock, until the runtime is dropped.                                  *)
Change(d) ==
  /\ proc[d].pc \in {"serving", "draining", "stopped", "released"}
  /\ used.changes < MaxChanges
  /\ used' = [used EXCEPT !.changes = @ + 1]
  /\ LET new == proc[d].config \cup {used.changes + 1}
     IN /\ disk' = new
        /\ acked' = [ok |-> acked.ok \cup {used.changes + 1},
                     raced |-> acked.raced \cup (IF proc[d].raced THEN disk \ new ELSE {})]
        /\ proc' = [e \in Daemons |->
             IF e = d THEN [proc[d] EXCEPT !.config = new]
             ELSE IF proc[e].pc \in {"starting", "off"} THEN proc[e]
             ELSE [proc[e] EXCEPT !.raced = TRUE]]
  /\ UNCHANGED <<os, lock, ca, sock, held, pf>>

(* spawn_redirect_probe and effective_redirect_port: only a daemon on the   *)
(* fallback ports probes.                                                   *)
EffectiveRedirectPort(web, active) ==
  IF web # "fallback" \/ active THEN "desired" ELSE "fallback"
RedirectProbe(d) ==
  /\ At(d, "serving") /\ proc[d].web = "fallback"
  /\ proc' = [proc EXCEPT ![d].redirect = EffectiveRedirectPort(proc[d].web, pf)]
  /\ UNCHANGED <<os, lock, disk, acked, ca, sock, held, pf, used>>

(* Somebody installs or removes the redirect. *)
Flip ==
  /\ os = "macos" /\ used.flips < MaxFlips
  /\ pf' = ~pf
  /\ used' = [used EXCEPT !.flips = @ + 1]
  /\ UNCHANGED <<os, proc, lock, disk, acked, ca, sock, held>>

(* A signal or a RestartDaemon request. *)
Shutdown(d) ==
  /\ At(d, "serving")
  /\ \E restart \in BOOLEAN :
       proc' = [proc EXCEPT ![d].pc = "draining", ![d].restart = restart]
  /\ UNCHANGED <<os, lock, disk, acked, ca, sock, held, pf, used>>

(* run_until_shutdown joins its tasks, each under a timeout: a listener may *)
(* outlive the wait.  The IPC accept loop always ends and takes the socket  *)
(* file with it.                                                            *)
Drain(d) ==
  /\ At(d, "draining")
  /\ \E late \in {{}, Ports} :
       held' = [p \in Ports |-> IF held[p] = d /\ p \notin late THEN Nobody ELSE held[p]]
  /\ sock' = IF sock = d THEN Nobody ELSE sock
  /\ Go(d, "stopped")
  /\ UNCHANGED <<os, lock, disk, acked, ca, pf, used>>

(* drop(daemon.lock). *)
(* Mutant: the lock outlives the run. *)
Release_Never(d) ==
  /\ At(d, "stopped")
  /\ Go(d, "released")
  /\ UNCHANGED <<os, lock, disk, acked, ca, sock, held, pf, used>>
Release(d) ==
  /\ At(d, "stopped")
  /\ lock' = Nobody
  /\ Go(d, "released")
  /\ UNCHANGED <<os, disk, acked, ca, sock, held, pf, used>>

(* main: the runtime is dropped, with it every task; Outcome::Restart then  *)
(* executes the same binary again.                                          *)
Exit(d) ==
  /\ At(d, "released")
  /\ held' = Dropped(d)
  /\ proc' = [proc EXCEPT ![d] =
       [Fresh EXCEPT !.pc = IF proc[d].restart THEN "starting" ELSE "off"]]
  /\ UNCHANGED <<os, lock, disk, acked, ca, sock, pf, used>>

(* The process dies, or a startup error ends it; the kernel drops its lock and listeners, the socket    *)
(* file stays and leads nowhere.                                            *)
Crash(d) ==
  /\ ~At(d, "off") /\ used.crashes < MaxCrashes
  /\ Fail(d)
  /\ sock' = IF sock = d THEN Nobody ELSE sock
  /\ used' = [used EXCEPT !.crashes = @ + 1]
  /\ UNCHANGED <<os, disk, acked, ca, pf>>

BootStep(d) ==
  \/ Load(d) \/ Acquire(d) \/ LoadCa(d) \/ GenerateCa(d) \/ WriteCert(d) \/ WriteKey(d)
  \/ BindWeb(d) \/ BuildIpcListener(d) \/ BindDns(d) \/ BindMail(d) \/ Assemble(d) \/ Serve(d)
ExitStep(d) == Drain(d) \/ Release(d) \/ Exit(d)

Rest == (\A d \in Daemons : At(d, "off") \/ At(d, "serving")) /\ UNCHANGED vars

Next ==
  \/ \E d \in Daemons :
       \/ Start(d) \/ BootStep(d) \/ ExitStep(d)
       \/ Change(d) \/ RedirectProbe(d) \/ Shutdown(d) \/ Crash(d)
  \/ Flip \/ Rest

Spec == Init /\ [][Next]_vars
(* A process runs on until it serves, and from a shutdown until it is gone; *)
(* the probe's interval ticks.                                              *)
Fairness ==
  \A d \in Daemons :
    WF_vars(BootStep(d)) /\ WF_vars(ExitStep(d)) /\ WF_vars(RedirectProbe(d))
FairSpec == Spec /\ Fairness

-----------------------------------------------------------------------------
Webs == {"none", "desired", "fallback", "unbound"}
Stages == {"off", "starting", "loaded", "released"} \cup Owning
Processes == [pc : Stages, config : SUBSET (1..MaxChanges),
              ca : Nat, web : Webs, redirect : Webs, restart : BOOLEAN, raced : BOOLEAN]
TypeOK ==
  /\ proc \in [Daemons -> Processes]
  /\ lock \in Daemons \cup {Nobody} /\ sock \in Daemons \cup {Nobody}
  /\ disk \subseteq 1..MaxChanges
  /\ acked \in [ok : SUBSET (1..MaxChanges), raced : SUBSET (1..MaxChanges)]
  /\ ca \in [cert : Nat, key : Nat]
  /\ held \in [Ports -> Daemons \cup {Nobody}] /\ pf \in BOOLEAN
  /\ used \in [starts : 0..MaxStarts, changes : 0..MaxChanges, crashes : 0..MaxCrashes,
               flips : 0..MaxFlips, ca : Nat]

(* InstanceLock: no two processes own the daemon's files, and the one that  *)
(* serves is the one yerd.sock leads to, however boots, restarts and       *)
(* crashes of two processes interleave.                                     *)
SocketIsOurs ==
  /\ \A d, e \in Daemons : proc[d].pc \in Owning /\ proc[e].pc \in Owning => d = e
  /\ \A d \in Daemons : At(d, "serving") => sock = d

(* load_or_generate_ca: a daemon signs with the key whose certificate is on *)
(* disk, through crashes between the two writes.                            *)
OneCa ==
  \A d \in Daemons :
    proc[d].pc \in {"web", "ipc", "dns", "mail", "assembled", "serving"} =>
      ca = [cert |-> proc[d].ca, key |-> proc[d].ca]

(* A change that was answered Ok is still in yerd.toml, whichever process   *)
(* saves next: but for a process that read the file before another's change *)
(* and got the lock after it.                                               *)
SurvivesHandover ==
  acked.ok \subseteq disk \cup acked.raced

(* One daemon owns the machine's state: its socket, its CA and its config   *)
(* file, through restarts and crashes (the three above).                    *)
OneDaemonOwns == SocketIsOurs /\ OneCa /\ SurvivesHandover

(* A restart ends with some daemon serving, if nothing crashes meanwhile    *)
(* and no crash left a half-written CA behind.                              *)
RestartComesBack ==
  \A d \in Daemons :
    At(d, "draining") /\ proc[d].restart ~>
      \/ \E e \in Daemons : At(e, "serving")
      \/ used.crashes > 0
=============================================================================
