----------------------------- MODULE SelfUpdate -----------------------------
(***************************************************************************)
(* Yerd's update of itself: the release manifest (yerd-release-manifest),  *)
(* the choice of a target (yerd-update), the daemon's check, cache and     *)
(* staging (bin/yerdd self_update.rs) and the applier that installs a      *)
(* staged artifact, stops and restarts the daemon (bin/yerd apply.rs,      *)
(* yerd-service-ctl).  Two requests, two appliers, a publisher and crashes *)
(* of an applier interleave.  Versions are their place in semver order.    *)
(***************************************************************************)
EXTENDS Naturals, FiniteSets, FiniteSetsExt

CONSTANTS Actors,      \* concurrent requests, each the start of an applier
          Versions,    \* 1..n, in semver order
          PreReleases, \* those with a pre-release part, or flagged as pre-releases
          Hosts,       \* "macos", "linux"
          MaxOps,      \* bound: requests
          MaxPolls,    \* bound: readiness probes of a relaunched desktop app
          MaxKills     \* bound: appliers killed

VARIABLES
  host,      \* the platform
  published, \* the releases on the CDN's manifest
  daemon,    \* running version, 0 when stopped; configured channel
  snap,      \* update_snapshot: what the last check found
  cache,     \* yerd_update: the releases of the last check
  staged,    \* staged[v], sig[v]: the artifact and its signature on disk
  installed, \* the installed bundle or package: a version, Gone or Broken
  actor,     \* actor[a]: where the request or applier is
  answer,    \* the last UpdateStatus answered
  spent      \* what the bounds have been spent on

updatevars == <<host, published, daemon, snap, cache, staged, installed, actor, answer, spent>>

(* Releases are totally ordered: of any that exist one is the latest. *)
ASSUME SelfUpdateAssumption ==
  /\ 1 \in Versions /\ Versions \subseteq Nat \ {0}
  /\ \A S \in SUBSET Versions : S # {} => \E v \in S : \A w \in S : v >= w

Gone == 0
None == 0
Channels == {"stable", "edge"}
(* ReleaseMeta::is_prerelease. *)
IsPrerelease(v) == v \in PreReleases
MaxOf(S) == IF S = {} THEN None ELSE Max(S)

(* build_manifests, entry_to_meta: the highest stable release, and the      *)
(* highest pre-release if it is newer.                                      *)
BuildManifests(all) ==
  LET stable == MaxOf({v \in all : ~IsPrerelease(v)})
      pre == MaxOf({v \in all : IsPrerelease(v)})
  IN {v \in {stable, pre} : v # None /\ (v = pre => pre > stable)}

(* select_target, at running version `current`. *)
SelectTarget(releases, channel, current) ==
  LET stable == MaxOf({v \in releases : ~IsPrerelease(v)})
      latest == IF channel = "stable" THEN stable ELSE MaxOf(releases)
  IN [current |-> current, channel |-> channel,
      target |-> IF latest > current THEN latest ELSE None,
      ahead |-> current \in PreReleases /\ current > stable]

NoSnap == [current |-> None, channel |-> "stable", target |-> None, ahead |-> FALSE]
Idle == [pc |-> "idle", op |-> "none", channel |-> "stable", got |-> {}, file |-> None,
         root |-> FALSE, gui |-> FALSE, stopped |-> FALSE, tries |-> 0,
         backup |-> Gone, exit |-> "none", restarted |-> FALSE, seen |-> FALSE]

UpdateInit ==
  /\ host \in Hosts
  /\ published = {1}
  /\ daemon = [version |-> 1, channel |-> "stable"]
  /\ snap = NoSnap /\ cache = {} /\ answer = NoSnap
  /\ staged = [v \in Versions |-> [artifact |-> "none", sig |-> "none"]]
  /\ installed = 1
  /\ actor = [a \in Actors |-> Idle]
  /\ spent = [ops |-> 0, crashes |-> 0]

ActorAt(a, pc) == actor[a].pc = pc
ActorGoes(a, pc) == actor' = [actor EXCEPT ![a].pc = pc]
Up == daemon.version # Gone

Publish(v) ==
  /\ v \notin published
  /\ published' = published \cup {v}
  /\ UNCHANGED <<host, daemon, snap, cache, staged, installed, actor, answer, spent>>

-----------------------------------------------------------------------------
(* CheckUpdate and StageUpdate name a channel or take the configured one    *)
(* before the fetch; the periodic poll (poll_if_due) takes it after.        *)
Begin(a, op) ==
  /\ ActorAt(a, "idle") /\ Up /\ spent.ops < MaxOps
  /\ \E over \in {"none"} \cup (IF op = "poll" THEN {} ELSE Channels) :
       actor' = [actor EXCEPT ![a] = [Idle EXCEPT !.pc = "fetch", !.op = op,
         !.channel = IF over = "none" THEN daemon.channel ELSE over]]
  /\ spent' = [spent EXCEPT !.ops = @ + 1]
  /\ UNCHANGED <<host, published, daemon, snap, cache, staged, installed, answer>>

(* fetch_releases, verify_minisign: the manifest, or nothing. *)
FetchReleases(a) ==
  /\ ActorAt(a, "fetch") /\ Up
  /\ \E ok \in BOOLEAN :
       actor' = [actor EXCEPT ![a].pc = IF ok THEN "fetched" ELSE "offline",
                              ![a].got = IF ok THEN BuildManifests(published) ELSE {}]
  /\ UNCHANGED <<host, published, daemon, snap, cache, staged, installed, answer, spent>>

(* response_from_snapshot: a snapshot of another version or channel offers   *)
(* nothing.                                                                  *)
(* Mutant: the snapshot is repeated as it is. *)
ResponseFromSnapshot_Stale(s, channel) ==
  [current |-> daemon.version, channel |-> channel, target |-> s.target, ahead |-> s.ahead]
ResponseFromSnapshot(s, channel) ==
  LET drifted == s.current # daemon.version \/ s.channel # channel
  IN [current |-> daemon.version, channel |-> channel,
      target |-> IF drifted THEN None ELSE s.target, ahead |-> ~drifted /\ s.ahead]

(* poll_and_refresh, store_snapshot. *)
PollAndRefresh(a) ==
  /\ ActorAt(a, "fetched") /\ actor[a].op = "poll" /\ Up
  /\ snap' = SelectTarget(actor[a].got, daemon.channel, daemon.version)
  /\ cache' = actor[a].got
  /\ actor' = [actor EXCEPT ![a] = Idle]
  /\ UNCHANGED <<host, published, daemon, staged, installed, answer, spent>>

(* check_update: live, from the snapshot, or from the cached releases. *)
CheckUpdate(a) ==
  /\ actor[a].op \in {"check", "poll"} /\ Up
  /\ \/ /\ ActorAt(a, "fetched") /\ actor[a].op = "check"
        /\ cache' = actor[a].got
        /\ snap' = SelectTarget(actor[a].got, actor[a].channel, daemon.version)
        /\ answer' = ResponseFromSnapshot(snap', actor[a].channel)
     \/ /\ ActorAt(a, "offline") /\ actor[a].op = "check"
        /\ answer' = IF snap # NoSnap
                     THEN ResponseFromSnapshot(snap, actor[a].channel)
                     ELSE SelectTarget(cache, actor[a].channel, daemon.version)
        /\ UNCHANGED <<snap, cache>>
     \/ /\ ActorAt(a, "offline") /\ actor[a].op = "poll"
        /\ UNCHANGED <<snap, cache, answer>>
  /\ actor' = [actor EXCEPT ![a] = Idle]
  /\ UNCHANGED <<host, published, daemon, staged, installed, spent>>

(* cached_update_status and set_update_channel. *)
CachedUpdateStatus ==
  /\ Up
  /\ answer' = IF snap = NoSnap THEN [NoSnap EXCEPT !.current = daemon.version,
                                                    !.channel = daemon.channel]
               ELSE ResponseFromSnapshot(snap, daemon.channel)
  /\ UNCHANGED <<host, published, daemon, snap, cache, staged, installed, actor, spent>>
SetUpdateChannel ==
  /\ Up /\ spent.ops < MaxOps
  /\ \E c \in Channels : daemon' = [daemon EXCEPT !.channel = c]
  /\ spent' = [spent EXCEPT !.ops = @ + 1]
  /\ UNCHANGED <<host, published, snap, cache, staged, installed, actor, answer>>

(* stage_update: nothing newer, no artifact for the platform (select_asset), *)
(* a failed download or checksum end it; else the artifact and then its      *)
(* signature are truncated and written.                                      *)
SelectAsset(a) == SelectTarget(actor[a].got, actor[a].channel, daemon.version).target
StageUpdate(a) ==
  /\ actor[a].op = "stage" /\ Up
  /\ \/ /\ ActorAt(a, "offline") \/ ActorAt(a, "fetched")
        /\ actor' = [actor EXCEPT ![a] = Idle] /\ UNCHANGED staged
     \/ /\ ActorAt(a, "fetched") /\ SelectAsset(a) # None
        /\ actor' = [actor EXCEPT ![a].pc = "artifact", ![a].file = SelectAsset(a)]
        /\ staged' = [staged EXCEPT ![SelectAsset(a)].artifact = "part"]
     \/ /\ ActorAt(a, "artifact")
        /\ staged' = [staged EXCEPT ![actor[a].file] = [artifact |-> "whole", sig |-> "part"]]
        /\ ActorGoes(a, "sig")
     \/ /\ ActorAt(a, "sig")
        /\ staged' = [staged EXCEPT ![actor[a].file].sig = "whole"]
        /\ ActorGoes(a, "staged")
  /\ UNCHANGED <<host, published, daemon, snap, cache, installed, answer, spent>>

-----------------------------------------------------------------------------
(* apply_update and run_from_env (from the desktop app, which quits) or     *)
(* run_self_update_apply (in the CLI, perhaps as root): `yerd` as applier.  *)
SpawnApplier(a) ==
  /\ ActorAt(a, "staged")
  /\ \E gui, root \in BOOLEAN :
       /\ ~(gui /\ root) /\ (root => host = "linux")
       /\ actor' = [actor EXCEPT ![a].pc = "reverify", ![a].gui = gui, ![a].root = root]
  /\ UNCHANGED <<host, published, daemon, snap, cache, staged, installed, answer, spent>>

Verifies(v) == staged[v] = [artifact |-> "whole", sig |-> "whole"]
End(a, code) == actor' = [actor EXCEPT ![a].pc = "done", ![a].exit = code]

(* run, reverify_with_key. *)
Reverify(a) ==
  /\ ActorAt(a, "reverify")
  /\ IF Verifies(actor[a].file)
     THEN ActorGoes(a, IF host = "macos" THEN "extract" ELSE "install")
     ELSE End(a, "failed")
  /\ UNCHANGED <<host, published, daemon, snap, cache, staged, installed, answer, spent>>

(* elevated_install_deb, _pacman and _rpm: read and verify once more, then   *)
(* the package manager installs that copy or fails.  A refused pkexec is a   *)
(* failure too.                                                              *)
ElevatedInstall(a) ==
  /\ ActorAt(a, "install")
  /\ \/ /\ Verifies(actor[a].file)
        /\ installed' = actor[a].file
        /\ IF actor[a].root THEN End(a, "ok") ELSE ActorGoes(a, "restart")
     \/ End(a, "failed") /\ UNCHANGED installed
  /\ UNCHANGED <<host, published, daemon, snap, cache, staged, answer, spent>>

(* apply_macos: not in /Applications, not writable, another volume or a bad *)
(* archive end it before anything is touched.                               *)
Extract(a) ==
  /\ ActorAt(a, "extract")
  /\ \/ staged[actor[a].file].artifact = "whole" /\ ActorGoes(a, "stop")
     \/ End(a, "failed")
  /\ UNCHANGED <<host, published, daemon, snap, cache, staged, installed, answer, spent>>

(* A daemon that goes takes its requests with it. *)
InDaemon == {"fetch", "fetched", "offline", "artifact", "sig"}
Without(acts) == [b \in Actors |-> IF acts[b].pc \in InDaemon THEN Idle ELSE acts[b]]

(* stop_daemon, ServiceCtl::stop. *)
StopDaemon(a) ==
  /\ ActorAt(a, "stop")
  /\ daemon' = [daemon EXCEPT !.version = Gone]
  /\ actor' = Without([actor EXCEPT ![a].pc = "exists", ![a].stopped = TRUE])
  /\ UNCHANGED <<host, published, snap, cache, staged, installed, answer, spent>>

(* swap_bundle: rename aside what was there, rename the new bundle in (which *)
(* fails if another applier's is there by now), or put the old one back.     *)
TargetExists(a) ==
  /\ ActorAt(a, "exists")
  /\ actor' = [actor EXCEPT ![a].pc = "aside", ![a].seen = installed # Gone]
  /\ UNCHANGED <<host, published, daemon, snap, cache, staged, installed, answer, spent>>
(* Mutant: the old bundle is deleted, not kept aside. *)
RenameAside_Delete(a) ==
  /\ ActorAt(a, "aside")
  /\ installed' = Gone
  /\ ActorGoes(a, "in")
  /\ UNCHANGED <<host, published, daemon, snap, cache, staged, answer, spent>>
RenameAside(a) ==
  /\ ActorAt(a, "aside")
  /\ CASE ~actor[a].seen -> ActorGoes(a, "in") /\ UNCHANGED installed
       [] actor[a].seen /\ installed = Gone -> ActorGoes(a, "failed") /\ UNCHANGED installed
       [] OTHER -> /\ actor' = [actor EXCEPT ![a].pc = "in", ![a].backup = installed]
                   /\ installed' = Gone
  /\ UNCHANGED <<host, published, daemon, snap, cache, staged, answer, spent>>
RenameIn(a) ==
  /\ ActorAt(a, "in")
  /\ \/ /\ installed = Gone
        /\ installed' = actor[a].file
        /\ ActorGoes(a, "cleanup")
     \/ ActorGoes(a, "restore") /\ UNCHANGED installed
  /\ UNCHANGED <<host, published, daemon, snap, cache, staged, answer, spent>>
Restore(a) ==
  /\ ActorAt(a, "restore")
  /\ \/ /\ actor[a].backup # Gone /\ installed = Gone
        /\ installed' = actor[a].backup
        /\ actor' = [actor EXCEPT ![a].pc = "failed", ![a].backup = Gone]
     \/ ActorGoes(a, "failed") /\ UNCHANGED installed
  /\ UNCHANGED <<host, published, daemon, snap, cache, staged, answer, spent>>
RemoveBackup(a) ==
  /\ ActorAt(a, "cleanup")
  /\ actor' = [actor EXCEPT ![a].backup = Gone,
       ![a].pc = IF actor[a].gui THEN "gui" ELSE "restart"]
  /\ UNCHANGED <<host, published, daemon, snap, cache, staged, installed, answer, spent>>

(* ServiceCtl::restart: whatever runs is replaced by what is installed, with *)
(* load_snapshot's copy of the last check, if persist_snapshot could write   *)
(* it; or the service manager fails.                                         *)
Restarted(acts) ==
  \/ /\ daemon' = [daemon EXCEPT !.version = installed]
     /\ snap' \in {snap, NoSnap} /\ cache' = {}
     /\ actor' = Without(acts)
  \/ actor' = acts /\ UNCHANGED <<daemon, snap, cache>>
RestartServices(a) ==
  /\ ActorAt(a, "restart")
  /\ Restarted([actor EXCEPT ![a].pc = "done", ![a].exit = "ok", ![a].restarted = TRUE])
  /\ UNCHANGED <<host, published, staged, installed, answer, spent>>
(* The error arm of apply_macos: a daemon that was stopped is started again. *)
(* Mutant: a failed update leaves the daemon as it is. *)
RestartAfterFailure_Not(a) ==
  /\ ActorAt(a, "failed")
  /\ End(a, "failed")
  /\ UNCHANGED <<host, published, daemon, snap, cache, staged, installed, answer, spent>>
RestartAfterFailure(a) ==
  /\ ActorAt(a, "failed")
  /\ Restarted([actor EXCEPT ![a].pc = "done", ![a].exit = "failed", ![a].restarted = TRUE])
  /\ UNCHANGED <<host, published, staged, installed, answer, spent>>

(* finish_gui_owned_update: relaunch the app and wait for it to bring the   *)
(* daemon back; restart it here when the app does not.                      *)
RelaunchGui(a) ==
  /\ ActorAt(a, "gui")
  /\ \/ ActorGoes(a, "ready")
     \/ ActorGoes(a, "restart")
  /\ UNCHANGED <<host, published, daemon, snap, cache, staged, installed, answer, spent>>
GuiStartsDaemon(a) ==
  /\ ActorAt(a, "ready") /\ Restarted(actor)
  /\ UNCHANGED <<host, published, staged, installed, answer, spent>>
PollUntil(a) ==
  /\ ActorAt(a, "ready")
  /\ IF Up
     THEN actor' = [actor EXCEPT ![a].pc = "done", ![a].exit = "ok", ![a].restarted = TRUE]
     ELSE actor' = [actor EXCEPT ![a].tries = @ + 1,
            ![a].pc = IF actor[a].tries + 1 < MaxPolls THEN "ready" ELSE "restart"]
  /\ UNCHANGED <<host, published, daemon, snap, cache, staged, installed, answer, spent>>

(* An applier is killed. *)
ApplierDies(a) ==
  /\ actor[a].pc \in {"reverify", "extract", "install", "stop", "exists", "aside", "in", "restore",
                      "cleanup", "failed", "restart", "gui", "ready"}
  /\ spent.crashes < MaxKills
  /\ End(a, "killed")
  /\ spent' = [spent EXCEPT !.crashes = @ + 1]
  /\ UNCHANGED <<host, published, daemon, snap, cache, staged, installed, answer>>

(* The service manager, or the user, starts what is installed; load_snapshot *)
(* brings the last check back.                                               *)
StartDaemon ==
  /\ ~Up /\ installed # Gone
  /\ Restarted(actor)
  /\ UNCHANGED <<host, published, staged, installed, answer, spent>>

ApplierStep(a) ==
  \/ Reverify(a) \/ ElevatedInstall(a) \/ Extract(a) \/ StopDaemon(a) \/ TargetExists(a) \/ RenameAside(a)
  \/ RenameIn(a) \/ Restore(a) \/ RemoveBackup(a) \/ RestartServices(a)
  \/ RestartAfterFailure(a) \/ RelaunchGui(a) \/ PollUntil(a)

UpdateRests == (\A a \in Actors : actor[a].pc \in {"idle", "done"}) /\ UNCHANGED updatevars

UpdateNext ==
  \/ \E a \in Actors :
       \/ \E op \in {"check", "poll", "stage"} : Begin(a, op)
       \/ FetchReleases(a) \/ PollAndRefresh(a) \/ CheckUpdate(a) \/ StageUpdate(a)
       \/ SpawnApplier(a) \/ ApplierStep(a) \/ GuiStartsDaemon(a) \/ ApplierDies(a)
  \/ \E v \in Versions : Publish(v)
  \/ CachedUpdateStatus \/ SetUpdateChannel \/ StartDaemon \/ UpdateRests

UpdateSpec == UpdateInit /\ [][UpdateNext]_updatevars

-----------------------------------------------------------------------------
ActorPcs ==
  {"idle", "fetch", "fetched", "offline", "artifact", "sig", "staged", "reverify", "extract",
   "install", "stop", "exists", "aside", "in", "restore", "cleanup", "failed", "restart", "gui",
   "ready", "done"}
Statuses == [current : Versions \cup {None}, channel : Channels, target : Versions \cup {None},
             ahead : BOOLEAN]
Acts == [pc : ActorPcs, op : {"none", "check", "poll", "stage"}, channel : Channels,
         got : SUBSET Versions, file : Versions \cup {None}, root : BOOLEAN, gui : BOOLEAN,
         stopped : BOOLEAN, tries : Nat, backup : Versions \cup {Gone},
         exit : {"none", "ok", "failed", "killed"}, restarted : BOOLEAN, seen : BOOLEAN]
UpdateTypeOK ==
  /\ published \subseteq Versions /\ cache \subseteq Versions
  /\ daemon \in [version : Versions \cup {Gone}, channel : Channels]
  /\ snap \in Statuses /\ answer \in Statuses
  /\ staged \in [Versions -> [artifact : {"none", "part", "whole"}, sig : {"none", "part", "whole"}]]
  /\ installed \in Versions \cup {Gone}
  /\ actor \in [Actors -> Acts]

(* An UpdateStatus that offers a target offers one that is published, newer  *)
(* than the daemon that answers, and allowed on the channel it names: also   *)
(* when the check is old, and the channel or the daemon has changed since.   *)
OfferIsRight ==
  answer.target # None =>
    /\ answer.target \in published /\ answer.target > answer.current
    /\ answer.channel = "stable" => ~IsPrerelease(answer.target)

(* A bundle is never lost: at every moment, an applier killed there          *)
(* included, the application is in its place or in some applier's backup.    *)
NeverLost ==
  installed # Gone \/ \E a \in Actors : actor[a].backup # Gone

(* An update that failed after the daemon was stopped has tried to bring it *)
(* back, and so has one that succeeded.                                     *)
NotLeftDown ==
  \A a \in Actors :
    ActorAt(a, "done") /\ actor[a].exit # "killed" /\ actor[a].stopped => actor[a].restarted

(* An update is safe: what is offered is published, newer and allowed on    *)
(* its channel (OfferIsRight), at every moment the application is in place  *)
(* or in a backup (NeverLost), and an update that stopped the daemon has    *)
(* tried to bring it back (NotLeftDown; UpdateTypeOK).                      *)
UpdateIsSafe == UpdateTypeOK /\ OfferIsRight /\ NeverLost /\ NotLeftDown
=============================================================================
