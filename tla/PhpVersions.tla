---------------------------- MODULE PhpVersions ----------------------------
(* Installed PHP versions and everything that refers to them: the directories *)
(* under {data}/php, the manager's map of binaries, the shims, the default,   *)
(* the versions of sites, and running pools.  Requests are tasks whose steps  *)
(* are what happens between two awaits or file system calls.  Installs and    *)
(* updates hold php_mutate; uninstall, use and site requests do not.  A patch *)
(* is its patch number.  The pools' own life is in PhpManager.                *)
EXTENDS Naturals, FiniteSets

CONSTANTS
    Installers, Updaters, Removers,  \* tasks, by the request they serve
    Minors, Legacy,     \* minors, and those that can never be the default
    Sites,              \* parked sites
    Unset,
    MaxPatch,           \* bound: builds published for a minor
    MaxAsked            \* bound: requests ever started and builds published

ASSUME VersionsAssumption ==
    /\ Unset \notin Minors /\ Unset \notin Installers \cup Updaters \cup Removers
    /\ Installers \cap Updaters = {} /\ Installers \cap Removers = {} /\ Updaters \cap Removers = {}
    /\ IsFiniteSet(Minors) /\ MaxPatch \in Nat \ {0} /\ MaxAsked \in Nat

VARIABLES
    patch,      \* version -> the patch installed in its directory, 0 without one
    listing,    \* version -> the latest published patch
    binaries,   \* the versions in PhpManager's map
    master,     \* version -> the patch its running master executes, 0 without one
    shims,      \* versions with a php<v> shim
    default,    \* config.php.default
    pin,        \* site -> the override's version, or None
    versionOf,     \* served site -> its version
    mutate,     \* the holder of php_mutate
    reconcile,  \* the holder of shim_reconcile
    req,        \* task -> where it is, its version, what it has still to do and has done
    mishaps,    \* history: what has gone wrong so far
    quota       \* how many of these are left

files == <<patch, listing, shims>>
config == <<default, pin, versionOf>>
versionsvars == <<patch, listing, binaries, master, shims, default, pin, versionOf, mutate, reconcile, req, mishaps, quota>>
books == <<mishaps, quota>>

Requesters == Installers \cup Updaters \cup Removers
Patches == 0 .. MaxPatch
Installed == {v \in Minors : patch[v] # 0}

Pcs == {"idle", "lock", "stage", "clear", "rename", "discover", "binaries", "adopt", "shimlock", "prune",
        "pick", "restart", "poll", "check", "stop", "remove"}
\* An uninstall overlapped with another request; the rename that ends an install
\* failed.
Mishaps == {"overlap", "rename"}
NoRequest == [pc |-> "idle", v |-> Unset, todo |-> {}, updated |-> {}, snap |-> {}]

Requests == [pc : Pcs, v : Minors \cup {Unset}, todo : SUBSET Minors, updated : SUBSET Minors, snap : SUBSET Minors]

VersionsTypeOK ==
    /\ patch \in [Minors -> Patches] /\ listing \in [Minors -> 1 .. MaxPatch] /\ master \in [Minors -> Patches]
    /\ binaries \subseteq Minors /\ shims \subseteq Minors
    /\ default \in Minors \ Legacy /\ pin \in [Sites -> Minors \cup {Unset}]
    /\ DOMAIN versionOf \subseteq Sites /\ \A s \in DOMAIN versionOf : versionOf[s] \in Minors
    /\ mutate \in Installers \cup Updaters \cup {Unset} /\ reconcile \in Requesters \cup {Unset}
    /\ req \in [Requesters -> Requests]
    /\ mishaps \subseteq Mishaps /\ quota \in 0 .. MaxAsked

Resolve(sites) == [s \in sites |-> IF pin[s] = Unset THEN default ELSE pin[s]]

\* The daemon has just started over some directories.
VersionsInit ==
    /\ listing = [v \in Minors |-> 1]
    /\ patch \in [Minors -> 0 .. 1]
    /\ binaries = Installed /\ shims = Installed
    /\ default \in Minors \ Legacy
    /\ Installed \ Legacy # {} => default \in Installed
    /\ master = [v \in Minors |-> 0]
    /\ pin = [s \in Sites |-> Unset]
    /\ versionOf \in {Resolve({}), Resolve(Sites)}
    /\ mutate = Unset /\ reconcile = Unset
    /\ req = [t \in Requesters |-> NoRequest]
    /\ mishaps = {} /\ quota = MaxAsked

Goto(t, pc) == req' = [req EXCEPT ![t].pc = pc]

AllIdle == \A t \in Requesters : req[t].pc = "idle"
Removing == \E t \in Removers : req[t].pc # "idle"

Overlaps(with) == mishaps' = mishaps \cup IF with THEN {"overlap"} ELSE {}

Begin(t, pc, v, todo) ==
    /\ req[t].pc = "idle" /\ quota > 0
    /\ quota' = quota - 1
    /\ Overlaps(IF t \in Removers THEN ~ AllIdle ELSE Removing)
    /\ req' = [req EXCEPT ![t] = [NoRequest EXCEPT !.pc = pc, !.v = v, !.todo = todo]]
    /\ UNCHANGED <<files, config, binaries, master, mutate, reconcile>>

EndTask(t) ==
    /\ req' = [req EXCEPT ![t] = NoRequest]
    /\ mutate' = IF mutate = t THEN Unset ELSE mutate

\* install_php and install_php_streamed.
install_php(t, v) == Begin(t, "lock", v, {})

\* update_php: one installed version, or every installed one.
update_php(t, targets) == targets \subseteq Installed /\ Begin(t, "lock", Unset, targets)

uninstall_php(t, v) == v \in Installed /\ Begin(t, "check", v, {})

Lock(t) ==
    /\ req[t].pc = "lock" /\ mutate = Unset
    /\ mutate' = t
    /\ Goto(t, IF t \in Installers THEN "stage" ELSE "pick")
    /\ UNCHANGED <<files, config, binaries, master, reconcile, books>>

\* The streamed install gives up the wait for the lock, or the download, on
\* JobCancel; a download, a signature or a checksum also fails here.
Cancel(t) ==
    /\ t \in Installers /\ req[t].pc \in {"lock", "stage"}
    /\ EndTask(t)
    /\ UNCHANGED <<files, config, binaries, master, reconcile, books>>

\* Both tarballs are verified and unpacked in the staging directory.
Stage(t) ==
    /\ req[t].pc = "stage"
    /\ Goto(t, "clear")
    /\ UNCHANGED <<files, config, binaries, master, mutate, reconcile, books>>

\* install removes the directory of the minor before the rename.
Clear(t) ==
    /\ req[t].pc = "clear"
    /\ patch' = [patch EXCEPT ![req[t].v] = 0]
    /\ Goto(t, "rename")
    /\ UNCHANGED <<listing, shims, config, binaries, master, mutate, reconcile, books>>

Renamed(t) ==
    /\ req[t].pc = "rename"
    /\ patch' = [patch EXCEPT ![req[t].v] = listing[req[t].v]]
    /\ req' = IF t \in Installers THEN [req EXCEPT ![t].pc = "discover"]
              ELSE [req EXCEPT ![t].pc = "pick", ![t].updated = @ \cup {req[t].v}]
    /\ UNCHANGED <<listing, shims, config, binaries, master, mutate, reconcile, books>>

RenameFails(t) ==
    /\ req[t].pc = "rename"
    /\ IF t \in Installers THEN EndTask(t) ELSE Goto(t, "restart") /\ UNCHANGED mutate
    /\ mishaps' = mishaps \cup {"rename"}
    /\ UNCHANGED <<files, config, binaries, master, reconcile, quota>>

\* update_php's loop: a newer patch is installed, an error ends the loop.
Pick(t) ==
    /\ req[t].pc = "pick"
    /\ \/ \E v \in req[t].todo :
            req' = [req EXCEPT ![t].todo = @ \ {v}, ![t].v = v,
                               ![t].pc = IF patch[v] \in 1 .. listing[v] - 1 THEN "stage" ELSE "pick"]
       \/ req[t].todo = {} /\ Goto(t, "restart")
    /\ UNCHANGED <<files, config, binaries, master, mutate, reconcile, books>>

UpdateFails(t) ==
    /\ t \in Updaters /\ req[t].pc \in {"stage", "pick"}
    /\ Goto(t, "restart")
    /\ UNCHANGED <<files, config, binaries, master, mutate, reconcile, books>>

pools_needing_restart_Todo(t) == {v \in req[t].todo : master[v] # 0}

pools_needing_restart(t) == {v \in req[t].updated : master[v] # 0}

\* restart_updated_pools, one hold of the manager's lock; a restart may fail.
Restart(t) ==
    /\ req[t].pc = "restart"
    /\ \E failed \in SUBSET pools_needing_restart(t) :
         master' = [v \in Minors |-> IF v \in pools_needing_restart(t)
                                     THEN IF v \in failed THEN 0 ELSE patch[v] ELSE master[v]]
    /\ Goto(t, "poll")
    /\ UNCHANGED <<files, config, binaries, mutate, reconcile, books>>

\* poll_and_refresh touches only the cache of update notices.
Poll(t) ==
    /\ req[t].pc = "poll"
    /\ EndTask(t)
    /\ UNCHANGED <<files, config, binaries, master, reconcile, books>>

\* refresh_php_binaries scans, then waits for the manager's lock.
Discover(t) ==
    /\ req[t].pc = "discover"
    /\ req' = [req EXCEPT ![t].pc = "binaries", ![t].snap = Installed]
    /\ UNCHANGED <<files, config, binaries, master, mutate, reconcile, books>>

set_binaries(t) ==
    /\ req[t].pc = "binaries"
    /\ binaries' = req[t].snap
    /\ Goto(t, IF t \in Removers THEN "shimlock" ELSE "adopt")
    /\ UNCHANGED <<files, config, master, mutate, reconcile, books>>

\* Check and set under the config lock; the save may fail.  The live router is
\* not rebuilt.
adopt_default_if_unset(t) ==
    /\ req[t].pc = "adopt"
    /\ LET v == req[t].v
       IN  IF v \in Legacy \/ default \in Installed THEN UNCHANGED default
           ELSE default' = v \/ UNCHANGED default
    /\ Goto(t, "shimlock")
    /\ UNCHANGED <<files, pin, versionOf, binaries, master, mutate, reconcile, books>>

\* reconcile_shims under shim_reconcile: one scan, then links and pruning.
ShimLock(t) ==
    /\ req[t].pc = "shimlock" /\ reconcile = Unset
    /\ reconcile' = t
    /\ req' = [req EXCEPT ![t].pc = "prune", ![t].snap = Installed]
    /\ UNCHANGED <<files, config, binaries, master, mutate, books>>

reconcile_shims_NoPrune(t) ==
    /\ req[t].pc = "prune"
    /\ shims' = shims \cup req[t].snap
    /\ reconcile' = Unset
    /\ EndTask(t)
    /\ UNCHANGED <<patch, listing, config, binaries, master, books>>

reconcile_shims(t) ==
    /\ req[t].pc = "prune"
    /\ shims' = req[t].snap
    /\ reconcile' = Unset
    /\ EndTask(t)
    /\ UNCHANGED <<patch, listing, config, binaries, master, books>>

Blocked_NotSites(v) ==
    \/ Cardinality(Installed) <= 1 /\ DOMAIN versionOf # {}
    \/ v = default /\ Cardinality(Installed) > 1

\* uninstall_php's three refusals.
Blocked(v) ==
    \/ \E s \in DOMAIN versionOf : versionOf[s] = v
    \/ Cardinality(Installed) <= 1 /\ DOMAIN versionOf # {}
    \/ v = default /\ Cardinality(Installed) > 1

Check(t) ==
    /\ req[t].pc = "check"
    /\ IF Blocked(req[t].v) THEN EndTask(t) ELSE Goto(t, "stop") /\ UNCHANGED mutate
    /\ UNCHANGED <<files, config, binaries, master, reconcile, books>>

Stop(t) ==
    /\ req[t].pc = "stop"
    /\ master' = [master EXCEPT ![req[t].v] = 0]
    /\ Goto(t, "remove")
    /\ UNCHANGED <<files, config, binaries, mutate, reconcile, books>>

\* remove_dir_all, which fails when another request removed the directory.
RemoveDir(t) ==
    /\ req[t].pc = "remove"
    /\ patch' = [patch EXCEPT ![req[t].v] = 0]
    /\ IF patch[req[t].v] # 0 THEN Goto(t, "discover") /\ UNCHANGED mutate ELSE EndTask(t)
    /\ UNCHANGED <<listing, shims, config, binaries, master, reconcile, books>>

\* The requests on the config: one hold of the config lock each.
Asked == quota > 0 /\ quota' = quota - 1 /\ Overlaps(Removing)

\* set_default_php checks the directory, then commits; no router rebuild.
set_default_php(v) ==
    /\ Asked /\ v \in Installed \ Legacy
    /\ default' = v
    /\ UNCHANGED <<files, pin, versionOf, binaries, master, mutate, reconcile, req>>

\* SetPhp on a parked site writes its override and rebuilds the router.
apply_set_php(s, v) ==
    /\ Asked /\ s \in DOMAIN versionOf
    /\ pin' = [pin EXCEPT ![s] = v]
    /\ versionOf' = [o \in DOMAIN versionOf |-> IF pin'[o] = Unset THEN default ELSE pin'[o]]
    /\ UNCHANGED <<files, default, binaries, master, mutate, reconcile, req>>

\* Any other rebuild: a park, an unpark, a new folder.
RebuildRouter(sites) ==
    /\ Asked
    /\ versionOf' = Resolve(sites)
    /\ UNCHANGED <<files, default, pin, binaries, master, mutate, reconcile, req>>

\* A request for a site makes the proxy ensure its version's pool.
EnsureMinor(v) ==
    /\ master[v] = 0 /\ v \in binaries /\ patch[v] # 0
    /\ \E s \in DOMAIN versionOf : versionOf[s] = v
    /\ master' = [master EXCEPT ![v] = patch[v]]
    /\ UNCHANGED <<files, config, binaries, mutate, reconcile, req, books>>

MinorStops(v) ==
    /\ master[v] # 0
    /\ master' = [master EXCEPT ![v] = 0]
    /\ UNCHANGED <<files, config, binaries, mutate, reconcile, req, books>>

\* A new patch is published.
Publish(v) ==
    /\ listing[v] < MaxPatch /\ quota > 0 /\ quota' = quota - 1
    /\ listing' = [listing EXCEPT ![v] = @ + 1]
    /\ UNCHANGED <<patch, shims, config, binaries, master, mutate, reconcile, req, mishaps>>

\* The daemon dies and starts again: it scans the directories, reconciles the
\* shims and builds the router.
Crash ==
    /\ req' = [t \in Requesters |-> NoRequest] /\ mutate' = Unset /\ reconcile' = Unset
    /\ master' = [v \in Minors |-> 0]
    /\ binaries' = Installed /\ shims' = Installed
    /\ versionOf' = Resolve(DOMAIN versionOf)
    /\ UNCHANGED <<patch, listing, default, pin, books>>

VersionsStep(t) ==
    \/ Lock(t) \/ Cancel(t) \/ Stage(t) \/ Clear(t) \/ Renamed(t) \/ RenameFails(t)
    \/ Pick(t) \/ UpdateFails(t) \/ Restart(t) \/ Poll(t)
    \/ Discover(t) \/ set_binaries(t) \/ adopt_default_if_unset(t) \/ ShimLock(t) \/ reconcile_shims(t)
    \/ Check(t) \/ Stop(t) \/ RemoveDir(t)

VersionsNext ==
    \/ \E t \in Installers, v \in Minors : install_php(t, v)
    \/ \E t \in Updaters : update_php(t, Installed) \/ \E v \in Minors : update_php(t, {v})
    \/ \E t \in Removers, v \in Minors : uninstall_php(t, v)
    \/ \E t \in Requesters : VersionsStep(t)
    \/ \E v \in Minors : set_default_php(v) \/ EnsureMinor(v) \/ MinorStops(v) \/ Publish(v)
    \/ \E s \in Sites, v \in Minors : apply_set_php(s, v)
    \/ \E sites \in SUBSET Sites : RebuildRouter(sites)
    \/ Crash

VersionsSpec == VersionsInit /\ [][VersionsNext]_versionsvars

-----------------------------------------------------------------------------
\* Nothing of the kind has gone wrong so far.
Without(what) == mishaps \cap what = {}

\* finalize_php_install and uninstall_php: with no request in flight, the
\* manager's map and the shims name exactly the installed versions, also after
\* a crash.  uninstall_php takes no php_mutate, and install gives the old
\* directory up before its rename: an overlapping uninstall or a failed rename
\* breaks this.
VersionsKnown ==
    AllIdle /\ Without({"overlap", "rename"}) => binaries = Installed /\ shims = Installed

\* uninstall_php: no removal takes the version a served site runs on, nor the
\* default while another version is left to serve, if nothing ran between its
\* checks and the removal.
RemovesSafely ==
    \A t \in Removers : patch' # patch /\ req[t].pc = "remove" /\ Without({"overlap"}) =>
      /\ \A s \in DOMAIN versionOf : versionOf[s] # req[t].v
      /\ default = req[t].v => Installed = {req[t].v}
RemovalIsSafe == [][RemovesSafely]_versionsvars

\* restart_updated_pools: when an update answers, no running pool of a minor it
\* updated still executes the old patch, whoever started pools meanwhile and
\* whatever failed, unless an uninstall ran beside it.
PoolsUpdated ==
    \A t \in Updaters : req[t].pc = "poll" /\ Without({"overlap"}) =>
        \A v \in req[t].updated : master[v] \in {0, patch[v]}

\* An update that answers leaves no running pool on the old patch, whoever
\* started pools meanwhile, and at rest the versions and shims the daemon knows
\* are the installed ones.
UpdatedRuns == VersionsTypeOK /\ PoolsUpdated /\ VersionsKnown
=============================================================================
