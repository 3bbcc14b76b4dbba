------------------------------- MODULE Desktop -------------------------------
(***************************************************************************)
(* The desktop app as the daemon's owner: the settings file, the daemon's  *)
(* registration with the service manager and its self-repair at launch,    *)
(* start and stop, and the two "open at login" switches                    *)
(* (autostart.rs, daemon.rs, smappservice.rs, setup_app in main.rs).       *)
(*                                                                         *)
(* A thread works through `todo`, the calls its command makes in order; a  *)
(* "|" separates the steps of a start plan, each with a time budget of its *)
(* own.  A step that outlives its budget is abandoned, not stopped: it     *)
(* runs to its end beside whatever the user does next.                     *)
(***************************************************************************)
EXTENDS Integers, Sequences, FiniteSets

CONSTANTS
    MaxLaunches,   \* how often the app is launched
    MaxFaults,     \* registrations with SMAppService that fail, repair included
    MaxCommands,   \* commands the user gives
    Hosts          \* the service managers considered: a subset of AllHosts

AllHosts == {"smapp", "loose", "systemd", "none"}
Versions == 1 .. 2

VARIABLES
    host,      \* which service manager this machine has
    gui,       \* version of the running app, 0 when it is not running
    file,      \* gui-settings.json
    sm,        \* version of the bundle registered with SMAppService, 0 for none
    job,       \* version the service manager's job runs, 0 for no job
    up,        \* version of the running daemon, 0 when it is down
    unit,      \* version the loose plist or systemd unit names, 0 for no file
    login,     \* the app's login items: SMAppService's and the loose plist
    lock,      \* holder of DAEMON_REG_LOCK
    th,        \* the threads
    told,      \* whether the user last turned the app's login item off, no migration running
    launches, faults, commands

vars == <<host, gui, file, sm, job, up, unit, login, lock, th, told, launches,
          faults, commands>>

Threads == {"setup", "start", "late", "login"}
Idle == [pc |-> "idle", todo |-> <<>>, s |-> 0, abandoned |-> FALSE]

GuiSettings == [auto : BOOLEAN, ver : {0} \cup Versions, conflict : {0} \cup Versions,
                migrated : BOOLEAN]

TypeOK ==
    /\ host \in AllHosts
    /\ file \in GuiSettings
    /\ {gui, sm, job, up, unit} \subseteq {0} \cup Versions
    /\ login \in [sm : BOOLEAN, loose : BOOLEAN]
    /\ lock \in Threads \cup {"free"}
    /\ DOMAIN th = Threads

Init ==
    /\ host \in Hosts
    /\ gui = 0
    /\ sm \in (IF host = "smapp" THEN {0} \cup Versions ELSE {0})
    /\ unit \in (IF host = "none" \/ sm > 0 THEN {0} ELSE {0, 1})
    /\ job = IF sm > 0 THEN sm ELSE unit
    /\ up = 0
    /\ login \in {l \in [sm : {FALSE}, loose : BOOLEAN] : l.loose => host = "smapp"}
    /\ file \in {[auto |-> job > 0, ver |-> sm, conflict |-> 0,
                  migrated |-> FALSE]}
    /\ lock = "free"
    /\ th = [t \in Threads |-> Idle]
    /\ told = FALSE
    /\ launches = 0 /\ faults = 0 /\ commands = 0

-----------------------------------------------------------------------------
(* Threads.                                                                *)

Head1(t) == IF th[t].todo = <<>> THEN "none" ELSE Head(th[t].todo)

\* The call at the head is over: the next one is due.  An abandoned step's
\* successors are never started, and a retry is not needed.
Finish(t) ==
    LET rest == Tail(th[t].todo)
        cut == rest = <<"retry">> \/ (th[t].abandoned /\ rest # <<>> /\ Head(rest) = "|")
        next == IF rest # <<>> /\ Head(rest) = "|" THEN Tail(rest) ELSE rest
    IN  th' = [th EXCEPT ![t] = IF next = <<>> \/ cut THEN Idle
                                ELSE [@ EXCEPT !.pc = "ready", !.todo = next, !.s = 0]]

\* The call at the head failed.  The launch thread tries the registration a
\* second time; every other command gives up and reports the error.
Fail(t) ==
    th' = [th EXCEPT ![t] = IF t = "setup" /\ Tail(@.todo) = <<"retry">>
                            THEN [@ EXCEPT !.pc = "ready", !.todo = <<"ensure">>, !.s = 0]
                            ELSE Idle]

At(t, call, pc) == Head1(t) = call /\ th[t].pc = pc
Goto(t, pc, s) == th' = [th EXCEPT ![t] = [@ EXCEPT !.pc = pc, !.s = s]]

Owned == <<host, gui, told, launches, commands>>

-----------------------------------------------------------------------------
(* ensure_daemon_registration.                                             *)

\* decide and reg_action: this app against the version that last registered.
Decide(stored) ==
    IF stored = 0 \/ gui > stored THEN "reconcile"
    ELSE IF gui < stored THEN "conflict" ELSE "uptodate"

RegAction(decision) ==
    CASE decision = "conflict" -> "refuse"
      [] decision = "uptodate" /\ ~(sm > 0 /\ job = 0) -> "noop"
      [] OTHER -> "reregister"

HasRegistration(s) == s.auto \/ sm > 0 \/ job > 0

EnsureLoad(t) ==
    /\ At(t, "ensure", "ready")
    /\ \/ /\ host # "smapp"
          /\ Finish(t) /\ UNCHANGED lock
       \/ /\ host = "smapp" /\ lock = "free"
          /\ lock' = t
          /\ Goto(t, "loaded", file)
    /\ UNCHANGED <<Owned, file, sm, job, up, unit, login, faults>>

\* What the loaded settings become, and whether the call then goes on.
EnsureOutcome(s) ==
    IF ~HasRegistration(s) THEN [pc |-> "save", s |-> [s EXCEPT !.ver = 0, !.conflict = 0]]
    ELSE CASE RegAction(Decide(s.ver)) = "refuse" ->
                [pc |-> "refuse", s |-> [s EXCEPT !.conflict = s.ver]]
           [] RegAction(Decide(s.ver)) = "noop" ->
                [pc |-> "save", s |-> [s EXCEPT !.conflict = 0]]
           [] OTHER -> [pc |-> "unregister", s |-> s]

\* A save that changes nothing is not made.
EnsureDecide(t) ==
    /\ At(t, "ensure", "loaded")
    /\ \E o \in {EnsureOutcome(th[t].s)} :
         \/ /\ o.pc = "unregister" \/ o.s # th[t].s
            /\ Goto(t, o.pc, o.s) /\ UNCHANGED lock
         \/ /\ o.pc # "unregister" /\ o.s = th[t].s
            /\ lock' = "free"
            /\ IF o.pc = "refuse" THEN Fail(t) ELSE Finish(t)
    /\ UNCHANGED <<Owned, file, sm, job, up, unit, login, faults>>

\* The conflict marker is set or cleared, or the stale version is dropped.
EnsureSave(t) ==
    /\ Head1(t) = "ensure" /\ th[t].pc \in {"save", "refuse"}
    /\ file' = th[t].s
    /\ lock' = "free"
    /\ IF th[t].pc = "refuse" THEN Fail(t) ELSE Finish(t)
    /\ UNCHANGED <<Owned, sm, job, up, unit, login, faults>>

\* The SMAppService agent's job ends with its registration.
Unregister ==
    /\ sm' = 0
    /\ IF sm > 0 THEN job' = 0 /\ up' = 0 ELSE UNCHANGED <<job, up>>

EnsureUnregister(t) ==
    /\ At(t, "ensure", "unregister")
    /\ Unregister
    /\ Goto(t, "register", th[t].s)
    /\ UNCHANGED <<Owned, file, unit, login, lock, faults>>

\* register_repairing: a failed register is repaired by unregister and one
\* more register.  RunAtLoad starts the daemon from this bundle.
RegisterRepairing(ok) ==
    /\ ok \/ faults < MaxFaults
    /\ faults' = IF ok THEN faults ELSE faults + 1
    /\ IF ok THEN sm' = gui /\ job' = gui /\ up' = (IF up = 0 THEN gui ELSE up)
       ELSE sm' = 0 /\ job' = 0 /\ UNCHANGED up

EnsureRegister(t) ==
    /\ At(t, "ensure", "register")
    /\ \E ok \in BOOLEAN :
         /\ RegisterRepairing(ok)
         /\ IF ok THEN Goto(t, "stamp", file) /\ UNCHANGED lock
            ELSE Fail(t) /\ lock' = "free"
    /\ UNCHANGED <<Owned, file, unit, login>>

\* The settings were loaded again before the stamp.
EnsureStamp(t) ==
    /\ At(t, "ensure", "stamp")
    /\ file' = [th[t].s EXCEPT !.ver = gui, !.conflict = 0]
    /\ lock' = "free"
    /\ Finish(t)
    /\ UNCHANGED <<Owned, sm, job, up, unit, login, faults>>

Ensure(t) ==
    \/ EnsureLoad(t) \/ EnsureDecide(t) \/ EnsureSave(t)
    \/ EnsureUnregister(t) \/ EnsureRegister(t) \/ EnsureStamp(t)

-----------------------------------------------------------------------------
(* Enabling the agent, the loose agent, systemd.                           *)

\* cleanup_legacy acts only where the loose plist exists: the agent is booted
\* out and its file removed.
CleanupLegacy ==
    /\ unit' = 0
    /\ IF unit > 0 THEN job' = 0 /\ up' = 0 ELSE UNCHANGED <<job, up>>

SmappEnable(t) ==
    /\ At(t, "enable", "ready") /\ lock = "free"
    /\ \/ /\ host # "smapp" \/ sm > 0
          /\ Finish(t)
          /\ UNCHANGED <<file, sm, job, up, unit, login, lock, faults>>
       \/ /\ host = "smapp" /\ sm = 0
          /\ unit' = 0
          /\ \E ok \in BOOLEAN :
               /\ RegisterRepairing(ok)
               /\ IF ok THEN Goto(t, "stamp", file) /\ lock' = t
                  ELSE Fail(t) /\ UNCHANGED lock
          /\ UNCHANGED <<file, login>>
    /\ UNCHANGED Owned

SmappEnableStamp(t) ==
    /\ At(t, "enable", "stamp")
    /\ file' = [th[t].s EXCEPT !.ver = gui]
    /\ lock' = "free"
    /\ Finish(t)
    /\ UNCHANGED <<Owned, sm, job, up, unit, login, faults>>

\* ensure_bootstrapped and write_unit: the loose plist or the systemd unit is
\* rewritten to name this app's daemon and loaded.  A live daemon keeps running.
WriteUnit(t) ==
    /\ At(t, "unit", "ready")
    /\ unit' = gui
    /\ job' = IF host = "loose" /\ up > 0 THEN job ELSE gui
    /\ Finish(t)
    /\ UNCHANGED <<Owned, file, sm, up, login, lock, faults>>

\* launchctl kickstart without -k, systemctl start, or a detached process: a
\* running daemon is left alone, and a second one gives up on the lock file.
Kickstart(t) ==
    /\ At(t, "kick", "ready")
    /\ up' = IF up > 0 THEN up ELSE IF host = "none" THEN gui ELSE job
    /\ IF job = 0 /\ host \in {"loose", "systemd"} THEN Fail(t) ELSE Finish(t)
    /\ UNCHANGED <<Owned, file, sm, job, unit, login, lock, faults>>

-----------------------------------------------------------------------------
(* Login switches.                                                         *)

SetLoginOff_Unchecked(t) ==
    /\ At(t, "off", "ready")
    /\ IF sm > 0 THEN Unregister /\ unit' = 0 ELSE CleanupLegacy /\ UNCHANGED sm
    /\ Finish(t)
    /\ UNCHANGED <<Owned, file, login, lock, faults>>

\* daemon_set_login(false): an older app refuses to unregister a newer daemon.
SetLoginOff(t) ==
    /\ At(t, "off", "ready")
    /\ \/ /\ host = "smapp" /\ sm > 0 /\ file.ver > gui
          /\ Fail(t)
          /\ UNCHANGED <<sm, job, up, unit>>
       \/ /\ host = "smapp" /\ ~(sm > 0 /\ file.ver > gui)
          /\ IF sm > 0 THEN Unregister /\ unit' = 0 ELSE CleanupLegacy /\ UNCHANGED sm
          /\ Finish(t)
       \/ /\ host = "none"
          /\ Fail(t)
          /\ UNCHANGED <<sm, job, up, unit>>
       \/ /\ host \in {"loose", "systemd"}
          /\ Finish(t)
          /\ UNCHANGED <<sm, job, up, unit>>
    /\ UNCHANGED <<Owned, file, login, lock, faults>>

\* The end of set_autostart_daemon: the one settings update made under
\* SETTINGS_LOCK from the read to the write.
SetAutostartDaemon(t, on) ==
    /\ At(t, IF on THEN "autoOn" ELSE "autoOff", "ready")
    /\ file' = [file EXCEPT !.auto = on]
    /\ Finish(t)
    /\ UNCHANGED <<Owned, sm, job, up, unit, login, lock, faults>>

\* gui_smapp_enable: register first, drop the loose item only on success.
GuiSmappEnable(ok) ==
    \/ login.sm /\ ok /\ login' = [login EXCEPT !.loose = FALSE] /\ UNCHANGED faults
    \/ /\ ~login.sm
       /\ ok \/ faults < MaxFaults
       /\ faults' = IF ok THEN faults ELSE faults + 1
       /\ login' = IF ok THEN [sm |-> TRUE, loose |-> FALSE] ELSE login

\* migrate_gui_login_if_needed.
MigrateLoad(t) ==
    /\ At(t, "migrate", "ready")
    /\ IF host # "smapp" \/ file.migrated THEN Finish(t)
       ELSE Goto(t, "migrating", file)
    /\ UNCHANGED <<Owned, file, sm, job, up, unit, login, lock, faults>>

MigrateEnable(t) ==
    /\ At(t, "migrate", "migrating")
    /\ \/ ~login.loose /\ Goto(t, "migrated", th[t].s) /\ UNCHANGED <<login, faults>>
       \/ /\ login.loose
          /\ \E ok \in BOOLEAN :
               /\ GuiSmappEnable(ok)
               /\ IF ok THEN Goto(t, "migrated", th[t].s) ELSE Finish(t)
    /\ UNCHANGED <<Owned, file, sm, job, up, unit, lock>>

MigrateSave(t) ==
    /\ At(t, "migrate", "migrated")
    /\ file' = [th[t].s EXCEPT !.migrated = TRUE]
    /\ Finish(t)
    /\ UNCHANGED <<Owned, sm, job, up, unit, login, lock, faults>>

Step(t) ==
    \/ Ensure(t)
    \/ SmappEnable(t) \/ SmappEnableStamp(t) \/ WriteUnit(t) \/ Kickstart(t)
    \/ SetLoginOff(t) \/ (\E on \in BOOLEAN : SetAutostartDaemon(t, on))
    \/ MigrateLoad(t) \/ MigrateEnable(t) \/ MigrateSave(t)

-----------------------------------------------------------------------------
(* What the user and the machine do.                                       *)

\* setup_app: the launch thread migrates the login item, then re-asserts the
\* daemon's registration, twice if the first attempt fails.
SetupTodo == <<"migrate", "ensure", "retry">>

SetupApp_NoRetry(v) ==
    /\ gui = 0 /\ launches < MaxLaunches
    /\ gui' = v /\ launches' = launches + 1
    /\ th' = [t \in Threads |-> IF t = "setup"
                                THEN [Idle EXCEPT !.pc = "ready", !.todo = <<"migrate", "ensure">>]
                                ELSE Idle]
    /\ UNCHANGED <<host, file, sm, job, up, unit, login, lock, told, faults, commands>>

SetupApp(v) ==
    /\ gui = 0 /\ launches < MaxLaunches
    /\ gui' = v /\ launches' = launches + 1
    /\ th' = [t \in Threads |-> IF t = "setup" THEN [Idle EXCEPT !.pc = "ready", !.todo = SetupTodo]
                                ELSE Idle]
    /\ UNCHANGED <<host, file, sm, job, up, unit, login, lock, told, faults, commands>>

\* Quit, from the tray or by a crash: the threads and the lock go with the
\* process, the service manager and the daemon stay.
Quit ==
    /\ gui > 0
    /\ gui' = 0 /\ lock' = "free"
    /\ th' = [t \in Threads |-> Idle]
    /\ UNCHANGED <<host, file, sm, job, up, unit, login, told, launches, faults, commands>>

Command ==
    /\ gui > 0 /\ commands < MaxCommands
    /\ commands' = commands + 1

Run(t, todo) == th' = [th EXCEPT ![t] = [Idle EXCEPT !.pc = "ready", !.todo = todo]]

\* plan_start: what a start does on each kind of machine, step by step.
PlanStart ==
    CASE host = "smapp" -> <<"ensure", "enable", "|", "kick">>
      [] host = "loose" -> <<"unit", "|", "kick">>
      [] host = "systemd" -> IF unit = gui THEN <<"unit", "kick">> ELSE <<"unit", "|", "kick">>
      [] OTHER -> <<"kick">>

Start ==
    /\ Command
    /\ th["start"] = Idle
    /\ Run("start", PlanStart)
    /\ UNCHANGED <<host, gui, file, sm, job, up, unit, login, lock, told, launches, faults>>

\* The step outlived its budget: the command reports an error while the step
\* goes on in the background.
StartTimeout ==
    /\ th["start"] # Idle /\ th["late"] = Idle
    /\ lock # "start"
    /\ th' = [th EXCEPT !["late"] = [th["start"] EXCEPT !.abandoned = TRUE], !["start"] = Idle]
    /\ UNCHANGED <<host, gui, file, sm, job, up, unit, login, lock, told, launches, faults, commands>>

\* daemon_stop, then SIGTERM to the recorded pid: a clean exit is not undone
\* by the service manager.
Stop ==
    /\ Command
    /\ up' = 0
    /\ UNCHANGED <<host, gui, file, sm, job, unit, login, lock, th, told, launches, faults>>

SetLogin(on) ==
    /\ Command
    /\ th["login"] = Idle
    /\ Run("login", CASE host = "smapp" /\ on -> <<"ensure", "enable", "autoOn">>
                      [] on /\ host # "none" -> <<"unit", "autoOn">>
                      [] host \in {"loose", "systemd"} -> <<"unit", "off", "autoOff">>
                      [] OTHER -> <<"off", "autoOff">>)
    /\ UNCHANGED <<host, gui, file, sm, job, up, unit, login, lock, told, launches, faults>>

GuiSmappDisable_KeepLoose ==
    login' = [login EXCEPT !.sm = FALSE]

\* gui_smapp_disable drops both login items.
GuiSmappDisable ==
    login' = [sm |-> FALSE, loose |-> FALSE]

SetAutostartGui(on) ==
    /\ Command
    /\ host = "smapp"
    /\ IF on THEN \E ok \in BOOLEAN : GuiSmappEnable(ok) ELSE GuiSmappDisable /\ UNCHANGED faults
    /\ told' = (~on /\ Head1("setup") # "migrate")
    /\ UNCHANGED <<host, gui, file, sm, job, up, unit, lock, th, launches>>

\* launchd drops the job although the registration stays enabled.
DropJob ==
    /\ host = "smapp" /\ job > 0 /\ sm > 0
    /\ job' = 0 /\ up' = 0
    /\ UNCHANGED <<host, gui, file, sm, unit, login, lock, th, told, launches, faults, commands>>

Next ==
    \/ \E t \in Threads : Step(t)
    \/ \E v \in Versions : SetupApp(v)
    \/ Quit \/ Start \/ StartTimeout \/ Stop \/ DropJob
    \/ \E on \in BOOLEAN : SetLogin(on) \/ SetAutostartGui(on)

Spec == Init /\ [][Next]_vars

-----------------------------------------------------------------------------

\* An app older than the registered daemon leaves a registration that was
\* stamped alone, whatever it is asked to do: neither its self-repair at launch
\* nor a login switch unregisters or replaces it (autostart.rs:913, :1412).
DowngradesNot ==
    sm > gui /\ gui > 0 /\ gui' = gui /\ file.ver = sm => sm' = sm
\* The launch of a newer app leaves a daemon that is to start at login registered,
\* even if a registration fails once: the upgrade's unregister is never the last word
\* (ensure_daemon_registration_retrying, autostart.rs:970).  With one failure,
\* and no command given meanwhile.
AdoptsUpgrade ==
    ( /\ th["setup"] # Idle /\ th'["setup"] = Idle /\ gui' = gui
      /\ host = "smapp" /\ file.auto /\ file.ver < gui /\ commands = 0 )
    => sm' > 0
UpgradeAdopted == [][AdoptsUpgrade]_<<th, sm, gui, lock>>

\* Once the user has turned "open at login" off for the app, no later launch
\* turns it on again: the migration of the old login item never runs for an
\* item the user removed (autostart.rs:1117), unless it was already running.
LoginStaysOff ==
    told => ~login.sm
-----------------------------------------------------------------------------
(***************************************************************************)
(* The tray menu of the desktop app (tray.rs): a poller that rebuilds the  *)
(* menu when its snapshot of the daemon changes, refreshes after a menu    *)
(* action, and daemon start, stop and restart, which own the menu through  *)
(* TRANSITION until they settle.  MENU_LOCK makes "no transition, then     *)
(* apply" one step.                                                        *)
(***************************************************************************)
CONSTANTS
    SettleSteps,   \* probes a lifecycle action makes before it gives up
    MaxChanges,    \* changes of the daemon made by others
    MaxClicks      \* clicks on the menu

Tasks == 1 .. 2        \* lifecycle tasks; one may start before an ended one's task is gone
NoBoot == 0

VARIABLES
    daemon,       \* [up, boot, php]: the daemon, its boot id and default PHP
    menu,         \* the snapshot the menu was built from, or Transient
    transition,   \* TRANSITION
    poller,       \* [pc, snap]
    last,         \* the poller's last applied snapshot
    refresh,      \* [pc, snap] of the refresh after set-default-PHP or an update check
    life,         \* the lifecycle tasks
    changes, clicks

trayvars == <<daemon, menu, transition, poller, last, refresh, life, changes, clicks>>

\* TrayState: what the menu renders; a daemon that does not answer is stopped.
Stopped == [running |-> FALSE, php |-> 0]
Transient == [running |-> FALSE, php |-> 9]
Nothing == [running |-> FALSE, php |-> 8]
Snapshots == [running : {TRUE}, php : 1 .. 2] \cup {Stopped}
Current == IF daemon.up THEN [running |-> TRUE, php |-> daemon.php] ELSE Stopped

NoTask == [pc |-> "idle", kind |-> "none", prev |-> NoBoot, left |-> 0, down |-> FALSE,
           cleared |-> FALSE, snap |-> Nothing]

TrayTypeOK ==
    /\ daemon \in [up : BOOLEAN, boot : 1 .. 9, php : 1 .. 2]
    /\ menu \in Snapshots \cup {Transient}
    /\ transition \in BOOLEAN
    /\ poller.snap \in Snapshots \cup {Nothing} /\ refresh.snap \in Snapshots \cup {Nothing}
    /\ last \in Snapshots \cup {Nothing}
    /\ DOMAIN life = Tasks

\* build_tray shows the menu of a stopped daemon until the first poll.
TrayInit ==
    /\ daemon \in [up : BOOLEAN, boot : {1}, php : {1}]
    /\ menu = Stopped
    /\ transition = FALSE
    /\ poller = [pc |-> "tick", snap |-> Nothing]
    /\ last = Nothing
    /\ refresh = [pc |-> "idle", snap |-> Nothing]
    /\ life = [k \in Tasks |-> NoTask]
    /\ changes = 0 /\ clicks = 0

\* fetch_state: the daemon's answer, or the default when it is too slow.
FetchState(snap) == snap = Current \/ (daemon.up /\ changes < MaxChanges /\ snap = Stopped)

-----------------------------------------------------------------------------
(* spawn_tray_poller.                                                      *)

PollTick ==
    /\ poller.pc = "tick" /\ ~transition
    /\ \E snap \in Snapshots :
         /\ FetchState(snap)
         /\ poller' = IF snap = last THEN poller ELSE [pc |-> "apply", snap |-> snap]
    /\ UNCHANGED <<daemon, menu, transition, last, refresh, life, changes, clicks>>

PollApply_Unchecked ==
    /\ poller.pc = "apply"
    /\ menu' = poller.snap /\ last' = poller.snap
    /\ poller' = [pc |-> "tick", snap |-> Nothing]
    /\ UNCHANGED <<daemon, transition, refresh, life, changes, clicks>>

PollApply ==
    /\ poller.pc = "apply"
    /\ IF transition THEN UNCHANGED <<menu, last>>
       ELSE menu' = poller.snap /\ last' = poller.snap
    /\ poller' = [pc |-> "tick", snap |-> Nothing]
    /\ UNCHANGED <<daemon, transition, refresh, life, changes, clicks>>

\* refresh_now: fetch, then apply unless a transition owns the menu.
RefreshFetch ==
    /\ refresh.pc = "fetch"
    /\ \E snap \in Snapshots : FetchState(snap) /\ refresh' = [pc |-> "apply", snap |-> snap]
    /\ UNCHANGED <<daemon, menu, transition, poller, last, life, changes, clicks>>

RefreshApply ==
    /\ refresh.pc = "apply"
    /\ menu' = IF transition THEN menu ELSE refresh.snap
    /\ refresh' = [pc |-> "idle", snap |-> Nothing]
    /\ UNCHANGED <<daemon, transition, poller, last, life, changes, clicks>>

-----------------------------------------------------------------------------
(* The menu.                                                               *)

\* build_menu and build_transient_menu: the lifecycle and PHP items offered.
MenuItems(st) ==
    IF st = Transient THEN {}
    ELSE IF st.running THEN {"restart", "stop", "php", "check"} ELSE {"start"}

Click(item) == item \in MenuItems(menu) /\ clicks < MaxClicks /\ clicks' = clicks + 1

\* spawn_set_default_php and spawn_update_check; one refresh at a time is
\* followed, a later one replaces it.
SetDefaultPhp ==
    /\ Click("php")
    /\ refresh.pc = "idle"
    /\ daemon' = IF daemon.up THEN [daemon EXCEPT !.php = 3 - @] ELSE daemon
    /\ refresh' = [pc |-> "fetch", snap |-> Nothing]
    /\ UNCHANGED <<menu, transition, poller, last, life, changes>>

UpdateCheck ==
    /\ Click("check")
    /\ refresh.pc = "idle"
    /\ refresh' = [pc |-> "fetch", snap |-> Nothing]
    /\ UNCHANGED <<daemon, menu, transition, poller, last, life, changes>>

\* spawn_lifecycle: the click that claims TRANSITION gets the task.
SpawnLifecycle(k, kind) ==
    /\ Click(kind) /\ life[k] = NoTask
    /\ ~transition
    /\ transition' = TRUE
    /\ life' = [life EXCEPT ![k] = [NoTask EXCEPT !.pc = "claimed", !.kind = kind]]
    /\ UNCHANGED <<daemon, menu, poller, last, refresh, changes>>

ApplyTransient(k) ==
    /\ life[k].pc = "claimed"
    /\ menu' = Transient
    /\ life' = [life EXCEPT ![k].pc = "act"]
    /\ UNCHANGED <<daemon, transition, poller, last, refresh, changes, clicks>>

\* The action itself.  A start may come to nothing, a restart first notes the
\* boot id, which the daemon may fail to tell.
LifecycleAct(k) ==
    /\ life[k].pc = "act"
    /\ \E ok \in BOOLEAN, known \in BOOLEAN :
         /\ daemon' = CASE life[k].kind = "start" /\ ok /\ ~daemon.up ->
                             [daemon EXCEPT !.up = TRUE, !.boot = @ + 1]
                        [] life[k].kind = "stop" /\ ok -> [daemon EXCEPT !.up = FALSE]
                        [] life[k].kind = "restart" /\ ok /\ daemon.up ->
                             [daemon EXCEPT !.up = FALSE]
                        [] OTHER -> daemon
         /\ life' = [life EXCEPT ![k].pc = "settle", ![k].left = SettleSteps,
                        ![k].prev = IF known /\ daemon.up THEN daemon.boot ELSE NoBoot]
    /\ UNCHANGED <<menu, transition, poller, last, refresh, changes, clicks>>

\* wait_until_reachable and wait_until_restarted: whether one probe ends the wait.
Settled(task, answers) ==
    CASE task.kind = "start" -> answers
      [] task.kind = "stop" -> ~answers
      [] task.prev # NoBoot -> answers /\ daemon.boot # task.prev
      [] OTHER -> answers /\ task.down

SettleProbe_Forever(k) ==
    /\ life[k].pc = "settle"
    /\ life' = [life EXCEPT ![k].pc = IF Settled(life[k], daemon.up) THEN "fetch" ELSE "settle",
                            ![k].down = @ \/ ~daemon.up]
    /\ UNCHANGED <<daemon, menu, transition, poller, last, refresh, changes, clicks>>

\* One probe, bounded in time; the wait is bounded in steps.
SettleProbe(k) ==
    /\ life[k].pc = "settle"
    /\ life' = [life EXCEPT ![k].pc = IF @ = "settle" /\ (life[k].left = 0 \/ Settled(life[k], daemon.up))
                                      THEN "fetch" ELSE @,
                            ![k].left = IF @ > 0 THEN @ - 1 ELSE 0,
                            ![k].down = @ \/ ~daemon.up]
    /\ UNCHANGED <<daemon, menu, transition, poller, last, refresh, changes, clicks>>

LifecycleFetch(k) ==
    /\ life[k].pc = "fetch"
    /\ \E snap \in Snapshots : FetchState(snap) /\ life' = [life EXCEPT ![k].pc = "apply", ![k].snap = snap]
    /\ UNCHANGED <<daemon, menu, transition, poller, last, refresh, changes, clicks>>

\* The menu is rebuilt and TRANSITION cleared in one hold of the lock.
LifecycleApply(k) ==
    /\ life[k].pc = "apply"
    /\ menu' = life[k].snap
    /\ transition' = FALSE
    /\ life' = [life EXCEPT ![k].pc = "drop"]
    /\ UNCHANGED <<daemon, poller, last, refresh, changes, clicks>>

\* The task ends and its TransitionGuard clears TRANSITION once more, even if
\* another action has claimed it since.
TransitionGuardDrop(k) ==
    /\ life[k].pc = "drop"
    /\ transition' = FALSE
    /\ life' = [j \in Tasks |-> IF j = k THEN NoTask
                               ELSE [life[j] EXCEPT !.cleared = life[j] # NoTask]]
    /\ UNCHANGED <<daemon, menu, poller, last, refresh, changes, clicks>>

-----------------------------------------------------------------------------
(* The daemon's own life: it re-execs after a restart request, crashes, is  *)
(* started or stopped from a terminal, or its default PHP is changed.      *)

DaemonChanges ==
    /\ changes < MaxChanges
    /\ changes' = changes + 1
    /\ \/ daemon.up /\ daemon' = [daemon EXCEPT !.up = FALSE]
       \/ ~daemon.up /\ daemon' = [daemon EXCEPT !.up = TRUE, !.boot = @ + 1]
       \/ daemon.up /\ daemon' = [daemon EXCEPT !.php = 3 - @]
    /\ UNCHANGED <<menu, transition, poller, last, refresh, life, clicks>>

\* A restarting daemon comes back with a new boot id.
DaemonReexec ==
    /\ ~daemon.up
    /\ \E k \in Tasks : life[k].kind = "restart" /\ life[k].pc = "settle"
    /\ daemon' = [daemon EXCEPT !.up = TRUE, !.boot = @ + 1]
    /\ UNCHANGED <<menu, transition, poller, last, refresh, life, changes, clicks>>

Lifecycle(k) ==
    \/ ApplyTransient(k) \/ LifecycleAct(k) \/ SettleProbe(k) \/ LifecycleFetch(k)
    \/ LifecycleApply(k) \/ TransitionGuardDrop(k)

TrayNext ==
    \/ PollTick \/ PollApply \/ RefreshFetch \/ RefreshApply
    \/ SetDefaultPhp \/ UpdateCheck
    \/ \E k \in Tasks : Lifecycle(k) \/ \E kind \in {"start", "stop", "restart"} : SpawnLifecycle(k, kind)
    \/ DaemonChanges \/ DaemonReexec

Poll == PollTick \/ PollApply
Refresh == RefreshFetch \/ RefreshApply
Fairness == WF_trayvars(Poll) /\ WF_trayvars(Refresh) /\ \A k \in Tasks : WF_trayvars(Lifecycle(k))
TraySpec == TrayInit /\ [][TrayNext]_trayvars /\ Fairness

-----------------------------------------------------------------------------

\* While a lifecycle action is under way nobody else's menu is shown: a poll or
\* refresh that began its fetch earlier cannot overwrite "Restarting..."
\* (tray.rs:12, spawn_tray_poller), unless an earlier action's guard cleared
\* TRANSITION under it (tray.rs:813).
TransientOwned ==
    \A k \in Tasks : life[k].pc \in {"act", "settle", "fetch", "apply"} =>
        menu = Transient \/ life[k].cleared

\* A lifecycle action always gives the menu back, whatever the daemon does: the
\* tray is never left on "Restarting..." (tray.rs:818, wait_until_restarted).
TransitionEnds ==
    transition ~> ~transition
=============================================================================
