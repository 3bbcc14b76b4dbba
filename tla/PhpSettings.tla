---------------------------- MODULE PhpSettings ----------------------------
(* PHP settings on their way from a request to the running pools: the config, *)
(* the PHP manager's copies of it, the FPM pools rendered from those copies   *)
(* and the CLI ini files rendered from the config.  Requests are tasks; a     *)
(* step of a task is what it does between two awaits, or under the config or  *)
(* manager lock.  Settings requests hold php_settings_mutate from before the  *)
(* config lock to their end; extension requests never take it.                *)
EXTENDS Naturals, FiniteSets

CONSTANTS
    SetTasks,    \* tasks of settings requests
    ExtTasks,    \* tasks of extension requests
    Versions,    \* the installed versions
    Kinds,       \* per-version maps, of "version_settings", "directives", "pool"
    Values,      \* values of a setting
    Exts,        \* extensions that can be registered
    NoTask,
    NotStarted, StartFailed,  \* a pool that was not started, one whose start failed
    MaxRequests  \* bound: requests ever started

ASSUME PhpSettingsAssumption ==
    /\ NoTask \notin SetTasks /\ SetTasks \cap ExtTasks = {}
    /\ Kinds \cap {"none", "global", "add", "remove"} = {}
    /\ Versions # {} /\ Values # {} /\ MaxRequests \in Nat

VARIABLES
    php,    \* config.php: settings, per-version maps, registered extensions
    mgr,    \* PhpManager's copies of the same three
    pool,   \* version -> not started, failed, or what the master was started with
    cli,    \* version -> what its CLI ini was rendered from
    settings_mutate,  \* the holder of php_settings_mutate
    task,   \* task -> where it is, its request and the snapshot it carries
    overlap,\* history: an extension request has overlapped with another request
    budget  \* requests left to start

vars == <<php, mgr, pool, cli, settings_mutate, task, overlap, budget>>

Tasks == SetTasks \cup ExtTasks

PhpSection == [settings : Values, per : [Kinds -> [Versions -> Values]], extensions : [Versions -> SUBSET Exts]]
Rendered == [settings : Values, per : [Kinds -> Values], extensions : SUBSET Exts]
CliRendered == [settings : Values, per : [Kinds \ {"pool"} -> Values], extensions : SUBSET Exts]
Ops == {"none", "global", "add", "remove"} \cup Kinds
\* A request before its change is committed, and after, when it carries a snapshot.
Asking == [pc : {"idle", "guard", "commit"}, op : Ops, v : Versions, x : Values \cup Exts]
Applying == [pc : {"reread", "apply", "readcli", "writecli"}, op : Ops, v : Versions, x : Values \cup Exts,
             snap : PhpSection]
Idle == [pc |-> "idle", op |-> "none", v |-> CHOOSE v \in Versions : TRUE, x |-> CHOOSE x \in Values : TRUE]

TypeOK ==
    /\ php \in PhpSection /\ mgr \in PhpSection
    /\ pool \in [Versions -> {NotStarted, StartFailed} \cup Rendered]
    /\ cli \in [Versions -> CliRendered]
    /\ settings_mutate \in SetTasks \cup {NoTask}
    /\ task \in [Tasks -> Asking \cup Applying]
    /\ overlap \in BOOLEAN /\ budget \in 0 .. MaxRequests

RunningPool(v) == pool[v] \notin {NotStarted, StartFailed}

\* What a pool of v is started with: set_ini_settings, the overrides of v, its extensions.
PoolOf(section, v) ==
    [settings |-> section.settings,
     per |-> [k \in Kinds |-> section.per[k][v]],
     extensions |-> section.extensions[v]]

\* The pool map never reaches a CLI ini.
CliOf(section, v) ==
    [settings |-> section.settings,
     per |-> [k \in Kinds \ {"pool"} |-> section.per[k][v]],
     extensions |-> section.extensions[v]]

Init ==
    /\ php = [settings |-> CHOOSE x \in Values : TRUE,
              per |-> [k \in Kinds |-> [v \in Versions |-> CHOOSE x \in Values : TRUE]],
              extensions |-> [v \in Versions |-> {}]]
    /\ mgr = php
    /\ pool = [v \in Versions |-> NotStarted]
    /\ cli = [v \in Versions |-> CliOf(php, v)]
    /\ settings_mutate = NoTask
    /\ task = [t \in Tasks |-> Idle]
    /\ overlap = FALSE /\ budget = MaxRequests

Request(t, op, v, x) ==
    /\ task[t].pc = "idle" /\ budget > 0
    /\ budget' = budget - 1
    /\ task' = [task EXCEPT ![t] = [pc |-> IF t \in SetTasks THEN "guard" ELSE "commit",
                                    op |-> op, v |-> v, x |-> x]]
    /\ overlap' = (overlap \/ \E o \in Tasks \ {t} : task[o].pc # "idle" /\ {o, t} \cap ExtTasks # {})
    /\ UNCHANGED <<php, mgr, pool, cli, settings_mutate>>

set_php_settings(t, x) ==
    Request(t, "global", Idle.v, x)

\* set_php_version_settings, set_php_directives and set_php_pool_settings differ
\* in the map they change and in what they accept.
set_php_version(t, k, v, x) ==
    Request(t, k, v, x)

\* add_php_extension's pre-check; the load probe runs with nothing held.
add_php_extension(t, v, e) ==
    /\ e \notin php.extensions[v]
    /\ Request(t, "add", v, e)

remove_php_extension(t, v, e) ==
    Request(t, "remove", v, e)

Guard_Skipped(t) ==
    /\ task[t].pc = "guard"
    /\ task' = [task EXCEPT ![t].pc = "commit"]
    /\ UNCHANGED <<php, mgr, pool, cli, settings_mutate, overlap, budget>>

Guard(t) ==
    /\ task[t].pc = "guard" /\ settings_mutate = NoTask
    /\ settings_mutate' = t
    /\ task' = [task EXCEPT ![t].pc = "commit"]
    /\ UNCHANGED <<php, mgr, pool, cli, overlap, budget>>

End(t) ==
    /\ task' = [task EXCEPT ![t] = Idle]
    /\ settings_mutate' = IF settings_mutate = t THEN NoTask ELSE settings_mutate

\* What the request makes of the config it finds under the lock.
Merged(t) ==
    LET op == task[t].op  v == task[t].v  x == task[t].x
    IN  CASE op = "global" -> [php EXCEPT !.settings = x]
          [] op = "add"    -> [php EXCEPT !.extensions[v] = @ \cup {x}]
          [] op = "remove" -> [php EXCEPT !.extensions[v] = @ \ {x}]
          [] OTHER         -> [php EXCEPT !.per[op][v] = x]

\* The request changes nothing, is refused, or its save fails.
Refused(t) ==
    /\ task[t].pc = "commit"
    /\ End(t)
    /\ UNCHANGED <<php, mgr, pool, cli, overlap, budget>>

\* Build, validate, save, commit under the config lock.  The global request
\* carries the settings it saved; the others read the config again.
CommitChange(t) ==
    /\ task[t].pc = "commit" /\ Merged(t) # php
    /\ php' = Merged(t)
    /\ task' = [task EXCEPT ![t] = [pc |-> IF @.op = "global" THEN "apply" ELSE "reread",
                                    op |-> @.op, v |-> @.v, x |-> @.x, snap |-> Merged(t)]]
    /\ UNCHANGED <<mgr, pool, cli, settings_mutate, overlap, budget>>

\* apply_version_php_config's and extension_load_map's read of the config.
Reread(t) ==
    /\ task[t].pc = "reread"
    /\ task' = [task EXCEPT ![t].pc = "apply", ![t].snap = php]
    /\ UNCHANGED <<php, mgr, pool, cli, settings_mutate, overlap, budget>>

\* The maps the request hands to the manager.
Pushed(t) ==
    LET op == task[t].op  snap == task[t].snap
    IN  CASE op = "global"            -> [mgr EXCEPT !.settings = snap.settings]
          [] op \in {"add", "remove"} -> [mgr EXCEPT !.extensions = snap.extensions]
          [] OTHER                    -> [mgr EXCEPT !.per = snap.per]

\* A global change restarts every pool the manager knows, others that version's.
Affected_Requested(t) ==
    {v \in {task[t].v} : pool[v] # NotStarted}

Affected(t) ==
    {v \in IF task[t].op = "global" THEN Versions ELSE {task[t].v} : pool[v] # NotStarted}

\* One hold of the manager's lock: set the maps, restart; a restart that fails
\* leaves no master behind.
Apply(t) ==
    /\ task[t].pc = "apply"
    /\ mgr' = Pushed(t)
    /\ \E failed \in SUBSET Affected(t) :
          pool' = [v \in Versions |-> IF v \in failed THEN StartFailed
                                      ELSE IF v \in Affected(t) THEN PoolOf(mgr', v) ELSE pool[v]]
    /\ task' = [task EXCEPT ![t].pc = "readcli"]
    /\ UNCHANGED <<php, cli, settings_mutate, overlap, budget>>

ReadCli(t) ==
    /\ task[t].pc = "readcli"
    /\ task' = [task EXCEPT ![t].pc = "writecli", ![t].snap = php]
    /\ UNCHANGED <<php, mgr, pool, cli, settings_mutate, overlap, budget>>

WriteCli_Requested(t) ==
    /\ task[t].pc = "writecli"
    /\ cli' = [cli EXCEPT ![task[t].v] = CliOf(task[t].snap, task[t].v)]
    /\ End(t)
    /\ UNCHANGED <<php, mgr, pool, overlap, budget>>

\* write_cli_ini rewrites the file of every installed version; no lock is held.
WriteCli(t) ==
    /\ task[t].pc = "writecli"
    /\ cli' = [v \in Versions |-> CliOf(task[t].snap, v)]
    /\ End(t)
    /\ UNCHANGED <<php, mgr, pool, overlap, budget>>

\* The proxy's ensure, or a restart request: under the manager's lock.
Ensure(v) ==
    /\ ~ RunningPool(v)
    /\ pool' \in {[pool EXCEPT ![v] = PoolOf(mgr, v)], [pool EXCEPT ![v] = StartFailed]}
    /\ pool' # pool
    /\ UNCHANGED <<php, mgr, cli, settings_mutate, task, overlap, budget>>

PoolStops(v) ==
    /\ RunningPool(v)
    /\ pool' = [pool EXCEPT ![v] = NotStarted]
    /\ UNCHANGED <<php, mgr, cli, settings_mutate, task, overlap, budget>>

Step(t) ==
    Guard(t) \/ Refused(t) \/ CommitChange(t) \/ Reread(t) \/ Apply(t) \/ ReadCli(t) \/ WriteCli(t)

Next ==
    \/ \E t \in SetTasks, x \in Values : set_php_settings(t, x)
    \/ \E t \in SetTasks, k \in Kinds, v \in Versions, x \in Values : set_php_version(t, k, v, x)
    \/ \E t \in ExtTasks, v \in Versions, e \in Exts : add_php_extension(t, v, e)
    \/ \E t \in ExtTasks, v \in Versions, e \in Exts : remove_php_extension(t, v, e)
    \/ \E t \in Tasks : Step(t)
    \/ \E v \in Versions : Ensure(v) \/ PoolStops(v)

Spec == Init /\ [][Next]_vars

-----------------------------------------------------------------------------
\* set_php_settings and apply_version_php_config: whenever no settings request
\* holds php_settings_mutate, the manager's settings and per-version maps are
\* the config's, in whatever order requests overlapped.
SettingsApplied ==
    settings_mutate = NoTask => mgr.settings = php.settings /\ mgr.per = php.per

\* The restarts under the same hold of the manager's lock: a pool that runs
\* never runs with settings other than the manager's, whichever version the
\* request was for and whoever else was starting pools.
RunningIsCurrent ==
    \A v \in Versions : RunningPool(v) =>
        pool[v].settings = mgr.settings /\ pool[v].per = PoolOf(mgr, v).per

AtRest == \A t \in Tasks : task[t].pc = "idle"

\* write_cli_ini: with no request in flight, every installed version's CLI ini
\* is the one rendered from the config, "rather than left stale", in whatever
\* order settings requests overlapped.  An extension request, which takes no
\* guard, may write an older copy after another request's newer one.
CliIniCurrent ==
    AtRest /\ ~overlap => \A v \in Versions : cli[v] = CliOf(php, v)

\* PHP settings are in effect: with no settings request under way the manager's
\* are the config's, a pool that runs was started with the manager's, and at
\* rest each CLI ini is rendered from the config, in whatever order requests
\* overlapped.
SettingsInEffect == TypeOK /\ SettingsApplied /\ RunningIsCurrent /\ CliIniCurrent
=============================================================================
