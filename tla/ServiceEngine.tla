--------------------------- MODULE ServiceEngine ---------------------------
(* One versioned engine (a database or cache): its installed versions, its    *)
(* data directories, its entry in the config, the manager's instance and the  *)
(* server processes.  Requests are tasks; a task holds the manager's lock     *)
(* during an ensure, stop or restart and the config lock during a read or a   *)
(* persist, and nothing between them.  The supervision of one start (spawn,   *)
(* probe, backoff) is the step Drive; it is the driver of PhpManager.  The    *)
(* port is fixed; ServiceInstances is about ports.                            *)
EXTENDS Integers, FiniteSets, FiniteSetsExt

CONSTANTS
    Tasks,
    AutoStart,    \* the auto-start task
    Versions,     \* numbers, so that the latest is the greatest
    Engines,      \* kinds of engine: see Engine
    Nil,
    MaxRequests,  \* bound: requests ever started
    MaxBoots      \* bound: times the daemon starts again

\* dir: a version's data directory; exact: DatadirScope is Version; init: the
\* engine initialises its data directory before first use.
Engine == [dir : [Versions -> Nat], exact : BOOLEAN, init : BOOLEAN]

ASSUME ServiceEngineAssumption ==
    /\ Versions \subseteq Nat /\ AutoStart \notin Tasks /\ Nil \notin Versions \cup Tasks \cup {AutoStart}
    /\ \A vs \in SUBSET Versions \ {{}} : \E v \in vs : \A w \in vs : v >= w
    /\ Engines \subseteq Engine /\ {MaxRequests, MaxBoots} \subseteq Nat

VARIABLES
    engine,     \* the engine's kind; it never changes
    installed,  \* versions with an install directory
    data,       \* directory -> "absent", "ready" (initialised) or "used"
    cfg,        \* the config entry, or Nil
    inst,       \* the version of the manager's instance, or Nil
    servers,    \* live server processes: version and whether this daemon holds the handle
    lock,       \* the holder of the manager's lock
    task,
    stopped,    \* "stop": the last user action was a stop; "boot": and the daemon
                \* started again since; "no": it was another
    mishaps,    \* "overlap": a removal overlapped another request or the
                \* auto-start; "swap": the rename that ends an install failed
    left, boots

vars == <<engine, installed, data, cfg, inst, servers, lock, task, stopped, mishaps, left, boots>>
books == <<engine, stopped, mishaps, left, boots>>

DirOf(v) == engine.dir[v]
Dirs == {DirOf(v) : v \in Versions}
All == Tasks \cup {AutoStart}
Ops == {"install", "change", "uninstall", "purge", "start", "restart", "stop", "auto"}
Pcs == {"idle", "download", "clear", "rename", "read", "lock", "ensure", "init", "drive", "persist", "remove", "done"}
Idle == [pc |-> "idle", op |-> "start", v |-> Nil, old |-> {}]

Server == [v : Versions, held : BOOLEAN]

TypeOK ==
    /\ engine \in Engines /\ installed \subseteq Versions /\ data \in [Dirs -> {"absent", "ready", "used"}]
    /\ cfg \in {Nil} \cup [version : Versions \cup {Nil}, enabled : BOOLEAN]
    /\ inst \in Versions \cup {Nil} /\ servers \subseteq Server /\ lock \in All \cup {Nil}
    /\ task \in [All -> [pc : Pcs, op : Ops, v : Versions \cup {Nil}, old : SUBSET Versions]]
    /\ lock # Nil => task[lock].pc \in {"ensure", "init", "drive"}
    /\ mishaps \subseteq {"overlap", "swap"} /\ stopped \in {"no", "stop", "boot"}
    /\ left \in 0 .. MaxRequests /\ boots \in 0 .. MaxBoots

Init ==
    /\ engine \in Engines /\ installed = {} /\ data = [d \in Dirs |-> "absent"] /\ cfg = Nil
    /\ inst = Nil /\ servers = {} /\ lock = Nil
    /\ task = [t \in All |-> IF t = AutoStart THEN [Idle EXCEPT !.pc = "read", !.op = "auto"] ELSE Idle]
    /\ stopped = "no" /\ mishaps = {} /\ left = MaxRequests /\ boots = MaxBoots

Goto(t, pc) == task' = [task EXCEPT ![t].pc = pc]
End(t) == task' = [task EXCEPT ![t] = IF t = AutoStart THEN [Idle EXCEPT !.pc = "done", !.op = "auto"] ELSE Idle]

Removal(op) == op \in {"change", "uninstall", "purge"}
AtRest == \A t \in Tasks : task[t].pc = "idle"

Overlaps(op) ==
    \/ task[AutoStart].pc # "done"
    \/ Removal(op) /\ ~ AtRest
    \/ \E o \in Tasks : Removal(task[o].op)

First(op) == CASE op \in {"install", "change"} -> "download"
               [] op = "start" -> "read"
               [] OTHER -> "lock"

request(t, op, v) ==
    /\ task[t].pc = "idle" /\ left > 0
    /\ task' = [task EXCEPT ![t] = [pc |-> First(op), op |-> op, v |-> v, old |-> {}]]
    /\ left' = left - 1 /\ stopped' = IF op = "stop" THEN "stop" ELSE "no"
    /\ mishaps' = mishaps \cup IF Overlaps(op) THEN {"overlap"} ELSE {}
    /\ UNCHANGED <<engine, installed, data, cfg, inst, servers, lock, boots>>

install_service(t, v) == request(t, "install", v)
change_service_version(t, v) == request(t, "change", v)
uninstall_service(t, v, purge) == request(t, IF purge THEN "purge" ELSE "uninstall", v)
start_service(t) == request(t, "start", Nil)
stop_service(t) == request(t, "stop", Nil)
restart_service(t) == request(t, "restart", Nil)

Download_Unfiltered(t) ==
    /\ task[t].pc = "download"
    /\ task' = [task EXCEPT ![t].pc = "clear",
                            ![t].old = IF task[t].op = "change" THEN installed ELSE {}]
    /\ UNCHANGED <<installed, data, cfg, inst, servers, lock, books>>

\* change_service_version notes the versions it will remove before it downloads.
Download(t) ==
    /\ task[t].pc = "download"
    /\ task' = [task EXCEPT ![t].pc = "clear",
                            ![t].old = IF task[t].op = "change" THEN installed \ {task[t].v} ELSE {}]
    /\ UNCHANGED <<installed, data, cfg, inst, servers, lock, books>>

DownloadFails(t) ==
    /\ task[t].pc = "clear"
    /\ End(t)
    /\ UNCHANGED <<installed, data, cfg, inst, servers, lock, books>>

\* service_install::install removes the version's directory, then renames.
Clear(t) ==
    /\ task[t].pc = "clear"
    /\ installed' = installed \ {task[t].v}
    /\ Goto(t, "rename")
    /\ UNCHANGED <<data, cfg, inst, servers, lock, books>>

Rename(t) ==
    /\ task[t].pc = "rename"
    /\ installed' = installed \cup {task[t].v}
    /\ Goto(t, "lock")
    /\ UNCHANGED <<data, cfg, inst, servers, lock, books>>

\* The rename fails: the version that was replaced is gone.
RenameFails(t) ==
    /\ task[t].pc = "rename"
    /\ mishaps' = mishaps \cup {"swap"}
    /\ End(t)
    /\ UNCHANGED <<engine, installed, data, cfg, inst, servers, lock, stopped, left, boots>>

Configured == IF cfg = Nil THEN Nil ELSE cfg.version
Latest == IF installed = {} THEN Nil ELSE Max(installed)

\* start_one takes the configured version as it is; the requests fall back.
resolve_version(t) ==
    IF Configured # Nil /\ (t = AutoStart \/ Configured \in installed) THEN Configured ELSE Latest

\* Auto-start goes through the config's enabled entries.
Read(t) ==
    /\ task[t].pc = "read"
    /\ LET skip == resolve_version(t) = Nil \/ (t = AutoStart /\ (cfg = Nil \/ ~ cfg.enabled))
       IN  IF skip THEN End(t)
           ELSE task' = [task EXCEPT ![t].pc = "lock", ![t].v = resolve_version(t)]
    /\ UNCHANGED <<installed, data, cfg, inst, servers, lock, books>>

Alive == inst # Nil /\ [v |-> inst, held |-> TRUE] \in servers
Held(s) == s.held

Stopped == /\ inst' = Nil
           /\ servers' = {s \in servers : ~ Held(s)}

\* stop takes the instance out and waits for the process to end.
Stop(t) ==
    /\ task[t].pc = "lock" /\ lock = Nil
    /\ task[t].op \in {"uninstall", "purge"} \/ (task[t].op \in {"stop", "restart"} /\ task[t].v = Nil)
    /\ Stopped
    /\ CASE task[t].op = "stop" -> End(t)
         [] task[t].op = "restart" -> Goto(t, "read")
         [] OTHER -> Goto(t, "remove")
    /\ UNCHANGED <<installed, data, cfg, lock, books>>

\* The start half of every request that starts; change stops first, under the
\* same hold of the lock.
Lock(t) ==
    /\ task[t].pc = "lock" /\ lock = Nil
    /\ task[t].v # Nil /\ task[t].op \notin {"uninstall", "purge"}
    /\ lock' = t
    /\ IF task[t].op = "change" THEN Stopped ELSE UNCHANGED <<inst, servers>>
    /\ Goto(t, "ensure")
    /\ UNCHANGED <<installed, data, cfg, books>>

\* Only the requests that go through ensure_and_persist, and change, persist.
Persists(t) == task[t].op \in {"install", "change", "start"}

Started(t) == IF Persists(t) THEN Goto(t, "persist") ELSE End(t)

Ensure(t) ==
    /\ task[t].pc = "ensure"
    /\ \/ Alive /\ Started(t) /\ lock' = Nil
       \/ ~ Alive /\ task[t].v \notin installed /\ End(t) /\ lock' = Nil
       \/ ~ Alive /\ task[t].v \in installed /\ UNCHANGED lock
          /\ Goto(t, IF engine.init /\ data[DirOf(task[t].v)] = "absent" THEN "init" ELSE "drive")
    /\ UNCHANGED <<installed, data, cfg, inst, servers, books>>

\* init_datadir fills a staging directory and renames it into place.
InitDatadir(t) ==
    /\ task[t].pc = "init"
    /\ data' = [data EXCEPT ![DirOf(task[t].v)] = "ready"]
    /\ Goto(t, "drive")
    /\ UNCHANGED <<installed, cfg, inst, servers, lock, books>>

\* The tool fails: the staging directory is removed, nothing else changes.
InitFails(t) ==
    /\ task[t].pc = "init"
    /\ End(t) /\ lock' = Nil
    /\ UNCHANGED <<installed, data, cfg, inst, servers, books>>

PortFree_Unchecked == TRUE

\* preflight_port: another server of this engine holds the port.
PortFree == servers = {}

\* prepare_dirs creates the directory of an engine that needs no init.
Prepared(d) == IF data[d] = "absent" THEN "ready" ELSE data[d]

\* The server reaches readiness; from then on clients store data in it.
Drive(t) ==
    /\ task[t].pc = "drive" /\ PortFree
    /\ inst' = task[t].v
    /\ servers' = servers \cup {[v |-> task[t].v, held |-> TRUE]}
    /\ data' = [data EXCEPT ![DirOf(task[t].v)] = "used"]
    /\ Started(t) /\ lock' = Nil
    /\ UNCHANGED <<installed, cfg, books>>

\* The port is taken, the spawn fails, or the readiness probe gives up; an
\* earlier instance of a dead server stays in the map.
DriveFails(t) ==
    /\ task[t].pc = "drive"
    /\ data' = [data EXCEPT ![DirOf(task[t].v)] = IF PortFree THEN Prepared(DirOf(task[t].v)) ELSE @]
    /\ End(t) /\ lock' = Nil
    /\ UNCHANGED <<installed, cfg, inst, servers, books>>

Entry == IF cfg = Nil THEN [version |-> Nil, enabled |-> TRUE] ELSE cfg

\* persist_instance: the version the request asked for.
Persist(t) ==
    /\ task[t].pc = "persist"
    /\ cfg' = [Entry EXCEPT !.version = task[t].v]
    /\ IF task[t].op = "change" THEN Goto(t, "remove") ELSE End(t)
    /\ UNCHANGED <<installed, data, inst, servers, lock, books>>

\* With one directory per version, directories of other installed versions stay
\* and orphaned ones go; a shared directory goes with any version.
purge_version_datadirs(v) ==
    IF ~ engine.exact THEN [data EXCEPT ![DirOf(v)] = "absent"]
    ELSE [d \in Dirs |-> IF d # DirOf(v) /\ \E o \in installed \ {v} : DirOf(o) = d THEN data[d] ELSE "absent"]

Remove_Kept(t) ==
    /\ task[t].pc = "remove"
    /\ installed' = installed \ (IF task[t].op = "change" THEN task[t].old ELSE {task[t].v})
    /\ data' = purge_version_datadirs(task[t].v)
    /\ End(t)
    /\ UNCHANGED <<cfg, inst, servers, lock, books>>

Remove(t) ==
    /\ task[t].pc = "remove"
    /\ installed' = installed \ (IF task[t].op = "change" THEN task[t].old ELSE {task[t].v})
    /\ data' = IF task[t].op = "purge" THEN purge_version_datadirs(task[t].v) ELSE data
    /\ End(t)
    /\ UNCHANGED <<cfg, inst, servers, lock, books>>

set_service_autostart(enabled) ==
    /\ left > 0 /\ left' = left - 1 /\ stopped' = "no"
    /\ cfg' = [Entry EXCEPT !.enabled = enabled]
    /\ UNCHANGED <<engine, mishaps, installed, data, inst, servers, lock, task, boots>>

ServerExits(s) ==
    /\ s \in servers
    /\ servers' = servers \ {s}
    /\ UNCHANGED <<installed, data, cfg, inst, lock, task, books>>

\* A new daemon: nothing of the old one but files, config and, after a crash,
\* servers nobody holds.
Boot(kept) ==
    /\ boots > 0 /\ boots' = boots - 1
    /\ servers' = kept /\ inst' = Nil /\ lock' = Nil
    /\ task' = [t \in All |-> IF t = AutoStart THEN [Idle EXCEPT !.pc = "read", !.op = "auto"] ELSE Idle]
    /\ stopped' = (IF stopped = "no" THEN "no" ELSE "boot") /\ mishaps' = {}
    /\ UNCHANGED <<engine, installed, data, cfg, left>>

Crash == Boot({[s EXCEPT !.held = FALSE] : s \in servers})

\* The shutdown drops the auto-start and stops every instance.
Shutdown == AtRest /\ Boot({s \in servers : ~ Held(s)})

Step(t) ==
    \/ Download(t) \/ DownloadFails(t) \/ Clear(t) \/ Rename(t) \/ RenameFails(t) \/ Read(t) \/ Stop(t) \/ Lock(t) \/ Ensure(t)
    \/ InitDatadir(t) \/ InitFails(t) \/ Drive(t) \/ DriveFails(t) \/ Persist(t) \/ Remove(t)

Next ==
    \/ \E t \in Tasks, v \in Versions : install_service(t, v) \/ change_service_version(t, v)
    \/ \E t \in Tasks, v \in Versions, purge \in BOOLEAN : uninstall_service(t, v, purge)
    \/ \E t \in Tasks : start_service(t) \/ stop_service(t) \/ restart_service(t)
    \/ \E t \in All : Step(t)
    \/ \E enabled \in BOOLEAN : set_service_autostart(enabled)
    \/ \E s \in servers : ServerExits(s)
    \/ Crash \/ Shutdown

Spec == Init /\ [][Next]_vars

-----------------------------------------------------------------------------
\* ServiceManager's lock, its running check and preflight_port: no two live
\* servers of the engine, whichever requests overlap and also when an earlier
\* daemon died and left its server behind.
OneServer ==
    Cardinality(servers) <= 1

\* init_datadir_if_needed and uninstall: a data directory that a server has used
\* is given up only by an uninstall with purge, never by a start, a failed
\* start, a change of version, a plain uninstall or a crash.
OnlyPurgeDrops ==
    \A d \in DOMAIN data : data[d] = "used" /\ data'[d] # "used" =>
        \E t \in Tasks : task[t].pc = "remove" /\ task[t].op = "purge"
DataKept == [][OnlyPurgeDrops]_vars

\* purge_version_datadirs, stop-before-remove and install's swap: with no request
\* in flight, a server this daemon holds runs from an installed version and on a
\* data directory that exists, unless a removal overlapped another request or an
\* install's rename failed since the daemon started.
RunsOnItsFiles ==
    \A s \in servers :
        Held(s) /\ AtRest /\ mishaps = {} => s.v \in installed /\ data[DirOf(s.v)] # "absent"

\* Never two servers of one engine, and at rest a server runs on what is there.
OneServerPerEngine == OneServer /\ RunsOnItsFiles

\* auto_start_installed: an engine whose last user action was Stop stays
\* stopped over a restart of the daemon.
StopSurvivesBoot ==
    stopped = "boot" /\ task[AutoStart].pc = "done" => ~ Alive
=============================================================================
