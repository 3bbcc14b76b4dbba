----------------------------- MODULE ConfigStore -----------------------------
(* How the configuration reaches the disk, the memory and the live router of *)
(* yerdd while clients, the service code and the file system watcher run     *)
(* concurrently, saves fail, directories come and go, and the daemon crashes.*)
(* The content of the configuration is a set of parked roots (changed by     *)
(* handle_mutation) and one service value (changed by persist_instance);     *)
(* what a scan sees of a project directory is its state: absent, empty (no   *)
(* web root yet) or an app.  A step is the stretch between two awaits.       *)
EXTENDS Naturals, FiniteSets

CONSTANTS
    Roots,       \* directories that can be parked
    Dirs,        \* project directories
    RootOf(_),   \* project directory -> its root
    Tasks,       \* IPC tasks
    Watcher,     \* the fs_watch task
    NoTask,      \* nobody
    Values,      \* values of the service setting
    MaxSteps     \* bound: requests, directory changes and crashes altogether

ASSUME StoreAssumption ==
    /\ Watcher \notin Tasks /\ NoTask \notin Tasks \cup {Watcher} /\ MaxSteps \in Nat
    /\ Roots # {} /\ Values # {} /\ Roots \cap Dirs = {}

VARIABLES
    disk,      \* config.toml
    mem,       \* state.config
    router,    \* state.router: what the last build saw of each routed directory
    wordpress, \* state.wordpress_sites, swapped after the router
    lock,      \* holder of the config mutex
    task,      \* IPC task -> its handler's local state
    dirs,      \* the project directories on disk
    watched,   \* directories and roots the OS watches
    tracked,   \* the ones the watcher believes it watches
    woken,     \* a debounced event or watch_dirty permit awaits the watcher
    wpc,       \* where the watcher is
    built,     \* the routing the watcher has built and not yet installed
    desired,   \* the watch set collected with it
    kept,      \* the last rebuild failed and the previous routing was kept
    up,        \* the daemon is running
    acked,     \* root -> parked according to the last answered request for it
    missed,    \* directories that changed unseen since the last scan
    left       \* steps of the environment still to come

cfgvars == <<disk, mem>>
livevars == <<router, wordpress>>
watchvars == <<watched, tracked, woken, wpc, built, desired, kept>>
vars == <<cfgvars, livevars, lock, task, dirs, watchvars, up, acked, missed, left>>

Kinds == {"absent", "empty", "app"}
Configs == [roots : SUBSET Roots, value : Values]
Routing == [Dirs -> Kinds]      \* "absent": not routed
NoRouting == [d \in Dirs |-> "absent"]
Idle == [at |-> "idle", op |-> "none", root |-> CHOOSE r \in Roots : TRUE, value |-> CHOOSE v \in Values : TRUE,
         routing |-> NoRouting]
Handlers == [at : {"idle", "wait", "apply", "router", "wordpress"}, op : {"none", "Park", "Unpark", "SetValue"},
             root : Roots, value : Values, routing : Routing]

TypeOK ==
    /\ disk \in Configs /\ mem \in Configs
    /\ router \in Routing /\ wordpress \in Routing
    /\ lock \in Tasks \cup {Watcher, NoTask}
    /\ task \in [Tasks -> Handlers]
    /\ dirs \in Routing /\ tracked \subseteq Roots \cup Dirs /\ watched \subseteq tracked
    /\ woken \in BOOLEAN /\ wpc \in {"off", "select", "lock", "scan", "router", "wordpress", "reconcile"}
    /\ built \in Routing /\ desired \subseteq Roots \cup Dirs /\ kept \in BOOLEAN
    /\ up \in BOOLEAN /\ acked \in [Roots -> BOOLEAN] /\ missed \subseteq Dirs
    /\ left \in 0 .. MaxSteps

\* A build sees the directories under the parked roots.
build_routing(c, present) == [d \in Dirs |-> IF RootOf(d) \in c.roots THEN present[d] ELSE "absent"]

Init ==
    /\ disk \in [roots : SUBSET Roots, value : {CHOOSE v \in Values : TRUE}]
    /\ mem = disk
    /\ dirs \in Routing
    /\ router = build_routing(mem, dirs) /\ wordpress = router
    /\ lock = NoTask /\ task = [t \in Tasks |-> Idle]
    /\ watched = {} /\ tracked = {} /\ woken = FALSE /\ wpc = "lock"
    /\ built = NoRouting /\ desired = {} /\ kept = FALSE
    /\ up = TRUE /\ acked = [r \in Roots |-> r \in disk.roots]
    /\ missed = {} /\ left = MaxSteps

Spend == left > 0 /\ left' = left - 1

-----------------------------------------------------------------------------
(* The file system (external).  A directory that comes or goes is an event of *)
(* its root; a web root that comes or goes in a project is an event of the    *)
(* project.  The OS drops its watch on a directory that is removed.           *)

Changes == {<<"absent", "empty">>, <<"absent", "app">>, <<"empty", "app">>, <<"app", "empty">>,
            <<"empty", "absent">>, <<"app", "absent">>}

Seen(d, old, new) ==
    \/ d \in watched /\ old # "absent"
    \/ RootOf(d) \in watched /\ "absent" \in {old, new}

DirChanges(d, new) ==
    /\ Spend
    /\ <<dirs[d], new>> \in Changes
    /\ dirs' = [dirs EXCEPT ![d] = new]
    /\ IF Seen(d, dirs[d], new)
       THEN woken' = TRUE /\ UNCHANGED missed
       ELSE missed' = missed \cup {d} /\ UNCHANGED woken
    /\ watched' = IF new = "absent" THEN watched \ {d} ELSE watched
    /\ UNCHANGED <<cfgvars, livevars, lock, task, tracked, wpc, built, desired, kept, up, acked>>

-----------------------------------------------------------------------------
(* handle_mutation: clone, apply, validate, build, save, commit, swap.        *)

Ask(t, op, root, value) ==
    /\ up /\ task[t].at = "idle" /\ Spend
    /\ task' = [task EXCEPT ![t] = [Idle EXCEPT !.at = "wait", !.op = op, !.root = root, !.value = value]]
    /\ UNCHANGED <<cfgvars, livevars, lock, dirs, watchvars, up, acked, missed>>

Acquire(t) ==
    /\ task[t].at = "wait" /\ lock = NoTask
    /\ lock' = t
    /\ task' = [task EXCEPT ![t].at = "apply"]
    /\ UNCHANGED <<cfgvars, livevars, dirs, watchvars, up, acked, missed, left>>

apply(c, k) ==
    CASE k.op = "Park" -> [c EXCEPT !.roots = @ \cup {k.root}]
      [] k.op = "Unpark" -> [c EXCEPT !.roots = @ \ {k.root}]
      [] OTHER -> [c EXCEPT !.value = k.value]

IsMutation(t) == task[t].at = "apply" /\ task[t].op \in {"Park", "Unpark"}

\* Refused, or the rebuild failed, or the save failed: the guard is dropped.
MutationFails(t) ==
    /\ IsMutation(t)
    /\ lock' = NoTask /\ task' = [task EXCEPT ![t] = Idle]
    /\ UNCHANGED <<cfgvars, livevars, dirs, watchvars, up, acked, missed, left>>

MutationSaved_Unsaved(t) ==
    /\ IsMutation(t)
    /\ mem' = apply(mem, task[t])
    /\ task' = [task EXCEPT ![t].at = "router", ![t].routing = build_routing(mem', dirs)]
    /\ missed' = {}
    /\ UNCHANGED <<disk, livevars, lock, dirs, watchvars, up, acked, left>>

\* Everything from the build to the commit is free of awaits.
MutationSaved(t) ==
    /\ IsMutation(t)
    /\ LET new == apply(mem, task[t])
       IN  /\ disk' = new /\ mem' = new
           /\ task' = [task EXCEPT ![t].at = "router", ![t].routing = build_routing(new, dirs)]
    /\ missed' = {}
    /\ UNCHANGED <<livevars, lock, dirs, watchvars, up, acked, left>>

SwapRouter(t) ==
    /\ task[t].at = "router"
    /\ router' = task[t].routing
    /\ task' = [task EXCEPT ![t].at = "wordpress"]
    /\ UNCHANGED <<cfgvars, wordpress, lock, dirs, watchvars, up, acked, missed, left>>

MutationDone_Quietly(t) ==
    /\ task[t].at = "wordpress"
    /\ wordpress' = task[t].routing
    /\ lock' = NoTask
    /\ acked' = [acked EXCEPT ![task[t].root] = task[t].op = "Park"]
    /\ task' = [task EXCEPT ![t] = Idle]
    /\ UNCHANGED <<cfgvars, router, dirs, watchvars, up, missed, left>>

\* The swap of the detection maps, the release, watch_dirty and the answer.
MutationDone(t) ==
    /\ task[t].at = "wordpress"
    /\ wordpress' = task[t].routing
    /\ lock' = NoTask
    /\ woken' = TRUE
    /\ acked' = [acked EXCEPT ![task[t].root] = task[t].op = "Park"]
    /\ task' = [task EXCEPT ![t] = Idle]
    /\ UNCHANGED <<cfgvars, router, dirs, watched, tracked, wpc, built, desired, kept, up, missed, left>>

\* persist_instance: the guard's content is changed first and saved after.
persist_instance(t) ==
    /\ task[t].at = "apply" /\ task[t].op = "SetValue"
    /\ mem' = apply(mem, task[t])
    /\ disk' \in {disk, mem'}
    /\ lock' = NoTask /\ task' = [task EXCEPT ![t] = Idle]
    /\ UNCHANGED <<livevars, dirs, watchvars, up, acked, missed, left>>

-----------------------------------------------------------------------------
(* The watcher task: recompute under the lock, then reconcile without it.     *)

Wake ==
    /\ wpc = "select" /\ woken
    /\ woken' = FALSE /\ wpc' = "lock"
    /\ UNCHANGED <<cfgvars, livevars, lock, task, dirs, watched, tracked, built, desired, kept, up, acked, missed, left>>

WatcherLocks_Not ==
    /\ wpc = "lock" /\ lock = NoTask
    /\ wpc' = "scan"
    /\ UNCHANGED <<cfgvars, livevars, lock, task, dirs, watched, tracked, woken, built, desired, kept, up, acked, missed, left>>

WatcherLocks ==
    /\ wpc = "lock" /\ lock = NoTask
    /\ lock' = Watcher /\ wpc' = "scan"
    /\ UNCHANGED <<cfgvars, livevars, task, dirs, watched, tracked, woken, built, desired, kept, up, acked, missed, left>>

\* The watch set: every parked root and every project with no web root yet.
Scan ==
    /\ wpc = "scan"
    /\ built' = build_routing(mem, dirs)
    /\ desired' = mem.roots \cup {d \in Dirs : built'[d] = "empty"}
    /\ wpc' = "router" /\ kept' = FALSE /\ missed' = {}
    /\ UNCHANGED <<cfgvars, livevars, lock, task, dirs, watched, tracked, woken, up, acked, left>>

\* A root cannot be read: the previous routing and the watch set are kept.
ScanFails ==
    /\ wpc = "scan"
    /\ wpc' = "select" /\ lock' = NoTask /\ kept' = TRUE
    /\ UNCHANGED <<cfgvars, livevars, task, dirs, watched, tracked, woken, built, desired, up, acked, missed, left>>

InstallRouter ==
    /\ wpc = "router"
    /\ router' = built /\ wpc' = "wordpress"
    /\ UNCHANGED <<cfgvars, wordpress, lock, task, dirs, watched, tracked, woken, built, desired, kept, up, acked, missed, left>>

InstallWordpress_Holds ==
    /\ wpc = "wordpress"
    /\ wordpress' = built /\ wpc' = "reconcile"
    /\ UNCHANGED <<cfgvars, router, lock, task, dirs, watched, tracked, woken, built, desired, kept, up, acked, missed, left>>

InstallWordpress ==
    /\ wpc = "wordpress"
    /\ wordpress' = built /\ wpc' = "reconcile" /\ lock' = NoTask
    /\ UNCHANGED <<cfgvars, router, task, dirs, watched, tracked, woken, built, desired, kept, up, acked, missed, left>>

\* Stale watches go, and what is desired and not tracked is watched if it exists.
Rewatch(want) ==
    LET added == {p \in want \ tracked : p \in Roots \/ dirs[p] # "absent"}
    IN  /\ tracked' = (tracked \cap want) \cup added
        /\ watched' = (watched \cap want) \cup added

reconcile ==
    /\ wpc = "reconcile"
    /\ Rewatch(desired)
    /\ wpc' = "select"
    /\ UNCHANGED <<cfgvars, livevars, lock, task, dirs, woken, built, desired, kept, up, acked, missed, left>>

-----------------------------------------------------------------------------
(* The process dies at any point, and is started again.                      *)

Crash ==
    /\ up /\ Spend
    /\ up' = FALSE
    /\ lock' = NoTask /\ task' = [t \in Tasks |-> Idle]
    /\ watched' = {} /\ tracked' = {} /\ woken' = FALSE /\ wpc' = "off"
    /\ built' = NoRouting /\ desired' = {} /\ kept' = FALSE
    /\ acked' = [r \in Roots |->
         IF \E t \in Tasks : task[t].root = r /\ task[t].at \in {"router", "wordpress"}
         THEN r \in disk.roots ELSE acked[r]]
    /\ UNCHANGED <<cfgvars, livevars, dirs, missed>>

Restart ==
    /\ ~up
    /\ up' = TRUE /\ mem' = disk
    /\ router' = build_routing(disk, dirs) /\ wordpress' = router'
    /\ missed' = {} /\ wpc' = "lock"
    /\ UNCHANGED <<disk, lock, task, dirs, watched, tracked, woken, built, desired, kept, acked, left>>

TaskStep(t) ==
    \/ Acquire(t) \/ MutationFails(t) \/ MutationSaved(t) \/ SwapRouter(t) \/ MutationDone(t)
    \/ persist_instance(t)

WatcherStep ==
    Wake \/ WatcherLocks \/ Scan \/ ScanFails \/ InstallRouter \/ InstallWordpress \/ reconcile

Next ==
    \/ \E d \in Dirs, new \in Kinds : DirChanges(d, new)
    \/ \E t \in Tasks :
         \/ \E r \in Roots, op \in {"Park", "Unpark"} : Ask(t, op, r, Idle.value)
         \/ \E v \in Values : Ask(t, "SetValue", Idle.root, v)
         \/ TaskStep(t)
    \/ WatcherStep
    \/ Crash \/ Restart

Spec == Init /\ [][Next]_vars

FairSpec == Spec /\ WF_vars(WatcherStep) /\ \A t \in Tasks : WF_vars(TaskStep(t))

-----------------------------------------------------------------------------
(* What must hold.                                                           *)

Committing(r) == \E t \in Tasks : task[t].at \in {"router", "wordpress"} /\ task[t].root = r

\* An answered Park or Unpark is on disk and in memory, whatever ran beside it,
\* whatever failed and wherever the daemon died; a refused one is in neither
\* (handle_mutation: build, validate, save, and only then commit).
AckedIsDurable ==
    \A r \in Roots : ~Committing(r) =>
        /\ acked[r] = (r \in disk.roots)
        /\ up => acked[r] = (r \in mem.roots)

\* While nobody holds the config lock the live router serves directories of
\* parked roots only, and the detection maps describe that same router
\* (recompute and handle_mutation swap all of them under the lock).
RouterFollowsConfig ==
    up /\ lock = NoTask =>
        /\ \A d \in Dirs : router[d] # "absent" => RootOf(d) \in mem.roots
        /\ wordpress = router

Quiescent == up /\ wpc = "select" /\ ~woken /\ \A t \in Tasks : task[t].at = "idle"

\* At rest, the watcher tracks every parked root and every project it serves
\* without a web root, and no other root: a freshly parked root is watched
\* without waiting for an unrelated event (watch_dirty).
WatchSetFollows ==
    Quiescent /\ ~kept =>
        /\ tracked \cap Roots = mem.roots
        /\ \A d \in Dirs : router[d] = "empty" /\ d \notin missed => d \in tracked

\* What is served, watched and saved is what was answered (the three above).
ServedIsSaved == AckedIsDurable /\ RouterFollowsConfig /\ WatchSetFollows

\* A rebuild that some event asked for happens: the daemon comes to rest again
\* and then serves what it saw, or it is down, or its last rebuild failed.
EventuallyServed ==
    <>[](up => kept \/ \A d \in Dirs \ missed : router[d] = build_routing(mem, dirs)[d])
=============================================================================
