---------------------------- MODULE ServiceStart ----------------------------
(***************************************************************************)
(* One supervised service from request to answer (yerd-services): the      *)
(* table of service types, the data directory and its one-time init, the   *)
(* configuration files, the child process, its readiness probe and its     *)
(* stop.  ServiceManager serves one request at a time; beside it run the   *)
(* child, a foreign program that may take the port, the user who edits the *)
(* local override file, and a kill of the daemon at any point.             *)
(***************************************************************************)
EXTENDS Integers, Sequences, FiniteSets

CONSTANTS
    Types,        \* the service types explored: ids of the registry
    Labels,       \* version labels: non-empty sequences of <<number, suffix>>
    Overrides,    \* the override maps a request may carry
    Window,       \* health_check_window, in probes
    MaxAttempts,  \* max_restart_attempts
    MaxStarts,    \* requests explored
    MaxFaults     \* crashes, kills and foreign programs explored

Sup == INSTANCE Supervisor WITH
    HealthCheckWindow <- Window, MaxRestartAttempts <- MaxAttempts,
    BackoffInitial <- 1, BackoffMax <- 1, StopGrace <- 1, FactorBits <- 1, NoPid <- 0

-----------------------------------------------------------------------------
(* The service types.                                                       *)

ServiceDefinition ==
    [versioned |-> TRUE, scope |-> "Shared", init |-> FALSE, conf |-> TRUE,
     overrides |-> TRUE, preloads |-> FALSE, ready |-> "TcpConnect", stop |-> "GroupTerm"]

Redis == [ServiceDefinition EXCEPT !.ready = "RedisPing"]
MySql == [ServiceDefinition EXCEPT !.init = TRUE, !.ready = "MySqlHandshake"]
MariaDb == [ServiceDefinition EXCEPT !.init = TRUE, !.ready = "MySqlHandshake"]
Postgres ==
    [ServiceDefinition EXCEPT !.scope = "Major", !.init = TRUE, !.preloads = TRUE,
        !.ready = "PostgresStartup", !.stop = "MasterInterrupt"]
Meilisearch ==
    [ServiceDefinition EXCEPT !.scope = "Version", !.conf = FALSE,
        !.overrides = FALSE, !.ready = "MeilisearchHealth"]
Reverb == [ServiceDefinition EXCEPT !.versioned = FALSE, !.conf = FALSE, !.overrides = FALSE]

ServiceRegistry ==
    [redis |-> Redis, mysql |-> MySql, mariadb |-> MariaDb, postgres |-> Postgres,
     meilisearch |-> Meilisearch, reverb |-> Reverb]

\* A component without a suffix is newer than the same number with one.
compare_suffix(a, b) == IF a = b THEN 0 ELSE IF a = "" THEN 1 ELSE IF b = "" THEN -1 ELSE 0
compare_component(a, b) ==
    IF a[1] # b[1] THEN a[1] - b[1] ELSE compare_suffix(a[2], b[2])
compare_version_labels(a, b) ==
    LET At(l, i) == IF i <= Len(l) THEN l[i] ELSE <<0, "">>
        longest == IF Len(a) >= Len(b) THEN Len(a) ELSE Len(b)
        differs == {i \in 1 .. longest : compare_component(At(a, i), At(b, i)) # 0}
        first == CHOOSE i \in differs : \A j \in differs : i <= j
    IN IF differs = {} THEN 0 ELSE compare_component(At(a, first), At(b, first))

\* Labels that compare equal ("8" and "8.0") are ordered as text.
cmp(a, b) ==
    LET c == compare_version_labels(a, b) IN IF c # 0 THEN c ELSE Len(a) - Len(b)

major(v) == v[1][1]

datadir(scope, v) ==
    CASE scope = "Shared" -> <<"data">>
      [] scope = "Major" -> <<"data", <<<<major(v), "">>>>>>
      [] scope = "Version" -> <<"data", v>>

-----------------------------------------------------------------------------
VARIABLES
    type,     \* the service type of this behaviour
    tree,     \* what each version's install directory holds
    disk,     \* data directories, staging directories, configuration files
    procs,    \* the live server processes, by pid
    foreign,  \* another program on the port: "none", "same" protocol, "other"
    inst,     \* the manager's instance
    job,      \* the request being served
    spare     \* bounds: requests and faults left; the daemon's number

Def == ServiceRegistry[type]
NoInst == [pid |-> 0, v |-> <<>>, reaped |-> FALSE]
Idle(result) ==
    [pc |-> "idle", op |-> "", v |-> <<>>, over |-> {}, newest |-> FALSE, sup |-> Sup!Stopped,
     ev |-> Sup!EnsureRequested, child |-> 0, reaped |-> FALSE, ticks |-> 0,
     result |-> result]

Dirs == {datadir(Def.scope, v) : v \in Labels}
Majors == {major(v) : v \in Labels}

\* Data directories: 0 absent, -1 present and not initialised, else the major
\* of the server that initialised them.
StartInit ==
    /\ type \in Types
    /\ tree \in [Labels -> SUBSET {"server", "init", "timescaledb"}]
    /\ disk \in [data : [Dirs -> {0, -1} \cup Majors], staging : {{}},
                 conf : {[dir |-> <<>>, preload |-> FALSE]}, managed : {{}},
                 local : {"absent", "edited"}]
    /\ procs = <<>> /\ foreign = "none" /\ inst = NoInst /\ job = Idle("")
    /\ spare = [starts |-> MaxStarts, faults |-> MaxFaults, boot |-> 1]

\* The versions whose server binary is there, and the one a start takes: the
\* recorded one when it is installed, else the newest.
discover_installed == {v \in Labels : "server" \in tree[v]}
resolve_version(configured) ==
    IF configured \in discover_installed THEN {configured}
    ELSE {v \in discover_installed : \A w \in discover_installed : cmp(v, w) >= 0}

Goto(pc) == job' = [job EXCEPT !.pc = pc]
Without(pid) == [p \in DOMAIN procs \ {pid} |-> procs[p]]
Alive(pid) == pid \in DOMAIN procs

\* The answer.  A failing start drops its child handle, which kills the child
\* (kill_on_drop); a restart goes on to its start whatever its stop answered.
TokioProcessSpawner(result) ==
    procs' = IF result = "failed" THEN Without(job.child) ELSE procs
Answer(result) ==
    /\ TokioProcessSpawner(result)
    /\ job' = IF job.op = "restart"
              THEN [Idle("") EXCEPT !.pc = "ensure", !.op = "ensure", !.v = job.v,
                            !.over = job.over, !.newest = job.newest]
              ELSE [Idle(result) EXCEPT !.v = job.v, !.over = job.over, !.newest = job.newest]

-----------------------------------------------------------------------------
(* Requests.                                                                *)

Request ==
    /\ job.pc = "idle" /\ spare.starts > 0
    /\ spare' = [spare EXCEPT !.starts = @ - 1]
    /\ \E op \in {"ensure", "restart", "stop"}, over \in Overrides,
          c \in IF Def.versioned THEN Labels ELSE {<<>>} :
         \E v \in IF Def.versioned THEN resolve_version(c) ELSE {<<>>} :
         job' = [Idle("") EXCEPT !.op = op, !.v = v, !.over = over, !.newest = v # c,
                                 !.pc = IF op = "ensure" THEN "ensure" ELSE "stop"]
    /\ UNCHANGED <<type, tree, disk, procs, foreign, inst>>

\* The instance is taken out of the map before its server is asked to stop.
stop ==
    /\ job.pc = "stop"
    /\ inst' = NoInst
    /\ IF inst = NoInst THEN Answer("stopped")
       ELSE /\ job' = [job EXCEPT !.pc = "step", !.sup = Sup!Running(inst.pid),
                                  !.ev = Sup!StopRequested, !.child = inst.pid,
                                  !.reaped = inst.reaped]
            /\ UNCHANGED procs
    /\ UNCHANGED <<type, tree, disk, foreign, spare>>

\* A status poll notices, and reaps, a child that exited.
snapshots ==
    /\ inst # NoInst /\ ~inst.reaped /\ ~Alive(inst.pid)
    /\ inst' = [inst EXCEPT !.reaped = TRUE]
    /\ UNCHANGED <<type, tree, disk, procs, foreign, job, spare>>

Dir == datadir(Def.scope, job.v)

check_pg_major_Skip(d) == TRUE
check_pg_major(d) == disk.data[d] = major(job.v)

is_initialized(d) == disk.data[d] \notin {0, -1}

init_datadir_if_needed ==
    CASE ~Def.versioned \/ ~Def.init -> Goto("port") /\ UNCHANGED <<procs, disk>>
      [] Def.versioned /\ Def.init /\ is_initialized(Dir) ->
           /\ IF Def.scope = "Major" /\ ~check_pg_major(Dir)
              THEN Answer("failed") ELSE Goto("port") /\ UNCHANGED procs
           /\ UNCHANGED disk
      [] Def.versioned /\ Def.init /\ ~is_initialized(Dir) ->
           IF "init" \notin tree[job.v] THEN Answer("failed") /\ UNCHANGED disk
           ELSE /\ Goto("init") /\ UNCHANGED procs
                /\ disk' = [disk EXCEPT !.staging = @ \cup {spare.boot}]

running_listen == inst # NoInst /\ Alive(inst.pid)
ensure ==
    /\ job.pc = "ensure"
    /\ inst' = IF inst = NoInst THEN inst ELSE [inst EXCEPT !.reaped = ~Alive(inst.pid)]
    /\ IF running_listen THEN Answer("running") /\ UNCHANGED disk ELSE init_datadir_if_needed
    /\ UNCHANGED <<type, tree, foreign, spare>>

-----------------------------------------------------------------------------
(* One-time init: the tool fills a staging directory named after the        *)
(* daemon's own pid; only a whole one is renamed into place.                *)

Unstaged == disk.staging \ {spare.boot}
run_init_InPlace ==
    /\ job.pc = "init"
    /\ \/ Goto("swap") /\ UNCHANGED <<procs, disk>>
       \/ Answer("failed") /\ disk' = [disk EXCEPT !.data[Dir] = -2, !.staging = Unstaged]
    /\ UNCHANGED <<type, tree, foreign, inst, spare>>
run_init ==
    /\ job.pc = "init"
    /\ \/ Goto("swap") /\ UNCHANGED <<procs, disk>>
       \/ Answer("failed") /\ disk' = [disk EXCEPT !.staging = Unstaged]
    /\ UNCHANGED <<type, tree, foreign, inst, spare>>

\* Two file operations: the earlier directory goes, the staging takes its name.
init_datadir ==
    /\ \/ /\ job.pc = "swap"
          /\ \/ Goto("rename") /\ UNCHANGED procs /\ disk' = [disk EXCEPT !.data[Dir] = 0]
             \/ /\ disk.data[Dir] # 0 /\ Answer("failed")
                /\ disk' = [disk EXCEPT !.staging = Unstaged]
       \/ /\ job.pc = "rename"
          /\ \/ /\ Goto("port") /\ UNCHANGED procs
                /\ disk' = [disk EXCEPT !.data[Dir] = major(job.v), !.staging = Unstaged]
             \/ Answer("failed") /\ disk' = [disk EXCEPT !.staging = Unstaged]
    /\ UNCHANGED <<type, tree, foreign, inst, spare>>

Listening == {p \in DOMAIN procs : procs[p].phase \in {"open", "ready"}}
Held == foreign # "none" \/ Listening # {}

preflight_port ==
    /\ job.pc = "port"
    /\ IF Held THEN Answer("failed") ELSE Goto("config") /\ UNCHANGED procs
    /\ UNCHANGED <<type, tree, disk, foreign, inst, spare>>

-----------------------------------------------------------------------------
(* The files of a start.                                                    *)

postgres_preload_libraries == "timescaledb" \in tree[job.v]
render_config(d) == [dir |-> d, preload |-> Def.preloads /\ postgres_preload_libraries]

\* The managed file is rewritten on every start, the user's file only made
\* when it is missing, the main file last.  The first `written` of the three
\* writes succeed.
write_service_config_OnlySome(written) ==
    [disk EXCEPT !.managed = IF written >= 1 /\ job.over # {} THEN job.over ELSE @,
                 !.local = IF written >= 2 /\ @ = "absent" THEN "stub" ELSE @,
                 !.conf = IF written = 3 THEN render_config(Dir) ELSE @]
write_service_config(written) ==
    [disk EXCEPT !.managed = IF written >= 1 THEN job.over ELSE @,
                 !.local = IF written >= 2 /\ @ = "absent" THEN "stub" ELSE @,
                 !.conf = IF written = 3 THEN render_config(Dir) ELSE @]

prepare_dirs(d) == [d EXCEPT !.data[Dir] = IF @ = 0 THEN -1 ELSE @]

Configure ==
    /\ job.pc = "config"
    /\ \E written \in IF Def.conf THEN 0 .. 3 ELSE {3} :
         /\ disk' = CASE Def.conf -> prepare_dirs(write_service_config(written))
                      [] ~Def.conf /\ Def.versioned -> prepare_dirs(disk)
                      [] OTHER -> disk
         /\ IF written < 3 THEN Answer("failed")
            ELSE /\ job' = [job EXCEPT !.pc = "step", !.sup = Sup!Stopped, !.ev = Sup!EnsureRequested]
                 /\ UNCHANGED procs
    /\ UNCHANGED <<type, tree, foreign, inst, spare>>

-----------------------------------------------------------------------------
(* The driver of the supervisor's state machine.                            *)

finish_terminal(next) ==
    IF next.tag = "Running"
    THEN /\ inst' = [pid |-> job.child, v |-> job.v, reaped |-> FALSE]
         /\ Answer("started")
    ELSE Answer(IF job.op = "ensure" THEN "failed" ELSE "stopped") /\ UNCHANGED inst

kill(do) ==
    procs' = IF ~Alive(job.child) THEN procs
                ELSE IF do = "KillKill" THEN Without(job.child)
                ELSE [procs EXCEPT ![job.child].termed = TRUE]

drive ==
    /\ job.pc = "step"
    /\ \E t \in {Sup!transition(job.sup, job.ev)} :
         CASE t.action.do = "None" -> finish_terminal(t.next)
           [] t.action.do = "PermanentFailure" -> Answer("failed") /\ UNCHANGED inst
           [] t.action.do = "Backoff" ->
                /\ job' = [job EXCEPT !.sup = t.next, !.ev = Sup!BackoffElapsed]
                /\ UNCHANGED <<procs, inst>>
           [] t.action.do = "Spawn" ->
                /\ job' = [job EXCEPT !.sup = t.next, !.pc = "spawn", !.ticks = 0]
                /\ UNCHANGED <<procs, inst>>
           [] t.action.do = "HealthCheck" ->
                /\ job' = [job EXCEPT !.sup = t.next, !.pc = "probe"]
                /\ UNCHANGED <<procs, inst>>
           [] t.action.do \in {"KillTerm", "KillKill"} ->
                /\ UNCHANGED inst
                /\ IF job.reaped THEN Answer("unkillable")
                   ELSE /\ kill(t.action.do)
                        /\ job' = [job EXCEPT !.sup = t.next, !.pc = "wait"]
    /\ UNCHANGED <<type, tree, disk, foreign, spare>>

NewPid == CHOOSE p \in 1 .. 9 : p \notin DOMAIN procs \cup {inst.pid, job.child}
                               /\ \A q \in 1 .. p - 1 : q \in DOMAIN procs \cup {inst.pid, job.child}

\* What the server reads when it is executed.
plan_launch ==
    [phase |-> "boot", v |-> job.v, boot |-> spare.boot, termed |-> FALSE,
     dir |-> IF Def.conf /\ Def.scope = "Shared" THEN disk.conf.dir ELSE IF Def.versioned THEN Dir ELSE <<>>,
     preload |-> Def.conf /\ disk.conf.preload,
     over |-> IF Def.overrides THEN disk.managed ELSE {},
     local |-> disk.local]

spawn_child ==
    /\ job.pc = "spawn"
    /\ \/ \E pid \in {NewPid} :
            /\ procs' = [p \in DOMAIN procs \cup {pid} |-> IF p = pid THEN plan_launch ELSE procs[p]]
            /\ job' = [job EXCEPT !.pc = "step", !.child = pid, !.ev = Sup!SpawnSucceeded(pid)]
       \/ Answer("failed")
    /\ UNCHANGED <<type, tree, disk, foreign, inst, spare>>

\* Who answers on the port, and in which state.
Speaker ==
    IF foreign # "none" THEN foreign
    ELSE IF \E p \in Listening : procs[p].phase = "ready" THEN "ready"
    ELSE IF Listening # {} THEN "open" ELSE "none"
RedisProbe == Speaker \in {"ready", "same"}
MySqlProbe == Speaker \in {"ready", "same"}
PostgresProbe == Speaker \in {"open", "ready", "same"}   \* E: still starting up
MeilisearchProbe == Speaker \in {"ready", "same"}
TcpConnectProbe == Speaker # "none"
ServiceProbes ==
    CASE Def.ready = "RedisPing" -> RedisProbe
      [] Def.ready = "MySqlHandshake" -> MySqlProbe
      [] Def.ready = "PostgresStartup" -> PostgresProbe
      [] Def.ready = "MeilisearchHealth" -> MeilisearchProbe
      [] Def.ready = "TcpConnect" -> TcpConnectProbe

\* The probe and the child's exit race in a select.
health_check ==
    /\ job.pc = "probe"
    /\ \/ ServiceProbes /\ job' = [job EXCEPT !.pc = "step", !.ev = Sup!HealthCheckOk]
       \/ /\ ~ServiceProbes /\ Alive(job.child) /\ job.ticks < Window
          /\ job' = [job EXCEPT !.pc = "step", !.ticks = @ + 1, !.ev = Sup!HealthCheckTick(job.ticks + 1)]
       \/ ~Alive(job.child) /\ job' = [job EXCEPT !.pc = "step", !.child = 0, !.ev = Sup!Crashed]
    /\ UNCHANGED <<type, tree, disk, procs, foreign, inst, spare>>

\* Only a stop has a grace period; a start that times out waits for the exit.
wait_after_kill ==
    /\ job.pc = "wait"
    /\ \/ /\ ~Alive(job.child)
          /\ job' = [job EXCEPT !.pc = "step", !.child = 0,
                       !.ev = IF job.sup.tag = "Starting" THEN Sup!Crashed ELSE Sup!StopComplete]
       \/ /\ Alive(job.child) /\ job.sup.tag = "Stopping" /\ ~job.sup.sigkilled
          /\ job' = [job EXCEPT !.pc = "step", !.ev = Sup!StopTick(1)]
    /\ UNCHANGED <<type, tree, disk, procs, foreign, inst, spare>>

-----------------------------------------------------------------------------
(* Beside the manager.                                                      *)

\* A server that cannot load its libraries, include its files or bind the port
\* exits; a server asked to stop may take its time.
Server(p) ==
    LET s == procs[p]
        broken == \/ s.preload /\ "timescaledb" \notin tree[s.v]
                  \/ type = "redis" /\ s.local = "absent"
                  \/ Held
    IN /\ \/ s.phase = "boot" /\ ~broken /\ procs' = [procs EXCEPT ![p].phase = "open"]
          \/ s.phase = "boot" /\ broken /\ procs' = Without(p)
          \/ s.phase = "open" /\ procs' = [procs EXCEPT ![p].phase = "ready"]
          \/ s.termed /\ procs' = Without(p)
       /\ UNCHANGED <<type, tree, disk, foreign, inst, job, spare>>

Take(n) == spare.faults > 0 /\ spare' = [spare EXCEPT !.faults = @ - 1, !.boot = @ + n]

Crash ==
    /\ Take(0) /\ \E p \in DOMAIN procs : procs' = Without(p)
    /\ UNCHANGED <<type, tree, disk, foreign, inst, job>>

OtherProgram ==
    /\ Take(0) /\ foreign' \in {"none", "same", "other"} \ {foreign}
    /\ foreign' # "none" => ~Held
    /\ UNCHANGED <<type, tree, disk, procs, inst, job>>

UserEdits ==
    /\ Take(0) /\ \E l \in {"edited", "absent"} \ {disk.local} : disk' = [disk EXCEPT !.local = l]
    /\ UNCHANGED <<type, tree, procs, foreign, inst, job>>

\* A killed daemon runs no destructor: its servers stay, and its staging
\* directory.
KillDaemon ==
    /\ Take(1) /\ inst' = NoInst /\ job' = Idle("")
    /\ UNCHANGED <<type, tree, disk, procs, foreign>>

StartNext ==
    \/ Request \/ stop \/ snapshots \/ ensure \/ run_init \/ init_datadir \/ preflight_port
    \/ Configure \/ drive \/ spawn_child \/ health_check \/ wait_after_kill
    \/ \E p \in DOMAIN procs : Server(p)
    \/ Crash \/ OtherProgram \/ UserEdits \/ KillDaemon

-----------------------------------------------------------------------------
\* Whatever way a start or a stop ends (a failed spawn, a port taken after the
\* preflight, attempts used up, a child that ignores SIGTERM), the manager
\* leaves no server of its own behind that it does not hold.
NoServerLeft ==
    job.pc = "idle" => \A p \in DOMAIN procs : procs[p].boot = spare.boot => p = inst.pid

\* A server that needs an initialised data directory only ever runs on a whole
\* one, made for its major where the engine cannot cross majors: not on what a
\* failed or killed init left (init_datadir, check_pg_major).
DataIsWhole ==
    \A p \in DOMAIN procs : Def.init =>
        LET d == disk.data[procs[p].dir]
        IN d \in Majors /\ (Def.scope = "Major" => d = major(procs[p].v))

\* A start that is answered as done runs the version it was asked for, or a
\* newest one when that is not installed (10 is newer than 4), on that version's data, with exactly the overrides of the request (those of an
\* earlier request are gone) and no library its install does not ship.
Newer(a, b) ==
    LET Num(l, i) == IF i <= Len(l) THEN l[i][1] ELSE 0
    IN \E i \in DOMAIN a : Num(a, i) > Num(b, i) /\ \A j \in 1 .. i - 1 : Num(a, j) = Num(b, j)
StartedAsAsked ==
    (job.pc = "idle" /\ job.result = "started" /\ Alive(inst.pid)) =>
        LET s == procs[inst.pid]
        IN /\ s.v = job.v /\ (Def.versioned => s.dir = datadir(Def.scope, job.v))
           /\ Def.overrides => s.over = job.over
           /\ s.preload => "timescaledb" \in tree[s.v]
           /\ job.newest => \A v \in discover_installed : ~Newer(v, s.v)
=============================================================================
