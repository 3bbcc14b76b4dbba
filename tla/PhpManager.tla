----------------------------- MODULE PhpManager -----------------------------
(* PhpManager of crates/yerd-php: one PHP-FPM master process per PHP         *)
(* version, driven through the supervision state machine.  The daemon keeps  *)
(* the manager behind one FIFO mutex and holds it for a whole operation, so  *)
(* the model has one queue of clients and at most one drive in progress; what *)
(* interleaves with the drive is the operating system (processes boot, crash, *)
(* obey or ignore signals), new clients, and clients that go away.           *)
EXTENDS Supervisor, Sequences, FiniteSets

CONSTANTS
    NVersions,   \* PHP versions are 1 .. NVersions, in BTreeMap order
    Pids,        \* process ids, reused once nothing refers to them
    Clients,     \* tasks of the daemon that use the manager
    Stubborn     \* processes that ignore SIGTERM

ASSUME ManagerAssumption ==
    /\ NVersions \in Nat \ {0}
    /\ NoPid \notin Pids
    /\ Stubborn \subseteq Pids

VARIABLES
    pools,   \* version -> its Running pool entry, or NoPool
    proc,    \* pid -> what the kernel knows of the process
    sig,     \* pid -> strongest signal sent to it while it lives
    unit,    \* pid -> the version it was last spawned for
    probed,  \* pids that answered a health probe since they were spawned
    queue,   \* waiters of the manager's mutex; the head holds it
    op,      \* client -> its request
    job,     \* what the lock holder still has to do
    drive    \* the drive in progress

osvars == <<proc, sig, unit, probed>>
clientvars == <<queue, op>>
vars == <<pools, osvars, clientvars, job, drive>>

Versions == 1 .. NVersions
Request == [kind : {"ensure", "stop", "restart"}, v : Versions]
           \cup [kind : {"restart_all", "snapshots", "shutdown"}, v : {1}]
NoRequest == [kind |-> "none", v |-> 1]

\* The pool entry of a version: `stop` and `ensure` leave only Running pools
\* in the map, and each keeps the handle of its child.
NoPool == [state |-> Stopped, child |-> NoPid]
Pool(p) == [state |-> Running(p), child |-> p]

NoJob == [prog |-> "none", rest |-> {}, ok |-> TRUE]
NoDrive == [at |-> "idle", entry |-> "none", v |-> 1, state |-> Stopped,
            child |-> NoPid, pending |-> EnsureRequested, elapsed |-> 0]

ProcStates == {"gone", "booting", "serving", "exited"}
DriveAt == {"idle", "entry", "event", "probing", "backoff", "waiting", "panic"}

JobType == [prog : {"none", "ensure", "stop", "restart"},
            rest : SUBSET Versions, ok : BOOLEAN]
DriveType == [at : DriveAt, entry : {"none", "ensure", "stop"}, v : Versions,
              state : PoolState(Pids), child : Pids \cup {NoPid},
              pending : PoolEvent(Pids, HealthCheckWindow + StopGrace),
              elapsed : 0 .. HealthCheckWindow]

TypeOK ==
    /\ pools \in [Versions -> {NoPool} \cup {Pool(p) : p \in Pids}]
    /\ proc \in [Pids -> ProcStates]
    /\ sig \in [Pids -> {"none", "term", "kill"}]
    /\ unit \in [Pids -> Versions]
    /\ probed \in SUBSET Pids
    /\ queue \in Seq(Clients)
    /\ op \in [Clients -> Request \cup {NoRequest}]
    /\ job \in JobType
    /\ drive \in DriveType

Init ==
    /\ pools = [v \in Versions |-> NoPool]
    /\ proc = [p \in Pids |-> "gone"]
    /\ sig = [p \in Pids |-> "none"]
    /\ unit = [p \in Pids |-> 1]
    /\ probed = {}
    /\ queue = <<>>
    /\ op = [c \in Clients |-> NoRequest]
    /\ job = NoJob
    /\ drive = NoDrive

Live(p) == p \in Pids /\ proc[p] \in {"booting", "serving"}
Held(p) == drive.child = p \/ \E v \in Versions : pools[v].child = p

-----------------------------------------------------------------------------
(* The operating system.                                                     *)

\* The master finishes booting and accepts FastCGI connections.
Boot(p) ==
    /\ proc[p] = "booting"
    /\ proc' = [proc EXCEPT ![p] = "serving"]
    /\ UNCHANGED <<pools, sig, unit, probed, clientvars, job, drive>>

\* The master exits by itself, at any moment.
Crash(p) ==
    /\ Live(p)
    /\ proc' = [proc EXCEPT ![p] = "exited"]
    /\ sig' = [sig EXCEPT ![p] = "none"]
    /\ UNCHANGED <<pools, unit, probed, clientvars, job, drive>>

\* The master obeys a signal.  SIGKILL cannot be ignored; SIGTERM can.
Die(p) ==
    /\ sig[p] = "kill" \/ (sig[p] = "term" /\ p \notin Stubborn)
    /\ Crash(p)

\* Mutant: handles without kill_on_drop.
Dropped_Survives(p) == sig

\* kill_on_drop(true): dropping the handle of a live child SIGKILLs it.
Dropped(p) == IF Live(p)
              THEN [sig EXCEPT ![p] = "kill"] ELSE sig

\* wait/try_wait of an exited child reaps it.
Reap(ps) == [p \in Pids |-> IF p \in ps /\ proc[p] = "exited" THEN "gone" ELSE proc[p]]

-----------------------------------------------------------------------------
(* The mutex and the operations' outer loops.                                *)

Submit(c, r) ==
    /\ op[c] = NoRequest
    /\ op' = [op EXCEPT ![c] = r]
    /\ queue' = Append(queue, c)
    /\ UNCHANGED <<pools, osvars, job, drive>>

\* Mutant: the last version is forgotten.
PoolKeys_OffByOne == {v \in Versions : pools[v] # NoPool /\ v < NVersions}

PoolKeys == {v \in Versions : pools[v] # NoPool}

\* Release the lock and answer the holder.
Answer ==
    /\ queue' = Tail(queue)
    /\ op' = [op EXCEPT ![Head(queue)] = NoRequest]

\* `snapshots` never awaits: it reaps the pools whose master has exited, and
\* leaves the map as it is.
Snapshots ==
    /\ queue # <<>> /\ job = NoJob
    /\ op[Head(queue)].kind = "snapshots"
    /\ proc' = Reap({pools[v].child : v \in Versions})
    /\ Answer
    /\ UNCHANGED <<pools, sig, unit, probed, job, drive>>

\* The holder's work list: one version, or every key of the map.
\* restart_all first takes the snapshots it iterates over.
Acquire ==
    /\ queue # <<>> /\ job = NoJob
    /\ LET r == op[Head(queue)] IN
       /\ r.kind # "snapshots"
       /\ job' = [prog |-> CASE r.kind = "restart_all" -> "restart"
                             [] r.kind = "shutdown" -> "stop"
                             [] OTHER -> r.kind,
                  rest |-> IF r.kind \in {"restart_all", "shutdown"}
                           THEN PoolKeys ELSE {r.v},
                  ok |-> TRUE]
       /\ proc' = IF r.kind = "restart_all"
                  THEN Reap({pools[v].child : v \in Versions}) ELSE proc
    /\ UNCHANGED <<pools, sig, unit, probed, clientvars, drive>>

\* Next version of the work list, in key order.
NextUnit ==
    /\ job.prog # "none" /\ drive.at = "idle"
    /\ \E v \in job.rest :
       /\ \A w \in job.rest : v <= w
       /\ job' = [job EXCEPT !.rest = @ \ {v}]
       /\ drive' = [NoDrive EXCEPT !.at = "entry", !.v = v,
                        !.entry = IF job.prog = "ensure" THEN "ensure" ELSE "stop"]
    /\ UNCHANGED <<pools, osvars, clientvars>>

Release ==
    /\ job.prog # "none" /\ job.rest = {} /\ drive.at = "idle"
    /\ Answer
    /\ job' = NoJob
    /\ UNCHANGED <<pools, osvars, drive>>

\* An operation on one version ends.  restart ignores its stop's error and
\* goes on with ensure.
Finish(ok) ==
    IF job.prog = "restart" /\ drive.entry = "stop"
    THEN /\ drive' = [NoDrive EXCEPT !.at = "entry", !.v = drive.v, !.entry = "ensure"]
         /\ UNCHANGED job
    ELSE /\ drive' = NoDrive
         /\ job' = [job EXCEPT !.ok = @ /\ ok]

-----------------------------------------------------------------------------
(* Entry of ensure and stop.                                                 *)

\* A pool whose child is still alive is handed out as it is.
EnsureRunning ==
    /\ drive.at = "entry" /\ drive.entry = "ensure"
    /\ Live(pools[drive.v].child)
    /\ Finish(TRUE)
    /\ UNCHANGED <<pools, osvars, clientvars>>

\* The version is not installed, no address can be planned, or the pool's
\* configuration cannot be written.
EnsureRefused ==
    /\ drive.at = "entry" /\ drive.entry = "ensure"
    /\ Finish(FALSE)
    /\ proc' \in {proc, Reap({pools[drive.v].child})}
    /\ UNCHANGED <<pools, sig, unit, probed, clientvars>>

\* Mutant: ensure starts a pool without looking at the one it has.
EnsureStart_Blind ==
    /\ drive.at = "entry" /\ drive.entry = "ensure"
    /\ drive' = [drive EXCEPT !.at = "event", !.pending = EnsureRequested]
    /\ UNCHANGED <<pools, osvars, clientvars, job>>

\* Otherwise start from Stopped; the entry of a dead pool stays in the map.
EnsureStart ==
    /\ drive.at = "entry" /\ drive.entry = "ensure"
    /\ ~Live(pools[drive.v].child)
    /\ proc' = Reap({pools[drive.v].child})
    /\ drive' = [drive EXCEPT !.at = "event", !.pending = EnsureRequested]
    /\ UNCHANGED <<pools, sig, unit, probed, clientvars, job>>

\* stop takes the pool out of the map before it does anything else.
StopAbsent ==
    /\ drive.at = "entry" /\ drive.entry = "stop"
    /\ pools[drive.v] = NoPool
    /\ Finish(TRUE)
    /\ UNCHANGED <<pools, osvars, clientvars>>

StopStart ==
    /\ drive.at = "entry" /\ drive.entry = "stop"
    /\ pools[drive.v] # NoPool
    /\ drive' = [drive EXCEPT !.at = "event", !.pending = StopRequested,
                     !.state = pools[drive.v].state, !.child = pools[drive.v].child]
    /\ pools' = [pools EXCEPT ![drive.v] = NoPool]
    /\ UNCHANGED <<osvars, clientvars, job>>

-----------------------------------------------------------------------------
(* The loop of drive: one transition and the action it asks for.             *)

Decision == transition(drive.state, drive.pending)

\* The drive after the transition; the baseline of `elapsed` moves whenever
\* the state changes.
Entered == [drive EXCEPT !.state = Decision.next,
                         !.elapsed = IF Decision.next # drive.state THEN 0 ELSE @]

\* drive returns an error: its child handle, if any, is dropped.
DriveError ==
    /\ Finish(FALSE)
    /\ sig' = Dropped(drive.child)
    /\ UNCHANGED <<pools, proc, unit, probed, clientvars>>

\* finish_terminal, and what ensure and stop do with its result.  The pool
\* entry that `insert` replaces is dropped with its handle.
FinishTerminal ==
    /\ drive.at = "event" /\ Decision.action = None
    /\ \/ /\ Decision.next.tag = "Running" /\ drive.child # NoPid
          /\ pools' = [pools EXCEPT ![drive.v] = [state |-> Decision.next,
                                                  child |-> drive.child]]
          /\ sig' = Dropped(pools[drive.v].child)
          /\ Finish(drive.entry = "ensure")
          /\ UNCHANGED <<proc, unit, probed, clientvars>>
       \/ /\ Decision.next.tag = "Running" /\ drive.child = NoPid
          /\ DriveError
       \/ /\ Decision.next.tag = "Stopped"
          /\ sig' = Dropped(drive.child)
          /\ Finish(drive.entry = "stop")
          /\ UNCHANGED <<pools, proc, unit, probed, clientvars>>
       \/ /\ Decision.next.tag \notin {"Running", "Stopped"}
          /\ drive' = [Entered EXCEPT !.at = "panic"]
          /\ UNCHANGED <<pools, osvars, clientvars, job>>

\* The new child replaces the handle the drive had.
SpawnChild ==
    /\ drive.at = "event" /\ Decision.action = Spawn
    /\ drive.entry = "ensure"
    /\ \E p \in Pids :
       /\ ~Live(p) /\ ~Held(p)
       /\ proc' = [proc EXCEPT ![p] = "booting"]
       /\ sig' = [Dropped(drive.child) EXCEPT ![p] = "none"]
       /\ unit' = [unit EXCEPT ![p] = drive.v]
       /\ probed' = probed \ {p}
       /\ drive' = [Entered EXCEPT !.child = p, !.pending = SpawnSucceeded(p)]
    /\ UNCHANGED <<pools, clientvars, job>>

SpawnFailed ==
    /\ drive.at = "event" /\ Decision.action = Spawn
    /\ DriveError

StartProbe ==
    /\ drive.at = "event" /\ Decision.action = HealthCheck
    /\ \/ /\ drive.child # NoPid
          /\ drive' = [Entered EXCEPT !.at = "probing"]
          /\ UNCHANGED <<pools, osvars, clientvars, job>>
       \/ /\ drive.child = NoPid
          /\ DriveError

StartBackoff ==
    /\ drive.at = "event" /\ Decision.action.do = "Backoff"
    /\ drive' = [Entered EXCEPT !.at = "backoff"]
    /\ UNCHANGED <<pools, osvars, clientvars, job>>

\* killpg on the pid of the handle.  Once the master has been reaped the call
\* fails, unless a worker is left in the group.
Kill ==
    /\ drive.at = "event" /\ Decision.action \in {KillTerm, KillKill}
    /\ \/ /\ drive' = [Entered EXCEPT !.at = "waiting"]
          /\ sig' = IF ~Live(drive.child) THEN sig
                    ELSE [sig EXCEPT ![drive.child] =
                            IF Decision.action = KillKill THEN "kill"
                            ELSE IF @ = "kill" THEN @ ELSE "term"]
          /\ UNCHANGED <<pools, proc, unit, probed, clientvars, job>>
       \/ /\ drive.child # NoPid /\ proc[drive.child] = "gone"
          /\ DriveError

GiveUp ==
    /\ drive.at = "event" /\ Decision.action = PermanentFailure
    /\ DriveError

-----------------------------------------------------------------------------
(* The awaits of drive.                                                      *)

Deliver(e) == [drive EXCEPT !.at = "event", !.pending = e]

ProbeOk ==
    /\ drive.at = "probing" /\ proc[drive.child] = "serving"
    /\ probed' = probed \cup {drive.child}
    /\ drive' = Deliver(HealthCheckOk)
    /\ UNCHANGED <<pools, proc, sig, unit, clientvars, job>>

\* A failed or timed-out probe costs time, however the child is doing.
ProbeFailed ==
    /\ drive.at = "probing"
    /\ \E t \in Least(drive.elapsed + 1, HealthCheckWindow) .. HealthCheckWindow :
       drive' = [Deliver(HealthCheckTick(t)) EXCEPT !.elapsed = t]
    /\ UNCHANGED <<pools, osvars, clientvars, job>>

\* The other arm of the select: the child's exit.
ProbeExited ==
    /\ drive.at = "probing" /\ ~Live(drive.child)
    /\ proc' = Reap({drive.child})
    /\ drive' = [Deliver(Crashed) EXCEPT !.child = NoPid]
    /\ UNCHANGED <<pools, sig, unit, probed, clientvars, job>>

\* Mutant: the driver asks for a fresh start after the backoff.
BackoffOver_Fresh ==
    /\ drive.at = "backoff"
    /\ drive' = Deliver(EnsureRequested)
    /\ UNCHANGED <<pools, osvars, clientvars, job>>

BackoffOver ==
    /\ drive.at = "backoff"
    /\ drive' = Deliver(BackoffElapsed)
    /\ UNCHANGED <<pools, osvars, clientvars, job>>

\* wait_after_kill: the exit of the child, or of nothing.
ExitAwaited ==
    /\ drive.at = "waiting"
    /\ ~Live(drive.child)
    /\ proc' = Reap({drive.child})
    /\ drive' = [Deliver(IF drive.state.tag = "Starting" THEN Crashed ELSE StopComplete)
                    EXCEPT !.child = NoPid]
    /\ UNCHANGED <<pools, sig, unit, probed, clientvars, job>>

\* Only the first wait of a stop has a grace period: after SIGKILL, and after
\* the SIGTERM of a start that timed out, the wait is unconditional.
GraceOver ==
    /\ drive.at = "waiting" /\ drive.state = Stopping(FALSE) /\ drive.child # NoPid
    /\ drive' = Deliver(StopTick(StopGrace))
    /\ UNCHANGED <<pools, osvars, clientvars, job>>

-----------------------------------------------------------------------------
(* A proxied request calls `ensure` inside its connection's task; when the   *)
(* visitor disconnects the future is dropped at an await, with the lock, the *)
(* local child handle and everything else it owns.                           *)

Cancel ==
    /\ queue # <<>> /\ op[Head(queue)].kind = "ensure"
    /\ drive.at \in {"probing", "backoff", "waiting"}
    /\ sig' = Dropped(drive.child)
    /\ Answer
    /\ drive' = NoDrive /\ job' = NoJob
    /\ UNCHANGED <<pools, proc, unit, probed>>

CancelQueued(i) ==
    /\ op[queue[i]].kind = "ensure"
    /\ i > 1 \/ job = NoJob
    /\ queue' = SubSeq(queue, 1, i - 1) \o SubSeq(queue, i + 1, Len(queue))
    /\ op' = [op EXCEPT ![queue[i]] = NoRequest]
    /\ UNCHANGED <<pools, osvars, job, drive>>

-----------------------------------------------------------------------------
DriveStep ==
    \/ EnsureRunning \/ EnsureRefused \/ EnsureStart \/ StopAbsent \/ StopStart
    \/ FinishTerminal \/ SpawnChild \/ SpawnFailed \/ StartProbe \/ StartBackoff
    \/ Kill \/ GiveUp
    \/ ProbeOk \/ ProbeFailed \/ ProbeExited \/ BackoffOver \/ ExitAwaited \/ GraceOver

ManagerStep == Snapshots \/ Acquire \/ NextUnit \/ Release \/ DriveStep

Next ==
    \/ ManagerStep
    \/ \E p \in Pids : Boot(p) \/ Crash(p)
    \/ \E c \in Clients, r \in Request : Submit(c, r)
    \/ \E i \in 1 .. Len(queue) : CancelQueued(i)
    \/ Cancel

Spec == Init /\ [][Next]_vars

\* The runtime keeps polling the lock holder and the kernel delivers signals.
Fairness == WF_vars(ManagerStep) /\ \A p \in Pids : WF_vars(Die(p))

FairSpec == Spec /\ Fairness

-----------------------------------------------------------------------------
(* Properties.                                                               *)

\* The driver invariants in the manager's module docs: no event fed to
\* `transition` mid-drive yields Action::None in a non-terminal state (the
\* panic of finish_terminal), and no action meets a missing child handle.
DriverInvariants ==
    /\ drive.at # "panic"
    /\ drive.at = "event" =>
         /\ Decision.action = HealthCheck => drive.child # NoPid
         /\ Decision.next.tag = "Running" => drive.child = Decision.next.pid
         /\ Decision.action = Spawn => drive.entry = "ensure" /\ drive.child = NoPid

\* A process that nobody has SIGKILLed.
Undoomed(p) == Live(p) /\ sig[p] # "kill"

\* No FPM master is ever leaked: whatever is cancelled, crashes or fails, a
\* live master that has not been SIGKILLed is the child of its version's pool
\* entry or of the drive in progress, which will stop it.
NoOrphan ==
    \A p \in Pids : Undoomed(p) =>
        \/ pools[unit[p]].child = p
        \/ drive.child = p /\ drive.v = unit[p]

\* Two masters of one version would fight over one socket: `ensure` spawns
\* only when the previous master is gone or doomed.
OneMasterPerVersion ==
    \A p, q \in Pids : Undoomed(p) /\ Undoomed(q) /\ unit[p] = unit[q] => p = q

\* The listen address of a pool entry is handed out without another probe, so
\* its master must have answered one, and the entry must belong to it alone.
PoolsAreProbed ==
    \A v \in Versions : pools[v] # NoPool =>
        /\ pools[v].child \in probed
        /\ unit[pools[v].child] = v
        /\ drive.child # pools[v].child

\* When stop or shutdown answers, even with an error, no master of the
\* versions it was asked to stop is left undoomed.
StopLeavesNothing ==
    [][Release /\ job.prog = "stop" =>
         \A p \in Pids : Undoomed(p) =>
             /\ op[Head(queue)].kind # "shutdown"
             /\ unit[p] # op[Head(queue)].v]_vars

\* The masters of a version, and the phase of its life as the manager sees it:
\* a version is up with the living child of its entry, and stopping while the
\* drive of a stop has that child.
Driven(v, entry) == drive.v = v /\ drive.entry = entry /\ drive.at \notin {"idle", "entry"}
Masters(v) == {p \in Pids : Undoomed(p) /\ unit[p] = v}
Phase(v) ==
    IF Driven(v, "ensure") THEN "starting"
    ELSE IF Driven(v, "stop") /\ drive.child \in Masters(v) THEN "stopping"
    ELSE IF pools[v].child \in Masters(v) THEN "up"
    ELSE "down"

Supervised == INSTANCE SupervisedUnits WITH
    Units <- Versions, Procs <- Pids,
    phase <- [v \in Versions |-> Phase(v)], running <- [v \in Versions |-> Masters(v)]

\* The manager implements the supervision of its versions: a master is spawned
\* for a version that is being started and has none, the version comes up with
\* that master only, a stop is never taken back, and what is down has none.
PoolsAreSupervised == Supervised!Spec

\* wait_after_kill has sent SIGTERM to a start that timed out and waits, with no
\* bound, for a master that ignores it.
Stuck == drive.at = "waiting" /\ drive.entry = "ensure" /\ drive.child \in Stubborn

\* Every request is answered: nobody waits for the manager's mutex for ever,
\* unless a master that ignores SIGTERM keeps the holder in wait_after_kill.
EveryRequestAnswered ==
    []<>~Stuck => \A c \in Clients : []<>(op[c] = NoRequest)
=============================================================================
