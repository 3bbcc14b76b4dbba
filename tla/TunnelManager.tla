--------------------------- MODULE TunnelManager ---------------------------
(* TunnelManager of crates/yerd-tunnel and its driver run_to_ready in yerdd. *)
(* Unlike the PHP manager it never holds its mutex across a whole start: the *)
(* instance, its child and the next event live in the map, and every task    *)
(* that started a tunnel takes the lock for one `advance` at a time, sleeping *)
(* with the lock released.  Several tasks may therefore drive, replace or    *)
(* stop the same site's instance between two ticks.  A lock-hold awaits only  *)
(* in graceful_reap; every other hold is one atomic step here.               *)
EXTENDS Supervisor, FiniteSets

CONSTANTS
    Sites,        \* keys of the map: site names and the named tunnel's key
    Pids,         \* process ids, reused once nothing refers to them
    Tasks,        \* IPC tasks of the daemon
    NoTask,       \* nobody
    Stubborn,     \* processes that ignore SIGTERM
    MaxRequests   \* bound: requests each task serves

ASSUME TunnelAssumption ==
    /\ NoPid \notin Pids /\ NoTask \notin Tasks
    /\ Sites # {}
    /\ Stubborn \subseteq Pids
    /\ MaxRequests \in Nat

VARIABLES
    inst,   \* site -> its Instance
    log,    \* site -> processes whose readiness line is in the site's logfile
    proc,   \* pid -> what the kernel knows of the process
    sig,    \* pid -> strongest signal sent to it while it lives
    unit,   \* pid -> the site it was last spawned for
    task,   \* task -> where it is in its request
    left,   \* task -> requests it may still make
    lock    \* the lock-hold that is awaiting a child's exit

osvars == <<proc, sig, unit>>
vars == <<inst, log, osvars, task, left, lock>>

\* `url` is the process whose readiness line was read; `age` is the time since
\* state_since, up to the health window.
Instance ==
    [present : BOOLEAN, state : PoolState(Pids), age : 0 .. HealthCheckWindow,
     pending : PoolEvent(Pids, HealthCheckWindow), url : Pids \cup {NoPid},
     timed_out : BOOLEAN, child : Pids \cup {NoPid}]

Fresh == [present |-> TRUE, state |-> Stopped, age |-> 0,
          pending |-> EnsureRequested, url |-> NoPid, timed_out |-> FALSE,
          child |-> NoPid]
NoInstance == [Fresh EXCEPT !.present = FALSE]

\* idle; waiting for the lock to begin, advance (loop), stop, clean up after
\* an error, shut down or take snapshots (status); asleep between two ticks.
TaskAt == {"idle", "begin", "loop", "gap", "backoff", "cleanup", "stop",
           "shutdown", "status"}
Free == [by |-> NoTask, doing |-> "none", site |-> CHOOSE s \in Sites : TRUE,
         child |-> NoPid, rest |-> {}]

ProcStates == {"gone", "live", "exited"}

TypeOK ==
    /\ inst \in [Sites -> Instance]
    /\ log \in [Sites -> SUBSET Pids]
    /\ proc \in [Pids -> ProcStates]
    /\ sig \in [Pids -> {"none", "term", "kill"}]
    /\ unit \in [Pids -> Sites]
    /\ task \in [Tasks -> [at : TaskAt, site : Sites]]
    /\ left \in [Tasks -> 0 .. MaxRequests]
    /\ lock \in [by : Tasks \cup {NoTask}, doing : {"none", "kill", "stop", "shutdown"},
                 site : Sites, child : Pids \cup {NoPid}, rest : SUBSET Sites]

Init ==
    /\ inst = [s \in Sites |-> NoInstance]
    /\ log = [s \in Sites |-> {}]
    /\ proc = [p \in Pids |-> "gone"]
    /\ sig = [p \in Pids |-> "none"]
    /\ unit = [p \in Pids |-> Free.site]
    /\ task = [t \in Tasks |-> [at |-> "idle", site |-> Free.site]]
    /\ left = [t \in Tasks |-> MaxRequests]
    /\ lock = Free

Live(p) == p \in Pids /\ proc[p] = "live"
Held(p) == lock.child = p \/ \E s \in Sites : inst[s].child = p

-----------------------------------------------------------------------------
(* The operating system and the clock.                                       *)

\* cloudflared prints its URL, or its registered connection, into the logfile.
Report(p) ==
    /\ Live(p) /\ p \notin log[unit[p]]
    /\ log' = [log EXCEPT ![unit[p]] = @ \cup {p}]
    /\ UNCHANGED <<inst, osvars, task, left, lock>>

Crash(p) ==
    /\ Live(p)
    /\ proc' = [proc EXCEPT ![p] = "exited"]
    /\ sig' = [sig EXCEPT ![p] = "none"]
    /\ UNCHANGED <<inst, log, unit, task, left, lock>>

\* SIGKILL cannot be ignored; SIGTERM can.
Die(p) ==
    /\ sig[p] = "kill" \/ (sig[p] = "term" /\ p \notin Stubborn)
    /\ Crash(p)

ClockAdvances(s) ==
    /\ inst[s].state.tag = "Starting" /\ inst[s].age < HealthCheckWindow
    /\ inst' = [inst EXCEPT ![s].age = @ + 1]
    /\ UNCHANGED <<log, osvars, task, left, lock>>

\* kill_on_drop(true): dropping the handle of a live child SIGKILLs it.
Dropped(p) == IF Live(p) THEN [sig EXCEPT ![p] = "kill"] ELSE sig

\* wait/try_wait of an exited child reaps it.
Reap(ps) == [p \in Pids |-> IF p \in ps /\ proc[p] = "exited" THEN "gone" ELSE proc[p]]

\* Mutant: the logfile is opened for appending.
SpawnAs_Append(p, s) ==
    /\ ~Live(p) /\ ~Held(p)
    /\ proc' = [proc EXCEPT ![p] = "live"]
    /\ sig' = [Dropped(inst[s].child) EXCEPT ![p] = "none"]
    /\ unit' = [unit EXCEPT ![p] = s]
    /\ log' = [r \in Sites |-> log[r] \ {p}]

\* A handle-free process id gets a new cloudflared for site s; build_cmd has
\* truncated the site's logfile.
SpawnAs(p, s) ==
    /\ ~Live(p) /\ ~Held(p)
    /\ proc' = [proc EXCEPT ![p] = "live"]
    /\ sig' = [Dropped(inst[s].child) EXCEPT ![p] = "none"]
    /\ unit' = [unit EXCEPT ![p] = s]
    /\ log' = [r \in Sites |-> IF r = s THEN {} ELSE log[r] \ {p}]

Spawned(i, p) == [i EXCEPT !.timed_out = FALSE, !.child = p,
                           !.pending = SpawnSucceeded(p)]

-----------------------------------------------------------------------------
(* Requests.                                                                 *)

GoTo(t, at) == task' = [task EXCEPT ![t].at = at]

Ask(t, at, s) ==
    /\ task[t].at = "idle" /\ left[t] > 0
    /\ task' = [task EXCEPT ![t] = [at |-> at, site |-> s]]
    /\ left' = [left EXCEPT ![t] = @ - 1]
    /\ UNCHANGED <<inst, log, osvars, lock>>

\* The mutex is free and t is waiting for it at `at`.
Locks(t, at) == lock = Free /\ task[t].at = at

\* snapshots: reaps the instances whose child has exited.
Snapshots(t) ==
    /\ Locks(t, "status")
    /\ proc' = Reap({inst[s].child : s \in Sites})
    /\ GoTo(t, "idle")
    /\ UNCHANGED <<inst, log, sig, unit, left, lock>>

InProgress(i) == i.state.tag \in {"Starting", "Stopping"}

\* A child is taken for alive unless try_wait says that it has exited; an
\* error of try_wait, possible at any time, counts as alive.
BeginRefused(t) ==
    LET i == inst[task[t].site] IN
    /\ Locks(t, "begin")
    /\ i.child # NoPid \/ InProgress(i)
    /\ GoTo(t, "status")
    /\ UNCHANGED <<inst, log, osvars, left, lock>>

\* Mutant: begin looks only at the state, and its children outlive their
\* handles.
BeginStarts_StateOnly(t) ==
    LET s == task[t].site IN
    /\ Locks(t, "begin") /\ ~InProgress(inst[s])
    /\ \E p \in Pids :
       /\ ~Live(p) /\ ~Held(p)
       /\ proc' = [proc EXCEPT ![p] = "live"]
       /\ sig' = [sig EXCEPT ![p] = "none"]
       /\ unit' = [unit EXCEPT ![p] = s]
       /\ log' = [r \in Sites |-> IF r = s THEN {} ELSE log[r] \ {p}]
       /\ inst' = [inst EXCEPT ![s] = Spawned([Fresh EXCEPT !.state = Starting(1, NoPid)], p)]
    /\ GoTo(t, "loop")
    /\ UNCHANGED <<left, lock>>

\* begin replaces an absent, failed or dead instance by a fresh one and primes
\* it with its first advance: EnsureRequested, hence the spawn.
BeginStarts(t) ==
    LET s == task[t].site
        first == transition(Stopped, EnsureRequested)
    IN
    /\ Locks(t, "begin")
    /\ ~Live(inst[s].child) /\ ~InProgress(inst[s])
    /\ \E p \in Pids :
       /\ SpawnAs(p, s)
       /\ inst' = [inst EXCEPT ![s] = Spawned([Fresh EXCEPT !.state = first.next], p)]
    /\ GoTo(t, "loop")
    /\ UNCHANGED <<left, lock>>

\* The spawn fails: the instance just inserted is removed again.
BeginFails(t) ==
    LET s == task[t].site IN
    /\ Locks(t, "begin")
    /\ ~Live(inst[s].child) /\ ~InProgress(inst[s])
    /\ proc' = Reap({inst[s].child})
    /\ log' \in {log, [log EXCEPT ![s] = {}]}
    /\ inst' = [inst EXCEPT ![s] = NoInstance]
    /\ GoTo(t, "idle")
    /\ UNCHANGED <<sig, unit, left, lock>>

-----------------------------------------------------------------------------
(* advance, one action of the state machine at a time.                       *)

Decision(s) == transition(inst[s].state, inst[s].pending)

\* The instance after the transition; state_since moves with the state.
Entered(s) ==
    [inst[s] EXCEPT !.state = Decision(s).next,
                    !.age = IF Decision(s).next # inst[s].state THEN 0 ELSE @]

Advances(t, action) ==
    LET s == task[t].site IN
    /\ Locks(t, "loop") /\ inst[s].present
    /\ Decision(s).action.do = action

Set(s, i) == inst' = [inst EXCEPT ![s] = i]

AdvanceGone(t) ==
    /\ Locks(t, "loop") /\ ~inst[task[t].site].present
    /\ GoTo(t, "status")
    /\ UNCHANGED <<inst, log, osvars, left, lock>>

\* Ready, Gone, or the error "Action::None in non-terminal state".
AdvanceNone(t) ==
    LET s == task[t].site IN
    /\ Advances(t, "None")
    /\ Set(s, Entered(s))
    /\ GoTo(t, IF Decision(s).next.tag \in {"Running", "Stopped"}
               THEN "status" ELSE "cleanup")
    /\ UNCHANGED <<log, osvars, left, lock>>

do_spawn(t) ==
    LET s == task[t].site IN
    /\ Advances(t, "Spawn")
    /\ \E p \in Pids : SpawnAs(p, s) /\ Set(s, Spawned(Entered(s), p))
    /\ UNCHANGED <<task, left, lock>>

SpawnFails(t) ==
    LET s == task[t].site IN
    /\ Advances(t, "Spawn")
    /\ Set(s, Entered(s))
    /\ log' \in {log, [log EXCEPT ![s] = {}]}
    /\ GoTo(t, "cleanup")
    /\ UNCHANGED <<osvars, left, lock>>

CheckCrashed(t) ==
    LET s == task[t].site IN
    /\ Advances(t, "HealthCheck")
    /\ inst[s].child # NoPid /\ ~Live(inst[s].child)
    /\ proc' = Reap({inst[s].child})
    /\ Set(s, [Entered(s) EXCEPT !.child = NoPid, !.pending = Crashed])
    /\ UNCHANGED <<log, sig, unit, task, left, lock>>

\* The readiness line is in the logfile.  An error of try_wait hides a crash.
CheckReady(t) ==
    LET s == task[t].site IN
    /\ Advances(t, "HealthCheck")
    /\ \E p \in log[s] :
         Set(s, [Entered(s) EXCEPT !.url = p, !.pending = HealthCheckOk])
    /\ UNCHANGED <<log, osvars, task, left, lock>>

CheckAgain(t) ==
    LET s == task[t].site IN
    /\ Advances(t, "HealthCheck") /\ log[s] = {}
    /\ Set(s, [Entered(s) EXCEPT !.pending = HealthCheckTick(inst[s].age)])
    /\ GoTo(t, "gap")
    /\ UNCHANGED <<log, osvars, left, lock>>

AdvanceBackoff(t) ==
    LET s == task[t].site IN
    /\ Advances(t, "Backoff")
    /\ Set(s, [Entered(s) EXCEPT !.pending = BackoffElapsed])
    /\ GoTo(t, "backoff")
    /\ UNCHANGED <<log, osvars, left, lock>>

\* Mutant: the error path of run_to_ready forgets to stop the instance.
AdvanceFails_Quietly(t) ==
    LET s == task[t].site IN
    /\ Advances(t, "PermanentFailure")
    /\ Set(s, Entered(s))
    /\ GoTo(t, "idle")
    /\ UNCHANGED <<log, osvars, left, lock>>

\* Permanent failure, reported as a timeout when the last attempt timed out.
AdvanceFails(t) ==
    LET s == task[t].site IN
    /\ Advances(t, "PermanentFailure")
    /\ Set(s, Entered(s))
    /\ GoTo(t, "cleanup")
    /\ UNCHANGED <<log, osvars, left, lock>>

Wake(t) ==
    /\ task[t].at \in {"gap", "backoff"}
    /\ GoTo(t, "loop")
    /\ UNCHANGED <<inst, log, osvars, left, lock>>

-----------------------------------------------------------------------------
(* Kills.  killpg fails once the child has been reaped, and may fail on one   *)
(* that has exited; the handle is then dropped.                              *)

Signalled(p) == IF Live(p) /\ sig[p] = "none" THEN [sig EXCEPT ![p] = "term"] ELSE sig

Killed(i) == [i EXCEPT !.child = NoPid, !.timed_out = TRUE, !.pending = Crashed]

do_kill(t) ==
    LET s == task[t].site
        c == inst[s].child
    IN
    /\ Advances(t, "KillTerm")
    /\ \/ /\ c = NoPid
          /\ Set(s, Killed(Entered(s)))
          /\ UNCHANGED <<sig, task, lock>>
       \/ /\ c # NoPid /\ proc[c] # "gone"
          /\ Set(s, [Entered(s) EXCEPT !.child = NoPid])
          /\ sig' = Signalled(c)
          /\ lock' = [Free EXCEPT !.by = t, !.doing = "kill", !.site = s, !.child = c]
          /\ UNCHANGED task
       \/ /\ c # NoPid /\ ~Live(c)
          /\ Set(s, [Entered(s) EXCEPT !.child = NoPid])
          /\ GoTo(t, "cleanup")
          /\ UNCHANGED <<sig, lock>>
    /\ UNCHANGED <<log, proc, unit, left>>

\* stop removes the instance before anything else.  A failed stop of a
\* request is its answer; after an error of advance the result is ignored.
stop(t) ==
    LET s == task[t].site
        c == inst[s].child
    IN
    /\ lock = Free /\ task[t].at \in {"stop", "cleanup"}
    /\ Set(s, NoInstance)
    /\ \/ /\ c = NoPid
          /\ GoTo(t, IF task[t].at = "stop" THEN "status" ELSE "idle")
          /\ UNCHANGED <<sig, lock>>
       \/ /\ c # NoPid /\ proc[c] # "gone"
          /\ sig' = Signalled(c)
          /\ lock' = [Free EXCEPT !.by = t, !.doing = "stop", !.site = s, !.child = c]
          /\ UNCHANGED task
       \/ /\ c # NoPid /\ ~Live(c)
          /\ GoTo(t, "idle")
          /\ UNCHANGED <<sig, lock>>
    /\ UNCHANGED <<log, proc, unit, left>>

\* shutdown stops the sites it found one after the other, whatever fails.
ShutdownStarts(t) ==
    /\ Locks(t, "shutdown")
    /\ lock' = [Free EXCEPT !.by = t, !.doing = "shutdown",
                            !.rest = {s \in Sites : inst[s].present}]
    /\ UNCHANGED <<inst, log, osvars, task, left>>

ShutdownNext ==
    /\ lock.doing = "shutdown" /\ lock.child = NoPid
    /\ \E s \in lock.rest :
       LET c == inst[s].child IN
       /\ Set(s, NoInstance)
       /\ sig' = Signalled(c)
       /\ lock' = [lock EXCEPT !.rest = @ \ {s}, !.site = s,
                               !.child = IF c # NoPid /\ proc[c] # "gone" THEN c ELSE NoPid]
    /\ UNCHANGED <<log, proc, unit, task, left>>

ShutdownEnds ==
    /\ lock.doing = "shutdown" /\ lock.child = NoPid /\ lock.rest = {}
    /\ GoTo(lock.by, "idle")
    /\ lock' = Free
    /\ UNCHANGED <<inst, log, osvars, left>>

\* Mutant: graceful_reap never escalates to SIGKILL.
GraceOver_Patient == FALSE /\ UNCHANGED vars

\* graceful_reap: after the grace period SIGKILL, then wait.
GraceOver ==
    /\ Live(lock.child) /\ sig[lock.child] = "term"
    /\ sig' = [sig EXCEPT ![lock.child] = "kill"]
    /\ UNCHANGED <<inst, log, proc, unit, task, left, lock>>

\* Mutant: the lock-hold ends with the signal, not with the exit.
Reaped_Early ==
    /\ lock.child # NoPid
    /\ proc' = Reap({lock.child})
    /\ inst' = IF lock.doing = "kill"
               THEN [inst EXCEPT ![lock.site] = Killed(@)] ELSE inst
    /\ task' = IF lock.doing = "stop"
               THEN [task EXCEPT ![lock.by].at = IF @ = "stop" THEN "status" ELSE "idle"]
               ELSE task
    /\ lock' = IF lock.doing = "shutdown" THEN [lock EXCEPT !.child = NoPid] ELSE Free
    /\ UNCHANGED <<log, sig, unit, left>>

Reaped ==
    /\ lock.child # NoPid /\ ~Live(lock.child)
    /\ proc' = Reap({lock.child})
    /\ inst' = IF lock.doing = "kill"
               THEN [inst EXCEPT ![lock.site] = Killed(@)] ELSE inst
    /\ task' = IF lock.doing = "stop"
               THEN [task EXCEPT ![lock.by].at = IF @ = "stop" THEN "status" ELSE "idle"]
               ELSE task
    /\ lock' = IF lock.doing = "shutdown" THEN [lock EXCEPT !.child = NoPid] ELSE Free
    /\ UNCHANGED <<log, sig, unit, left>>

-----------------------------------------------------------------------------
TaskStep(t) ==
    \/ Snapshots(t) \/ BeginRefused(t) \/ BeginStarts(t) \/ BeginFails(t)
    \/ AdvanceGone(t) \/ AdvanceNone(t) \/ do_spawn(t) \/ SpawnFails(t)
    \/ CheckCrashed(t) \/ CheckReady(t) \/ CheckAgain(t)
    \/ AdvanceBackoff(t) \/ AdvanceFails(t) \/ Wake(t)
    \/ do_kill(t) \/ stop(t) \/ ShutdownStarts(t)

HolderStep == ShutdownNext \/ ShutdownEnds \/ GraceOver \/ Reaped

Next ==
    \/ \E t \in Tasks : TaskStep(t)
    \/ HolderStep
    \/ \E t \in Tasks, s \in Sites, at \in {"begin", "stop", "shutdown", "status"} :
           Ask(t, at, s)
    \/ \E p \in Pids : Report(p) \/ Crash(p)
    \/ \E s \in Sites : ClockAdvances(s)

Spec == Init /\ [][Next]_vars

\* The runtime polls every task, sleeps end, the clock advances and the kernel
\* delivers signals.
Fairness ==
    /\ \A t \in Tasks : WF_vars(TaskStep(t))
    /\ WF_vars(HolderStep)
    /\ \A p \in Pids : WF_vars(Die(p))
    /\ \A s \in Sites : WF_vars(ClockAdvances(s))

FairSpec == Spec /\ Fairness

-----------------------------------------------------------------------------
(* Properties.                                                               *)

Undoomed(p) == Live(p) /\ sig[p] # "kill"

\* No cloudflared is leaked: a live one that has not been SIGKILLed is the
\* child of its site's instance, where a concurrent stop can reach it, or of
\* the lock-hold that is reaping it.
NoOrphan ==
    \A p \in Pids : Undoomed(p) =>
        inst[unit[p]].child = p \/ (lock.child = p /\ lock.site = unit[p])

\* begin promises that it never spawns a duplicate cloudflared: however
\* starts, stops and retries of one site interleave, at most one is alive.
OneTunnelPerSite ==
    \A p, q \in Pids : Undoomed(p) /\ Undoomed(q) /\ unit[p] = unit[q] => p = q

\* A public URL is served only while its own cloudflared runs: the URL that a
\* Running instance reports was read from the log of its current child, never
\* from the log of an earlier attempt.
UrlIsCurrent ==
    \A s \in Sites : inst[s].state.tag = "Running" =>
        inst[s].url = inst[s].state.pid /\ inst[s].child = inst[s].url

\* begin turns away a second start of a tunnel that is Starting, and nothing
\* but a task's loop ever moves an instance on: an instance that is neither
\* Running nor gone has a task that will advance it or clean it up.
SomeoneDrives ==
    \A s \in Sites : inst[s].present /\ inst[s].state.tag # "Running" =>
        \E t \in Tasks : task[t].site = s /\ task[t].at \in {"loop", "gap", "backoff", "cleanup"}

\* However starts, stops, retries and shutdowns interleave, a site's cloudflared
\* is its only one, can be stopped, is the one whose URL is reported, and is
\* driven on until it runs or is gone.
QuickTunnelIsOwned == OneTunnelPerSite /\ NoOrphan /\ UrlIsCurrent /\ SomeoneDrives

\* The cloudflared processes of a site, and the phase of its life: starting from
\* begin to readiness, over all retries, and stopping while a lock-hold that has
\* removed the instance awaits the exit of its child.
Tunnels(s) == {p \in Pids : Undoomed(p) /\ unit[p] = s}
Phase(s) ==
    IF inst[s].present /\ inst[s].state.tag # "Running" THEN "starting"
    ELSE IF inst[s].child \in Tunnels(s) THEN "up"
    ELSE IF lock.site = s /\ lock.child \in Tunnels(s) THEN "stopping"
    ELSE "down"

Supervised == INSTANCE SupervisedUnits WITH
    Units <- Sites, Procs <- Pids,
    phase <- [s \in Sites |-> Phase(s)], running <- [s \in Sites |-> Tunnels(s)]

\* However tasks take turns at one instance, a site's tunnel lives one life at a
\* time: it is spawned while the site is being started and has none, comes up
\* once it is ready, and a stop is final although others drive the instance on.
TunnelsAreSupervised == Supervised!Spec

\* Every request is answered, even by a cloudflared that ignores SIGTERM: each
\* lock-hold is bounded by the grace period, and a start ends in readiness, in
\* an error or in the disappearance of its instance.
EveryRequestAnswered == \A t \in Tasks : []<>(task[t].at = "idle")
=============================================================================
