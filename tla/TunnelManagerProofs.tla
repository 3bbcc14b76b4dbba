------------------------ MODULE TunnelManagerProofs ------------------------
(* Proofs about TunnelManager, for any number of sites, processes, tasks,    *)
(* requests and restart attempts.                                            *)
EXTENDS TunnelManager, TLAPS

\* The state, the next event and the child of an instance fit together
\* whichever task advanced it last: an instance without a child has a crash, a
\* retry or an overdue health check before it, and never a probe of the log.
Shape(i) ==
    \/ i = NoInstance
    \/ /\ i.present /\ i.state.tag = "Starting"
       /\ \/ i.child \in Pids /\ i.pending = SpawnSucceeded(i.child)
          \/ /\ i.child \in Pids /\ i.state.pid = i.child
             /\ i.pending = HealthCheckOk /\ i.url = i.child
          \/ /\ i.child \in Pids /\ i.state.pid = i.child
             /\ i.pending.name = "HealthCheckTick"
          \/ i.child = NoPid /\ i.pending \in {Crashed, BackoffElapsed}
          \/ /\ i.child = NoPid /\ i.pending.name = "HealthCheckTick"
             /\ i.pending.elapsed >= HealthCheckWindow
    \/ /\ i.present /\ i.state.tag = "Failed"
       /\ i.child = NoPid /\ i.pending = BackoffElapsed
    \/ /\ i.present /\ i.state.tag = "Running"
       /\ i.child \in Pids /\ i.state.pid = i.child /\ i.url = i.child
       /\ i.pending = HealthCheckOk

Shaped == \A s \in Sites : Shape(inst[s])

\* A handle is of a process that was spawned for the site that holds it, and
\* a child is either with its instance or with the lock-hold reaping it.
HandlesOwned ==
    /\ \A s \in Sites : inst[s].child # NoPid => unit[inst[s].child] = s
    /\ lock.child # NoPid => unit[lock.child] = lock.site /\ inst[lock.site].child = NoPid

\* Nothing lives without a handle, SIGKILLed or not: no handle of a live child
\* is ever dropped.
NoStray == \A p \in Pids : Live(p) => inst[unit[p]].child = p \/ lock.child = p

\* The logfile of a site that has a child holds no line of an earlier one.
LogCurrent == \A s \in Sites : inst[s].child # NoPid => log[s] \subseteq {inst[s].child}

\* What the task inside graceful_reap was doing when it began to wait.
Holding ==
    /\ lock.doing = "none" => lock = Free
    /\ lock.doing # "none" => lock.by \in Tasks
    /\ lock.doing \in {"kill", "stop"} => lock.child \in Pids /\ task[lock.by].site = lock.site
    /\ lock.doing = "kill" =>
         /\ task[lock.by].at = "loop"
         /\ inst[lock.site].present /\ inst[lock.site].state.tag = "Starting"
    /\ lock.doing = "stop" =>
         task[lock.by].at \in {"stop", "cleanup"} /\ inst[lock.site] = NoInstance
    /\ lock.doing = "shutdown" => task[lock.by].at = "shutdown"

IInv ==
    /\ TypeOK /\ Shaped /\ HandlesOwned /\ NoStray /\ LogCurrent /\ Holding
    /\ SomeoneDrives

-----------------------------------------------------------------------------
(* Facts about the records.                                                  *)

LEMMA EventFacts ==
    /\ {EnsureRequested, HealthCheckOk, Crashed, BackoffElapsed}
         \subseteq PoolEvent(Pids, HealthCheckWindow)
    /\ \A n \in 0 .. HealthCheckWindow : HealthCheckTick(n) \in PoolEvent(Pids, HealthCheckWindow)
    /\ \A p \in Pids : SpawnSucceeded(p) \in PoolEvent(Pids, HealthCheckWindow)
  BY PolicyAssumption
  DEF PoolEvent, EventNames, Event, EnsureRequested, HealthCheckOk, Crashed, BackoffElapsed,
      HealthCheckTick, SpawnSucceeded

LEMMA FreshFacts ==
    /\ Fresh \in Instance /\ Fresh.present /\ Fresh.child = NoPid
    /\ NoInstance \in Instance /\ ~NoInstance.present /\ NoInstance.child = NoPid
    /\ NoInstance.state = Stopped /\ Stopped.tag = "Stopped"
    /\ Stopped \in PoolState(Pids)
<1>1. Stopped \in PoolState(Pids) /\ Stopped.tag = "Stopped"
  BY PolicyAssumption DEF PoolState, Stopped, State, Tags
<1>2. EnsureRequested \in PoolEvent(Pids, HealthCheckWindow)
  BY EventFacts, Zenon
<1>3. 0 \in 0 .. HealthCheckWindow
  BY PolicyAssumption
<1> QED
  BY <1>1, <1>2, <1>3, Zenon DEF Fresh, NoInstance, Instance

LEMMA FreeFacts ==
    /\ Free.by = NoTask /\ Free.doing = "none" /\ Free.site \in Sites
    /\ Free.child = NoPid /\ Free.rest = {}
  BY TunnelAssumption, Zenon DEF Free

LEMMA InstanceFields ==
    ASSUME NEW i \in Instance
    PROVE  /\ i.present \in BOOLEAN /\ i.state \in PoolState(Pids)
           /\ i.age \in 0 .. HealthCheckWindow
           /\ i.pending \in PoolEvent(Pids, HealthCheckWindow)
           /\ i.url \in Pids \cup {NoPid} /\ i.timed_out \in BOOLEAN
           /\ i.child \in Pids \cup {NoPid}
  BY Zenon DEF Instance

-----------------------------------------------------------------------------
(* What the state machine answers to the events an instance can have next.   *)

LEMMA Decisions ==
    ASSUME TypeOK, NEW s \in Sites, Shape(inst[s]), inst[s].present,
           NEW i, i = inst[s], NEW D, D = Decision(s)
    PROVE  /\ D.next \in PoolState(Pids)
           /\ D.action.do = "None" =>
                \/ /\ D.next.tag = "Running" /\ i.child \in Pids /\ D.next.pid = i.child
                   /\ i.url = i.child /\ i.pending = HealthCheckOk
                \/ /\ D.next.tag = "Starting" /\ i.child = NoPid
                   /\ i.pending = BackoffElapsed
           /\ D.action.do = "Spawn" => D.next.tag = "Starting" /\ i.child = NoPid
                                         /\ i.pending = BackoffElapsed
           /\ D.action.do = "HealthCheck" =>
                D.next.tag = "Starting" /\ i.child \in Pids /\ D.next.pid = i.child
           /\ D.action.do = "Backoff" => D.next.tag = "Failed" /\ i.child = NoPid
           /\ D.action.do = "KillTerm" =>
                /\ D.next.tag = "Starting" /\ i.pending.name = "HealthCheckTick"
                /\ i.pending.elapsed >= HealthCheckWindow
           /\ D.action.do = "PermanentFailure" =>
                D.next.tag = "Failed" /\ i.child = NoPid /\ i.pending = BackoffElapsed
<1> USE PolicyAssumption, TunnelAssumption DEF State, Event
<1>t. /\ i.state \in PoolState(Pids) /\ i.child \in Pids \cup {NoPid}
      /\ i.pending \in PoolEvent(Pids, HealthCheckWindow)
  BY Zenon DEF TypeOK, Instance
<1>1. CASE /\ i.state.tag = "Starting" /\ i.child \in Pids
           /\ i.pending = SpawnSucceeded(i.child)
  <2>1. D = To(Starting(i.state.attempts, i.child), HealthCheck)
    BY <1>1 DEF Decision, transition, SpawnSucceeded
  <2> QED
    BY <1>1, <1>t, <2>1 DEF PoolState, Tags, Act, To, Starting, HealthCheck
<1>2. CASE /\ i.state.tag = "Starting" /\ i.child \in Pids /\ i.state.pid = i.child
           /\ i.pending = HealthCheckOk /\ i.url = i.child
  <2>1. D = To(Running(i.child), None)
    BY <1>2 DEF Decision, transition, HealthCheckOk
  <2> QED
    BY <1>2, <1>t, <2>1 DEF PoolState, Tags, Act, To, Running, None
<1>3. CASE /\ i.state.tag = "Starting" /\ i.child \in Pids /\ i.state.pid = i.child
           /\ i.pending.name = "HealthCheckTick"
  <2>1. D = To(i.state, IF i.pending.elapsed < HealthCheckWindow THEN HealthCheck ELSE KillTerm)
    BY <1>3, Zenon DEF Decision, transition
  <2>2. i.pending.elapsed \in Int
    BY <1>t DEF PoolEvent
  <2> QED
    BY <1>3, <1>t, <2>1, <2>2 DEF PoolState, Act, To, HealthCheck, KillTerm
<1>4. CASE i.state.tag = "Starting" /\ i.child = NoPid /\ i.pending = Crashed
  <2>1. D = To(Failed(i.state.attempts), Backoff(backoff_for(i.state.attempts)))
    BY <1>4 DEF Decision, transition, Crashed
  <2> QED
    BY <1>4, <1>t, <2>1 DEF PoolState, Tags, Act, To, Failed, Backoff
<1>5. CASE i.state.tag = "Starting" /\ i.child = NoPid /\ i.pending = BackoffElapsed
  <2>1. D = To(i.state, None)
    BY <1>5 DEF Decision, transition, BackoffElapsed
  <2> QED
    BY <1>5, <1>t, <2>1 DEF Act, To, None
<1>6. CASE /\ i.state.tag = "Starting" /\ i.child = NoPid
           /\ i.pending.name = "HealthCheckTick" /\ i.pending.elapsed >= HealthCheckWindow
  <2>1. D = To(i.state, IF i.pending.elapsed < HealthCheckWindow THEN HealthCheck ELSE KillTerm)
    BY <1>6, Zenon DEF Decision, transition
  <2>2. i.pending.elapsed \in Int
    BY <1>t DEF PoolEvent
  <2> QED
    BY <1>6, <1>t, <2>1, <2>2 DEF PoolState, Act, To, HealthCheck, KillTerm
<1>7. CASE i.state.tag = "Failed" /\ i.child = NoPid /\ i.pending = BackoffElapsed
  <2>1. D = Retry(i.state.attempts)
    BY <1>7 DEF Decision, transition, BackoffElapsed
  <2> QED
    BY <1>7, <1>t, <2>1
    DEF PoolState, Tags, Act, To, Retry, Starting, Failed, Spawn, PermanentFailure
<1>8. CASE /\ i.state.tag = "Running" /\ i.child \in Pids /\ i.state.pid = i.child
           /\ i.url = i.child /\ i.pending = HealthCheckOk
  <2>1. D = To(i.state, None)
    BY <1>8 DEF Decision, transition, HealthCheckOk
  <2> QED
    BY <1>8, <1>t, <2>1 DEF Act, To, None
<1> QED
  BY <1>1, <1>2, <1>3, <1>4, <1>5, <1>6, <1>7, <1>8, FreshFacts, Zenon DEF Shape

\* The same, of an instance by its site.
LEMMA DecisionFacts ==
    ASSUME TypeOK, NEW s \in Sites, Shape(inst[s]), inst[s].present
    PROVE  /\ Decision(s).next \in PoolState(Pids)
           /\ Decision(s).action.do = "None" =>
                \/ /\ Decision(s).next.tag = "Running" /\ inst[s].child \in Pids /\ Decision(s).next.pid = inst[s].child
                   /\ inst[s].url = inst[s].child /\ inst[s].pending = HealthCheckOk
                \/ /\ Decision(s).next.tag = "Starting" /\ inst[s].child = NoPid
                   /\ inst[s].pending = BackoffElapsed
           /\ Decision(s).action.do = "Spawn" => Decision(s).next.tag = "Starting" /\ inst[s].child = NoPid
                                         /\ inst[s].pending = BackoffElapsed
           /\ Decision(s).action.do = "HealthCheck" =>
                Decision(s).next.tag = "Starting" /\ inst[s].child \in Pids /\ Decision(s).next.pid = inst[s].child
           /\ Decision(s).action.do = "Backoff" => Decision(s).next.tag = "Failed" /\ inst[s].child = NoPid
           /\ Decision(s).action.do = "KillTerm" =>
                /\ Decision(s).next.tag = "Starting" /\ inst[s].pending.name = "HealthCheckTick"
                /\ inst[s].pending.elapsed >= HealthCheckWindow
           /\ Decision(s).action.do = "PermanentFailure" =>
                Decision(s).next.tag = "Failed" /\ inst[s].child = NoPid /\ inst[s].pending = BackoffElapsed
  BY Decisions

LEMMA EnteredFacts ==
    ASSUME TypeOK, NEW s \in Sites, Shape(inst[s]), inst[s].present,
           NEW e, e = Entered(s)
    PROVE  /\ e \in Instance /\ e.present /\ e.state = Decision(s).next
           /\ e.pending = inst[s].pending /\ e.url = inst[s].url /\ e.child = inst[s].child
<1>1. Decision(s).next \in PoolState(Pids)
  BY Decisions, Zenon
<1>2. inst[s] \in Instance /\ 0 \in 0 .. HealthCheckWindow
  BY PolicyAssumption DEF TypeOK
<1> QED
  BY <1>1, <1>2, Zenon DEF Entered, Instance

-----------------------------------------------------------------------------
(* What keeps the handles in order.                                          *)

\* A step that spawns nothing: at most one site gives up its child, to the
\* lock-hold or because it is dead, or the lock-hold gives up a dead one.
LEMMA HandlesKept ==
    ASSUME TypeOK, HandlesOwned, NoStray, LogCurrent, NEW s \in Sites,
           unit' = unit,
           inst' \in [Sites -> Instance],
           \A r \in Sites \ {s} : inst'[r].child = inst[r].child,
           inst'[s].child \in {inst[s].child, NoPid},
           \A p \in Pids : proc'[p] = "live" => proc[p] = "live",
           \A r \in Sites : log'[r] \subseteq log[r],
           \/ lock'.child = lock.child /\ (lock.child # NoPid => lock'.site = lock.site)
           \/ lock'.child = NoPid /\ ~Live(lock.child)
           \/ /\ lock.child = NoPid /\ lock'.child = inst[s].child /\ lock'.site = s
              /\ inst'[s].child = NoPid,
           \/ inst'[s].child = inst[s].child \/ ~Live(inst[s].child)
           \/ lock'.child = inst[s].child
    PROVE  HandlesOwned' /\ NoStray' /\ LogCurrent'
<1> USE TunnelAssumption
<1>t. unit \in [Pids -> Sites]
  BY Zenon DEF TypeOK
<1>1. \A r \in Sites : inst'[r].child # NoPid => inst'[r].child = inst[r].child
  BY Zenon
<1>2. HandlesOwned'
  <2>1. \A r \in Sites : inst'[r].child # NoPid => unit[inst'[r].child] = r
    BY <1>1 DEF HandlesOwned
  <2>2. ASSUME lock'.child # NoPid
        PROVE  unit[lock'.child] = lock'.site /\ inst'[lock'.site].child = NoPid
    <3>1. CASE lock'.child = lock.child /\ lock'.site = lock.site
      <4>1. lock.site \in Sites /\ inst[lock.site].child = NoPid
        BY <2>2, <3>1, Zenon DEF TypeOK, HandlesOwned
      <4> QED
        BY <2>2, <3>1, <4>1, <1>1, Zenon DEF HandlesOwned
    <3>2. CASE /\ lock'.child = inst[s].child /\ lock'.site = s
               /\ inst'[s].child = NoPid
      BY <2>2, <3>2, Zenon DEF HandlesOwned
    <3> QED
      BY <2>2, <3>1, <3>2, Zenon
  <2> QED
    BY <2>1, <2>2, Zenon DEF HandlesOwned
<1>3. NoStray'
  <2> SUFFICES ASSUME NEW p \in Pids, proc'[p] = "live"
               PROVE  inst'[unit[p]].child = p \/ lock'.child = p
    BY Zenon DEF NoStray, Live
  <2>1. Live(p)
    BY Zenon DEF Live
  <2>2. CASE inst[unit[p]].child = p
    BY <2>1, <2>2, <1>t
  <2>3. CASE lock.child = p
    BY <2>1, <2>3, <1>t, Zenon DEF HandlesOwned
  <2> QED
    BY <2>1, <2>2, <2>3, Zenon DEF NoStray
<1>4. LogCurrent'
  BY <1>1, Zenon DEF LogCurrent
<1> QED
  BY <1>2, <1>3, <1>4, Zenon

\* A spawn for a site without a live child, while nothing is being reaped.
LEMMA HandlesSpawned ==
    ASSUME TypeOK, HandlesOwned, NoStray, LogCurrent, NEW s \in Sites, NEW p \in Pids,
           lock.child = NoPid, lock' = lock, ~Live(inst[s].child), SpawnAs(p, s),
           inst' \in [Sites -> Instance],
           \A r \in Sites \ {s} : inst'[r].child = inst[r].child,
           inst'[s].child = p
    PROVE  /\ HandlesOwned' /\ NoStray' /\ LogCurrent'
           /\ proc' \in [Pids -> ProcStates] /\ unit' \in [Pids -> Sites]
           /\ sig' \in [Pids -> {"none", "term", "kill"}]
           /\ log' \in [Sites -> SUBSET Pids]
<1> USE TunnelAssumption
<1>t. /\ unit \in [Pids -> Sites] /\ proc \in [Pids -> ProcStates]
      /\ log \in [Sites -> SUBSET Pids] /\ sig \in [Pids -> {"none", "term", "kill"}]
      /\ inst \in [Sites -> Instance]
  BY Zenon DEF TypeOK
<1>1. /\ unit' = [unit EXCEPT ![p] = s] /\ proc' = [proc EXCEPT ![p] = "live"]
      /\ log' = [r \in Sites |-> IF r = s THEN {} ELSE log[r] \ {p}]
      /\ \A r \in Sites : inst[r].child # p
  BY Zenon DEF SpawnAs, Held
<1>2. sig' = [sig EXCEPT ![p] = "none"]
  BY Zenon DEF SpawnAs, Dropped
<1>3. /\ proc' \in [Pids -> ProcStates] /\ unit' \in [Pids -> Sites]
      /\ sig' \in [Pids -> {"none", "term", "kill"}]
      /\ log' \in [Sites -> SUBSET Pids]
  BY <1>t, <1>1, <1>2, Zenon DEF ProcStates
<1>4. HandlesOwned'
  <2>1. ASSUME NEW r \in Sites, inst'[r].child # NoPid PROVE unit'[inst'[r].child] = r
    <3>1. CASE r = s
      BY <3>1, <1>1, <1>t, Zenon
    <3>2. CASE r # s
      <4>1. inst'[r].child = inst[r].child /\ inst[r].child \in Pids \cup {NoPid}
        BY <3>2, <1>t, InstanceFields, Zenon
      <4> QED
        BY <4>1, <2>1, <1>1, <1>t, Zenon DEF HandlesOwned
    <3> QED
      BY <3>1, <3>2, Zenon
  <2> QED
    BY <2>1, Zenon DEF HandlesOwned
<1>5. NoStray'
  <2> SUFFICES ASSUME NEW q \in Pids, proc'[q] = "live"
               PROVE  inst'[unit'[q]].child = q
    BY Zenon DEF NoStray, Live
  <2>1. CASE q = p
    BY <2>1, <1>1, <1>t, Zenon
  <2>2. CASE q # p
    <3>1. Live(q) /\ unit'[q] = unit[q] /\ unit[q] \in Sites
      BY <2>2, <1>1, <1>t, Zenon DEF Live
    <3>2. inst[unit[q]].child = q
      BY <3>1, Zenon DEF NoStray
    <3> QED
      BY <3>1, <3>2, Zenon
  <2> QED
    BY <2>1, <2>2, Zenon
<1>6. LogCurrent'
  BY <1>1, <1>t, Zenon DEF LogCurrent
<1> QED
  BY <1>3, <1>4, <1>5, <1>6, Zenon

-----------------------------------------------------------------------------
(* What keeps every unfinished instance driven.                              *)

Driving(at) == at \in {"loop", "gap", "backoff", "cleanup"}

\* A step of t on its own site, after which t still drives or nothing is left
\* to drive.
LEMMA DrivesOn ==
    ASSUME SomeoneDrives, NEW t \in Tasks, NEW s \in Sites,
           task[t].site = s, task'[t].site = s,
           \A u \in Tasks \ {t} : task'[u] = task[u],
           \A r \in Sites \ {s} : inst'[r] = inst[r],
           \/ Driving(task'[t].at) \/ ~inst'[s].present \/ inst'[s].state.tag = "Running"
    PROVE  SomeoneDrives'
<1> SUFFICES ASSUME NEW r \in Sites, inst'[r].present, inst'[r].state.tag # "Running"
             PROVE  \E u \in Tasks : task'[u].site = r /\ Driving(task'[u].at)
  BY DEF SomeoneDrives, Driving
<1>1. CASE r = s
  BY <1>1, Zenon
<1>2. CASE r # s
  <2>1. PICK u \in Tasks : task[u].site = r /\ Driving(task[u].at)
    BY <1>2 DEF SomeoneDrives, Driving
  <2> QED
    BY <2>1, <1>2, Zenon
<1> QED
  BY <1>1, <1>2, Zenon

\* A step that takes no task out of its loop.
LEMMA DrivesStill ==
    ASSUME SomeoneDrives,
           \A u \in Tasks : Driving(task[u].at) =>
               task'[u].site = task[u].site /\ Driving(task'[u].at),
           \A r \in Sites : inst'[r].present /\ inst'[r].state.tag # "Running" =>
               inst[r].present /\ inst[r].state.tag # "Running"
    PROVE  SomeoneDrives'
<1> SUFFICES ASSUME NEW r \in Sites, inst'[r].present, inst'[r].state.tag # "Running"
             PROVE  \E u \in Tasks : task'[u].site = r /\ Driving(task'[u].at)
  BY Zenon DEF SomeoneDrives, Driving
<1>1. PICK u \in Tasks : task[u].site = r /\ Driving(task[u].at)
  BY Zenon DEF SomeoneDrives, Driving
<1> QED
  BY <1>1, Zenon

-----------------------------------------------------------------------------
(* The steps, by what they do to the instance of their site.                 *)

LEMMA GoToFacts ==
    ASSUME TypeOK, NEW t \in Tasks, NEW at \in TaskAt, GoTo(t, at)
    PROVE  /\ task' \in [Tasks -> [at : TaskAt, site : Sites]]
           /\ task'[t].at = at /\ task'[t].site = task[t].site
           /\ \A u \in Tasks \ {t} : task'[u] = task[u]
  BY DEF TypeOK, GoTo

\* With the mutex free, t moves the instance of its site on, keeping its child
\* or dropping the handle of a dead one.
LEMMA MovesOn ==
    ASSUME IInv, NEW t \in Tasks, NEW s \in Sites, task[t].site = s, NEW i \in Instance,
           Shape(i), inst' = [inst EXCEPT ![s] = i],
           i.child \in {inst[s].child, NoPid},
           i.child = inst[s].child \/ ~Live(inst[s].child),
           proc' \in [Pids -> ProcStates],
           \A p \in Pids : proc'[p] = "live" => proc[p] = "live",
           log' \in [Sites -> SUBSET Pids], \A r \in Sites : log'[r] \subseteq log[r],
           task' \in [Tasks -> [at : TaskAt, site : Sites]], task'[t].site = s,
           \A u \in Tasks \ {t} : task'[u] = task[u],
           Driving(task'[t].at) \/ ~i.present \/ i.state.tag = "Running",
           lock = Free, UNCHANGED <<sig, unit, left, lock>>
    PROVE  IInv'
<1>i. /\ inst \in [Sites -> Instance] /\ inst' \in [Sites -> Instance]
      /\ inst'[s] = i /\ \A r \in Sites \ {s} : inst'[r] = inst[r]
  BY Zenon DEF IInv, TypeOK
<1>1. TypeOK'
  BY <1>i, Zenon DEF IInv, TypeOK
<1>2. Shaped'
  BY <1>i, Zenon DEF IInv, Shaped
<1>3. HandlesOwned' /\ NoStray' /\ LogCurrent'
  BY <1>i, HandlesKept DEF IInv
<1>4. Holding'
  BY FreeFacts, Zenon DEF IInv, Holding
<1>5. SomeoneDrives'
  BY <1>i, DrivesOn, Zenon DEF IInv
<1> QED
  BY <1>1, <1>2, <1>3, <1>4, <1>5, Zenon DEF IInv

\* With the mutex free, t starts a child for its site, which has no live one.
LEMMA Spawns ==
    ASSUME IInv, NEW t \in Tasks, NEW s \in Sites, task[t].site = s, NEW i \in Instance,
           NEW p \in Pids, Shape(i), inst' = [inst EXCEPT ![s] = i], i.child = p,
           SpawnAs(p, s), ~Live(inst[s].child),
           task' \in [Tasks -> [at : TaskAt, site : Sites]], task'[t].site = s,
           \A u \in Tasks \ {t} : task'[u] = task[u], Driving(task'[t].at),
           lock = Free, UNCHANGED <<left, lock>>
    PROVE  IInv'
<1>i. /\ inst \in [Sites -> Instance] /\ inst' \in [Sites -> Instance]
      /\ inst'[s] = i /\ \A r \in Sites \ {s} : inst'[r] = inst[r]
  BY Zenon DEF IInv, TypeOK
<1>f. lock.child = NoPid
  BY FreeFacts, Zenon
<1>3. /\ HandlesOwned' /\ NoStray' /\ LogCurrent'
      /\ proc' \in [Pids -> ProcStates] /\ unit' \in [Pids -> Sites]
      /\ sig' \in [Pids -> {"none", "term", "kill"}]
      /\ log' \in [Sites -> SUBSET Pids]
  BY <1>i, <1>f, HandlesSpawned, Zenon DEF IInv
<1>1. TypeOK'
  BY <1>i, <1>3, Zenon DEF IInv, TypeOK
<1>2. Shaped'
  BY <1>i, Zenon DEF IInv, Shaped
<1>4. Holding'
  BY FreeFacts, Zenon DEF IInv, Holding
<1>5. SomeoneDrives'
  BY <1>i, DrivesOn, Zenon DEF IInv
<1> QED
  BY <1>1, <1>2, <1>3, <1>4, <1>5, Zenon DEF IInv

\* With the mutex free, t takes the child out of its site's instance and
\* keeps the mutex until it has reaped it.
LEMMA BeginsToReap ==
    ASSUME IInv, NEW t \in Tasks, NEW s \in Sites, task[t].site = s, NEW i \in Instance,
           Shape(i), inst' = [inst EXCEPT ![s] = i],
           inst[s].child \in Pids, i.child = NoPid,
           NEW d \in {"kill", "stop"},
           lock' = [Free EXCEPT !.by = t, !.doing = d, !.site = s, !.child = inst[s].child],
           d = "kill" => i.present /\ i.state.tag = "Starting" /\ task[t].at = "loop",
           d = "stop" => i = NoInstance /\ task[t].at \in {"stop", "cleanup"},
           sig' \in [Pids -> {"none", "term", "kill"}],
           lock = Free, UNCHANGED <<log, proc, unit, task, left>>
    PROVE  IInv'
<1>i. /\ inst \in [Sites -> Instance] /\ inst' \in [Sites -> Instance]
      /\ inst'[s] = i /\ \A r \in Sites \ {s} : inst'[r] = inst[r]
  BY Zenon DEF IInv, TypeOK
<1>l. /\ lock'.by = t /\ lock'.doing = d /\ lock'.site = s /\ lock'.child = inst[s].child
      /\ lock'.rest = {}
  BY Zenon DEF Free
<1>f. lock.child = NoPid
  BY FreeFacts, Zenon
<1>1. TypeOK'
  <2>1. lock' \in [by : Tasks \cup {NoTask}, doing : {"none", "kill", "stop", "shutdown"},
                   site : Sites, child : Pids \cup {NoPid}, rest : SUBSET Sites]
    BY Zenon DEF Free
  <2> QED
    BY <1>i, <2>1, Zenon DEF IInv, TypeOK
<1>2. Shaped'
  BY <1>i, Zenon DEF IInv, Shaped
<1>3. HandlesOwned' /\ NoStray' /\ LogCurrent'
  BY <1>i, <1>l, <1>f, HandlesKept, Zenon DEF IInv
<1>4. Holding'
  BY <1>i, <1>l, Zenon DEF Holding
<1>5. SomeoneDrives'
  <2>1. CASE d = "kill"
    BY <2>1, <1>i, DrivesOn, Zenon DEF IInv, Driving
  <2>2. CASE d = "stop"
    BY <2>2, <1>i, FreshFacts, DrivesOn DEF IInv
  <2> QED
    BY <2>1, <2>2, Zenon
<1> QED
  BY <1>1, <1>2, <1>3, <1>4, <1>5, Zenon DEF IInv

-----------------------------------------------------------------------------
(* The actions.                                                              *)

LEMMA InitHolds == Init => IInv
<1> SUFFICES ASSUME Init PROVE IInv
  BY Zenon
<1> USE FreshFacts, FreeFacts, TunnelAssumption
<1>i. /\ inst \in [Sites -> Instance]
      /\ \A s \in Sites : inst[s] = NoInstance
  BY Zenon DEF Init
<1>p. /\ proc \in [Pids -> ProcStates] /\ \A p \in Pids : proc[p] = "gone"
      /\ log \in [Sites -> SUBSET Pids] /\ unit \in [Pids -> Sites]
      /\ sig \in [Pids -> {"none", "term", "kill"}]
      /\ task \in [Tasks -> [at : TaskAt, site : Sites]]
      /\ left \in [Tasks -> 0 .. MaxRequests] /\ lock = Free
  BY DEF Init, ProcStates, TaskAt
<1>l. lock \in [by : Tasks \cup {NoTask}, doing : {"none", "kill", "stop", "shutdown"},
                site : Sites, child : Pids \cup {NoPid}, rest : SUBSET Sites]
  BY <1>p, Zenon DEF Free
<1>1. TypeOK
  BY <1>i, <1>p, <1>l, Zenon DEF TypeOK
<1>2. Shaped
  BY <1>i, Zenon DEF Shaped, Shape
<1>3. HandlesOwned
  BY <1>i, <1>p, Zenon DEF HandlesOwned
<1>4. NoStray
  BY <1>p, Zenon DEF NoStray, Live
<1>5. LogCurrent
  BY <1>i, Zenon DEF LogCurrent
<1>6. Holding
  BY <1>p, Zenon DEF Holding
<1>7. SomeoneDrives
  BY <1>i, Zenon DEF SomeoneDrives
<1> QED
  BY <1>1, <1>2, <1>3, <1>4, <1>5, <1>6, <1>7, Zenon DEF IInv

\* The mutex is free for every action of a task that takes it, and the site of
\* a task has an instance of one of the shapes.
LEMMA SiteFacts ==
    ASSUME IInv, NEW t \in Tasks, NEW s, s = task[t].site
    PROVE  /\ s \in Sites /\ inst[s] \in Instance /\ Shape(inst[s])
           /\ task[t].at \in TaskAt
           /\ task \in [Tasks -> [at : TaskAt, site : Sites]]
           /\ proc \in [Pids -> ProcStates] /\ log \in [Sites -> SUBSET Pids]
           /\ sig \in [Pids -> {"none", "term", "kill"}]
           /\ TypeOK /\ Shaped
  BY Zenon DEF IInv, TypeOK, Shaped

LEMMA ReapFacts ==
    ASSUME TypeOK, NEW ps, proc' = Reap(ps)
    PROVE  /\ proc' \in [Pids -> ProcStates]
           /\ \A p \in Pids : proc'[p] = "live" => proc[p] = "live"
  BY Zenon DEF TypeOK, Reap, ProcStates

\* build_cmd truncates the logfile, or fails before it.
LEMMA LogFacts ==
    ASSUME TypeOK, NEW s \in Sites, log' \in {log, [log EXCEPT ![s] = {}]}
    PROVE  log' \in [Sites -> SUBSET Pids] /\ \A r \in Sites : log'[r] \subseteq log[r]
  BY Zenon DEF TypeOK

LEMMA BeginStartsStep ==
    ASSUME IInv, NEW t \in Tasks, BeginStarts(t) PROVE IInv'
<1> DEFINE s == task[t].site
           first == transition(Stopped, EnsureRequested)
<1>s. /\ s \in Sites /\ inst[s] \in Instance /\ Shape(inst[s]) /\ TypeOK
  BY SiteFacts, Zenon
<1>p. PICK p \in Pids : /\ SpawnAs(p, s)
                        /\ inst' = [inst EXCEPT ![s] = Spawned([Fresh EXCEPT !.state = first.next], p)]
  BY Zenon DEF BeginStarts
<1> DEFINE i == Spawned([Fresh EXCEPT !.state = first.next], p)
<1>1. first.next = Starting(1, NoPid)
  BY Zenon DEF transition, Stopped, EnsureRequested, State, Event, To
<1>2. Starting(1, NoPid) \in PoolState(Pids) /\ Starting(1, NoPid).tag = "Starting"
  BY PolicyAssumption DEF PoolState, Starting, State, Tags
<1>3. /\ i \in Instance /\ i.present /\ i.state.tag = "Starting"
      /\ i.child = p /\ i.pending = SpawnSucceeded(p)
  <2>1. SpawnSucceeded(p) \in PoolEvent(Pids, HealthCheckWindow)
    BY EventFacts, Zenon
  <2>2. Fresh \in Instance /\ Fresh.present
    BY FreshFacts, Zenon
  <2> QED
    BY <1>1, <1>2, <2>1, <2>2, Zenon DEF Spawned, Instance
<1>4. Shape(i)
  BY <1>3, Zenon DEF Shape
<1>5. /\ task' \in [Tasks -> [at : TaskAt, site : Sites]]
      /\ task'[t].at = "loop" /\ task'[t].site = s
      /\ \A u \in Tasks \ {t} : task'[u] = task[u]
  BY <1>s, GoToFacts, Zenon DEF BeginStarts, TaskAt
<1>6. ~Live(inst[s].child) /\ lock = Free /\ UNCHANGED <<left, lock>>
  BY Zenon DEF BeginStarts, Locks
<1> HIDE DEF i, s
<1> QED
  BY <1>s, <1>p, <1>3, <1>4, <1>5, <1>6, Spawns, Zenon DEF Driving, i, s

LEMMA BeginFailsStep ==
    ASSUME IInv, NEW t \in Tasks, BeginFails(t) PROVE IInv'
<1> DEFINE s == task[t].site
<1>s. /\ s \in Sites /\ inst[s] \in Instance /\ Shape(inst[s]) /\ TypeOK
  BY SiteFacts, Zenon
<1>1. /\ lock = Free /\ ~Live(inst[s].child) /\ inst' = [inst EXCEPT ![s] = NoInstance]
      /\ UNCHANGED <<sig, unit, left, lock>>
  BY Zenon DEF BeginFails, Locks
<1>2. /\ proc' \in [Pids -> ProcStates]
      /\ \A p \in Pids : proc'[p] = "live" => proc[p] = "live"
  BY <1>s, ReapFacts, Zenon DEF BeginFails
<1>3. log' \in [Sites -> SUBSET Pids] /\ \A r \in Sites : log'[r] \subseteq log[r]
  BY <1>s, LogFacts, Zenon DEF BeginFails
<1>5. /\ task' \in [Tasks -> [at : TaskAt, site : Sites]] /\ task'[t].site = s
      /\ \A u \in Tasks \ {t} : task'[u] = task[u]
  BY <1>s, GoToFacts, Zenon DEF BeginFails, TaskAt
<1>6. Shape(NoInstance)
  BY Zenon DEF Shape
<1> HIDE DEF s
<1> QED
  BY <1>s, <1>1, <1>2, <1>3, <1>5, <1>6, FreshFacts, MovesOn, Zenon DEF s

\* What `advance` finds and computes before it acts.
LEMMA AdvanceFacts ==
    ASSUME IInv, NEW t \in Tasks, NEW do, Advances(t, do), NEW s, s = task[t].site,
           NEW e, e = Entered(s), NEW D, D = Decision(s)
    PROVE  /\ s \in Sites /\ inst[s] \in Instance /\ Shape(inst[s]) /\ TypeOK
           /\ inst[s].present /\ lock = Free /\ task[t].at = "loop" /\ D.action.do = do
           /\ e \in Instance /\ e.present /\ e.state = D.next
           /\ e.pending = inst[s].pending /\ e.url = inst[s].url /\ e.child = inst[s].child
           /\ task \in [Tasks -> [at : TaskAt, site : Sites]]
<1>1. /\ s \in Sites /\ inst[s] \in Instance /\ Shape(inst[s]) /\ TypeOK
      /\ task \in [Tasks -> [at : TaskAt, site : Sites]]
  BY SiteFacts, Zenon
<1>2. inst[s].present /\ lock = Free /\ task[t].at = "loop" /\ D.action.do = do
  BY Zenon DEF Advances, Locks
<1>3. /\ e \in Instance /\ e.present /\ e.state = D.next
      /\ e.pending = inst[s].pending /\ e.url = inst[s].url /\ e.child = inst[s].child
  BY <1>1, <1>2, EnteredFacts, Zenon
<1> QED
  BY <1>1, <1>2, <1>3, Zenon

LEMMA AdvanceNoneStep ==
    ASSUME IInv, NEW t \in Tasks, AdvanceNone(t) PROVE IInv'
<1> DEFINE s == task[t].site
           e == Entered(s)
           D == Decision(s)
<1>a. Advances(t, "None")
  BY Zenon DEF AdvanceNone
<1>s. /\ s \in Sites /\ inst[s] \in Instance /\ Shape(inst[s]) /\ TypeOK
      /\ inst[s].present /\ lock = Free /\ task[t].at = "loop" /\ D.action.do = "None"
      /\ e \in Instance /\ e.present /\ e.state = D.next
      /\ e.pending = inst[s].pending /\ e.url = inst[s].url /\ e.child = inst[s].child
      /\ task \in [Tasks -> [at : TaskAt, site : Sites]]
  BY <1>a, AdvanceFacts, Zenon
<1>d. \/ /\ D.next.tag = "Running" /\ inst[s].child \in Pids /\ D.next.pid = inst[s].child
         /\ inst[s].url = inst[s].child /\ inst[s].pending = HealthCheckOk
      \/ /\ D.next.tag = "Starting" /\ inst[s].child = NoPid
         /\ inst[s].pending = BackoffElapsed
  BY <1>s, DecisionFacts, Zenon
<1>1. /\ inst' = [inst EXCEPT ![s] = e]
      /\ UNCHANGED <<log, proc, sig, unit, left, lock>>
  BY Zenon DEF AdvanceNone, Set, osvars
<1>2. Shape(e)
  BY <1>s, <1>d, Zenon DEF Shape
<1>3. /\ task' \in [Tasks -> [at : TaskAt, site : Sites]] /\ task'[t].site = s
      /\ \A u \in Tasks \ {t} : task'[u] = task[u]
      /\ D.next.tag # "Running" => Driving(task'[t].at)
  <2>1. CASE D.next.tag = "Running"
    <3>1. GoTo(t, "status")
      BY <2>1, Zenon DEF AdvanceNone
    <3> QED
      BY <2>1, <3>1, <1>s, GoToFacts, Zenon DEF TaskAt
  <2>2. CASE D.next.tag = "Starting"
    <3>1. GoTo(t, "cleanup")
      BY <2>2, Zenon DEF AdvanceNone
    <3> QED
      BY <2>2, <3>1, <1>s, GoToFacts, Zenon DEF TaskAt, Driving
  <2> QED
    BY <1>d, <2>1, <2>2, Zenon
<1>4. /\ proc \in [Pids -> ProcStates] /\ log \in [Sites -> SUBSET Pids]
  BY <1>s, Zenon DEF TypeOK
<1> HIDE DEF s, e, D
<1> QED
  BY <1>s, <1>1, <1>2, <1>3, <1>4, MovesOn, Zenon DEF s

LEMMA SpawnFailsStep ==
    ASSUME IInv, NEW t \in Tasks, SpawnFails(t) PROVE IInv'
<1> DEFINE s == task[t].site
           e == Entered(s)
           D == Decision(s)
<1>a. Advances(t, "Spawn")
  BY Zenon DEF SpawnFails
<1>s. /\ s \in Sites /\ inst[s] \in Instance /\ Shape(inst[s]) /\ TypeOK
      /\ inst[s].present /\ lock = Free /\ task[t].at = "loop" /\ D.action.do = "Spawn"
      /\ e \in Instance /\ e.present /\ e.state = D.next
      /\ e.pending = inst[s].pending /\ e.url = inst[s].url /\ e.child = inst[s].child
      /\ task \in [Tasks -> [at : TaskAt, site : Sites]]
  BY <1>a, AdvanceFacts, Zenon
<1>d. D.next.tag = "Starting" /\ inst[s].child = NoPid /\ inst[s].pending = BackoffElapsed
  BY <1>s, DecisionFacts, Zenon
<1>1. /\ inst' = [inst EXCEPT ![s] = e] /\ UNCHANGED <<proc, sig, unit, left, lock>>
  BY Zenon DEF SpawnFails, Set, osvars
<1>2. Shape(e)
  BY <1>s, <1>d, Zenon DEF Shape
<1>3. /\ task' \in [Tasks -> [at : TaskAt, site : Sites]] /\ task'[t].site = s
      /\ \A u \in Tasks \ {t} : task'[u] = task[u]
      /\ Driving(task'[t].at)
  BY <1>s, GoToFacts, Zenon DEF SpawnFails, TaskAt, Driving
<1>4. /\ proc' \in [Pids -> ProcStates]
      /\ \A p \in Pids : proc'[p] = "live" => proc[p] = "live"
  BY <1>s, <1>1, Zenon DEF TypeOK
<1>5. log' \in [Sites -> SUBSET Pids] /\ \A r \in Sites : log'[r] \subseteq log[r]
  BY <1>s, LogFacts, Zenon DEF SpawnFails
<1> HIDE DEF s, e, D
<1> QED
  BY <1>s, <1>d, <1>1, <1>2, <1>3, <1>4, <1>5, MovesOn, Zenon DEF s

LEMMA CheckCrashedStep ==
    ASSUME IInv, NEW t \in Tasks, CheckCrashed(t) PROVE IInv'
<1> DEFINE s == task[t].site
           e == Entered(s)
           D == Decision(s)
<1>a. Advances(t, "HealthCheck")
  BY Zenon DEF CheckCrashed
<1>s. /\ s \in Sites /\ inst[s] \in Instance /\ Shape(inst[s]) /\ TypeOK
      /\ inst[s].present /\ lock = Free /\ task[t].at = "loop" /\ D.action.do = "HealthCheck"
      /\ e \in Instance /\ e.present /\ e.state = D.next
      /\ e.pending = inst[s].pending /\ e.url = inst[s].url /\ e.child = inst[s].child
      /\ task \in [Tasks -> [at : TaskAt, site : Sites]]
  BY <1>a, AdvanceFacts, Zenon
<1>d. D.next.tag = "Starting" /\ inst[s].child \in Pids /\ D.next.pid = inst[s].child
  BY <1>s, DecisionFacts, Zenon
<1> DEFINE i == [e EXCEPT !.child = NoPid, !.pending = Crashed]
<1>1. /\ inst' = [inst EXCEPT ![s] = i] /\ UNCHANGED <<log, sig, unit, task, left, lock>>
  BY Zenon DEF CheckCrashed, Set, osvars
<1>i. /\ i \in Instance /\ i.present /\ i.state = e.state
      /\ i.child = NoPid /\ i.pending = Crashed
  BY <1>s, <1>d, EventFacts, Zenon DEF Instance
<1>2. Shape(i)
  BY <1>s, <1>d, <1>i, Zenon DEF Shape
<1>3. /\ task' \in [Tasks -> [at : TaskAt, site : Sites]] /\ task'[t].site = s
      /\ \A u \in Tasks \ {t} : task'[u] = task[u]
      /\ Driving(task'[t].at)
  BY <1>s, <1>1, Zenon DEF Driving
<1>4. /\ proc' \in [Pids -> ProcStates]
      /\ \A p \in Pids : proc'[p] = "live" => proc[p] = "live"
  BY <1>s, ReapFacts, Zenon DEF CheckCrashed
<1>5. log' \in [Sites -> SUBSET Pids] /\ \A r \in Sites : log'[r] \subseteq log[r]
  BY <1>s, <1>1, Zenon DEF TypeOK
<1>6. ~Live(inst[s].child)
  BY Zenon DEF CheckCrashed
<1> HIDE DEF s, e, D, i
<1> QED
  BY <1>s, <1>d, <1>1, <1>i, <1>2, <1>3, <1>4, <1>5, <1>6, MovesOn, Zenon DEF s

LEMMA CheckReadyStep ==
    ASSUME IInv, NEW t \in Tasks, CheckReady(t) PROVE IInv'
<1> DEFINE s == task[t].site
           e == Entered(s)
           D == Decision(s)
<1>a. Advances(t, "HealthCheck")
  BY Zenon DEF CheckReady
<1>s. /\ s \in Sites /\ inst[s] \in Instance /\ Shape(inst[s]) /\ TypeOK
      /\ inst[s].present /\ lock = Free /\ task[t].at = "loop" /\ D.action.do = "HealthCheck"
      /\ e \in Instance /\ e.present /\ e.state = D.next
      /\ e.pending = inst[s].pending /\ e.url = inst[s].url /\ e.child = inst[s].child
      /\ task \in [Tasks -> [at : TaskAt, site : Sites]]
  BY <1>a, AdvanceFacts, Zenon
<1>d. D.next.tag = "Starting" /\ inst[s].child \in Pids /\ D.next.pid = inst[s].child
  BY <1>s, DecisionFacts, Zenon
<1>p. PICK p \in log[s] : Set(s, [e EXCEPT !.url = p, !.pending = HealthCheckOk])
  BY Zenon DEF CheckReady
<1>q. p = inst[s].child /\ p \in Pids
  BY <1>d, <1>s, TunnelAssumption, Zenon DEF IInv, LogCurrent
<1> DEFINE i == [e EXCEPT !.url = p, !.pending = HealthCheckOk]
<1>1. /\ inst' = [inst EXCEPT ![s] = i] /\ UNCHANGED <<log, proc, sig, unit, task, left, lock>>
  BY <1>p, Zenon DEF CheckReady, Set, osvars
<1>i. /\ i \in Instance /\ i.present /\ i.state = e.state
      /\ i.child = e.child /\ i.url = e.child /\ i.pending = HealthCheckOk
  BY <1>s, <1>d, <1>q, EventFacts, Zenon DEF Instance
<1>2. Shape(i)
  BY <1>s, <1>d, <1>i, Zenon DEF Shape
<1>3. /\ task' \in [Tasks -> [at : TaskAt, site : Sites]] /\ task'[t].site = s
      /\ \A u \in Tasks \ {t} : task'[u] = task[u]
      /\ Driving(task'[t].at)
  BY <1>s, <1>1, Zenon DEF Driving
<1>4. /\ proc' \in [Pids -> ProcStates]
      /\ \A q \in Pids : proc'[q] = "live" => proc[q] = "live"
  BY <1>s, <1>1, Zenon DEF TypeOK
<1>5. log' \in [Sites -> SUBSET Pids] /\ \A r \in Sites : log'[r] \subseteq log[r]
  BY <1>s, <1>1, Zenon DEF TypeOK
<1> HIDE DEF s, e, D, i
<1> QED
  BY <1>s, <1>d, <1>1, <1>i, <1>2, <1>3, <1>4, <1>5, MovesOn, Zenon DEF s

LEMMA CheckAgainStep ==
    ASSUME IInv, NEW t \in Tasks, CheckAgain(t) PROVE IInv'
<1> DEFINE s == task[t].site
           e == Entered(s)
           D == Decision(s)
<1>a. Advances(t, "HealthCheck")
  BY Zenon DEF CheckAgain
<1>s. /\ s \in Sites /\ inst[s] \in Instance /\ Shape(inst[s]) /\ TypeOK
      /\ inst[s].present /\ lock = Free /\ task[t].at = "loop" /\ D.action.do = "HealthCheck"
      /\ e \in Instance /\ e.present /\ e.state = D.next
      /\ e.pending = inst[s].pending /\ e.url = inst[s].url /\ e.child = inst[s].child
      /\ task \in [Tasks -> [at : TaskAt, site : Sites]]
  BY <1>a, AdvanceFacts, Zenon
<1>d. D.next.tag = "Starting" /\ inst[s].child \in Pids /\ D.next.pid = inst[s].child
  BY <1>s, DecisionFacts, Zenon
<1> DEFINE i == [e EXCEPT !.pending = HealthCheckTick(inst[s].age)]
<1>1. /\ inst' = [inst EXCEPT ![s] = i] /\ UNCHANGED <<log, proc, sig, unit, left, lock>>
  BY Zenon DEF CheckAgain, Set, osvars
<1>i. /\ i \in Instance /\ i.present /\ i.state = e.state
      /\ i.child = e.child /\ i.pending = HealthCheckTick(inst[s].age)
  BY <1>s, <1>d, EventFacts, InstanceFields, Zenon DEF Instance
<1>2. Shape(i)
  <2>1. i.pending.name = "HealthCheckTick" /\ i.state.tag = "Starting"
        /\ i.child \in Pids /\ i.state.pid = i.child
    BY <1>s, <1>d, <1>i DEF HealthCheckTick, Event
  <2> HIDE DEF i
  <2> QED
    BY <2>1, <1>i, Zenon DEF Shape
<1>3. /\ task' \in [Tasks -> [at : TaskAt, site : Sites]] /\ task'[t].site = s
      /\ \A u \in Tasks \ {t} : task'[u] = task[u]
      /\ Driving(task'[t].at)
  BY <1>s, GoToFacts, Zenon DEF CheckAgain, TaskAt, Driving
<1>4. /\ proc' \in [Pids -> ProcStates]
      /\ \A p \in Pids : proc'[p] = "live" => proc[p] = "live"
  BY <1>s, <1>1, Zenon DEF TypeOK
<1>5. log' \in [Sites -> SUBSET Pids] /\ \A r \in Sites : log'[r] \subseteq log[r]
  BY <1>s, <1>1, Zenon DEF TypeOK
<1> HIDE DEF s, e, D, i
<1> QED
  BY <1>s, <1>d, <1>1, <1>i, <1>2, <1>3, <1>4, <1>5, MovesOn, Zenon DEF s

LEMMA AdvanceBackoffStep ==
    ASSUME IInv, NEW t \in Tasks, AdvanceBackoff(t) PROVE IInv'
<1> DEFINE s == task[t].site
           e == Entered(s)
           D == Decision(s)
<1>a. Advances(t, "Backoff")
  BY Zenon DEF AdvanceBackoff
<1>s. /\ s \in Sites /\ inst[s] \in Instance /\ Shape(inst[s]) /\ TypeOK
      /\ inst[s].present /\ lock = Free /\ task[t].at = "loop" /\ D.action.do = "Backoff"
      /\ e \in Instance /\ e.present /\ e.state = D.next
      /\ e.pending = inst[s].pending /\ e.url = inst[s].url /\ e.child = inst[s].child
      /\ task \in [Tasks -> [at : TaskAt, site : Sites]]
  BY <1>a, AdvanceFacts, Zenon
<1>d. D.next.tag = "Failed" /\ inst[s].child = NoPid
  BY <1>s, DecisionFacts, Zenon
<1> DEFINE i == [e EXCEPT !.pending = BackoffElapsed]
<1>1. /\ inst' = [inst EXCEPT ![s] = i] /\ UNCHANGED <<log, proc, sig, unit, left, lock>>
  BY Zenon DEF AdvanceBackoff, Set, osvars
<1>i. /\ i \in Instance /\ i.present /\ i.state = e.state
      /\ i.child = e.child /\ i.pending = BackoffElapsed
  BY <1>s, <1>d, EventFacts, Zenon DEF Instance
<1>2. Shape(i)
  BY <1>s, <1>d, <1>i DEF Shape
<1>3. /\ task' \in [Tasks -> [at : TaskAt, site : Sites]] /\ task'[t].site = s
      /\ \A u \in Tasks \ {t} : task'[u] = task[u]
      /\ Driving(task'[t].at)
  BY <1>s, GoToFacts, Zenon DEF AdvanceBackoff, TaskAt, Driving
<1>4. /\ proc' \in [Pids -> ProcStates]
      /\ \A p \in Pids : proc'[p] = "live" => proc[p] = "live"
  BY <1>s, <1>1, Zenon DEF TypeOK
<1>5. log' \in [Sites -> SUBSET Pids] /\ \A r \in Sites : log'[r] \subseteq log[r]
  BY <1>s, <1>1, Zenon DEF TypeOK
<1> HIDE DEF s, e, D, i
<1> QED
  BY <1>s, <1>d, <1>1, <1>i, <1>2, <1>3, <1>4, <1>5, MovesOn, ZenonT(30) DEF s

LEMMA AdvanceFailsStep ==
    ASSUME IInv, NEW t \in Tasks, AdvanceFails(t) PROVE IInv'
<1> DEFINE s == task[t].site
           e == Entered(s)
           D == Decision(s)
<1>a. Advances(t, "PermanentFailure")
  BY Zenon DEF AdvanceFails
<1>s. /\ s \in Sites /\ inst[s] \in Instance /\ Shape(inst[s]) /\ TypeOK
      /\ inst[s].present /\ lock = Free /\ task[t].at = "loop" /\ D.action.do = "PermanentFailure"
      /\ e \in Instance /\ e.present /\ e.state = D.next
      /\ e.pending = inst[s].pending /\ e.url = inst[s].url /\ e.child = inst[s].child
      /\ task \in [Tasks -> [at : TaskAt, site : Sites]]
  BY <1>a, AdvanceFacts, Zenon
<1>d. D.next.tag = "Failed" /\ inst[s].child = NoPid /\ inst[s].pending = BackoffElapsed
  BY <1>s, DecisionFacts, Zenon
<1>1. /\ inst' = [inst EXCEPT ![s] = e] /\ UNCHANGED <<log, proc, sig, unit, left, lock>>
  BY Zenon DEF AdvanceFails, Set, osvars
<1>2. Shape(e)
  BY <1>s, <1>d, Zenon DEF Shape
<1>3. /\ task' \in [Tasks -> [at : TaskAt, site : Sites]] /\ task'[t].site = s
      /\ \A u \in Tasks \ {t} : task'[u] = task[u]
      /\ Driving(task'[t].at)
  BY <1>s, GoToFacts, Zenon DEF AdvanceFails, TaskAt, Driving
<1>4. /\ proc' \in [Pids -> ProcStates]
      /\ \A p \in Pids : proc'[p] = "live" => proc[p] = "live"
  BY <1>s, <1>1, Zenon DEF TypeOK
<1>5. log' \in [Sites -> SUBSET Pids] /\ \A r \in Sites : log'[r] \subseteq log[r]
  BY <1>s, <1>1, Zenon DEF TypeOK
<1> HIDE DEF s, e, D
<1> QED
  BY <1>s, <1>d, <1>1, <1>2, <1>3, <1>4, <1>5, MovesOn, Zenon DEF s

LEMMA do_spawnStep ==
    ASSUME IInv, NEW t \in Tasks, do_spawn(t) PROVE IInv'
<1> DEFINE s == task[t].site
           e == Entered(s)
           D == Decision(s)
<1>a. Advances(t, "Spawn")
  BY Zenon DEF do_spawn
<1>s. /\ s \in Sites /\ inst[s] \in Instance /\ Shape(inst[s]) /\ TypeOK
      /\ inst[s].present /\ lock = Free /\ task[t].at = "loop" /\ D.action.do = "Spawn"
      /\ e \in Instance /\ e.present /\ e.state = D.next
      /\ e.pending = inst[s].pending /\ e.url = inst[s].url /\ e.child = inst[s].child
      /\ task \in [Tasks -> [at : TaskAt, site : Sites]]
  BY <1>a, AdvanceFacts, Zenon
<1>d. D.next.tag = "Starting" /\ inst[s].child = NoPid /\ inst[s].pending = BackoffElapsed
  BY <1>s, DecisionFacts, Zenon
<1>p. PICK p \in Pids : SpawnAs(p, s) /\ Set(s, Spawned(e, p))
  BY Zenon DEF do_spawn
<1> DEFINE i == Spawned(e, p)
<1>1. inst' = [inst EXCEPT ![s] = i] /\ UNCHANGED <<task, left, lock>>
  BY <1>p, Zenon DEF do_spawn, Set
<1>i. /\ i \in Instance /\ i.present /\ i.state = e.state
      /\ i.child = p /\ i.pending = SpawnSucceeded(p)
  BY <1>s, EventFacts, Zenon DEF Instance, Spawned
<1>2. Shape(i)
  BY <1>s, <1>d, <1>i, Zenon DEF Shape
<1>3. /\ task' \in [Tasks -> [at : TaskAt, site : Sites]] /\ task'[t].site = s
      /\ \A u \in Tasks \ {t} : task'[u] = task[u]
      /\ Driving(task'[t].at)
  BY <1>s, <1>1, Zenon DEF Driving
<1>4. ~Live(inst[s].child)
  BY <1>d, TunnelAssumption, Zenon DEF Live
<1> HIDE DEF s, e, D, i
<1> QED
  BY <1>s, <1>p, <1>1, <1>i, <1>2, <1>3, <1>4, Spawns, Zenon DEF s

LEMMA SignalFacts ==
    ASSUME TypeOK, NEW c, sig' = Signalled(c)
    PROVE  sig' \in [Pids -> {"none", "term", "kill"}]
  BY Zenon DEF TypeOK, Signalled

LEMMA KilledFacts ==
    ASSUME NEW i \in Instance, NEW k, k = Killed(i)
    PROVE  /\ k \in Instance /\ k.child = NoPid /\ k.present = i.present
           /\ k.state = i.state /\ k.pending = Crashed
  BY EventFacts, Zenon DEF Killed, Instance

LEMMA do_killStep ==
    ASSUME IInv, NEW t \in Tasks, do_kill(t) PROVE IInv'
<1> DEFINE s == task[t].site
           e == Entered(s)
           D == Decision(s)
           c == inst[s].child
<1>a. Advances(t, "KillTerm")
  BY Zenon DEF do_kill
<1>s. /\ s \in Sites /\ inst[s] \in Instance /\ Shape(inst[s]) /\ TypeOK
      /\ inst[s].present /\ lock = Free /\ task[t].at = "loop" /\ D.action.do = "KillTerm"
      /\ e \in Instance /\ e.present /\ e.state = D.next
      /\ e.pending = inst[s].pending /\ e.url = inst[s].url /\ e.child = inst[s].child
      /\ task \in [Tasks -> [at : TaskAt, site : Sites]]
  BY <1>a, AdvanceFacts, Zenon
<1>d. /\ D.next.tag = "Starting" /\ inst[s].pending.name = "HealthCheckTick"
      /\ inst[s].pending.elapsed >= HealthCheckWindow
  BY <1>s, DecisionFacts, Zenon
<1>u. UNCHANGED <<log, proc, unit, left>>
  BY Zenon DEF do_kill
<1>p. /\ proc' \in [Pids -> ProcStates]
      /\ \A p \in Pids : proc'[p] = "live" => proc[p] = "live"
      /\ log' \in [Sites -> SUBSET Pids] /\ \A r \in Sites : log'[r] \subseteq log[r]
  BY <1>s, <1>u, Zenon DEF TypeOK
<1>1. CASE c = NoPid /\ Set(s, Killed(e)) /\ UNCHANGED <<sig, task, lock>>
  <2> DEFINE i == Killed(e)
  <2>1. /\ i \in Instance /\ i.present /\ i.state = e.state
        /\ i.child = NoPid /\ i.pending = Crashed
    BY <1>s, KilledFacts, Zenon
  <2>2. Shape(i)
    BY <2>1, <1>s, <1>d, Zenon DEF Shape
  <2>3. inst' = [inst EXCEPT ![s] = i]
    BY <1>1, Zenon DEF Set
  <2>4. /\ task' \in [Tasks -> [at : TaskAt, site : Sites]] /\ task'[t].site = s
        /\ \A u \in Tasks \ {t} : task'[u] = task[u]
        /\ Driving(task'[t].at)
    BY <1>1, <1>s, Zenon DEF Driving
  <2> HIDE DEF s, e, D, i
  <2> QED
    BY <1>1, <1>s, <1>u, <1>p, <2>1, <2>2, <2>3, <2>4, MovesOn, Zenon DEF s
<1> DEFINE n == [e EXCEPT !.child = NoPid]
<1>n. /\ n \in Instance /\ n.present /\ n.state = e.state
      /\ n.child = NoPid /\ n.pending = e.pending
  BY <1>s, Zenon DEF Instance
<1>m. Shape(n)
  BY <1>n, <1>s, <1>d DEF Shape
<1>2. CASE /\ c # NoPid /\ proc[c] # "gone" /\ Set(s, n) /\ sig' = Signalled(c)
           /\ lock' = [Free EXCEPT !.by = t, !.doing = "kill", !.site = s, !.child = c]
           /\ UNCHANGED task
  <2>1. c \in Pids
    BY <1>2, <1>s, InstanceFields, Zenon
  <2>2. inst' = [inst EXCEPT ![s] = n]
    BY <1>2, Zenon DEF Set
  <2>3. sig' \in [Pids -> {"none", "term", "kill"}]
    BY <1>2, <1>s, SignalFacts, Zenon
  <2>4. n.state.tag = "Starting" /\ task[t].site = s /\ "kill" # "stop"
    BY <1>n, <1>s, <1>d, Zenon
  <2>5. lock' = [Free EXCEPT !.by = t, !.doing = "kill", !.site = s, !.child = inst[s].child]
    BY <1>2, Zenon
  <2>6. UNCHANGED <<log, proc, unit, task, left>>
    BY <1>2, <1>u, Zenon
  <2> HIDE DEF s, e, D, n, c
  <2>7. inst[s].child \in Pids
    BY <2>1, Zenon DEF c
  <2> QED
    BY <1>s, <1>n, <1>m, <2>2, <2>3, <2>4, <2>5, <2>6, <2>7, BeginsToReap, Zenon
<1>3. CASE c # NoPid /\ ~Live(c) /\ Set(s, n) /\ GoTo(t, "cleanup") /\ UNCHANGED <<sig, lock>>
  <2>3. inst' = [inst EXCEPT ![s] = n]
    BY <1>3, Zenon DEF Set
  <2>4. /\ task' \in [Tasks -> [at : TaskAt, site : Sites]] /\ task'[t].site = s
        /\ \A u \in Tasks \ {t} : task'[u] = task[u]
        /\ Driving(task'[t].at)
    BY <1>3, <1>s, GoToFacts, Zenon DEF Driving, TaskAt
  <2> HIDE DEF s, e, D, n
  <2> QED
    BY <1>3, <1>s, <1>u, <1>p, <1>n, <1>m, <2>3, <2>4, MovesOn, Zenon DEF s
<1> QED
  BY <1>1, <1>2, <1>3, Zenon DEF do_kill

LEMMA stopStep ==
    ASSUME IInv, NEW t \in Tasks, stop(t) PROVE IInv'
<1> DEFINE s == task[t].site
           c == inst[s].child
<1>s. /\ s \in Sites /\ inst[s] \in Instance /\ TypeOK
      /\ task \in [Tasks -> [at : TaskAt, site : Sites]]
  BY SiteFacts, Zenon
<1>u. /\ UNCHANGED <<log, proc, unit, left>> /\ inst' = [inst EXCEPT ![s] = NoInstance]
      /\ lock = Free /\ task[t].at \in {"stop", "cleanup"}
  BY Zenon DEF stop, Set
<1>p. /\ proc' \in [Pids -> ProcStates]
      /\ \A p \in Pids : proc'[p] = "live" => proc[p] = "live"
      /\ log' \in [Sites -> SUBSET Pids] /\ \A r \in Sites : log'[r] \subseteq log[r]
  BY <1>s, <1>u, Zenon DEF TypeOK
<1>n. NoInstance \in Instance /\ NoInstance.child = NoPid /\ ~NoInstance.present
  BY FreshFacts, Zenon
<1>m. Shape(NoInstance)
  BY Zenon DEF Shape
<1>1. ASSUME NEW at \in {"status", "idle"}, GoTo(t, at), UNCHANGED <<sig, lock>>, ~Live(c)
      PROVE  IInv'
  <2>1. /\ task' \in [Tasks -> [at : TaskAt, site : Sites]] /\ task'[t].site = s
        /\ \A u \in Tasks \ {t} : task'[u] = task[u]
    BY <1>1, <1>s, GoToFacts, Zenon DEF TaskAt
  <2> HIDE DEF s
  <2> QED
    BY <1>1, <1>s, <1>u, <1>p, <1>n, <1>m, <2>1, MovesOn, Zenon DEF s
<1>2. CASE c = NoPid /\ GoTo(t, IF task[t].at = "stop" THEN "status" ELSE "idle")
           /\ UNCHANGED <<sig, lock>>
  BY <1>1, <1>2, TunnelAssumption, Zenon DEF Live
<1>3. CASE c # NoPid /\ ~Live(c) /\ GoTo(t, "idle") /\ UNCHANGED <<sig, lock>>
  BY <1>1, <1>3, Zenon
<1>4. CASE /\ c # NoPid /\ proc[c] # "gone" /\ sig' = Signalled(c)
           /\ lock' = [Free EXCEPT !.by = t, !.doing = "stop", !.site = s, !.child = c]
           /\ UNCHANGED task
  <2>1. c \in Pids
    BY <1>4, <1>s, InstanceFields, Zenon
  <2>3. sig' \in [Pids -> {"none", "term", "kill"}]
    BY <1>4, <1>s, SignalFacts, Zenon
  <2> HIDE DEF s
  <2> QED
    BY <1>4, <1>s, <1>u, <1>n, <1>m, <2>1, <2>3, BeginsToReap, Zenon DEF s
<1> QED
  BY <1>2, <1>3, <1>4, Zenon DEF stop

-----------------------------------------------------------------------------
(* The steps of the task that holds the mutex while it awaits.               *)

LEMMA ShutdownStartsStep ==
    ASSUME IInv, NEW t \in Tasks, ShutdownStarts(t) PROVE IInv'
<1>u. /\ UNCHANGED <<inst, log, proc, sig, unit, task, left>> /\ lock = Free
      /\ task[t].at = "shutdown"
      /\ lock' = [Free EXCEPT !.by = t, !.doing = "shutdown",
                              !.rest = {s \in Sites : inst[s].present}]
  BY Zenon DEF ShutdownStarts, Locks, osvars
<1>l. /\ lock'.by = t /\ lock'.doing = "shutdown" /\ lock'.child = NoPid
      /\ lock' \in [by : Tasks \cup {NoTask}, doing : {"none", "kill", "stop", "shutdown"},
                    site : Sites, child : Pids \cup {NoPid}, rest : SUBSET Sites]
  BY <1>u, TunnelAssumption, Zenon DEF Free
<1>f. lock.child = NoPid
  BY <1>u, FreeFacts, Zenon
<1>1. TypeOK'
  BY <1>u, <1>l, Zenon DEF IInv, TypeOK
<1>2. Shaped'
  BY <1>u, Zenon DEF IInv, Shaped
<1>3. HandlesOwned' /\ NoStray' /\ LogCurrent'
  BY <1>u, <1>l, <1>f, Zenon DEF IInv, HandlesOwned, NoStray, LogCurrent, Live
<1>4. Holding'
  BY <1>u, <1>l, Zenon DEF Holding
<1>5. SomeoneDrives'
  BY <1>u, Zenon DEF IInv, SomeoneDrives
<1> QED
  BY <1>1, <1>2, <1>3, <1>4, <1>5, Zenon DEF IInv

LEMMA ShutdownNextStep ==
    ASSUME IInv, ShutdownNext PROVE IInv'
<1>t. /\ TypeOK /\ lock.rest \subseteq Sites /\ inst \in [Sites -> Instance]
      /\ lock \in [by : Tasks \cup {NoTask}, doing : {"none", "kill", "stop", "shutdown"},
                   site : Sites, child : Pids \cup {NoPid}, rest : SUBSET Sites]
  BY Zenon DEF IInv, TypeOK
<1>s. PICK s \in Sites :
        /\ inst' = [inst EXCEPT ![s] = NoInstance] /\ sig' = Signalled(inst[s].child)
        /\ lock' = [lock EXCEPT !.rest = @ \ {s}, !.site = s,
                                !.child = IF inst[s].child # NoPid /\ proc[inst[s].child] # "gone"
                                          THEN inst[s].child ELSE NoPid]
  BY <1>t, Zenon DEF ShutdownNext, Set
<1>u. /\ UNCHANGED <<log, proc, unit, task, left>> /\ lock.doing = "shutdown"
      /\ lock.child = NoPid
  BY Zenon DEF ShutdownNext
<1>c. inst[s].child \in Pids \cup {NoPid}
  BY <1>t, InstanceFields, Zenon
<1>l. /\ lock' \in [by : Tasks \cup {NoTask}, doing : {"none", "kill", "stop", "shutdown"},
                    site : Sites, child : Pids \cup {NoPid}, rest : SUBSET Sites]
      /\ lock'.by = lock.by /\ lock'.doing = "shutdown" /\ lock'.site = s
      /\ \/ lock'.child = inst[s].child
         \/ lock'.child = NoPid /\ ~Live(inst[s].child)
  BY <1>s, <1>t, <1>u, <1>c, Zenon DEF Live
<1>n. NoInstance \in Instance /\ NoInstance.child = NoPid /\ ~NoInstance.present
  BY FreshFacts, Zenon
<1>i. /\ inst' \in [Sites -> Instance] /\ inst'[s] = NoInstance
      /\ \A r \in Sites \ {s} : inst'[r] = inst[r]
  BY <1>s, <1>t, <1>n, Zenon
<1>g. sig' \in [Pids -> {"none", "term", "kill"}]
  BY <1>s, <1>t, SignalFacts, Zenon
<1>1. TypeOK'
  BY <1>t, <1>u, <1>l, <1>i, <1>g, Zenon DEF TypeOK
<1>2. Shaped'
  <2>1. Shape(NoInstance)
    BY Zenon DEF Shape
  <2> QED
    BY <1>i, <2>1, Zenon DEF IInv, Shaped
<1>3. HandlesOwned' /\ NoStray' /\ LogCurrent'
  BY <1>t, <1>u, <1>l, <1>i, <1>n, HandlesKept, Zenon DEF IInv
<1>4. Holding'
  BY <1>u, <1>l, Zenon DEF IInv, Holding
<1>5. SomeoneDrives'
  BY <1>u, <1>i, <1>n, DrivesStill, Zenon DEF IInv
<1> QED
  BY <1>1, <1>2, <1>3, <1>4, <1>5, Zenon DEF IInv

LEMMA ShutdownEndsStep ==
    ASSUME IInv, ShutdownEnds PROVE IInv'
<1>u. /\ UNCHANGED <<inst, log, proc, sig, unit, left>> /\ lock.doing = "shutdown"
      /\ lock.child = NoPid /\ lock' = Free
  BY Zenon DEF ShutdownEnds, osvars
<1>b. lock.by \in Tasks /\ task[lock.by].at = "shutdown"
  BY <1>u, Zenon DEF IInv, Holding
<1>k. /\ task' \in [Tasks -> [at : TaskAt, site : Sites]]
      /\ \A r \in Tasks \ {lock.by} : task'[r] = task[r]
  BY <1>b, GoToFacts, Zenon DEF IInv, ShutdownEnds, TaskAt
<1>l. /\ Free \in [by : Tasks \cup {NoTask}, doing : {"none", "kill", "stop", "shutdown"},
                   site : Sites, child : Pids \cup {NoPid}, rest : SUBSET Sites]
  BY TunnelAssumption, Zenon DEF Free
<1>1. TypeOK'
  BY <1>u, <1>k, <1>l, Zenon DEF IInv, TypeOK
<1>2. Shaped'
  BY <1>u, Zenon DEF IInv, Shaped
<1>3. HandlesOwned' /\ NoStray' /\ LogCurrent'
  BY <1>u, FreeFacts, Zenon DEF IInv, HandlesOwned, NoStray, LogCurrent, Live
<1>4. Holding'
  BY <1>u, FreeFacts, Zenon DEF Holding
<1>5. SomeoneDrives'
  BY <1>u, <1>b, <1>k, DrivesStill, Zenon DEF IInv, Driving
<1> QED
  BY <1>1, <1>2, <1>3, <1>4, <1>5, Zenon DEF IInv

LEMMA GraceOverStep ==
    ASSUME IInv, GraceOver PROVE IInv'
<1>u. UNCHANGED <<inst, log, proc, unit, task, left, lock>>
  BY Zenon DEF GraceOver
<1>g. sig' \in [Pids -> {"none", "term", "kill"}]
  BY Zenon DEF IInv, TypeOK, GraceOver
<1>1. TypeOK'
  BY <1>u, <1>g, Zenon DEF IInv, TypeOK
<1>2. Shaped' /\ SomeoneDrives'
  BY <1>u, Zenon DEF IInv, Shaped, SomeoneDrives
<1>3. HandlesOwned' /\ NoStray' /\ LogCurrent'
  BY <1>u, Zenon DEF IInv, HandlesOwned, NoStray, LogCurrent, Live
<1>4. Holding'
  BY <1>u, Zenon DEF IInv, Holding
<1> QED
  BY <1>1, <1>2, <1>3, <1>4, Zenon DEF IInv

LEMMA ReapedStep ==
    ASSUME IInv, Reaped PROVE IInv'
<1> DEFINE s == lock.site
           k == Killed(inst[s])
           Locked == [by : Tasks \cup {NoTask}, doing : {"none", "kill", "stop", "shutdown"},
                      site : Sites, child : Pids \cup {NoPid}, rest : SUBSET Sites]
<1>t. /\ TypeOK /\ inst \in [Sites -> Instance] /\ s \in Sites /\ lock \in Locked
      /\ task \in [Tasks -> [at : TaskAt, site : Sites]]
  BY Zenon DEF IInv, TypeOK
<1>u. /\ UNCHANGED <<log, sig, unit, left>> /\ lock.child # NoPid /\ ~Live(lock.child)
  BY Zenon DEF Reaped
<1>d. lock.doing \in {"kill", "stop", "shutdown"} /\ lock.by \in Tasks
  BY <1>u, <1>t, FreeFacts, Zenon DEF IInv, Holding
<1>p. /\ proc' \in [Pids -> ProcStates]
      /\ \A p \in Pids : proc'[p] = "live" => proc[p] = "live"
  BY <1>t, ReapFacts, Zenon DEF Reaped
<1>c. inst[s].child = NoPid
  BY <1>u, Zenon DEF IInv, HandlesOwned
<1>k. /\ lock.doing = "kill" =>
           /\ k \in Instance /\ k.child = NoPid /\ k.present /\ k.state = inst[s].state
           /\ Shape(k)
  <2>1. lock.doing = "kill" => inst[s].present /\ inst[s].state.tag = "Starting"
    BY Zenon DEF IInv, Holding
  <2>2. /\ k \in Instance /\ k.child = NoPid /\ k.present = inst[s].present
        /\ k.state = inst[s].state /\ k.pending = Crashed
    BY <1>t, KilledFacts, Zenon
  <2> QED
    BY <2>1, <2>2, Zenon DEF Shape
<1>i. /\ inst' \in [Sites -> Instance] /\ inst'[s].child = NoPid
      /\ inst'[s].present = inst[s].present /\ inst'[s].state = inst[s].state
      /\ \A r \in Sites \ {s} : inst'[r] = inst[r]
      /\ Shape(inst'[s])
  <2>1. CASE lock.doing = "kill"
    <3>1. inst' = [inst EXCEPT ![s] = k]
      BY <2>1, Zenon DEF Reaped
    <3>2. inst[s].present
      BY <2>1, Zenon DEF IInv, Holding
    <3> HIDE DEF k
    <3> QED
      BY <2>1, <3>1, <3>2, <1>t, <1>k, Zenon
  <2>2. CASE lock.doing # "kill"
    <3>1. inst' = inst
      BY <2>2, Zenon DEF Reaped
    <3> QED
      BY <3>1, <1>t, <1>c, Zenon DEF IInv, Shaped
  <2> QED
    BY <2>1, <2>2, Zenon
<1>a. /\ task' \in [Tasks -> [at : TaskAt, site : Sites]]
      /\ lock.doing # "stop" => task' = task
      /\ \A u \in Tasks \ {lock.by} : task'[u] = task[u]
      /\ task'[lock.by].site = task[lock.by].site
  <2>1. CASE lock.doing = "stop"
    <3>1. task' = [task EXCEPT ![lock.by].at = IF task[lock.by].at = "stop" THEN "status" ELSE "idle"]
      BY <2>1, Zenon DEF Reaped
    <3> QED
      BY <2>1, <3>1, <1>t, <1>d DEF TaskAt
  <2>2. CASE lock.doing # "stop"
    <3>1. task' = task
      BY <2>2, Zenon DEF Reaped
    <3> QED
      BY <3>1, <2>2, <1>t, Zenon
  <2> QED
    BY <2>1, <2>2, Zenon
<1>l. /\ lock' \in Locked /\ lock'.child = NoPid
      /\ lock.doing # "shutdown" => lock' = Free
      /\ lock.doing = "shutdown" => lock'.doing = "shutdown" /\ lock'.by = lock.by
  <2>1. Free \in Locked /\ Free.child = NoPid
    BY TunnelAssumption, Zenon DEF Free
  <2>2. lock.doing # "shutdown" => lock' = Free
    BY Zenon DEF Reaped
  <2>3. lock.doing = "shutdown" => lock' = [lock EXCEPT !.child = NoPid]
    BY Zenon DEF Reaped
  <2> QED
    BY <2>1, <2>2, <2>3, <1>t, Zenon
<1>1. TypeOK'
  BY <1>t, <1>u, <1>p, <1>i, <1>a, <1>l, Zenon DEF TypeOK
<1>2. Shaped'
  BY <1>i, Zenon DEF IInv, Shaped
<1>3. HandlesOwned' /\ NoStray' /\ LogCurrent'
  <2> HIDE DEF s, k, Locked
  <2> QED
    BY <1>t, <1>u, <1>p, <1>c, <1>i, <1>l, HandlesKept, Zenon DEF IInv
<1>4. Holding'
  <2>1. CASE lock.doing = "shutdown"
    BY <2>1, <1>l, <1>a, <1>d, Zenon DEF IInv, Holding
  <2>2. CASE lock.doing # "shutdown"
    BY <2>2, <1>l, FreeFacts, Zenon DEF Holding
  <2> QED
    BY <2>1, <2>2, Zenon
<1>5. SomeoneDrives'
  <2>1. CASE lock.doing = "stop"
    <3>1. ~inst[s].present /\ task[lock.by].site = s
      BY <2>1, FreshFacts, Zenon DEF IInv, Holding
    <3> HIDE DEF s, k
    <3> QED
      BY <2>1, <3>1, <1>t, <1>d, <1>i, <1>a, DrivesOn, Zenon DEF IInv
  <2>2. CASE lock.doing # "stop"
    <3> HIDE DEF s, k
    <3> QED
      BY <2>2, <1>t, <1>i, <1>a, DrivesStill, Zenon DEF IInv
  <2> QED
    BY <2>1, <2>2, Zenon
<1> QED
  BY <1>1, <1>2, <1>3, <1>4, <1>5, Zenon DEF IInv

-----------------------------------------------------------------------------
(* The operating system, the clock, and the tasks that only look or wait.    *)

LEMMA ReportStep ==
    ASSUME IInv, NEW p \in Pids, Report(p) PROVE IInv'
<1>t. /\ unit \in [Pids -> Sites] /\ log \in [Sites -> SUBSET Pids]
      /\ log' = [log EXCEPT ![unit[p]] = @ \cup {p}]
      /\ UNCHANGED <<inst, proc, sig, unit, task, left, lock>> /\ Live(p)
  BY Zenon DEF IInv, TypeOK, Report, osvars
<1>1. TypeOK'
  BY <1>t, Zenon DEF IInv, TypeOK
<1>2. Shaped' /\ SomeoneDrives'
  BY <1>t, Zenon DEF IInv, Shaped, SomeoneDrives
<1>3. HandlesOwned' /\ NoStray'
  BY <1>t, Zenon DEF IInv, HandlesOwned, NoStray, Live
<1>4. LogCurrent'
  <2>1. inst[unit[p]].child \in {p, NoPid}
    BY <1>t, TunnelAssumption, Zenon DEF IInv, NoStray, HandlesOwned
  <2> QED
    BY <1>t, <2>1, Zenon DEF IInv, LogCurrent
<1>5. Holding'
  BY <1>t, Zenon DEF IInv, Holding
<1> QED
  BY <1>1, <1>2, <1>3, <1>4, <1>5, Zenon DEF IInv

\* The instances and the lock stay; a task may move, unless it is reaping.
LEMMA Waits ==
    ASSUME IInv, UNCHANGED <<inst, log, unit, lock>>,
           proc' \in [Pids -> ProcStates],
           \A p \in Pids : proc'[p] = "live" => proc[p] = "live",
           sig' \in [Pids -> {"none", "term", "kill"}],
           task' \in [Tasks -> [at : TaskAt, site : Sites]],
           left' \in [Tasks -> 0 .. MaxRequests],
           \A u \in Tasks : Driving(task[u].at) =>
               task'[u].site = task[u].site /\ Driving(task'[u].at),
           lock.doing # "none" => task'[lock.by] = task[lock.by]
    PROVE  IInv'
<1>1. TypeOK'
  BY Zenon DEF IInv, TypeOK
<1>2. Shaped'
  BY Zenon DEF IInv, Shaped
<1>3. HandlesOwned' /\ LogCurrent'
  BY Zenon DEF IInv, HandlesOwned, LogCurrent
<1>4. NoStray'
  BY Zenon DEF IInv, NoStray, Live
<1>5. Holding'
  BY Zenon DEF IInv, Holding
<1>6. SomeoneDrives'
  BY DrivesStill, Zenon DEF IInv
<1> QED
  BY <1>1, <1>2, <1>3, <1>4, <1>5, <1>6, Zenon DEF IInv

LEMMA CrashStep ==
    ASSUME IInv, NEW p \in Pids, Crash(p) PROVE IInv'
<1>1. /\ UNCHANGED <<inst, log, unit, task, left, lock>>
      /\ proc' \in [Pids -> ProcStates] /\ sig' \in [Pids -> {"none", "term", "kill"}]
      /\ \A q \in Pids : proc'[q] = "live" => proc[q] = "live"
  BY Zenon DEF IInv, TypeOK, Crash, ProcStates
<1>2. /\ task \in [Tasks -> [at : TaskAt, site : Sites]]
      /\ left \in [Tasks -> 0 .. MaxRequests]
  BY Zenon DEF IInv, TypeOK
<1> QED
  BY <1>1, <1>2, Waits, Zenon

LEMMA ClockAdvancesStep ==
    ASSUME IInv, NEW s \in Sites, ClockAdvances(s) PROVE IInv'
<1> DEFINE i == [inst[s] EXCEPT !.age = @ + 1]
<1>t. /\ inst \in [Sites -> Instance] /\ inst[s] \in Instance /\ Shape(inst[s])
  BY Zenon DEF IInv, TypeOK, Shaped
<1>u. /\ inst' = [inst EXCEPT ![s] = i] /\ inst[s].state.tag = "Starting"
      /\ inst[s].age < HealthCheckWindow /\ UNCHANGED <<log, proc, sig, unit, task, left, lock>>
  BY Zenon DEF ClockAdvances, osvars
<1>g. inst[s].age + 1 \in 0 .. HealthCheckWindow
  BY <1>t, <1>u, InstanceFields, PolicyAssumption
<1>i. /\ i \in Instance /\ i.present = inst[s].present /\ i.state = inst[s].state
      /\ i.pending = inst[s].pending /\ i.url = inst[s].url /\ i.child = inst[s].child
  BY <1>t, <1>g, Zenon DEF Instance
<1>n. inst[s] # NoInstance
  BY <1>u, FreshFacts, Zenon
<1>s. Shape(i)
  BY <1>t, <1>i, <1>n, Zenon DEF Shape
<1>j. /\ inst' \in [Sites -> Instance] /\ inst'[s] = i
      /\ \A r \in Sites \ {s} : inst'[r] = inst[r]
  BY <1>t, <1>u, <1>i, Zenon
<1> HIDE DEF i
<1>1. TypeOK'
  BY <1>u, <1>j, Zenon DEF IInv, TypeOK
<1>2. Shaped'
  BY <1>j, <1>s, Zenon DEF IInv, Shaped
<1>3. HandlesOwned' /\ NoStray' /\ LogCurrent'
  BY <1>u, <1>j, <1>i, HandlesKept, Zenon DEF IInv
<1>4. Holding'
  <2>1. lock.site \in Sites
    BY Zenon DEF IInv, TypeOK
  <2> QED
    BY <1>u, <1>j, <1>i, <1>n, <2>1, Zenon DEF IInv, Holding
<1>5. SomeoneDrives'
  BY <1>u, <1>j, <1>i, DrivesStill, Zenon DEF IInv
<1> QED
  BY <1>1, <1>2, <1>3, <1>4, <1>5, Zenon DEF IInv

\* With the mutex free, or asleep, t goes to wait for something else without
\* leaving a loop it was in.
LEMMA Goes ==
    ASSUME IInv, NEW t \in Tasks, NEW at \in TaskAt, GoTo(t, at),
           Driving(task[t].at) => Driving(at),
           lock.doing # "none" => lock.by # t,
           UNCHANGED <<inst, log, sig, unit, left, lock>>,
           proc' \in [Pids -> ProcStates],
           \A p \in Pids : proc'[p] = "live" => proc[p] = "live"
    PROVE  IInv'
<1>1. /\ task' \in [Tasks -> [at : TaskAt, site : Sites]]
      /\ task'[t].at = at /\ task'[t].site = task[t].site
      /\ \A u \in Tasks \ {t} : task'[u] = task[u]
  BY GoToFacts, Zenon DEF IInv
<1>2. /\ sig \in [Pids -> {"none", "term", "kill"}] /\ left \in [Tasks -> 0 .. MaxRequests]
      /\ lock.doing # "none" => lock.by \in Tasks
  BY Zenon DEF IInv, TypeOK, Holding
<1> QED
  BY <1>1, <1>2, Waits, Zenon

LEMMA LooksStep ==
    ASSUME IInv, NEW t \in Tasks, Snapshots(t) \/ BeginRefused(t) PROVE IInv'
<1>t. TypeOK /\ proc \in [Pids -> ProcStates]
  BY Zenon DEF IInv, TypeOK
<1>1. CASE Snapshots(t)
  <2>1. /\ proc' \in [Pids -> ProcStates]
        /\ \A p \in Pids : proc'[p] = "live" => proc[p] = "live"
    BY <1>1, <1>t, ReapFacts, Zenon DEF Snapshots
  <2>2. /\ task[t].at = "status" /\ lock = Free /\ GoTo(t, "idle")
        /\ UNCHANGED <<inst, log, sig, unit, left, lock>>
    BY <1>1, ZenonT(30) DEF Snapshots, Locks
  <2>3. "idle" \in TaskAt /\ ~Driving(task[t].at)
    BY <2>2, Zenon DEF TaskAt, Driving
  <2> QED
    BY <2>1, <2>2, <2>3, FreeFacts, Goes, ZenonT(30)
<1>2. CASE BeginRefused(t)
  <2>2. /\ task[t].at = "begin" /\ lock = Free /\ GoTo(t, "status")
        /\ UNCHANGED <<inst, log, proc, sig, unit, left, lock>>
    BY <1>2, ZenonT(30) DEF BeginRefused, Locks, osvars
  <2>3. "status" \in TaskAt /\ ~Driving(task[t].at)
    BY <2>2, Zenon DEF TaskAt, Driving
  <2> QED
    BY <1>t, <2>2, <2>3, FreeFacts, Goes, ZenonT(30)
<1> QED
  BY <1>1, <1>2, Zenon

LEMMA WakeStep ==
    ASSUME IInv, NEW t \in Tasks, Wake(t) PROVE IInv'
<1>1. /\ task[t].at \in {"gap", "backoff"} /\ GoTo(t, "loop")
      /\ UNCHANGED <<inst, log, proc, sig, unit, left, lock>>
  BY Zenon DEF Wake, osvars
<1>2. "loop" \in TaskAt /\ Driving("loop") /\ proc \in [Pids -> ProcStates]
  BY Zenon DEF TaskAt, Driving, IInv, TypeOK
<1>3. lock.doing # "none" => lock.by # t
  BY <1>1, Zenon DEF IInv, Holding, TypeOK
<1> QED
  BY <1>1, <1>2, <1>3, Goes, ZenonT(30)

LEMMA AdvanceGoneStep ==
    ASSUME IInv, NEW t \in Tasks, AdvanceGone(t) PROVE IInv'
<1> DEFINE s == task[t].site
<1>s. /\ s \in Sites /\ inst[s] \in Instance /\ Shape(inst[s]) /\ TypeOK
      /\ inst \in [Sites -> Instance]
  BY SiteFacts, Zenon DEF IInv, TypeOK
<1>u. /\ UNCHANGED <<inst, log, proc, sig, unit, left, lock>> /\ lock = Free
      /\ ~inst[s].present /\ GoTo(t, "status")
  BY Zenon DEF AdvanceGone, Locks, osvars
<1>1. inst' = [inst EXCEPT ![s] = inst[s]]
  BY <1>s, <1>u, Zenon
<1>2. /\ task' \in [Tasks -> [at : TaskAt, site : Sites]] /\ task'[t].site = s
      /\ \A u \in Tasks \ {t} : task'[u] = task[u]
  BY <1>s, <1>u, GoToFacts, Zenon DEF TaskAt
<1>3. proc \in [Pids -> ProcStates] /\ log \in [Sites -> SUBSET Pids]
  BY <1>s, Zenon DEF TypeOK
<1> HIDE DEF s
<1> QED
  BY <1>s, <1>u, <1>1, <1>2, <1>3, MovesOn, Zenon DEF s

LEMMA AskStep ==
    ASSUME IInv, NEW t \in Tasks, NEW s \in Sites,
           NEW at \in {"begin", "stop", "shutdown", "status"}, Ask(t, at, s)
    PROVE  IInv'
<1>t. /\ task \in [Tasks -> [at : TaskAt, site : Sites]]
      /\ left \in [Tasks -> 0 .. MaxRequests] /\ MaxRequests \in Nat
      /\ proc \in [Pids -> ProcStates] /\ sig \in [Pids -> {"none", "term", "kill"}]
  BY TunnelAssumption, Zenon DEF IInv, TypeOK
<1>u. /\ UNCHANGED <<inst, log, proc, sig, unit, lock>> /\ task[t].at = "idle"
      /\ left[t] > 0 /\ left' = [left EXCEPT ![t] = @ - 1]
      /\ task' = [task EXCEPT ![t] = [at |-> at, site |-> s]]
  BY Zenon DEF Ask, osvars
<1>1. left' \in [Tasks -> 0 .. MaxRequests]
  <2>1. left[t] - 1 \in 0 .. MaxRequests
    BY <1>t, <1>u
  <2> QED
    BY <1>t, <1>u, <2>1, Zenon
<1>2. /\ task' \in [Tasks -> [at : TaskAt, site : Sites]]
      /\ \A r \in Tasks \ {t} : task'[r] = task[r]
  <2>1. at \in TaskAt
    BY Zenon DEF TaskAt
  <2> QED
    BY <1>t, <1>u, <2>1, Zenon
<1>3. ~Driving(task[t].at) /\ (lock.doing # "none" => lock.by # t /\ lock.by \in Tasks)
  BY <1>u, Zenon DEF Driving, IInv, Holding, TypeOK
<1> QED
  BY <1>t, <1>u, <1>1, <1>2, <1>3, Waits, Zenon

-----------------------------------------------------------------------------
LEMMA NextKeeps == IInv /\ [Next]_vars => IInv'
<1> SUFFICES ASSUME IInv, [Next]_vars PROVE IInv'
  BY Zenon
<1>1. ASSUME NEW t \in Tasks, TaskStep(t) PROVE IInv'
  BY <1>1, LooksStep, BeginStartsStep, BeginFailsStep, AdvanceGoneStep, AdvanceNoneStep,
     do_spawnStep, SpawnFailsStep, CheckCrashedStep, CheckReadyStep, CheckAgainStep,
     AdvanceBackoffStep, AdvanceFailsStep, WakeStep, do_killStep, stopStep, ShutdownStartsStep, Zenon
  DEF TaskStep
<1>2. CASE HolderStep
  BY <1>2, ShutdownNextStep, ShutdownEndsStep, GraceOverStep, ReapedStep, Zenon DEF HolderStep
<1>3. ASSUME NEW t \in Tasks, NEW s \in Sites,
             NEW at \in {"begin", "stop", "shutdown", "status"}, Ask(t, at, s)
      PROVE  IInv'
  BY <1>3, AskStep, Zenon
<1>4. ASSUME NEW p \in Pids, Report(p) \/ Crash(p) PROVE IInv'
  BY <1>4, ReportStep, CrashStep, Zenon
<1>5. ASSUME NEW s \in Sites, ClockAdvances(s) PROVE IInv'
  BY <1>5, ClockAdvancesStep, Zenon
<1>6. CASE UNCHANGED vars
  BY <1>6, Zenon DEF vars, osvars, IInv, TypeOK, Shaped, HandlesOwned, NoStray, Live, LogCurrent,
              Holding, SomeoneDrives
<1> QED
  BY <1>1, <1>2, <1>3, <1>4, <1>5, <1>6, Zenon DEF Next

\* The inductive invariant of the tunnel manager: however its tasks interleave
\* between two lock-holds, every instance keeps one of the shapes `advance`
\* can handle, no handle of a live cloudflared is ever dropped, and the log a
\* probe reads is of the current child.
THEOREM Inductive == Spec => []IInv
  BY InitHolds, NextKeeps, PTL DEF Spec

\* At most one cloudflared of a site is alive, it can always be stopped, the
\* URL reported is its own, and somebody drives every unfinished start.
THEOREM QuickTunnelIsOwnedAlways == Spec => []QuickTunnelIsOwned
<1>1. ASSUME IInv PROVE QuickTunnelIsOwned
  <2>t. unit \in [Pids -> Sites] /\ inst \in [Sites -> Instance]
    BY <1>1, Zenon DEF IInv, TypeOK
  <2>1. NoOrphan
    BY <1>1, <2>t, TunnelAssumption, Zenon DEF IInv, NoOrphan, NoStray, HandlesOwned, Undoomed
  <2>2. OneTunnelPerSite
    BY <1>1, <2>1, <2>t, TunnelAssumption DEF IInv, OneTunnelPerSite, NoOrphan, HandlesOwned
  <2>3. UrlIsCurrent
    BY <1>1, FreshFacts, Zenon DEF IInv, UrlIsCurrent, Shaped, Shape
  <2> QED
    BY <1>1, <2>1, <2>2, <2>3, Zenon DEF IInv, QuickTunnelIsOwned
<1> QED
  BY <1>1, Inductive, PTL

\* No cloudflared outlives its handle, not even one that was SIGKILLed: what
\* `stop` and the doctor can find is everything that runs.
THEOREM NothingUnheld == Spec => []NoStray
<1>1. IInv => NoStray
  BY Zenon DEF IInv
<1> QED
  BY <1>1, Inductive, PTL

-----------------------------------------------------------------------------
(* TunnelsAreSupervised: the manager implements SupervisedUnits.             *)

Busy(s) == inst[s].present /\ inst[s].state.tag # "Running"

\* The phase of a site follows from its instance and from whether it has a
\* cloudflared at all: one without an instance is with the lock-hold.
PhaseFits(s) ==
    Phase(s) = IF Busy(s) THEN "starting"
               ELSE IF Tunnels(s) = {} THEN "down"
               ELSE IF inst[s].present THEN "up" ELSE "stopping"

Sound ==
    \A s \in Sites : PhaseFits(s) /\ \A p, q \in Tunnels(s) : p = q

\* A cloudflared of a site is the child of its instance or of the lock-hold.
LEMMA TunnelsHeld ==
    ASSUME IInv, NEW s \in Sites, NEW p \in Tunnels(s)
    PROVE  /\ p \in Pids /\ Live(p) /\ unit[p] = s /\ p # NoPid
           /\ \/ inst[s].child = p
              \/ lock.child = p /\ lock.site = s /\ inst[s].child = NoPid
<1>1. p \in Pids /\ Live(p) /\ unit[p] = s /\ p # NoPid
  BY TunnelAssumption, Zenon DEF Tunnels, Undoomed
<1>2. inst[s].child = p \/ lock.child = p
  BY <1>1, Zenon DEF IInv, NoStray
<1> QED
  BY <1>1, <1>2, Zenon DEF IInv, HandlesOwned

LEMMA PhasesSound == IInv => Sound
<1> SUFFICES ASSUME IInv, NEW s \in Sites
             PROVE  PhaseFits(s) /\ \A p, q \in Tunnels(s) : p = q
  BY Zenon DEF Sound
<1>1. \A p, q \in Tunnels(s) : p = q
  BY TunnelsHeld
<1>2. ~inst[s].present => inst[s].child = NoPid
  BY FreshFacts, Zenon DEF IInv, Shaped, Shape
<1>3. inst[s].present /\ ~Busy(s) => inst[s].child # NoPid
  BY FreshFacts, TunnelAssumption, Zenon DEF IInv, Shaped, Shape, Busy
<1>4. \A p \in Tunnels(s) : inst[s].child = p \/ (lock.child = p /\ lock.site = s)
  BY TunnelsHeld, Zenon
<1>5. \A p \in Tunnels(s) : inst[s].child # NoPid => inst[s].child = p
  BY TunnelsHeld, Zenon
<1>6. NoPid \notin Tunnels(s)
  BY TunnelAssumption, Zenon DEF Tunnels
<1>7. PhaseFits(s)
  <2>1. CASE Busy(s)
    BY <2>1, Zenon DEF PhaseFits, Phase, Busy
  <2>2. CASE ~Busy(s) /\ Tunnels(s) = {}
    BY <2>2, Zenon DEF PhaseFits, Phase, Busy
  <2>3. CASE ~Busy(s) /\ Tunnels(s) # {} /\ inst[s].present
    <3>1. inst[s].child \in Tunnels(s)
      BY <1>3, <1>5, <2>3, Zenon
    <3> QED
      BY <2>3, <3>1, Zenon DEF PhaseFits, Phase, Busy
  <2>4. CASE Tunnels(s) # {} /\ ~inst[s].present
    <3>1. inst[s].child \notin Tunnels(s)
      BY <1>2, <1>6, <2>4, Zenon
    <3>2. lock.site = s /\ lock.child \in Tunnels(s)
      BY <1>4, <2>4, <3>1, Zenon
    <3> QED
      BY <2>4, <3>1, <3>2, Zenon DEF PhaseFits, Phase, Busy
  <2> QED
    BY <2>1, <2>2, <2>3, <2>4, Zenon DEF Busy
<1> QED
  BY <1>1, <1>7, Zenon

\* A step that adds no tunnel and moves one site along the arrows of
\* SupervisedUnits is a step of it.
LEMMA OneMoves ==
    ASSUME Sound, Sound', NEW w \in Sites,
           \A s \in Sites \ {w} : Phase(s)' = Phase(s) /\ Tunnels(s)' = Tunnels(s),
           Tunnels(w)' \subseteq Tunnels(w),
           Phase(w) = "down" => Phase(w)' \in {"down", "starting"},
           Phase(w) = "up" => Phase(w)' # "starting",
           Phase(w) = "stopping" => Phase(w)' \in {"stopping", "down"}
    PROVE  [Supervised!Next]_(Supervised!vars)
<1> DEFINE ph == [s \in Sites |-> Phase(s)]
           run == [s \in Sites |-> Tunnels(s)]
<1>s. /\ Phase(w) \in {"down", "starting", "up", "stopping"}
      /\ Phase(w) = "down" => Tunnels(w) = {}
      /\ Phase(w) \in {"up", "stopping"} => Tunnels(w) # {}
      /\ \A p, q \in Tunnels(w) : p = q
  BY Zenon DEF Sound, PhaseFits
<1>p. /\ Phase(w)' \in {"down", "starting", "up", "stopping"}
      /\ Phase(w)' = "down" => Tunnels(w)' = {}
      /\ Phase(w)' \in {"up", "stopping"} => Tunnels(w)' # {}
  BY Zenon DEF Sound, PhaseFits
<1>1. /\ ph' = [ph EXCEPT ![w] = Phase(w)'] /\ ph[w] = Phase(w)
      /\ run' = [run EXCEPT ![w] = Tunnels(w)'] /\ run[w] = Tunnels(w)
  BY Zenon
<1>2. Tunnels(w)' = {} \/ Tunnels(w)' = Tunnels(w)
  BY <1>s, Zenon
<1>3. Phase(w)' = Phase(w) => ph' = ph
  BY <1>1, Zenon
<1>4. Tunnels(w)' = Tunnels(w) => run' = run
  BY <1>1, Zenon
<1>5. CASE Phase(w)' = Phase(w) /\ Tunnels(w)' = Tunnels(w)
  BY <1>3, <1>4, <1>5, Zenon DEF Supervised!vars
<1>6. CASE Phase(w) = "down" /\ Phase(w)' = "starting"
  <2>1. Tunnels(w)' = Tunnels(w)
    BY <1>2, <1>s, <1>6, Zenon
  <2>2. Supervised!Start(w)
    BY <1>1, <1>4, <1>6, <2>1, Zenon DEF Supervised!Start, Supervised!Becomes
  <2> QED
    BY <2>2, Zenon DEF Supervised!Next
<1>7. CASE Phase(w) = "starting" /\ Phase(w)' = "starting" /\ Tunnels(w)' = {}
  <2>1. Supervised!Lose(w)
    BY <1>1, <1>3, <1>7, Zenon DEF Supervised!Lose, Supervised!HasNone
  <2> QED
    BY <2>1, Zenon DEF Supervised!Next
<1>8. CASE Phase(w) = "starting" /\ Phase(w)' = "up"
  <2>1. Tunnels(w)' = Tunnels(w) /\ Tunnels(w) # {}
    BY <1>2, <1>p, <1>8, Zenon
  <2>2. Supervised!Ready(w)
    BY <1>1, <1>4, <1>8, <2>1, Zenon DEF Supervised!Ready, Supervised!Becomes
  <2> QED
    BY <2>2, Zenon DEF Supervised!Next
<1>9. CASE Phase(w) \in {"starting", "up"} /\ Phase(w)' = "stopping"
  <2>1. Tunnels(w)' = Tunnels(w) /\ Tunnels(w) # {}
    BY <1>2, <1>p, <1>9, Zenon
  <2>2. Supervised!Stop(w)
    BY <1>1, <1>4, <1>9, <2>1, Zenon DEF Supervised!Stop, Supervised!Becomes
  <2> QED
    BY <2>2, Zenon DEF Supervised!Next
<1>10. CASE Phase(w) # "down" /\ Phase(w)' = "down"
  <2>1. Supervised!End(w)
    BY <1>1, <1>p, <1>10, Zenon DEF Supervised!End, Supervised!Becomes, Supervised!HasNone
  <2> QED
    BY <2>1, Zenon DEF Supervised!Next
<1>11. CASE Phase(w)' = Phase(w) /\ Phase(w) \in {"down", "up", "stopping"}
  <2>1. Tunnels(w)' = Tunnels(w)
    BY <1>2, <1>s, <1>p, <1>11, Zenon
  <2> QED
    BY <1>5, <1>11, <2>1, Zenon
<1> HIDE DEF ph, run
<1> QED
  BY <1>s, <1>p, <1>2, <1>5, <1>6, <1>7, <1>8, <1>9, <1>10, <1>11, Zenon

\* A process x of site w dies or is killed, or none does, while the instance of
\* w goes on, becomes ready or is removed.
LEMMA SiteMoves ==
    ASSUME Sound, Sound', NEW w \in Sites, NEW x,
           x \in Pids => unit[x] = w,
           \A p \in Pids : Undoomed(p)' <=> Undoomed(p) /\ p # x,
           unit' = unit,
           \A s \in Sites \ {w} : Busy(s)' = Busy(s) /\ inst'[s].present = inst[s].present,
           Busy(w)' => Busy(w),
           inst'[w].present => inst[w].present
    PROVE  [Supervised!Next]_(Supervised!vars)
<1>1. \A s \in Sites : Tunnels(s)' = Tunnels(s) \ {x}
  BY Zenon DEF Tunnels
<1>2. \A s \in Sites \ {w} : Tunnels(s)' = Tunnels(s)
  <2>1. \A s \in Sites \ {w} : x \notin Tunnels(s)
    BY Zenon DEF Tunnels
  <2> QED
    BY <1>1, <2>1
<1>3. \A s \in Sites : PhaseFits(s) /\ PhaseFits(s)'
  BY Zenon DEF Sound
<1>4. \A s \in Sites \ {w} : Phase(s)' = Phase(s)
  BY <1>2, <1>3, Zenon DEF PhaseFits
<1>5. Tunnels(w)' \subseteq Tunnels(w)
  BY <1>1, Zenon
<1>6. Phase(w) = "down" => Phase(w)' \in {"down", "starting"}
  BY <1>3, <1>5, Zenon DEF PhaseFits
<1>7. Phase(w) = "up" => Phase(w)' # "starting"
  BY <1>3, Zenon DEF PhaseFits
<1>8. Phase(w) = "stopping" => Phase(w)' \in {"stopping", "down"}
  BY <1>3, Zenon DEF PhaseFits
<1> QED
  BY <1>2, <1>4, <1>5, <1>6, <1>7, <1>8, OneMoves, Zenon

\* The same of a step that touches no process.
LEMMA InstanceMoves ==
    ASSUME Sound, Sound', TypeOK, NEW w \in Sites, NEW i,
           inst' = [inst EXCEPT ![w] = i],
           i.present => inst[w].present,
           i.present /\ i.state.tag # "Running" => Busy(w),
           \A p \in Pids : Undoomed(p)' <=> Undoomed(p),
           unit' = unit
    PROVE  [Supervised!Next]_(Supervised!vars)
<1>1. inst'[w] = i /\ \A s \in Sites \ {w} : inst'[s] = inst[s]
  BY Zenon DEF TypeOK
<1>2. \A p \in Pids : Undoomed(p)' <=> Undoomed(p) /\ p # NoPid
  BY TunnelAssumption, Zenon
<1>3. NoPid \notin Pids
  BY TunnelAssumption, Zenon
<1>4. /\ \A s \in Sites \ {w} : Busy(s)' = Busy(s) /\ inst'[s].present = inst[s].present
      /\ Busy(w)' => Busy(w)
      /\ inst'[w].present => inst[w].present
  BY <1>1, Zenon DEF Busy
<1> QED
  BY <1>2, <1>3, <1>4, SiteMoves, Zenon

\* ... and of one that touches no instance either.
LEMMA NothingMoves ==
    ASSUME Sound, Sound', inst' = inst, unit' = unit,
           \A p \in Pids : Undoomed(p)' <=> Undoomed(p)
    PROVE  [Supervised!Next]_(Supervised!vars)
<1>1. PICK w \in Sites : TRUE
  BY TunnelAssumption, Zenon
<1>2. \A p \in Pids : Undoomed(p)' <=> Undoomed(p) /\ p # NoPid
  BY TunnelAssumption, Zenon
<1>3. NoPid \notin Pids
  BY TunnelAssumption, Zenon
<1>4. \A s \in Sites : Busy(s)' = Busy(s) /\ inst'[s].present = inst[s].present
  BY Zenon DEF Busy
<1> QED
  BY <1>2, <1>3, <1>4, SiteMoves, Zenon

\* A cloudflared is spawned for a site that has none and is, or was, down.
LEMMA SpawnsOne ==
    ASSUME IInv, Sound, Sound', NEW w \in Sites, NEW p \in Pids, SpawnAs(p, w), lock = Free,
           ~Live(inst[w].child),
           NEW i, inst' = [inst EXCEPT ![w] = i], i.present, i.state.tag = "Starting"
    PROVE  Supervised!Next
<1>t. TypeOK /\ unit \in [Pids -> Sites] /\ proc \in [Pids -> ProcStates]
      /\ sig \in [Pids -> {"none", "term", "kill"}]
  BY Zenon DEF IInv, TypeOK
<1>1. inst'[w] = i /\ \A s \in Sites \ {w} : inst'[s] = inst[s]
  BY <1>t, Zenon DEF TypeOK
<1>2. /\ ~Live(p) /\ proc' = [proc EXCEPT ![p] = "live"] /\ sig' = [sig EXCEPT ![p] = "none"]
      /\ unit' = [unit EXCEPT ![p] = w]
  BY Zenon DEF SpawnAs, Dropped
<1>3. \A s \in Sites : p \notin Tunnels(s)
  BY <1>2, Zenon DEF Tunnels, Undoomed
<1>4. Tunnels(w) = {}
  BY TunnelsHeld, FreeFacts
<1>5. \A q \in Pids : Undoomed(q)' <=> Undoomed(q) \/ q = p
  BY <1>t, <1>2, Zenon DEF Undoomed, Live
<1>u. unit'[p] = w /\ \A q \in Pids \ {p} : unit'[q] = unit[q]
  BY <1>t, <1>2, Zenon
<1>6. Tunnels(w)' = {p}
  BY <1>u, <1>4, <1>5, Zenon DEF Tunnels
<1>7. \A s \in Sites \ {w} : Tunnels(s)' = Tunnels(s)
  BY <1>u, <1>3, <1>5, Zenon DEF Tunnels
<1>8. \A s \in Sites : PhaseFits(s) /\ PhaseFits(s)'
  BY Zenon DEF Sound
<1>9. Phase(w)' = "starting" /\ Phase(w) \in {"down", "starting"}
  BY <1>1, <1>4, <1>8, Zenon DEF PhaseFits, Busy
<1>10. \A s \in Sites \ {w} : Phase(s)' = Phase(s)
  <2> TAKE s \in Sites \ {w}
  <2>1. Busy(s)' = Busy(s) /\ inst'[s].present = inst[s].present /\ Tunnels(s)' = Tunnels(s)
    BY <1>1, <1>7, Zenon DEF Busy
  <2>2. PhaseFits(s) /\ PhaseFits(s)'
    BY <1>8, Zenon
  <2> QED
    BY <2>1, <2>2, Zenon DEF PhaseFits
<1> DEFINE ph == [s \in Sites |-> Phase(s)]
           run == [s \in Sites |-> Tunnels(s)]
<1>11. run' = [run EXCEPT ![w] = {p}] /\ run[w] = {}
  BY <1>4, <1>6, <1>7, Zenon
<1>12. ph' = [ph EXCEPT ![w] = "starting"] /\ ph[w] = Phase(w)
  BY <1>9, <1>10, Zenon
<1>13. Supervised!HasNew(w, p)
  BY <1>3, <1>11, Zenon DEF Supervised!HasNew
<1>14. CASE Phase(w) = "down"
  <2>1. Supervised!Start(w)
    BY <1>12, <1>13, <1>14, Zenon DEF Supervised!Start, Supervised!Becomes
  <2> QED
    BY <2>1, Zenon DEF Supervised!Next
<1>15. CASE Phase(w) = "starting"
  <2>1. ph' = ph
    BY <1>12, <1>15, Zenon
  <2>2. Supervised!Spawn(w)
    BY <1>12, <1>13, <1>15, <2>1, Zenon DEF Supervised!Spawn
  <2> QED
    BY <2>2, Zenon DEF Supervised!Next
<1> QED
  BY <1>9, <1>14, <1>15, Zenon

\* advance has nothing to do with a tunnel that is Running.
LEMMA RunningStays ==
    ASSUME TypeOK, NEW s \in Sites, Shape(inst[s]), inst[s].present, inst[s].state.tag = "Running"
    PROVE  Decision(s).action.do = "None" /\ Decision(s).next.tag = "Running"
<1>1. inst[s].pending = HealthCheckOk
  BY FreshFacts, Zenon DEF Shape
<1>2. Decision(s) = To(inst[s].state, None)
  BY <1>1 DEF Decision, transition, HealthCheckOk, State, Event
<1> QED
  BY <1>2 DEF To, None, Act

\* What AdvanceFacts says of the decision and of the entry themselves.
LEMMA AdvancesAt ==
    ASSUME IInv, NEW t \in Tasks, NEW do, Advances(t, do), NEW w, w = task[t].site
    PROVE  /\ w \in Sites /\ inst[w] \in Instance /\ Shape(inst[w]) /\ TypeOK /\ inst[w].present
           /\ lock = Free /\ Decision(w).action.do = do
           /\ Entered(w) \in Instance /\ Entered(w).present /\ Entered(w).state = Decision(w).next
<1>1. PICK e : e = Entered(w)
  BY Zenon
<1>2. PICK D : D = Decision(w)
  BY Zenon
<1>3. /\ w \in Sites /\ inst[w] \in Instance /\ Shape(inst[w]) /\ TypeOK /\ inst[w].present
      /\ lock = Free /\ D.action.do = do
      /\ e \in Instance /\ e.present /\ e.state = D.next
  BY <1>1, <1>2, AdvanceFacts
<1> QED
  BY <1>1, <1>2, <1>3, Zenon

\* Whatever advance does but a spawn or a kill, it changes the instance alone.
LEMMA AdvanceMoves ==
    ASSUME IInv, Sound, Sound', NEW t \in Tasks, NEW do, Advances(t, do),
           NEW i, inst' = [inst EXCEPT ![task[t].site] = i],
           i.present, i.state = Entered(task[t].site).state,
           \A p \in Pids : Undoomed(p)' <=> Undoomed(p),
           unit' = unit
    PROVE  [Supervised!Next]_(Supervised!vars)
<1>w. PICK w : w = task[t].site
  BY Zenon
<1>s. /\ w \in Sites /\ Shape(inst[w]) /\ TypeOK /\ inst[w].present
      /\ Entered(w).state = Decision(w).next
  BY <1>w, AdvancesAt, Zenon
<1>1. i.state.tag # "Running" => Busy(w)
  BY <1>w, <1>s, RunningStays, Zenon DEF Busy
<1> QED
  BY <1>w, <1>s, <1>1, InstanceMoves, Zenon

\* Reaping and a SIGTERM leave every living process undoomed.
LEMMA ReapKeeps ==
    ASSUME TypeOK, NEW ps, proc' = Reap(ps), sig' = sig
    PROVE  \A p \in Pids : Undoomed(p)' <=> Undoomed(p)
  BY Zenon DEF TypeOK, Reap, Undoomed, Live, ProcStates

LEMMA SignalKeeps ==
    ASSUME TypeOK, NEW c, sig' = Signalled(c), proc' = proc
    PROVE  \A p \in Pids : Undoomed(p)' <=> Undoomed(p)
  BY Zenon DEF TypeOK, Signalled, Undoomed, Live

LEMMA SameKeeps ==
    ASSUME proc' = proc, sig' = sig
    PROVE  \A p \in Pids : Undoomed(p)' <=> Undoomed(p)
  BY Zenon DEF Undoomed, Live

LEMMA BeginMaps ==
    ASSUME IInv, Sound, Sound', NEW t \in Tasks, BeginStarts(t) \/ BeginFails(t)
    PROVE  [Supervised!Next]_(Supervised!vars)
<1>w. PICK w : w = task[t].site
  BY Zenon
<1>s. w \in Sites /\ TypeOK
  BY <1>w, SiteFacts, Zenon
<1>1. CASE BeginStarts(t)
  <2> DEFINE first == transition(Stopped, EnsureRequested)
  <2>p. PICK p \in Pids : /\ SpawnAs(p, w)
                          /\ inst' = [inst EXCEPT ![w] = Spawned([Fresh EXCEPT !.state = first.next], p)]
    BY <1>w, <1>1, Zenon DEF BeginStarts
  <2> DEFINE i == Spawned([Fresh EXCEPT !.state = first.next], p)
  <2>1. first.next.tag = "Starting"
    BY Zenon DEF transition, Stopped, EnsureRequested, State, Event, To, Starting
  <2>2. i.present /\ i.state.tag = "Starting"
    BY <2>1, FreshFacts, Zenon DEF Spawned, Fresh
  <2>3. lock = Free /\ ~Live(inst[w].child)
    BY <1>w, <1>1, Zenon DEF BeginStarts, Locks
  <2> HIDE DEF i
  <2>4. inst' = [inst EXCEPT ![w] = i]
    BY <2>p, Zenon DEF i
  <2> QED
    BY <1>s, <2>p, <2>2, <2>3, <2>4, SpawnsOne, Zenon
<1>2. CASE BeginFails(t)
  <2>1. inst' = [inst EXCEPT ![w] = NoInstance] /\ UNCHANGED <<sig, unit>>
    BY <1>w, <1>2, Zenon DEF BeginFails
  <2>2. \A p \in Pids : Undoomed(p)' <=> Undoomed(p)
    BY <1>s, <1>2, <2>1, ReapKeeps, Zenon DEF BeginFails
  <2> QED
    BY <1>s, <2>1, <2>2, FreshFacts, InstanceMoves, Zenon
<1> QED
  BY <1>1, <1>2, Zenon

LEMMA SpawnMaps ==
    ASSUME IInv, Sound, Sound', NEW t \in Tasks, do_spawn(t)
    PROVE  [Supervised!Next]_(Supervised!vars)
<1>w. PICK w : w = task[t].site
  BY Zenon
<1>a. Advances(t, "Spawn")
  BY Zenon DEF do_spawn
<1>s. /\ w \in Sites /\ inst[w] \in Instance /\ Shape(inst[w]) /\ TypeOK /\ inst[w].present
      /\ lock = Free /\ Decision(w).action.do = "Spawn"
      /\ Entered(w) \in Instance /\ Entered(w).present /\ Entered(w).state = Decision(w).next
  BY <1>w, <1>a, AdvancesAt, ZenonT(30)
<1>d. Decision(w).next.tag = "Starting" /\ inst[w].child = NoPid
  BY <1>s, DecisionFacts, Zenon
<1>p. PICK p \in Pids : SpawnAs(p, w) /\ inst' = [inst EXCEPT ![w] = Spawned(Entered(w), p)]
  BY <1>w, Zenon DEF do_spawn, Set
<1> DEFINE i == Spawned(Entered(w), p)
<1>1. i.present /\ i.state.tag = "Starting"
  BY <1>s, <1>d, Zenon DEF Spawned, Instance
<1>2. ~Live(inst[w].child)
  BY <1>d, TunnelAssumption, Zenon DEF Live
<1> HIDE DEF i
<1>3. inst' = [inst EXCEPT ![w] = i]
  BY <1>p, Zenon DEF i
<1> QED
  BY <1>s, <1>p, <1>1, <1>2, <1>3, SpawnsOne, Zenon

\* The other steps of advance, and its kill of a start that timed out.
LEMMA AdvanceMaps ==
    ASSUME IInv, Sound, Sound', NEW t \in Tasks,
           \/ AdvanceNone(t) \/ SpawnFails(t) \/ CheckCrashed(t) \/ CheckReady(t) \/ CheckAgain(t)
           \/ AdvanceBackoff(t) \/ AdvanceFails(t) \/ do_kill(t)
    PROVE  [Supervised!Next]_(Supervised!vars)
<1>w. PICK w : w = task[t].site
  BY Zenon
<1>a. PICK do : Advances(t, do)
  BY Zenon DEF AdvanceNone, SpawnFails, CheckCrashed, CheckReady, CheckAgain, AdvanceBackoff,
         AdvanceFails, do_kill
<1>e. PICK e : e = Entered(w)
  BY Zenon
<1>s. TypeOK /\ e \in Instance /\ e.present
  BY <1>w, <1>a, <1>e, AdvancesAt, Zenon
<1>u. unit' = unit
  BY Zenon DEF AdvanceNone, SpawnFails, CheckCrashed, CheckReady, CheckAgain, AdvanceBackoff,
         AdvanceFails, do_kill, osvars
<1>1. \A p \in Pids : Undoomed(p)' <=> Undoomed(p)
  <2>1. CASE CheckCrashed(t)
    <3>1. proc' = Reap({inst[w].child}) /\ sig' = sig
      BY <1>w, <2>1, Zenon DEF CheckCrashed
    <3> QED
      BY <1>s, <3>1, ReapKeeps, Zenon
  <2>2. CASE do_kill(t)
    <3>1. proc' = proc /\ (sig' = sig \/ sig' = Signalled(inst[w].child))
      BY <1>w, <2>2, Zenon DEF do_kill
    <3> QED
      BY <1>s, <3>1, SignalKeeps, SameKeeps, Zenon
  <2>3. CASE \/ AdvanceNone(t) \/ SpawnFails(t) \/ CheckReady(t) \/ CheckAgain(t)
             \/ AdvanceBackoff(t) \/ AdvanceFails(t)
    <3>1. proc' = proc /\ sig' = sig
      BY <2>3, Zenon DEF AdvanceNone, SpawnFails, CheckReady, CheckAgain, AdvanceBackoff, AdvanceFails, osvars
    <3> QED
      BY <3>1, SameKeeps, Zenon
  <2> QED
    BY <2>1, <2>2, <2>3, Zenon
<1>2. \E i : inst' = [inst EXCEPT ![w] = i] /\ i.present /\ i.state = e.state
  <2>1. CASE AdvanceNone(t) \/ SpawnFails(t) \/ AdvanceFails(t)
    BY <1>w, <1>e, <1>s, <2>1, Zenon DEF AdvanceNone, SpawnFails, AdvanceFails, Set
  <2>2. CASE CheckCrashed(t)
    <3> DEFINE i == [e EXCEPT !.child = NoPid, !.pending = Crashed]
    <3>1. inst' = [inst EXCEPT ![w] = i]
      BY <1>w, <1>e, <2>2, Zenon DEF CheckCrashed, Set
    <3>2. i.present /\ i.state = e.state
      BY <1>s, Zenon DEF Instance
    <3> QED
      BY <3>1, <3>2, Zenon
  <2>3. CASE CheckReady(t)
    <3>p. PICK p \in log[w] : inst' = [inst EXCEPT ![w] = [e EXCEPT !.url = p, !.pending = HealthCheckOk]]
      BY <1>w, <1>e, <2>3, Zenon DEF CheckReady, Set
    <3> DEFINE i == [e EXCEPT !.url = p, !.pending = HealthCheckOk]
    <3>2. i.present /\ i.state = e.state
      BY <1>s, Zenon DEF Instance
    <3> QED
      BY <3>p, <3>2, Zenon
  <2>4. CASE CheckAgain(t)
    <3> DEFINE i == [e EXCEPT !.pending = HealthCheckTick(inst[w].age)]
    <3>1. inst' = [inst EXCEPT ![w] = i]
      BY <1>w, <1>e, <2>4, Zenon DEF CheckAgain, Set
    <3>2. i.present /\ i.state = e.state
      BY <1>s, Zenon DEF Instance
    <3> QED
      BY <3>1, <3>2, Zenon
  <2>5. CASE AdvanceBackoff(t)
    <3> DEFINE i == [e EXCEPT !.pending = BackoffElapsed]
    <3>1. inst' = [inst EXCEPT ![w] = i]
      BY <1>w, <1>e, <2>5, Zenon DEF AdvanceBackoff, Set
    <3>2. i.present /\ i.state = e.state
      BY <1>s, Zenon DEF Instance
    <3> QED
      BY <3>1, <3>2, Zenon
  <2>6. CASE do_kill(t)
    <3>1. Killed(e).present /\ Killed(e).state = e.state
      BY <1>s, KilledFacts, Zenon
    <3> DEFINE n == [e EXCEPT !.child = NoPid]
    <3>2. n.present /\ n.state = e.state
      BY <1>s, Zenon DEF Instance
    <3>3. inst' = [inst EXCEPT ![w] = Killed(e)] \/ inst' = [inst EXCEPT ![w] = n]
      BY <1>w, <1>e, <2>6, Zenon DEF do_kill, Set
    <3> QED
      BY <3>1, <3>2, <3>3, Zenon
  <2> QED
    BY <2>1, <2>2, <2>3, <2>4, <2>5, <2>6, Zenon
<1>3. PICK i : inst' = [inst EXCEPT ![w] = i] /\ i.present /\ i.state = e.state
  BY <1>2, Zenon
<1>4. inst' = [inst EXCEPT ![task[t].site] = i] /\ i.state = Entered(task[t].site).state
  BY <1>w, <1>e, <1>3, Zenon
<1> QED
  BY <1>a, <1>u, <1>1, <1>3, <1>4, AdvanceMoves, Zenon

\* A stop removes the instance; its child, if it lives, is the lock-hold's.
LEMMA StopMaps ==
    ASSUME IInv, Sound, Sound', (\E t \in Tasks : stop(t)) \/ ShutdownNext
    PROVE  [Supervised!Next]_(Supervised!vars)
<1>t. TypeOK /\ lock.rest \subseteq Sites /\ task \in [Tasks -> [at : TaskAt, site : Sites]]
  BY Zenon DEF IInv, TypeOK
<1>1. PICK w \in Sites : /\ inst' = [inst EXCEPT ![w] = NoInstance]
                         /\ sig' = sig \/ sig' = Signalled(inst[w].child)
  <2>1. CASE ShutdownNext
    BY <1>t, <2>1, ZenonT(30) DEF ShutdownNext, Set
  <2>2. CASE \E t \in Tasks : stop(t)
    BY <1>t, <2>2, Zenon DEF stop, Set
  <2> QED
    BY <2>1, <2>2, Zenon
<1>2. proc' = proc /\ unit' = unit
  <2>1. CASE ShutdownNext
    BY <2>1, ZenonT(30) DEF ShutdownNext
  <2>2. CASE \E t \in Tasks : stop(t)
    BY <2>2, ZenonT(30) DEF stop
  <2> QED
    BY <2>1, <2>2, Zenon
<1>3. \A p \in Pids : Undoomed(p)' <=> Undoomed(p)
  BY <1>t, <1>1, <1>2, SignalKeeps, SameKeeps, Zenon
<1> QED
  BY <1>t, <1>1, <1>2, <1>3, FreshFacts, InstanceMoves, Zenon

\* SIGKILL after the grace period, and a death, take one process from its site.
LEMMA LossMaps ==
    ASSUME IInv, Sound, Sound', GraceOver \/ \E p \in Pids : Crash(p)
    PROVE  [Supervised!Next]_(Supervised!vars)
<1>t. /\ TypeOK /\ unit \in [Pids -> Sites] /\ proc \in [Pids -> ProcStates]
      /\ sig \in [Pids -> {"none", "term", "kill"}]
  BY Zenon DEF IInv, TypeOK
<1>1. inst' = inst /\ unit' = unit
  BY Zenon DEF GraceOver, Crash
<1>2. PICK x \in Pids : \A p \in Pids : Undoomed(p)' <=> Undoomed(p) /\ p # x
  <2>1. CASE GraceOver
    <3>1. /\ lock.child \in Pids /\ proc' = proc
          /\ sig' = [sig EXCEPT ![lock.child] = "kill"]
      BY <2>1, Zenon DEF GraceOver, Live
    <3>2. \A p \in Pids : Undoomed(p)' <=> Undoomed(p) /\ p # lock.child
      BY <1>t, <3>1, Zenon DEF Undoomed, Live
    <3> QED
      BY <3>1, <3>2, Zenon
  <2>2. CASE \E p \in Pids : Crash(p)
    <3>1. PICK x \in Pids : Crash(x)
      BY <2>2, Zenon
    <3>2. \A p \in Pids : Undoomed(p)' <=> Undoomed(p) /\ p # x
      BY <1>t, <3>1, Zenon DEF Crash, Undoomed, Live
    <3> QED
      BY <3>2, Zenon
  <2> QED
    BY <2>1, <2>2, Zenon
<1>3. PICK w \in Sites : w = unit[x]
  BY <1>t, Zenon
<1>4. \A s \in Sites : Busy(s)' = Busy(s) /\ inst'[s].present = inst[s].present
  BY <1>1, Zenon DEF Busy
<1> QED
  BY <1>1, <1>2, <1>3, <1>4, SiteMoves

\* Reaping ends a lock-hold: the instance of a killed attempt is still Starting.
LEMMA ReapedMaps ==
    ASSUME IInv, Sound, Sound', Reaped
    PROVE  [Supervised!Next]_(Supervised!vars)
<1>t. TypeOK /\ lock.site \in Sites /\ inst \in [Sites -> Instance]
  BY Zenon DEF IInv, TypeOK
<1>1. proc' = Reap({lock.child}) /\ sig' = sig /\ unit' = unit
  BY Zenon DEF Reaped
<1>2. \A p \in Pids : Undoomed(p)' <=> Undoomed(p)
  BY <1>t, <1>1, ReapKeeps, Zenon
<1>3. CASE lock.doing = "kill"
  <2>1. PICK w \in Sites : w = lock.site
    BY <1>t, Zenon
  <2>2. inst' = [inst EXCEPT ![w] = Killed(inst[w])]
    BY <1>3, <2>1, Zenon DEF Reaped
  <2>3. Killed(inst[w]).present = inst[w].present /\ Killed(inst[w]).state = inst[w].state
    BY <1>t, KilledFacts, Zenon
  <2> QED
    BY <1>t, <1>1, <1>2, <2>2, <2>3, InstanceMoves, Zenon DEF Busy
<1>4. CASE lock.doing # "kill"
  BY <1>1, <1>2, <1>4, NothingMoves, Zenon DEF Reaped
<1> QED
  BY <1>3, <1>4, Zenon

\* What is left changes no instance but its age, and no process but its log.
LEMMA OtherMaps ==
    ASSUME IInv, Sound, Sound',
           \/ \E t \in Tasks : \/ Snapshots(t) \/ BeginRefused(t) \/ AdvanceGone(t) \/ Wake(t)
                               \/ ShutdownStarts(t)
           \/ ShutdownEnds
           \/ \E t \in Tasks, s \in Sites, at \in {"begin", "stop", "shutdown", "status"} :
                  Ask(t, at, s)
           \/ \E p \in Pids : Report(p)
           \/ \E s \in Sites : ClockAdvances(s)
           \/ UNCHANGED vars
    PROVE  [Supervised!Next]_(Supervised!vars)
<1>t. TypeOK /\ inst \in [Sites -> Instance]
  BY Zenon DEF IInv, TypeOK
<1>1. CASE \E t \in Tasks : Snapshots(t)
  <2>1. inst' = inst /\ unit' = unit /\ sig' = sig /\ proc' = Reap({inst[s].child : s \in Sites})
    BY <1>1, Zenon DEF Snapshots
  <2>2. \A p \in Pids : Undoomed(p)' <=> Undoomed(p)
    BY <1>t, <2>1, ReapKeeps, Zenon
  <2> QED
    BY <2>1, <2>2, NothingMoves, Zenon
<1>2. CASE \E s \in Sites : ClockAdvances(s)
  <2>1. PICK w \in Sites : ClockAdvances(w)
    BY <1>2, Zenon
  <2> DEFINE i == [inst[w] EXCEPT !.age = @ + 1]
  <2>2. inst' = [inst EXCEPT ![w] = i] /\ UNCHANGED <<proc, sig, unit>>
    BY <2>1, Zenon DEF ClockAdvances, osvars
  <2>3. i.present = inst[w].present /\ i.state = inst[w].state
    BY <1>t, Zenon DEF Instance
  <2>4. \A p \in Pids : Undoomed(p)' <=> Undoomed(p)
    BY <2>2, SameKeeps, Zenon
  <2> HIDE DEF i
  <2> QED
    BY <1>t, <2>2, <2>3, <2>4, InstanceMoves, Zenon DEF Busy
<1>3. CASE \/ \E t \in Tasks : \/ BeginRefused(t) \/ AdvanceGone(t) \/ Wake(t) \/ ShutdownStarts(t)
           \/ ShutdownEnds
           \/ \E t \in Tasks, s \in Sites, at \in {"begin", "stop", "shutdown", "status"} :
                  Ask(t, at, s)
           \/ \E p \in Pids : Report(p)
           \/ UNCHANGED vars
  <2>1. UNCHANGED <<inst, proc, sig, unit>>
    BY <1>3, Zenon DEF BeginRefused, AdvanceGone, Wake, ShutdownStarts, ShutdownEnds, Ask, Report,
                vars, osvars
  <2> QED
    BY <2>1, SameKeeps, NothingMoves, Zenon
<1> QED
  BY <1>1, <1>2, <1>3, Zenon

\* The tunnel manager implements the supervision of its sites, for any number
\* of sites, processes and tasks that take turns at one instance: every step of
\* any of them is a step of SupervisedUnits or changes no phase and no process.
THEOREM ImplementsSupervision == Spec => TunnelsAreSupervised
<1>1. Init => Supervised!Init
  <2> SUFFICES ASSUME Init PROVE Supervised!Init
    BY Zenon
  <2>1. \A s \in Sites : Tunnels(s) = {}
    BY Zenon DEF Init, Tunnels, Undoomed, Live
  <2>2. \A s \in Sites : ~inst[s].present
    BY FreshFacts, Zenon DEF Init
  <2>3. \A s \in Sites : Phase(s) = "down"
    BY <2>1, <2>2, Zenon DEF Phase
  <2> QED
    BY <2>1, <2>3, Zenon DEF Supervised!Init
<1>2. IInv /\ Sound /\ Sound' /\ [Next]_vars => [Supervised!Next]_(Supervised!vars)
  <2> SUFFICES ASSUME IInv, Sound, Sound', [Next]_vars
               PROVE  [Supervised!Next]_(Supervised!vars)
    BY Zenon
  <2>1. ASSUME NEW t \in Tasks, TaskStep(t)
        PROVE  [Supervised!Next]_(Supervised!vars)
    <3>1. CASE BeginStarts(t) \/ BeginFails(t)
      BY <3>1, BeginMaps, Zenon
    <3>2. CASE do_spawn(t)
      BY <3>2, SpawnMaps, Zenon
    <3>3. CASE \/ AdvanceNone(t) \/ SpawnFails(t) \/ CheckCrashed(t) \/ CheckReady(t) \/ CheckAgain(t)
               \/ AdvanceBackoff(t) \/ AdvanceFails(t) \/ do_kill(t)
      BY <3>3, AdvanceMaps, Zenon
    <3>4. CASE stop(t)
      BY <3>4, StopMaps, Zenon
    <3>5. CASE Snapshots(t) \/ BeginRefused(t) \/ AdvanceGone(t) \/ Wake(t) \/ ShutdownStarts(t)
      BY <3>5, OtherMaps, Zenon
    <3> QED
      BY <2>1, <3>1, <3>2, <3>3, <3>4, <3>5, Zenon DEF TaskStep
  <2>2. CASE HolderStep
    BY <2>2, StopMaps, LossMaps, ReapedMaps, OtherMaps, Zenon DEF HolderStep
  <2>3. CASE \/ \E t \in Tasks, s \in Sites, at \in {"begin", "stop", "shutdown", "status"} :
                    Ask(t, at, s)
             \/ \E p \in Pids : Report(p)
             \/ \E s \in Sites : ClockAdvances(s)
             \/ UNCHANGED vars
    BY <2>3, OtherMaps, Zenon
  <2>4. CASE \E p \in Pids : Crash(p)
    BY <2>4, LossMaps, Zenon
  <2> QED
    BY <2>1, <2>2, <2>3, <2>4, Zenon DEF Next
<1> QED
  BY <1>1, <1>2, Inductive, PhasesSound, PTL DEF Spec, TunnelsAreSupervised, Supervised!Spec
=============================================================================
