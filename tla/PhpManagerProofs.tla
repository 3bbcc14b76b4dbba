-------------------------- MODULE PhpManagerProofs --------------------------
(* Proofs about PhpManager, for any number of versions, processes, clients   *)
(* and restart attempts.                                                     *)
EXTENDS PhpManager, TLAPS

\* The holder of the lock is the head of the queue, and only the holder has
\* a drive in progress.
Holding ==
    /\ job.prog # "none" => queue # <<>>
    /\ job.prog = "none" => job = NoJob /\ drive.at = "idle"
    /\ drive.at = "idle" => drive = NoDrive
    /\ drive.at # "idle" => drive.entry \in {"ensure", "stop"}

\* Every waiter of the lock has one request and waits once.
Queued ==
    /\ \A i \in 1 .. Len(queue) : op[queue[i]] \in Request
    /\ \A i, j \in 1 .. Len(queue) : queue[i] = queue[j] => i = j

\* The state, the event and the child handle of a drive always fit together.
\* These are the only combinations `drive` feeds to `transition` ...
EventShape ==
    \/ /\ drive.entry = "ensure" /\ drive.state = Stopped
       /\ drive.pending = EnsureRequested /\ drive.child = NoPid
    \/ /\ drive.entry = "ensure" /\ drive.state.tag = "Starting"
       /\ \/ drive.pending = SpawnSucceeded(drive.child) /\ drive.child \in Pids
          \/ /\ drive.pending = HealthCheckOk /\ drive.child \in probed
             /\ drive.state.pid = drive.child
          \/ /\ drive.pending.name = "HealthCheckTick" /\ drive.child \in Pids
             /\ drive.state.pid = drive.child
          \/ drive.pending = Crashed /\ drive.child = NoPid
    \/ /\ drive.entry = "ensure" /\ drive.state.tag = "Failed"
       /\ drive.pending = BackoffElapsed /\ drive.child = NoPid
    \/ /\ drive.entry = "stop" /\ drive.state.tag = "Running"
       /\ drive.pending = StopRequested /\ drive.child \in Pids
    \/ /\ drive.entry = "stop" /\ drive.state = Stopping(FALSE)
       /\ drive.pending = StopTick(StopGrace) /\ drive.child \in Pids
    \/ /\ drive.entry = "stop" /\ drive.state.tag = "Stopping"
       /\ drive.pending = StopComplete /\ drive.child = NoPid

\* ... and these the ones it awaits in.
Shape ==
    /\ drive.at # "panic"
    /\ drive.at = "entry" => drive.child = NoPid /\ drive.state = Stopped
    /\ drive.at = "event" => EventShape
    /\ drive.at = "probing" =>
         /\ drive.entry = "ensure" /\ drive.state.tag = "Starting"
         /\ drive.child \in Pids /\ drive.state.pid = drive.child
    /\ drive.at = "backoff" =>
         /\ drive.entry = "ensure" /\ drive.state.tag = "Failed"
         /\ drive.child = NoPid
    /\ drive.at = "waiting" =>
         /\ drive.child \in Pids
         /\ \/ drive.entry = "ensure" /\ drive.state.tag = "Starting"
               /\ drive.state.pid = drive.child
            \/ drive.entry = "stop" /\ drive.state.tag = "Stopping"

\* While a drive past its entry works on a version, the map holds nothing
\* live for that version: ensure found it dead and reaped it, stop removed it.
EntryIsDead ==
    drive.at \notin {"idle", "entry"} =>
        \/ pools[drive.v] = NoPool
        \/ drive.entry = "ensure" /\ proc[pools[drive.v].child] = "gone"

\* Every handle belongs to the version its process was spawned for.
Ownership ==
    /\ \A v \in Versions : pools[v] # NoPool =>
         /\ pools[v].child \in probed
         /\ unit[pools[v].child] = v
         /\ drive.child # pools[v].child
    /\ drive.child # NoPid => unit[drive.child] = drive.v
    /\ NoOrphan

IInv == TypeOK /\ Holding /\ Queued /\ Shape /\ EntryIsDead /\ Ownership

-----------------------------------------------------------------------------
\* What the state machine answers to the events a drive feeds to it.
LEMMA Decisions ==
    ASSUME TypeOK, drive.at = "event", EventShape
    PROVE  /\ Decision.next \in PoolState(Pids)
           /\ Decision.action = Spawn =>
                /\ drive.entry = "ensure" /\ drive.child = NoPid
                /\ Decision.next.tag = "Starting"
           /\ Decision.action = HealthCheck =>
                /\ drive.entry = "ensure" /\ drive.child \in Pids
                /\ Decision.next.tag = "Starting" /\ Decision.next.pid = drive.child
           /\ Decision.action.do = "Backoff" =>
                /\ drive.entry = "ensure" /\ drive.child = NoPid
                /\ Decision.next.tag = "Failed"
           /\ Decision.action \in {KillTerm, KillKill} =>
                /\ drive.child \in Pids
                /\ \/ /\ drive.entry = "ensure" /\ Decision.next.tag = "Starting"
                      /\ Decision.next.pid = drive.child
                   \/ drive.entry = "stop" /\ Decision.next.tag = "Stopping"
           /\ Decision.action = None =>
                \/ /\ drive.entry = "ensure" /\ drive.child \in probed
                   /\ Decision.next = Running(drive.child)
                \/ /\ drive.entry = "stop" /\ drive.child = NoPid
                   /\ Decision.next = Stopped
           /\ Decision.action = PermanentFailure => drive.child = NoPid
<1> USE PolicyAssumption, ManagerAssumption DEF State, Event
<1>t. /\ drive.state \in PoolState(Pids)
      /\ probed \in SUBSET Pids
  BY Zenon DEF TypeOK, DriveType
<1>1. CASE /\ drive.state = Stopped /\ drive.pending = EnsureRequested
           /\ drive.entry = "ensure" /\ drive.child = NoPid
  <2>1. Decision = To(Starting(1, NoPid), Spawn)
    BY <1>1 DEF Decision, transition, To, Act, EnsureRequested, Stopped
  <2> QED
    BY <1>1, <1>t, <2>1
    DEF PoolState, Tags, Act, To, Retry, Stopped, Starting, Running, Failed, Stopping, None,
        Spawn, HealthCheck, Backoff, KillTerm, KillKill, PermanentFailure
<1>2. CASE /\ drive.state.tag = "Starting" /\ drive.pending = SpawnSucceeded(drive.child)
           /\ drive.entry = "ensure" /\ drive.child \in Pids
  <2>1. Decision = To(Starting(drive.state.attempts, drive.child), HealthCheck)
    BY <1>2 DEF Decision, transition, To, Act, SpawnSucceeded
  <2> QED
    BY <1>2, <1>t, <2>1, Zenon
    DEF PoolState, Tags, Act, To, Retry, Stopped, Starting, Running, Failed, Stopping, None,
        Spawn, HealthCheck, Backoff, KillTerm, KillKill, PermanentFailure
<1>3. CASE /\ drive.state.tag = "Starting" /\ drive.pending = HealthCheckOk
           /\ drive.entry = "ensure" /\ drive.child \in probed /\ drive.state.pid = drive.child
  <2>1. Decision = To(Running(drive.child), None)
    BY <1>3, <1>t DEF Decision, transition, To, Act, HealthCheckOk
  <2> QED
    BY <1>3, <1>t, <2>1
    DEF PoolState, Tags, Act, To, Retry, Stopped, Starting, Running, Failed, Stopping, None,
        Spawn, HealthCheck, Backoff, KillTerm, KillKill, PermanentFailure
<1>4. CASE /\ drive.state.tag = "Starting" /\ drive.pending.name = "HealthCheckTick"
           /\ drive.entry = "ensure" /\ drive.child \in Pids /\ drive.state.pid = drive.child
  <2>1. \/ Decision = To(drive.state, HealthCheck)
        \/ Decision = To(drive.state, KillTerm)
    BY <1>4, Zenon DEF Decision, transition, To, Act
  <2> QED
    BY <1>4, <1>t, <2>1
    DEF PoolState, Tags, Act, To, Retry, Stopped, Starting, Running, Failed, Stopping, None,
        Spawn, HealthCheck, Backoff, KillTerm, KillKill, PermanentFailure
<1>5. CASE /\ drive.state.tag = "Starting" /\ drive.pending = Crashed
           /\ drive.entry = "ensure" /\ drive.child = NoPid
  <2>1. \E w : Decision = To(Failed(drive.state.attempts), Backoff(w))
    BY <1>5 DEF Decision, transition, To, Act, Crashed
  <2> QED
    BY <1>5, <1>t, <2>1
    DEF PoolState, Tags, Act, To, Retry, Stopped, Starting, Running, Failed, Stopping, None,
        Spawn, HealthCheck, Backoff, KillTerm, KillKill, PermanentFailure
<1>6. CASE /\ drive.state.tag = "Failed" /\ drive.pending = BackoffElapsed
           /\ drive.entry = "ensure" /\ drive.child = NoPid
  <2>1. Decision = Retry(drive.state.attempts)
    BY <1>6 DEF Decision, transition, To, Act, BackoffElapsed
  <2> QED
    BY <1>6, <1>t, <2>1
    DEF PoolState, Tags, Act, To, Retry, Stopped, Starting, Running, Failed, Stopping, None,
        Spawn, HealthCheck, Backoff, KillTerm, KillKill, PermanentFailure
<1>7. CASE /\ drive.state.tag = "Running" /\ drive.pending = StopRequested
           /\ drive.entry = "stop" /\ drive.child \in Pids
  <2>1. Decision = To(Stopping(FALSE), KillTerm)
    BY <1>7 DEF Decision, transition, To, Act, StopRequested
  <2> QED
    BY <1>7, <1>t, <2>1
    DEF PoolState, Tags, Act, To, Retry, Stopped, Starting, Running, Failed, Stopping, None,
        Spawn, HealthCheck, Backoff, KillTerm, KillKill, PermanentFailure
<1>8. CASE /\ drive.state = Stopping(FALSE) /\ drive.pending = StopTick(StopGrace)
           /\ drive.entry = "stop" /\ drive.child \in Pids
  <2>1. Decision = To(Stopping(TRUE), KillKill)
    BY <1>8 DEF Decision, transition, To, Act, StopTick, Stopping
  <2> QED
    BY <1>8, <1>t, <2>1
    DEF PoolState, Tags, Act, To, Retry, Stopped, Starting, Running, Failed, Stopping, None,
        Spawn, HealthCheck, Backoff, KillTerm, KillKill, PermanentFailure
<1>9. CASE /\ drive.state.tag = "Stopping" /\ drive.pending = StopComplete
           /\ drive.entry = "stop" /\ drive.child = NoPid
  <2>1. Decision = To(Stopped, None)
    BY <1>9 DEF Decision, transition, To, Act, StopComplete
  <2> QED
    BY <1>9, <1>t, <2>1
    DEF PoolState, Tags, Act, To, Retry, Stopped, Starting, Running, Failed, Stopping, None,
        Spawn, HealthCheck, Backoff, KillTerm, KillKill, PermanentFailure
<1> QED
  BY <1>1, <1>2, <1>3, <1>4, <1>5, <1>6, <1>7, <1>8, <1>9, Zenon DEF EventShape

-----------------------------------------------------------------------------
\* The entry of a version is absent, or a Running pool with a real child.
LEMMA PoolEntries ==
    ASSUME TypeOK, NEW v \in Versions
    PROVE  \/ pools[v] = NoPool /\ pools[v].child = NoPid
           \/ /\ pools[v] # NoPool /\ pools[v].child \in Pids
              /\ pools[v].state = Running(pools[v].child)
BY ManagerAssumption DEF TypeOK, NoPool, Pool

\* An operation that ends leaves the drive idle or at the entry of ensure.
LEMMA FinishFacts ==
    ASSUME TypeOK, Holding, drive.at # "idle", NEW ok \in BOOLEAN, Finish(ok)
    PROVE  /\ drive'.at \in {"idle", "entry"} /\ drive'.child = NoPid
           /\ drive'.state = Stopped
           /\ drive'.at = "idle" => drive' = NoDrive
           /\ drive'.at = "entry" => drive'.entry = "ensure"
           /\ job'.prog = job.prog /\ job.prog # "none"
           /\ job' \in JobType
           /\ drive' \in DriveType
<1> USE PolicyAssumption, ManagerAssumption
<1>1. NoDrive \in DriveType
  BY DEF NoDrive, DriveType, DriveAt, Versions, PoolState, Tags, PoolEvent, EventNames, Stopped,
         State, EnsureRequested, Event
<1>t. /\ job \in JobType
      /\ drive.v \in Versions
  BY Zenon DEF TypeOK, DriveType
<1>2. CASE job.prog = "restart" /\ drive.entry = "stop"
  <2>1. /\ drive' = [NoDrive EXCEPT !.at = "entry", !.v = drive.v, !.entry = "ensure"]
        /\ job' = job
    BY <1>2, Zenon DEF Finish
  <2> QED
    BY <1>1, <1>2, <1>t, <2>1, Zenon DEF NoDrive, DriveType, DriveAt
<1>3. CASE ~(job.prog = "restart" /\ drive.entry = "stop")
  <2>1. /\ drive' = NoDrive
        /\ job' = [job EXCEPT !.ok = @ /\ ok]
    BY <1>3, Zenon DEF Finish
  <2>2. job.prog # "none"
    BY Zenon DEF Holding
  <2>3. (job.ok /\ ok) \in BOOLEAN
    BY <1>t, Zenon DEF JobType
  <2> QED
    BY <1>1, <1>t, <2>1, <2>2, <2>3, Zenon DEF NoDrive, JobType
<1> QED
  BY <1>2, <1>3, Zenon

\* Reaping changes nothing but the state of exited processes.
LEMMA ReapFacts ==
    ASSUME TypeOK, NEW ps
    PROVE  /\ Reap(ps) \in [Pids -> ProcStates]
           /\ \A p \in Pids : /\ Reap(ps)[p] \in {"booting", "serving"} <=> Live(p)
                              /\ proc[p] = "gone" => Reap(ps)[p] = "gone"
                              /\ p \in ps /\ ~Live(p) => Reap(ps)[p] = "gone"
BY Zenon DEF TypeOK, Reap, ProcStates, Live

\* Dropping a handle can only doom its process.
LEMMA DroppedFacts ==
    ASSUME TypeOK, NEW q
    PROVE  /\ Dropped(q) \in [Pids -> {"none", "term", "kill"}]
           /\ \A p \in Pids : p # q => Dropped(q)[p] = sig[p]
           /\ \A p \in Pids : Dropped(q)[p] # "kill" => sig[p] # "kill"
           /\ Live(q) => Dropped(q)[q] = "kill"
BY Zenon DEF TypeOK, Dropped, Live

-----------------------------------------------------------------------------
\* Between its awaits a drive may change anything but the version, the entry
\* and the handle it has, or lose the handle of a dead child.
LEMMA MoveStep ==
    ASSUME IInv, drive.at \notin {"idle", "entry"},
           drive' \in DriveType, drive'.at \notin {"idle", "entry"},
           drive'.v = drive.v, drive'.entry = drive.entry,
           \/ drive'.child = drive.child
           \/ drive'.child = NoPid /\ ~Live(drive.child),
           proc' \in [Pids -> ProcStates], sig' \in [Pids -> {"none", "term", "kill"}],
           \A p \in Pids : Undoomed(p)' => Undoomed(p),
           \A p \in Pids : proc[p] = "gone" => proc'[p] = "gone",
           probed \subseteq probed', probed' \subseteq Pids,
           UNCHANGED <<pools, unit, clientvars, job>>
    PROVE  TypeOK' /\ Holding' /\ Queued' /\ EntryIsDead' /\ Ownership'
<1> USE ManagerAssumption
<1>1. TypeOK'
  BY Zenon DEF IInv, TypeOK, clientvars
<1>2. Holding' /\ Queued'
  BY Zenon DEF IInv, Holding, Queued, clientvars
<1>3. EntryIsDead'
  <2>1. drive.v \in Versions
    BY Zenon DEF IInv, TypeOK, DriveType
  <2> QED
    BY <2>1, PoolEntries, Zenon DEF IInv, EntryIsDead
<1>4. Ownership'
  <2>1. \A v \in Versions : pools[v] # NoPool => pools[v].child \in Pids
    BY PoolEntries, Zenon DEF IInv
  <2>2. \A v \in Versions : pools'[v] # NoPool =>
         /\ pools'[v].child \in probed'
         /\ unit'[pools'[v].child] = v
         /\ drive'.child # pools'[v].child
    BY <2>1, Zenon DEF IInv, Ownership
  <2>3. drive'.child # NoPid => unit'[drive'.child] = drive'.v
    BY Zenon DEF IInv, Ownership
  <2>4. NoOrphan'
    BY DEF IInv, Ownership, NoOrphan, Undoomed
  <2> QED
    BY <2>2, <2>3, <2>4, Zenon DEF Ownership, NoPool
<1> QED
  BY <1>1, <1>2, <1>3, <1>4, Zenon

\* An operation may end once its child is dead or doomed.
LEMMA FinishStep ==
    ASSUME IInv, drive.at # "idle", NEW ok \in BOOLEAN, Finish(ok),
           proc' \in [Pids -> ProcStates], sig' \in [Pids -> {"none", "term", "kill"}],
           \A p \in Pids : Undoomed(p)' => Undoomed(p) /\ p # drive.child,
           UNCHANGED <<pools, unit, probed, clientvars>>
    PROVE  IInv'
<1> USE ManagerAssumption
<1>f. /\ drive'.at \in {"idle", "entry"} /\ drive'.child = NoPid
      /\ drive'.state = Stopped
      /\ drive'.at = "idle" => drive' = NoDrive
      /\ drive'.at = "entry" => drive'.entry = "ensure"
      /\ job'.prog = job.prog /\ job.prog # "none"
      /\ job' \in JobType /\ drive' \in DriveType
  BY FinishFacts, Zenon DEF IInv
<1>1. TypeOK'
  BY <1>f, Zenon DEF IInv, TypeOK, clientvars
<1>2. Holding' /\ Queued'
  BY <1>f, Zenon DEF IInv, Holding, Queued, clientvars
<1>3. Shape' /\ EntryIsDead'
  BY <1>f, Zenon DEF Shape, EntryIsDead
<1>4. Ownership'
  <2>1. \A v \in Versions : pools[v] # NoPool => pools[v].child \in Pids
    BY PoolEntries, Zenon DEF IInv
  <2>2. NoOrphan'
    BY <1>f, Zenon DEF IInv, Ownership, NoOrphan, Undoomed
  <2> QED
    BY <1>f, <2>1, <2>2, Zenon DEF IInv, Ownership, NoPool
<1> QED
  BY <1>1, <1>2, <1>3, <1>4, Zenon DEF IInv

\* In particular it may end in an error that drops the child handle.
LEMMA ErrorStep ==
    ASSUME IInv, drive.at # "idle", DriveError
    PROVE  IInv'
<1> USE ManagerAssumption
<1>1. /\ Dropped(drive.child) \in [Pids -> {"none", "term", "kill"}]
      /\ \A p \in Pids : Dropped(drive.child)[p] # "kill" => sig[p] # "kill"
      /\ Live(drive.child) => Dropped(drive.child)[drive.child] = "kill"
  BY DroppedFacts, Zenon DEF IInv
<1>2. \A p \in Pids : Undoomed(p)' => Undoomed(p) /\ p # drive.child
  BY <1>1, Zenon DEF DriveError, Undoomed, Live
<1>3. /\ Finish(FALSE) /\ sig' = Dropped(drive.child)
      /\ UNCHANGED <<pools, proc, unit, probed, clientvars>>
  BY Zenon DEF DriveError
<1>4. proc' \in [Pids -> ProcStates]
  BY <1>3, Zenon DEF IInv, TypeOK
<1> QED
  BY <1>1, <1>2, <1>3, <1>4, FinishStep, Zenon

-----------------------------------------------------------------------------
\* The operating system never creates a master and never revives one.
LEMMA SystemSteps ==
    ASSUME IInv, NEW p \in Pids, Boot(p) \/ Crash(p)
    PROVE  IInv'
<1> USE ManagerAssumption
<1>1. /\ proc' \in [Pids -> ProcStates]
      /\ sig' \in [Pids -> {"none", "term", "kill"}]
      /\ \A q \in Pids : Undoomed(q)' => Undoomed(q)
      /\ \A q \in Pids : proc[q] = "gone" => proc'[q] = "gone"
      /\ UNCHANGED <<pools, unit, probed, clientvars, job, drive>>
  BY Zenon DEF IInv, TypeOK, Boot, Crash, Undoomed, Live, ProcStates
<1>2. TypeOK'
  BY <1>1, Zenon DEF IInv, TypeOK, clientvars
<1>3. Holding' /\ Queued' /\ Shape'
  BY <1>1, Zenon DEF IInv, Holding, Queued, Shape, EventShape, clientvars
<1>4. EntryIsDead'
  <2>1. drive.v \in Versions
    BY Zenon DEF IInv, TypeOK, DriveType
  <2> QED
    BY <1>1, <2>1, PoolEntries, Zenon DEF IInv, EntryIsDead
<1>5. Ownership'
  BY <1>1, Zenon DEF IInv, Ownership, NoOrphan, Undoomed
<1> QED
  BY <1>2, <1>3, <1>4, <1>5, Zenon DEF IInv

\* Clients come and go, and the lock passes on, between two drives.
LEMMA ClientSteps ==
    ASSUME IInv,
           \/ \E c \in Clients, r \in Request : Submit(c, r)
           \/ \E i \in 1 .. Len(queue) : CancelQueued(i)
           \/ Snapshots \/ Acquire \/ NextUnit \/ Release
    PROVE  IInv'
<1> USE ManagerAssumption, PolicyAssumption
<1>t. TypeOK /\ Holding /\ Queued /\ Shape /\ EntryIsDead /\ Ownership
  BY Zenon DEF IInv
<1>n. NoRequest \in Request \cup {NoRequest} /\ NoJob \in JobType
  BY Zenon DEF NoJob, JobType
<1>1. ASSUME NEW c \in Clients, NEW r \in Request, Submit(c, r)
      PROVE  IInv'
  <2>1. TypeOK'
    BY <1>t, <1>1 DEF Submit, TypeOK, osvars
  <2>2. Holding'
    BY <1>t, <1>1 DEF Submit, Holding, TypeOK
  <2>q. Queued'
    <3>1. /\ queue' = Append(queue, c) /\ op' = [op EXCEPT ![c] = r]
          /\ op[c] = NoRequest /\ queue \in Seq(Clients)
          /\ op \in [Clients -> Request \cup {NoRequest}]
      BY <1>t, <1>1, Zenon DEF Submit, TypeOK
    <3>2. NoRequest \notin Request
      BY Zenon DEF NoRequest, Request
    <3>3. \A i \in 1 .. Len(queue) : queue[i] # c
      BY <1>t, <3>1, <3>2, Zenon DEF Queued
    <3> QED
      BY <1>t, <3>1, <3>3 DEF Queued
  <2>3. Shape' /\ EntryIsDead' /\ Ownership'
    BY <1>t, <1>1, Zenon DEF Submit, Shape, EventShape, EntryIsDead, Ownership, NoOrphan,
                      Undoomed, Live, osvars
  <2> QED
    BY <2>1, <2>2, <2>q, <2>3, Zenon DEF IInv
<1>2. ASSUME NEW i \in 1 .. Len(queue), CancelQueued(i)
      PROVE  IInv'
  <2>1. TypeOK'
    BY <1>t, <1>n, <1>2 DEF CancelQueued, TypeOK, osvars
  <2>q. /\ Len(queue') = Len(queue) - 1
        /\ \A j \in 1 .. Len(queue) - 1 :
             queue'[j] = IF j < i THEN queue[j] ELSE queue[j + 1]
    <3> DEFINE front == SubSeq(queue, 1, i - 1)
               back == SubSeq(queue, i + 1, Len(queue))
    <3>1. queue \in Seq(Clients) /\ queue' = front \o back
      BY <1>t, <1>2, Zenon DEF CancelQueued, TypeOK
    <3>2. /\ front \in Seq(Clients) /\ Len(front) = i - 1
          /\ \A j \in 1 .. i - 1 : front[j] = queue[j]
      BY <3>1
    <3>3. /\ back \in Seq(Clients) /\ Len(back) = Len(queue) - i
          /\ \A j \in 1 .. Len(queue) - i : back[j] = queue[i + j]
      BY <3>1
    <3> HIDE DEF front, back
    <3>4. Len(queue') = Len(queue) - 1
      BY <3>1, <3>2, <3>3
    <3>5. ASSUME NEW j \in 1 .. Len(queue) - 1
          PROVE  queue'[j] = IF j < i THEN queue[j] ELSE queue[j + 1]
      <4>1. CASE j < i
        BY <3>1, <3>2, <3>3, <4>1
      <4>2. CASE j >= i
        <5>1. queue'[j] = back[j - (i - 1)]
          BY <3>1, <3>2, <3>3, <4>2
        <5>2. back[j - (i - 1)] = queue[i + (j - (i - 1))]
          BY <3>1, <3>3, <4>2
        <5> QED
          BY <3>1, <4>2, <5>1, <5>2
      <4>3. j < i \/ j >= i
        BY <3>1
      <4> QED
        BY <4>1, <4>2, <4>3, Zenon
    <3> QED
      BY <3>4, <3>5, Zenon
  <2>2. Holding'
    <3>1. UNCHANGED <<job, drive>> /\ (i > 1 \/ job = NoJob) /\ Len(queue) \in Nat
      BY <1>t, <1>2 DEF CancelQueued, TypeOK
    <3>2. job.prog # "none" => queue' # <<>>
      <4>1. job.prog # "none" => Len(queue') # 0
        BY <2>q, <3>1 DEF NoJob
      <4> QED
        BY <4>1, Zenon
    <3> QED
      BY <1>t, <3>1, <3>2, Zenon DEF Holding
  <2>4. Queued'
    <3>1. /\ op' = [op EXCEPT ![queue[i]] = NoRequest] /\ queue \in Seq(Clients)
          /\ op \in [Clients -> Request \cup {NoRequest}]
      BY <1>t, <1>2, Zenon DEF CancelQueued, TypeOK
    <3>2. /\ Len(queue) \in Nat /\ Len(queue') = Len(queue) - 1
          /\ \A j \in 1 .. Len(queue) : queue[j] \in Clients
      BY <2>q, <3>1
    <3>3. ASSUME NEW j \in 1 .. Len(queue')
          PROVE  \E k \in 1 .. Len(queue) :
                    /\ queue'[j] = queue[k] /\ k # i
                    /\ k = IF j < i THEN j ELSE j + 1
      BY <2>q, <3>2
    <3>4. \A j \in 1 .. Len(queue') : op'[queue'[j]] \in Request
      BY <1>t, <3>1, <3>2, <3>3 DEF Queued
    <3>5. \A j, k \in 1 .. Len(queue') : queue'[j] = queue'[k] => j = k
      BY <1>t, <3>2, <3>3 DEF Queued
    <3> QED
      BY <3>4, <3>5, Zenon DEF Queued
  <2>3. Shape' /\ EntryIsDead' /\ Ownership'
    BY <1>t, <1>2, Zenon DEF CancelQueued, Shape, EventShape, EntryIsDead, Ownership, NoOrphan,
                      Undoomed, Live, osvars
  <2> QED
    BY <2>1, <2>2, <2>4, <2>3, Zenon DEF IInv
<1>3. ASSUME Snapshots
      PROVE  IInv'
  <2> DEFINE ps == {pools[v].child : v \in Versions}
  <2>1. /\ Reap(ps) \in [Pids -> ProcStates]
        /\ \A q \in Pids : /\ Reap(ps)[q] \in {"booting", "serving"} <=> Live(q)
                           /\ proc[q] = "gone" => Reap(ps)[q] = "gone"
    BY <1>t, ReapFacts, Zenon
  <2>2. proc' = Reap(ps) /\ Answer /\ queue # <<>> /\ job = NoJob
        /\ UNCHANGED <<pools, sig, unit, probed, job, drive>>
    BY <1>3, Zenon DEF Snapshots
  <2> HIDE DEF ps
  <2>3. TypeOK'
    BY <1>t, <1>n, <2>1, <2>2 DEF TypeOK, Answer
  <2>q. Queued'
    <3>1. /\ queue' = Tail(queue) /\ op' = [op EXCEPT ![queue[1]] = NoRequest]
          /\ queue \in Seq(Clients) /\ op \in [Clients -> Request \cup {NoRequest}]
      BY <1>t, <2>2 DEF Answer, TypeOK
    <3> QED
      BY <1>t, <2>2, <3>1 DEF Queued
  <2>4. Holding' /\ Shape' /\ EntryIsDead'
    BY <1>t, <2>2, Zenon DEF Holding, Shape, EntryIsDead, NoJob, NoDrive
  <2>5. Ownership'
    BY <1>t, <2>1, <2>2, Zenon DEF Ownership, NoOrphan, Undoomed, Live
  <2> QED
    BY <2>3, <2>q, <2>4, <2>5, Zenon DEF IInv
<1>4. ASSUME Acquire
      PROVE  IInv'
  <2> DEFINE ps == {pools[v].child : v \in Versions}
  <2>1. /\ Reap(ps) \in [Pids -> ProcStates]
        /\ \A q \in Pids : /\ Reap(ps)[q] \in {"booting", "serving"} <=> Live(q)
                           /\ proc[q] = "gone" => Reap(ps)[q] = "gone"
    BY <1>t, ReapFacts, Zenon
  <2>2. proc' = Reap(ps) \/ proc' = proc
    BY <1>4, Zenon DEF Acquire
  <2> HIDE DEF ps
  <2>3. /\ queue # <<>> /\ job = NoJob
        /\ UNCHANGED <<pools, sig, unit, probed, clientvars, drive>>
    BY <1>4, Zenon DEF Acquire
  <2>4. op[Head(queue)] \in Request
    BY <1>t, <2>3 DEF TypeOK, Queued
  <2>5. job' \in JobType /\ job'.prog # "none"
    BY <1>4, <2>4, Zenon DEF Acquire, JobType, PoolKeys, Request, Versions
  <2>6. TypeOK'
    BY <1>t, <2>1, <2>2, <2>3, <2>5, Zenon DEF TypeOK, clientvars
  <2>7. Holding' /\ Queued' /\ Shape' /\ EntryIsDead'
    BY <1>t, <2>3, <2>5, Zenon
    DEF Holding, Queued, Shape, EntryIsDead, NoJob, NoDrive, clientvars
  <2>8. Ownership'
    BY <1>t, <2>1, <2>2, <2>3, Zenon DEF Ownership, NoOrphan, Undoomed, Live
  <2> QED
    BY <2>6, <2>7, <2>8, Zenon DEF IInv
<1>5. ASSUME NextUnit
      PROVE  IInv'
  <2>1. PICK v \in job.rest :
          /\ job' = [job EXCEPT !.rest = @ \ {v}]
          /\ drive' = [NoDrive EXCEPT !.at = "entry", !.v = v,
                          !.entry = IF job.prog = "ensure" THEN "ensure" ELSE "stop"]
    BY <1>5, Zenon DEF NextUnit
  <2>2. /\ job.prog # "none" /\ drive = NoDrive
        /\ UNCHANGED <<pools, osvars, clientvars>>
    BY <1>t, <1>5, Zenon DEF NextUnit, Holding
  <2>3. v \in Versions /\ job' \in JobType /\ job'.prog = job.prog
    BY <1>t, <2>1, Zenon DEF TypeOK, JobType
  <2>4. /\ drive' \in DriveType /\ drive'.at = "entry" /\ drive'.child = NoPid
        /\ drive'.state = Stopped /\ drive'.entry \in {"ensure", "stop"}
    BY <1>t, <2>1, <2>2, <2>3, Zenon DEF TypeOK, NoDrive, DriveType, DriveAt
  <2>5. TypeOK' /\ Holding' /\ Queued' /\ Shape' /\ EntryIsDead'
    BY <1>t, <2>2, <2>3, <2>4, Zenon
    DEF TypeOK, Holding, Queued, Shape, EntryIsDead, osvars, clientvars
  <2>6. drive.child = NoPid
    BY <2>2, Zenon DEF NoDrive
  <2>7. Ownership'
    BY <1>t, <2>2, <2>4, <2>6, PoolEntries DEF Ownership, NoOrphan, Undoomed, Live, osvars
  <2> QED
    BY <2>5, <2>7, Zenon DEF IInv
<1>6. ASSUME Release
      PROVE  IInv'
  <2>1. /\ job.prog # "none" /\ queue # <<>> /\ drive = NoDrive /\ job' = NoJob
        /\ Answer
        /\ UNCHANGED <<pools, osvars, drive>>
    BY <1>t, <1>6, Zenon DEF Release, Holding
  <2>2. TypeOK'
    BY <1>t, <1>n, <2>1 DEF TypeOK, Answer, osvars
  <2>q. Queued'
    <3>1. /\ queue' = Tail(queue) /\ op' = [op EXCEPT ![queue[1]] = NoRequest]
          /\ queue \in Seq(Clients) /\ op \in [Clients -> Request \cup {NoRequest}]
      BY <1>t, <2>1 DEF Answer, TypeOK
    <3> QED
      BY <1>t, <2>1, <3>1 DEF Queued
  <2>3. Holding' /\ Shape' /\ EntryIsDead'
    BY <1>t, <2>1, Zenon DEF Holding, Shape, EntryIsDead, NoJob, NoDrive
  <2>4. Ownership'
    BY <1>t, <2>1, Zenon DEF Ownership, NoOrphan, Undoomed, Live, osvars
  <2> QED
    BY <2>2, <2>q, <2>3, <2>4, Zenon DEF IInv
<1> QED
  BY <1>1, <1>2, <1>3, <1>4, <1>5, <1>6, Zenon

-----------------------------------------------------------------------------
\* ensure and stop set a drive up only when nothing live stays in the map.
LEMMA EntrySteps ==
    ASSUME IInv,
           EnsureRunning \/ EnsureRefused \/ EnsureStart \/ StopAbsent \/ StopStart
    PROVE  IInv'
<1> USE ManagerAssumption, PolicyAssumption
<1>t. TypeOK /\ Holding /\ Queued /\ Shape /\ EntryIsDead /\ Ownership
  BY Zenon DEF IInv
<1>a. /\ drive.at = "entry" /\ drive.child = NoPid /\ drive.state = Stopped
      /\ drive \in DriveType /\ drive.v \in Versions /\ job.prog # "none"
  BY <1>t, Zenon DEF EnsureRunning, EnsureRefused, EnsureStart, StopAbsent, StopStart,
              Shape, TypeOK, DriveType, Holding
<1>r. LET r == Reap({pools[drive.v].child}) IN
      /\ r \in [Pids -> ProcStates]
      /\ \A p \in Pids : /\ r[p] \in {"booting", "serving"} <=> Live(p)
                         /\ proc[p] = "gone" => r[p] = "gone"
                         /\ p = pools[drive.v].child /\ ~Live(p) => r[p] = "gone"
  BY <1>t, ReapFacts, Zenon
<1>1. ASSUME EnsureRunning \/ StopAbsent
      PROVE  IInv'
  <2>1. Finish(TRUE) /\ UNCHANGED <<pools, osvars, clientvars>>
    BY <1>1, Zenon DEF EnsureRunning, StopAbsent
  <2>2. /\ \A p \in Pids : Undoomed(p)' => Undoomed(p) /\ p # drive.child
        /\ proc' \in [Pids -> ProcStates] /\ sig' \in [Pids -> {"none", "term", "kill"}]
    BY <1>t, <1>a, <2>1, Zenon DEF osvars, Undoomed, Live, TypeOK
  <2> QED
    BY <1>a, <2>1, <2>2, FinishStep, Zenon DEF osvars
<1>2. ASSUME EnsureRefused
      PROVE  IInv'
  <2>1. /\ Finish(FALSE) /\ UNCHANGED <<pools, sig, unit, probed, clientvars>>
        /\ proc' = proc \/ proc' = Reap({pools[drive.v].child})
    BY <1>2, Zenon DEF EnsureRefused
  <2>2. /\ \A p \in Pids : Undoomed(p)' => Undoomed(p) /\ p # drive.child
        /\ proc' \in [Pids -> ProcStates] /\ sig' \in [Pids -> {"none", "term", "kill"}]
    BY <1>t, <1>a, <1>r, <2>1, Zenon DEF Undoomed, Live, TypeOK
  <2> QED
    BY <1>a, <2>1, <2>2, FinishStep, Zenon
<1>3. ASSUME EnsureStart
      PROVE  IInv'
  <2>1. /\ proc' = Reap({pools[drive.v].child}) /\ ~Live(pools[drive.v].child)
        /\ drive.entry = "ensure"
        /\ drive' = [drive EXCEPT !.at = "event", !.pending = EnsureRequested]
        /\ UNCHANGED <<pools, sig, unit, probed, clientvars, job>>
    BY <1>3, Zenon DEF EnsureStart
  <2>2. EnsureRequested \in PoolEvent(Pids, HealthCheckWindow + StopGrace)
    BY DEF EnsureRequested, Event, PoolEvent, EventNames
  <2>3. /\ drive' \in DriveType /\ drive'.at = "event" /\ drive'.entry = "ensure"
        /\ drive'.v = drive.v /\ drive'.child = NoPid /\ drive'.state = Stopped
        /\ drive'.pending = EnsureRequested
    BY <1>a, <2>1, <2>2, Zenon DEF DriveType, DriveAt
  <2>4. TypeOK' /\ Holding' /\ Queued'
    BY <1>t, <1>a, <1>r, <2>1, <2>3, Zenon DEF TypeOK, Holding, Queued, clientvars
  <2>5. Shape'
    BY <2>3, Zenon DEF Shape, EventShape
  <2>6. EntryIsDead'
    BY <1>t, <1>a, <1>r, <2>1, <2>3, PoolEntries, Zenon DEF EntryIsDead
  <2>7. Ownership'
    <3>1. \A p \in Pids : Undoomed(p)' => Undoomed(p)
      BY <1>r, <2>1, Zenon DEF Undoomed, Live
    <3>2. NoOrphan'
      BY <1>t, <1>a, <2>1, <2>3, <3>1, Zenon DEF Ownership, NoOrphan, TypeOK
    <3> QED
      BY <1>t, <1>a, <2>1, <2>3, <3>2 DEF Ownership
  <2> QED
    BY <2>4, <2>5, <2>6, <2>7, Zenon DEF IInv
<1>4. ASSUME StopStart
      PROVE  IInv'
  <2>1. /\ pools[drive.v] # NoPool /\ drive.entry = "stop"
        /\ drive' = [drive EXCEPT !.at = "event", !.pending = StopRequested,
                        !.state = pools[drive.v].state, !.child = pools[drive.v].child]
        /\ pools' = [pools EXCEPT ![drive.v] = NoPool]
        /\ UNCHANGED <<osvars, clientvars, job>>
    BY <1>4, Zenon DEF StopStart
  <2>p. /\ pools[drive.v].child \in Pids
        /\ pools[drive.v].state = Running(pools[drive.v].child)
    BY <1>t, <1>a, <2>1, PoolEntries, Zenon
  <2>2. /\ StopRequested \in PoolEvent(Pids, HealthCheckWindow + StopGrace)
        /\ pools[drive.v].state \in PoolState(Pids)
    BY <2>p DEF StopRequested, Event, PoolEvent, EventNames, Running, State, PoolState, Tags
  <2>3. /\ drive' \in DriveType /\ drive'.at = "event" /\ drive'.entry = "stop"
        /\ drive'.v = drive.v /\ drive'.child = pools[drive.v].child
        /\ drive'.state.tag = "Running" /\ drive'.pending = StopRequested
    <3>1. pools[drive.v].state.tag = "Running"
      BY <2>p DEF Running, State
    <3> QED
      BY <1>a, <2>1, <2>2, <2>p, <3>1, Zenon DEF DriveType, DriveAt
  <2>4. TypeOK' /\ Holding' /\ Queued'
    BY <1>t, <1>a, <2>1, <2>3 DEF TypeOK, Holding, Queued, clientvars, osvars
  <2>5. Shape'
    BY <2>3, <2>p, Zenon DEF Shape, EventShape
  <2>6. EntryIsDead'
    BY <1>t, <1>a, <2>1, <2>3, Zenon DEF EntryIsDead, TypeOK
  <2>7. Ownership'
    <3>1. \A v \in Versions : v # drive.v => pools'[v] = pools[v]
      BY <1>t, <2>1, Zenon DEF TypeOK
    <3>2. pools'[drive.v] = NoPool
      BY <1>t, <1>a, <2>1, Zenon DEF TypeOK
    <3>3. \A v \in Versions : pools[v] # NoPool => unit[pools[v].child] = v
      BY <1>t, Zenon DEF Ownership
    <3>4. NoOrphan'
      BY <1>t, <1>a, <2>1, <2>3, <2>p, <3>1, <3>3
      DEF Ownership, NoOrphan, Undoomed, Live, osvars, TypeOK
    <3> QED
      BY <1>t, <1>a, <2>1, <2>3, <2>p, <3>1, <3>2, <3>3, <3>4 DEF Ownership, osvars
  <2> QED
    BY <2>4, <2>5, <2>6, <2>7, Zenon DEF IInv
<1> QED
  BY <1>1, <1>2, <1>3, <1>4, Zenon

-----------------------------------------------------------------------------
\* What every iteration of drive may rely on.
LEMMA LoopFacts ==
    ASSUME IInv, drive.at = "event"
    PROVE  /\ EventShape
           /\ Entered \in DriveType /\ Entered.state = Decision.next
           /\ Entered.v = drive.v /\ Entered.entry = drive.entry
           /\ Entered.child = drive.child /\ Entered.at = "event"
           /\ drive.v \in Versions
           /\ proc \in [Pids -> ProcStates] /\ probed \subseteq Pids
           /\ sig \in [Pids -> {"none", "term", "kill"}]
<1>1. EventShape /\ TypeOK
  BY Zenon DEF IInv, Shape
<1>2. Decision.next \in PoolState(Pids)
  BY <1>1, Decisions, Zenon
<1>3. drive \in DriveType
  BY <1>1, Zenon DEF TypeOK
<1>4. (IF Decision.next # drive.state THEN 0 ELSE drive.elapsed) \in 0 .. HealthCheckWindow
  BY <1>3, PolicyAssumption DEF DriveType
<1>5. /\ Entered \in DriveType /\ Entered.state = Decision.next
      /\ Entered.v = drive.v /\ Entered.entry = drive.entry
      /\ Entered.child = drive.child /\ Entered.at = "event"
  BY <1>2, <1>3, <1>4, Zenon DEF Entered, DriveType
<1> QED
  BY <1>1, <1>3, <1>5, Zenon DEF TypeOK, DriveType

\* A drive ends with a Running pool in the map, or with nothing left of it.
LEMMA TerminalStep ==
    ASSUME IInv, FinishTerminal
    PROVE  IInv'
<1> USE ManagerAssumption, PolicyAssumption
<1>t. TypeOK /\ Holding /\ Queued /\ Shape /\ EntryIsDead /\ Ownership
  BY Zenon DEF IInv
<1>a. /\ drive.at = "event" /\ Decision.action = None /\ EventShape
      /\ drive.v \in Versions /\ probed \subseteq Pids
  BY LoopFacts, Zenon DEF FinishTerminal
<1>d. \/ /\ drive.entry = "ensure" /\ drive.child \in probed
         /\ Decision.next = Running(drive.child)
      \/ /\ drive.entry = "stop" /\ drive.child = NoPid
         /\ Decision.next = Stopped
  BY <1>t, <1>a, Decisions, Zenon
<1>1. CASE drive.entry = "stop"
  <2>0. Decision.next = Stopped /\ drive.child = NoPid
    BY <1>d, <1>1, Zenon
  <2>s. Stopped.tag = "Stopped"
    BY Zenon DEF Stopped, State
  <2>1. Decision.next.tag = "Stopped" /\ drive.child = NoPid
    BY <2>0, <2>s, Zenon
  <2>2. /\ sig' = Dropped(drive.child) /\ Finish(TRUE)
        /\ UNCHANGED <<pools, proc, unit, probed, clientvars>>
    BY <1>1, <2>1, Zenon DEF FinishTerminal
  <2>3. sig' = sig
    BY <2>1, <2>2, Zenon DEF Dropped, Live
  <2>4. /\ \A p \in Pids : Undoomed(p)' => Undoomed(p) /\ p # drive.child
        /\ proc' \in [Pids -> ProcStates] /\ sig' \in [Pids -> {"none", "term", "kill"}]
    BY <1>t, <2>1, <2>2, <2>3, Zenon DEF Undoomed, Live, TypeOK
  <2> QED
    BY <1>a, <2>2, <2>4, FinishStep, Zenon
<1>2. CASE drive.entry = "ensure"
  <2>1. /\ Decision.next = Running(drive.child) /\ drive.child \in probed
        /\ drive.child \in Pids /\ drive.child # NoPid /\ Decision.next.tag = "Running"
    BY <1>a, <1>d, <1>2 DEF Running, State
  <2>2. /\ pools' = [pools EXCEPT ![drive.v] = Pool(drive.child)]
        /\ sig' = Dropped(pools[drive.v].child)
        /\ Finish(TRUE)
        /\ UNCHANGED <<proc, unit, probed, clientvars>>
    BY <1>2, <2>1, Zenon DEF FinishTerminal, Pool
  <2>3. sig' = sig
    <3>1. ~Live(pools[drive.v].child)
      BY <1>t, <1>a, <1>2, PoolEntries, Zenon DEF EntryIsDead, Live
    <3> QED
      BY <2>2, <3>1, Zenon DEF Dropped
  <2>f. /\ drive'.at \in {"idle", "entry"} /\ drive'.child = NoPid
        /\ drive'.state = Stopped
        /\ drive'.at = "idle" => drive' = NoDrive
        /\ drive'.at = "entry" => drive'.entry = "ensure"
        /\ job'.prog = job.prog /\ job.prog # "none"
        /\ job' \in JobType /\ drive' \in DriveType
    BY <1>t, <1>a, <2>2, FinishFacts, Zenon
  <2>4. TypeOK'
    BY <1>t, <2>1, <2>2, <2>3, <2>f, Zenon DEF TypeOK, clientvars
  <2>5. Holding' /\ Queued' /\ Shape' /\ EntryIsDead'
    BY <1>t, <2>2, <2>f, Zenon DEF Holding, Queued, Shape, EntryIsDead, clientvars
  <2>6. Ownership'
    <3>1. \A v \in Versions : v # drive.v => pools'[v] = pools[v]
      BY <1>t, <2>2, Zenon DEF TypeOK
    <3>2. /\ pools'[drive.v] = Pool(drive.child) /\ pools'[drive.v].child = drive.child
      BY <1>t, <1>a, <2>2, Zenon DEF TypeOK, Pool
    <3>3. unit[drive.child] = drive.v
      BY <1>t, <2>1, Zenon DEF Ownership
    <3>4. \A v \in Versions : pools'[v] # NoPool =>
             pools'[v].child \in Pids /\ pools'[v].child \in probed
             /\ unit[pools'[v].child] = v
      BY <1>t, <2>1, <3>1, <3>2, <3>3, PoolEntries, Zenon DEF Ownership
    <3>5. \A p \in Pids : Undoomed(p)' <=> Undoomed(p)
      BY <2>2, <2>3, Zenon DEF Undoomed, Live
    <3>6. NoOrphan'
      <4>1. ASSUME NEW p \in Pids, Undoomed(p)
            PROVE  pools'[unit[p]].child = p
        <5>1. unit[p] \in Versions
          BY <1>t, Zenon DEF TypeOK
        <5>2. pools[unit[p]].child = p \/ (drive.child = p /\ drive.v = unit[p])
          BY <1>t, <4>1, Zenon DEF Ownership, NoOrphan
        <5>3. CASE unit[p] # drive.v
          BY <3>1, <5>1, <5>2, <5>3, Zenon
        <5>4. CASE unit[p] = drive.v
          <6>1. pools[drive.v].child # p
            BY <1>t, <1>a, <1>2, <4>1, PoolEntries, Zenon DEF EntryIsDead, Undoomed, Live
          <6> QED
            BY <3>2, <5>2, <5>4, <6>1, Zenon
        <5> QED
          BY <5>3, <5>4, Zenon
      <4> QED
        BY <2>2, <3>5, <4>1, Zenon DEF NoOrphan
    <3> QED
      BY <2>2, <2>f, <3>4, <3>6, Zenon DEF Ownership
  <2> QED
    BY <2>4, <2>5, <2>6, Zenon DEF IInv
<1> QED
  BY <1>d, <1>1, <1>2, Zenon

\* A new master is the drive's alone: its pid is held by nobody else.
LEMMA SpawnStep ==
    ASSUME IInv, SpawnChild
    PROVE  IInv'
<1> USE ManagerAssumption, PolicyAssumption
<1>t. TypeOK /\ Holding /\ Queued /\ Shape /\ EntryIsDead /\ Ownership
  BY Zenon DEF IInv
<1>a. drive.at = "event" /\ Decision.action = Spawn /\ drive.entry = "ensure"
  BY Zenon DEF SpawnChild
<1>l. /\ EventShape /\ Entered \in DriveType /\ Entered.state = Decision.next
      /\ Entered.v = drive.v /\ Entered.entry = drive.entry /\ Entered.at = "event"
      /\ drive.v \in Versions
  BY <1>a, LoopFacts, Zenon
<1>d. drive.child = NoPid /\ Decision.next.tag = "Starting"
  BY <1>t, <1>a, <1>l, Decisions, Zenon
<1>1. PICK p \in Pids :
        /\ ~Live(p) /\ ~Held(p)
        /\ proc' = [proc EXCEPT ![p] = "booting"]
        /\ sig' = [Dropped(drive.child) EXCEPT ![p] = "none"]
        /\ unit' = [unit EXCEPT ![p] = drive.v]
        /\ probed' = probed \ {p}
        /\ drive' = [Entered EXCEPT !.child = p, !.pending = SpawnSucceeded(p)]
  BY Zenon DEF SpawnChild
<1>2. UNCHANGED <<pools, clientvars, job>>
  BY Zenon DEF SpawnChild
<1>3. sig' = [sig EXCEPT ![p] = "none"]
  BY <1>1, <1>d, Zenon DEF Dropped, Live
<1>4. /\ drive' \in DriveType /\ drive'.at = "event" /\ drive'.entry = "ensure"
      /\ drive'.v = drive.v /\ drive'.child = p /\ drive'.state.tag = "Starting"
      /\ drive'.pending = SpawnSucceeded(p)
  <2>1. SpawnSucceeded(p) \in PoolEvent(Pids, HealthCheckWindow + StopGrace)
    BY DEF SpawnSucceeded, Event, PoolEvent, EventNames
  <2> QED
    BY <1>a, <1>l, <1>d, <1>1, <2>1, Zenon DEF DriveType
<1>5. \A v \in Versions : pools[v].child # p
  BY <1>1, Zenon DEF Held
<1>6. TypeOK'
  <2>1. proc' \in [Pids -> ProcStates]
    BY <1>t, <1>1, Zenon DEF TypeOK, ProcStates
  <2>2. sig' \in [Pids -> {"none", "term", "kill"}]
    BY <1>t, <1>3, Zenon DEF TypeOK
  <2>3. unit' \in [Pids -> Versions] /\ probed' \in SUBSET Pids
    BY <1>t, <1>l, <1>1, Zenon DEF TypeOK
  <2> QED
    BY <1>t, <1>2, <1>4, <2>1, <2>2, <2>3, Zenon DEF TypeOK, clientvars
<1>7. Holding' /\ Queued' /\ Shape'
  BY <1>t, <1>a, <1>2, <1>4, Zenon DEF Holding, Queued, Shape, EventShape, clientvars
<1>8. EntryIsDead'
  <2>1. pools[drive.v] = NoPool \/ proc[pools[drive.v].child] = "gone"
    BY <1>t, <1>a, Zenon DEF EntryIsDead
  <2>2. pools[drive.v] # NoPool => proc'[pools[drive.v].child] = proc[pools[drive.v].child]
    BY <1>t, <1>l, <1>1, <1>5, PoolEntries, Zenon DEF TypeOK
  <2> QED
    BY <1>2, <1>4, <2>1, <2>2, Zenon DEF EntryIsDead
<1>9. Ownership'
  <2>1. \A q \in Pids : q # p => unit'[q] = unit[q] /\ (Undoomed(q)' <=> Undoomed(q))
    BY <1>t, <1>1, <1>3, Zenon DEF TypeOK, Undoomed, Live
  <2>2. unit'[p] = drive.v
    BY <1>t, <1>1, Zenon DEF TypeOK
  <2>3. \A v \in Versions : pools[v] # NoPool => pools[v].child \in Pids
    BY <1>t, PoolEntries, Zenon
  <2>4. NoOrphan'
    BY <1>t, <1>d, <1>2, <1>4, <2>1, <2>2 DEF Ownership, NoOrphan
  <2> QED
    BY <1>t, <1>1, <1>2, <1>4, <1>5, <2>1, <2>2, <2>3, <2>4 DEF Ownership
<1> QED
  BY <1>6, <1>7, <1>8, <1>9, Zenon DEF IInv

-----------------------------------------------------------------------------
\* The other actions of the loop enter an await with the handle they have,
\* or end in an error.
LEMMA LoopSteps ==
    ASSUME IInv, SpawnFailed \/ StartProbe \/ StartBackoff \/ Kill \/ GiveUp
    PROVE  IInv'
<1> USE ManagerAssumption, PolicyAssumption
<1>t. TypeOK /\ drive.at = "event"
  BY Zenon DEF IInv, SpawnFailed, StartProbe, StartBackoff, Kill, GiveUp
<1>l. /\ EventShape /\ Entered \in DriveType /\ Entered.state = Decision.next
      /\ Entered.v = drive.v /\ Entered.entry = drive.entry
      /\ Entered.child = drive.child
      /\ proc \in [Pids -> ProcStates] /\ probed \subseteq Pids
      /\ sig \in [Pids -> {"none", "term", "kill"}]
  BY <1>t, LoopFacts, Zenon
<1>1. CASE DriveError
  BY <1>1, <1>t, ErrorStep, Zenon
<1>2. ASSUME StartProbe, ~DriveError
      PROVE  IInv'
  <2>1. /\ drive' = [Entered EXCEPT !.at = "probing"] /\ Decision.action = HealthCheck
        /\ UNCHANGED <<pools, osvars, clientvars, job>>
    BY <1>2, Zenon DEF StartProbe
  <2>2. /\ drive.entry = "ensure" /\ drive.child \in Pids
        /\ Decision.next.tag = "Starting" /\ Decision.next.pid = drive.child
    BY <1>t, <1>l, <2>1, Decisions, Zenon
  <2>3. /\ drive' \in DriveType /\ drive'.at = "probing" /\ drive'.v = drive.v
        /\ drive'.entry = drive.entry /\ drive'.child = drive.child
        /\ drive'.state = Decision.next
    BY <1>l, <2>1, Zenon DEF DriveType, DriveAt
  <2>4. TypeOK' /\ Holding' /\ Queued' /\ EntryIsDead' /\ Ownership'
    BY <1>t, <1>l, <2>1, <2>3, MoveStep, Zenon DEF osvars, Undoomed, Live
  <2>5. Shape'
    BY <2>2, <2>3, Zenon DEF Shape
  <2> QED
    BY <2>4, <2>5, Zenon DEF IInv
<1>3. ASSUME StartBackoff
      PROVE  IInv'
  <2>1. /\ drive' = [Entered EXCEPT !.at = "backoff"] /\ Decision.action.do = "Backoff"
        /\ UNCHANGED <<pools, osvars, clientvars, job>>
    BY <1>3, Zenon DEF StartBackoff
  <2>2. /\ drive.entry = "ensure" /\ drive.child = NoPid /\ Decision.next.tag = "Failed"
    BY <1>t, <1>l, <2>1, Decisions, Zenon
  <2>3. /\ drive' \in DriveType /\ drive'.at = "backoff" /\ drive'.v = drive.v
        /\ drive'.entry = drive.entry /\ drive'.child = drive.child
        /\ drive'.state = Decision.next
    BY <1>l, <2>1, Zenon DEF DriveType, DriveAt
  <2>4. TypeOK' /\ Holding' /\ Queued' /\ EntryIsDead' /\ Ownership'
    BY <1>t, <1>l, <2>1, <2>3, MoveStep, Zenon DEF osvars, Undoomed, Live
  <2>5. Shape'
    BY <2>2, <2>3, Zenon DEF Shape
  <2> QED
    BY <2>4, <2>5, Zenon DEF IInv
<1>4. ASSUME Kill, ~DriveError
      PROVE  IInv'
  <2>1. /\ drive' = [Entered EXCEPT !.at = "waiting"]
        /\ Decision.action \in {KillTerm, KillKill}
        /\ UNCHANGED <<pools, proc, unit, probed, clientvars, job>>
        /\ sig' = IF ~Live(drive.child) THEN sig
                  ELSE [sig EXCEPT ![drive.child] =
                          IF Decision.action = KillKill THEN "kill"
                          ELSE IF @ = "kill" THEN @ ELSE "term"]
    BY <1>4, Zenon DEF Kill
  <2>2. /\ drive.child \in Pids
        /\ \/ /\ drive.entry = "ensure" /\ Decision.next.tag = "Starting"
              /\ Decision.next.pid = drive.child
           \/ drive.entry = "stop" /\ Decision.next.tag = "Stopping"
    BY <1>t, <1>l, <2>1, Decisions, Zenon
  <2>3. /\ drive' \in DriveType /\ drive'.at = "waiting" /\ drive'.v = drive.v
        /\ drive'.entry = drive.entry /\ drive'.child = drive.child
        /\ drive'.state = Decision.next
    BY <1>l, <2>1, Zenon DEF DriveType, DriveAt
  <2>s. /\ sig' \in [Pids -> {"none", "term", "kill"}]
        /\ \A p \in Pids : sig[p] = "kill" => sig'[p] = "kill"
    BY <1>l, <2>1, <2>2, Zenon
  <2>4. TypeOK' /\ Holding' /\ Queued' /\ EntryIsDead' /\ Ownership'
    <3>1. \A p \in Pids : Undoomed(p)' => Undoomed(p)
      BY <2>1, <2>s, Zenon DEF Undoomed, Live
    <3>2. /\ proc' \in [Pids -> ProcStates] /\ probed' \subseteq Pids
          /\ probed \subseteq probed'
          /\ \A p \in Pids : proc[p] = "gone" => proc'[p] = "gone"
      BY <1>l, <2>1, Zenon
    <3> QED
      BY <1>t, <2>1, <2>3, <2>s, <3>1, <3>2, MoveStep, Zenon
  <2>5. Shape'
    BY <2>2, <2>3, Zenon DEF Shape
  <2> QED
    BY <2>4, <2>5, Zenon DEF IInv
<1> QED
  BY <1>1, <1>2, <1>3, <1>4, Zenon DEF SpawnFailed, GiveUp

\* The awaits end with the event that fits the state they were entered in.
LEMMA AwaitSteps ==
    ASSUME IInv,
           \/ ProbeOk \/ ProbeFailed \/ ProbeExited
           \/ BackoffOver \/ ExitAwaited \/ GraceOver
    PROVE  IInv'
<1> USE ManagerAssumption, PolicyAssumption
<1>t. /\ TypeOK /\ Shape /\ drive \in DriveType
      /\ proc \in [Pids -> ProcStates] /\ probed \subseteq Pids
      /\ sig \in [Pids -> {"none", "term", "kill"}]
  BY Zenon DEF IInv, TypeOK
<1>a. drive.at \in {"probing", "backoff", "waiting"}
  BY Zenon DEF ProbeOk, ProbeFailed, ProbeExited, BackoffOver, ExitAwaited, GraceOver
<1>e. /\ \A e \in {HealthCheckOk, Crashed, BackoffElapsed, StopComplete, StopTick(StopGrace)} :
            e \in PoolEvent(Pids, HealthCheckWindow + StopGrace)
      /\ \A t \in 0 .. HealthCheckWindow :
            HealthCheckTick(t) \in PoolEvent(Pids, HealthCheckWindow + StopGrace)
  BY DEF HealthCheckOk, Crashed, BackoffElapsed, StopComplete, StopTick, HealthCheckTick,
         Event, PoolEvent, EventNames
<1>r. LET r == Reap({drive.child}) IN
      /\ r \in [Pids -> ProcStates]
      /\ \A p \in Pids : /\ r[p] \in {"booting", "serving"} <=> Live(p)
                         /\ proc[p] = "gone" => r[p] = "gone"
  BY <1>t, ReapFacts, Zenon
<1>1. ASSUME ProbeOk
      PROVE  IInv'
  <2>1. /\ drive' = [drive EXCEPT !.at = "event", !.pending = HealthCheckOk]
        /\ probed' = probed \cup {drive.child} /\ drive.at = "probing"
        /\ UNCHANGED <<pools, proc, sig, unit, clientvars, job>>
    BY <1>1, Zenon DEF ProbeOk, Deliver
  <2>2. /\ drive.entry = "ensure" /\ drive.state.tag = "Starting"
        /\ drive.child \in Pids /\ drive.state.pid = drive.child
    BY <1>t, <2>1, Zenon DEF Shape
  <2>3. /\ drive' \in DriveType /\ drive'.at = "event" /\ drive'.v = drive.v
        /\ drive'.entry = drive.entry /\ drive'.child = drive.child
        /\ drive'.state = drive.state /\ drive'.pending = HealthCheckOk
    BY <1>t, <1>e, <2>1, Zenon DEF DriveType, DriveAt
  <2>4. TypeOK' /\ Holding' /\ Queued' /\ EntryIsDead' /\ Ownership'
    BY <1>t, <1>a, <2>1, <2>2, <2>3, MoveStep, Zenon DEF Undoomed, Live
  <2>5. Shape'
    <3>1. drive'.child \in probed'
      BY <2>1, <2>3
    <3>2. EventShape'
      BY <2>2, <2>3, <3>1, Zenon DEF EventShape
    <3> QED
      BY <2>3, <3>2, Zenon DEF Shape
  <2> QED
    BY <2>4, <2>5, Zenon DEF IInv
<1>2. ASSUME ProbeFailed
      PROVE  IInv'
  <2>1. PICK t \in Least(drive.elapsed + 1, HealthCheckWindow) .. HealthCheckWindow :
          drive' = [drive EXCEPT !.at = "event", !.pending = HealthCheckTick(t),
                                 !.elapsed = t]
    BY <1>2, Zenon DEF ProbeFailed, Deliver
  <2>2. drive.at = "probing" /\ UNCHANGED <<pools, osvars, clientvars, job>>
    BY <1>2, Zenon DEF ProbeFailed
  <2>3. /\ drive.entry = "ensure" /\ drive.state.tag = "Starting"
        /\ drive.child \in Pids /\ drive.state.pid = drive.child
    BY <1>t, <2>2, Zenon DEF Shape
  <2>4. t \in 0 .. HealthCheckWindow
    BY <1>t, <2>1 DEF Least, DriveType
  <2>5. /\ drive' \in DriveType /\ drive'.at = "event" /\ drive'.v = drive.v
        /\ drive'.entry = drive.entry /\ drive'.child = drive.child
        /\ drive'.state = drive.state /\ drive'.pending = HealthCheckTick(t)
    BY <1>t, <1>e, <2>1, <2>4, Zenon DEF DriveType, DriveAt
  <2>6. TypeOK' /\ Holding' /\ Queued' /\ EntryIsDead' /\ Ownership'
    BY <1>t, <1>a, <2>2, <2>5, MoveStep, Zenon DEF Undoomed, Live, osvars
  <2>7. Shape'
    BY <2>3, <2>5 DEF Shape, EventShape, HealthCheckTick, Event
  <2> QED
    BY <2>6, <2>7, Zenon DEF IInv
<1>3. ASSUME ProbeExited \/ ExitAwaited
      PROVE  IInv'
  <2>1. /\ ~Live(drive.child) /\ proc' = Reap({drive.child})
        /\ UNCHANGED <<pools, sig, unit, probed, clientvars, job>>
    BY <1>3, Zenon DEF ProbeExited, ExitAwaited
  <2>2. /\ \/ drive' = [drive EXCEPT !.at = "event", !.pending = Crashed, !.child = NoPid]
              /\ drive.entry = "ensure" /\ drive.state.tag = "Starting"
           \/ drive' = [drive EXCEPT !.at = "event", !.pending = StopComplete,
                                     !.child = NoPid]
              /\ drive.entry = "stop" /\ drive.state.tag = "Stopping"
    BY <1>t, <1>3, Zenon DEF ProbeExited, ExitAwaited, Deliver, Shape
  <2>3. /\ drive' \in DriveType /\ drive'.at = "event" /\ drive'.v = drive.v
        /\ drive'.entry = drive.entry /\ drive'.child = NoPid
        /\ drive'.state = drive.state
        /\ \/ drive'.pending = Crashed /\ drive.entry = "ensure"
              /\ drive.state.tag = "Starting"
           \/ drive'.pending = StopComplete /\ drive.entry = "stop"
              /\ drive.state.tag = "Stopping"
    <3>1. CASE /\ drive' = [drive EXCEPT !.at = "event", !.pending = Crashed, !.child = NoPid]
               /\ drive.entry = "ensure" /\ drive.state.tag = "Starting"
      BY <1>t, <1>e, <3>1, Zenon DEF DriveType, DriveAt
    <3>2. CASE /\ drive' = [drive EXCEPT !.at = "event", !.pending = StopComplete, !.child = NoPid]
               /\ drive.entry = "stop" /\ drive.state.tag = "Stopping"
      BY <1>t, <1>e, <3>2, Zenon DEF DriveType, DriveAt
    <3> QED
      BY <2>2, <3>1, <3>2, Zenon
  <2>4. /\ \A p \in Pids : Undoomed(p)' => Undoomed(p)
        /\ proc' \in [Pids -> ProcStates] /\ sig' \in [Pids -> {"none", "term", "kill"}]
        /\ probed' = probed
        /\ \A p \in Pids : proc[p] = "gone" => proc'[p] = "gone"
    BY <1>t, <1>r, <2>1, Zenon DEF Undoomed, Live
  <2>5. TypeOK' /\ Holding' /\ Queued' /\ EntryIsDead' /\ Ownership'
    BY <1>t, <1>a, <2>1, <2>3, <2>4, MoveStep, Zenon
  <2>6. Shape'
    BY <2>3, Zenon DEF Shape, EventShape
  <2> QED
    BY <2>5, <2>6, Zenon DEF IInv
<1>4. ASSUME BackoffOver
      PROVE  IInv'
  <2>1. /\ drive' = [drive EXCEPT !.at = "event", !.pending = BackoffElapsed]
        /\ drive.at = "backoff" /\ UNCHANGED <<pools, osvars, clientvars, job>>
    BY <1>4, Zenon DEF BackoffOver, Deliver
  <2>2. /\ drive' \in DriveType /\ drive'.at = "event" /\ drive'.v = drive.v
        /\ drive'.entry = drive.entry /\ drive'.child = drive.child
        /\ drive'.state = drive.state /\ drive'.pending = BackoffElapsed
    BY <1>t, <1>e, <2>1, Zenon DEF DriveType, DriveAt
  <2>3. TypeOK' /\ Holding' /\ Queued' /\ EntryIsDead' /\ Ownership'
    BY <1>t, <1>a, <2>1, <2>2, MoveStep, Zenon DEF Undoomed, Live, osvars
  <2>4. Shape'
    BY <1>t, <2>1, <2>2, Zenon DEF Shape, EventShape
  <2> QED
    BY <2>3, <2>4, Zenon DEF IInv
<1>5. ASSUME GraceOver
      PROVE  IInv'
  <2>1. /\ drive' = [drive EXCEPT !.at = "event", !.pending = StopTick(StopGrace)]
        /\ drive.at = "waiting" /\ drive.state = Stopping(FALSE)
        /\ UNCHANGED <<pools, osvars, clientvars, job>>
    BY <1>5, Zenon DEF GraceOver, Deliver
  <2>2. drive.child \in Pids /\ drive.entry = "stop"
    BY <1>t, <2>1 DEF Shape, Stopping, State
  <2>3. /\ drive' \in DriveType /\ drive'.at = "event" /\ drive'.v = drive.v
        /\ drive'.entry = drive.entry /\ drive'.child = drive.child
        /\ drive'.state = drive.state /\ drive'.pending = StopTick(StopGrace)
    BY <1>t, <1>e, <2>1, Zenon DEF DriveType, DriveAt
  <2>4. TypeOK' /\ Holding' /\ Queued' /\ EntryIsDead' /\ Ownership'
    BY <1>t, <1>a, <2>1, <2>3, MoveStep, Zenon DEF Undoomed, Live, osvars
  <2>5. Shape'
    BY <2>1, <2>2, <2>3, Zenon DEF Shape, EventShape
  <2> QED
    BY <2>4, <2>5, Zenon DEF IInv
<1> QED
  BY <1>1, <1>2, <1>3, <1>4, <1>5, Zenon

\* A cancelled ensure takes its child with it.
LEMMA CancelStep ==
    ASSUME IInv, Cancel
    PROVE  IInv'
<1> USE ManagerAssumption, PolicyAssumption
<1>t. TypeOK /\ Holding /\ Queued /\ Shape /\ EntryIsDead /\ Ownership
  BY Zenon DEF IInv
<1>1. /\ sig' = Dropped(drive.child) /\ Answer /\ drive' = NoDrive /\ job' = NoJob
      /\ queue # <<>> /\ UNCHANGED <<pools, proc, unit, probed>>
  BY Zenon DEF Cancel
<1>2. /\ sig' \in [Pids -> {"none", "term", "kill"}]
      /\ \A p \in Pids : sig'[p] # "kill" => sig[p] # "kill"
      /\ Live(drive.child) => sig'[drive.child] = "kill"
  BY <1>t, <1>1, DroppedFacts, Zenon
<1>3. TypeOK'
  <2>1. NoDrive \in DriveType /\ NoJob \in JobType
    BY DEF NoDrive, DriveType, DriveAt, Versions, PoolState, Tags, PoolEvent, EventNames,
           Stopped, State, EnsureRequested, Event, NoJob, JobType
  <2> QED
    BY <1>t, <1>1, <1>2, <2>1 DEF TypeOK, Answer
<1>4. Queued'
  <2>1. /\ queue' = Tail(queue) /\ op' = [op EXCEPT ![queue[1]] = NoRequest]
        /\ queue \in Seq(Clients) /\ op \in [Clients -> Request \cup {NoRequest}]
    BY <1>t, <1>1 DEF Answer, TypeOK
  <2> QED
    BY <1>t, <1>1, <2>1 DEF Queued
<1>5. Holding' /\ Shape' /\ EntryIsDead'
  BY <1>1, Zenon DEF Holding, Shape, EntryIsDead, NoJob, NoDrive
<1>6. Ownership'
  <2>1. \A p \in Pids : Undoomed(p)' => Undoomed(p) /\ p # drive.child
    BY <1>1, <1>2, Zenon DEF Undoomed, Live
  <2>2. NoOrphan'
    BY <1>t, <1>1, <2>1, Zenon DEF Ownership, NoOrphan
  <2>3. \A v \in Versions : pools[v] # NoPool => pools[v].child \in Pids
    BY <1>t, PoolEntries, Zenon
  <2> QED
    BY <1>t, <1>1, <2>2, <2>3, Zenon DEF Ownership, NoDrive
<1> QED
  BY <1>3, <1>4, <1>5, <1>6, Zenon DEF IInv

-----------------------------------------------------------------------------
\* The inductive invariant holds in every reachable state of the manager.
THEOREM Inductive == Spec => []IInv
<1> USE ManagerAssumption, PolicyAssumption
<1>1. Init => IInv
  <2> SUFFICES ASSUME Init PROVE IInv
    BY Zenon
  <2>1. TypeOK
    <3>1. job \in JobType
      BY Zenon DEF Init, NoJob, JobType
    <3>2. Stopped \in PoolState(Pids)
      BY DEF PoolState, Tags, Stopped, State
    <3>3. EnsureRequested \in PoolEvent(Pids, HealthCheckWindow + StopGrace)
      BY DEF PoolEvent, EventNames, EnsureRequested, Event
    <3>4. 1 \in Versions /\ 0 \in 0 .. HealthCheckWindow
      BY DEF Versions
    <3>5. drive \in DriveType
      BY <3>2, <3>3, <3>4, Zenon DEF Init, NoDrive, DriveType, DriveAt
    <3> QED
      BY <3>1, <3>4, <3>5 DEF Init, TypeOK, ProcStates
  <2>2. /\ Holding /\ Queued /\ Shape /\ EntryIsDead
    <3>1. drive = NoDrive /\ job = NoJob /\ queue = <<>> /\ drive.at = "idle" /\ job.prog = "none"
      BY Zenon DEF Init, NoJob, NoDrive
    <3>2. Holding
      BY <3>1, Zenon DEF Holding
    <3>3. Queued
      BY <3>1 DEF Queued
    <3>4. Shape
      BY <3>1, Zenon DEF Shape
    <3>5. EntryIsDead
      BY <3>1, Zenon DEF EntryIsDead
    <3> QED
      BY <3>2, <3>3, <3>4, <3>5, Zenon
  <2>3. Ownership
    BY Zenon DEF Init, Ownership, NoOrphan, Undoomed, Live, NoDrive
  <2> QED
    BY <2>1, <2>2, <2>3, Zenon DEF IInv
<1>2. IInv /\ [Next]_vars => IInv'
  <2> SUFFICES ASSUME IInv, [Next]_vars PROVE IInv'
    BY Zenon
  <2>1. CASE UNCHANGED vars
    <3> USE <2>1 DEF vars, osvars, clientvars, IInv
    <3>1. TypeOK' /\ Holding' /\ Queued'
      BY Zenon DEF TypeOK, Holding, Queued
    <3>2. Shape' /\ EntryIsDead'
      BY Zenon DEF Shape, EventShape, EntryIsDead
    <3>3. Ownership'
      BY Zenon DEF Ownership, NoOrphan, Undoomed, Live
    <3> QED
      BY <3>1, <3>2, <3>3, Zenon
  <2>2. CASE \E p \in Pids : Boot(p) \/ Crash(p)
    BY <2>2, SystemSteps, Zenon
  <2>3. CASE \/ \E c \in Clients, r \in Request : Submit(c, r)
             \/ \E i \in 1 .. Len(queue) : CancelQueued(i)
             \/ Snapshots \/ Acquire \/ NextUnit \/ Release
    BY <2>3, ClientSteps, Zenon
  <2>4. CASE EnsureRunning \/ EnsureRefused \/ EnsureStart \/ StopAbsent \/ StopStart
    BY <2>4, EntrySteps, Zenon
  <2>5. CASE FinishTerminal
    BY <2>5, TerminalStep, Zenon
  <2>6. CASE SpawnChild
    BY <2>6, SpawnStep, Zenon
  <2>7. CASE SpawnFailed \/ StartProbe \/ StartBackoff \/ Kill \/ GiveUp
    BY <2>7, LoopSteps, Zenon
  <2>8. CASE \/ ProbeOk \/ ProbeFailed \/ ProbeExited
             \/ BackoffOver \/ ExitAwaited \/ GraceOver
    BY <2>8, AwaitSteps, Zenon
  <2>9. CASE Cancel
    BY <2>9, CancelStep, Zenon
  <2> QED
    BY <2>1, <2>2, <2>3, <2>4, <2>5, <2>6, <2>7, <2>8, <2>9, Zenon
    DEF Next, ManagerStep, DriveStep
<1> QED
  BY <1>1, <1>2, PTL DEF Spec

\* The type invariant of the manager's state: in particular no drive counts
\* more attempts than the policy allows.
THEOREM TypeCorrect == Spec => []TypeOK
BY Inductive, PTL DEF IInv

\* drive never panics in finish_terminal and never acts without the handle
\* its action needs, whatever the processes and the clients do.
THEOREM DriverSafe == Spec => []DriverInvariants
<1>1. IInv => DriverInvariants
  <2> SUFFICES ASSUME IInv PROVE DriverInvariants
    BY Zenon
  <2>1. drive.at # "panic"
    BY Zenon DEF IInv, Shape
  <2>2. ASSUME drive.at = "event"
        PROVE  /\ Decision.action = HealthCheck => drive.child # NoPid
               /\ Decision.next.tag = "Running" => drive.child = Decision.next.pid
               /\ Decision.action = Spawn => drive.entry = "ensure" /\ drive.child = NoPid
    <3>1. TypeOK /\ EventShape
      BY <2>2, Zenon DEF IInv, Shape
    <3>2. Decision.next.tag = "Running" => Decision.action = None
      BY <3>1 DEF EventShape, Decision, transition, To, Retry, Act, State, Event, Stopped,
                  Starting, Running, Failed, Stopping, None, EnsureRequested,
                  SpawnSucceeded, HealthCheckOk, Crashed, BackoffElapsed, StopRequested,
                  StopTick, StopComplete
    <3>3. Decision.action = None /\ Decision.next.tag = "Running" =>
            drive.child = Decision.next.pid
      BY <2>2, <3>1, Decisions DEF Running, Stopped, State
    <3>4. Decision.action = HealthCheck => drive.child \in Pids
      BY <2>2, <3>1, Decisions, Zenon
    <3>5. Decision.action = Spawn => drive.entry = "ensure" /\ drive.child = NoPid
      BY <2>2, <3>1, Decisions, Zenon
    <3> QED
      BY <3>2, <3>3, <3>4, <3>5, ManagerAssumption, Zenon
  <2> QED
    BY <2>1, <2>2, Zenon DEF DriverInvariants
<1> QED
  BY <1>1, Inductive, PTL

\* No FPM master is leaked: cancellations, crashes and failed starts included.
THEOREM NoOrphanEver == Spec => []NoOrphan
<1>1. IInv => NoOrphan
  BY Zenon DEF IInv, Ownership
<1> QED
  BY <1>1, Inductive, PTL

\* A version never has two undoomed masters.
THEOREM OneMaster == Spec => []OneMasterPerVersion
<1>1. IInv => OneMasterPerVersion
  <2> SUFFICES ASSUME IInv, NEW p \in Pids, NEW q \in Pids, Undoomed(p), Undoomed(q),
                      unit[p] = unit[q]
               PROVE  p = q
    BY Zenon DEF OneMasterPerVersion
  <2>1. /\ unit[p] \in Versions /\ TypeOK /\ EntryIsDead /\ Ownership /\ Holding /\ Shape
    BY Zenon DEF IInv, TypeOK
  <2>2. \A r \in {p, q} : pools[unit[p]].child = r \/ (drive.child = r /\ drive.v = unit[p])
    BY <2>1, Zenon DEF Ownership, NoOrphan
  <2>3. ASSUME NEW r \in {p, q}, NEW s \in {p, q}, pools[unit[p]].child = r,
               drive.child = s, drive.v = unit[p]
        PROVE  FALSE
    <3>1. drive.child # NoPid
      BY <2>3, ManagerAssumption, Zenon
    <3>2. drive.at \notin {"idle", "entry"}
      <4>1. drive.at = "idle" => drive.child = NoPid
        BY <2>1 DEF Holding, NoDrive
      <4>2. drive.at = "entry" => drive.child = NoPid
        BY <2>1, Zenon DEF Shape
      <4> QED
        BY <3>1, <4>1, <4>2, Zenon
    <3>3. pools[unit[p]] # NoPool
      <4>1. pools[unit[p]].child # NoPid
        BY <2>3, ManagerAssumption, Zenon
      <4> QED
        BY <2>1, <4>1, PoolEntries, Zenon
    <3>4. proc[r] = "gone"
      BY <2>1, <2>3, <3>2, <3>3, Zenon DEF EntryIsDead
    <3> QED
      BY <3>4, Zenon DEF Undoomed, Live
  <2> QED
    BY <2>2, <2>3
<1> QED
  BY <1>1, Inductive, PTL

\* Every pool entry belongs to a master that answered a health probe.
THEOREM ProbedPools == Spec => []PoolsAreProbed
<1>1. IInv => PoolsAreProbed
  BY Zenon DEF IInv, Ownership, PoolsAreProbed
<1> QED
  BY <1>1, Inductive, PTL


-----------------------------------------------------------------------------
(* StopLeavesNothing is about what a stop has done since it began.           *)

\* A job that stops pools has an answer for each version it was asked about:
\* there is no entry (stop takes it out of the map before anything else), or
\* the version is still to come, or the stop of it is just being entered.
Asked(v) == op[Head(queue)].kind = "shutdown" \/ op[Head(queue)].v = v
Seen(v) == pools[v] = NoPool \/ v \in job.rest \/ (drive.at = "entry" /\ drive.v = v)
Stops ==
    job.prog = "stop" =>
        /\ op[Head(queue)].kind \in {"stop", "shutdown"}
        /\ drive.at # "idle" => drive.entry = "stop"
        /\ \A v \in Versions : Asked(v) => Seen(v)

\* New waiters and waiters that give up leave the holder and its request alone.
LEMMA HolderStays ==
    ASSUME IInv, job.prog # "none",
           \/ \E c \in Clients, r \in Request : Submit(c, r)
           \/ \E i \in 1 .. Len(queue) : CancelQueued(i)
    PROVE  Head(queue') = Head(queue) /\ op'[Head(queue)] = op[Head(queue)]
<1>t. /\ queue \in Seq(Clients) /\ queue # <<>> /\ op \in [Clients -> Request \cup {NoRequest}]
      /\ op[queue[1]] \in Request
      /\ \A i \in 1 .. Len(queue) : queue[i] = queue[1] => i = 1
  BY DEF IInv, TypeOK, Holding, Queued
<1>h. Head(queue) = queue[1] /\ queue[1] \in Clients /\ Len(queue) \in Nat /\ Len(queue) >= 1
  BY <1>t
<1>1. ASSUME NEW c \in Clients, NEW r \in Request, Submit(c, r)
      PROVE  Head(queue') = Head(queue) /\ op'[Head(queue)] = op[Head(queue)]
  <2>1. NoRequest \notin Request
    BY Zenon DEF NoRequest, Request
  <2>2. op[c] = NoRequest /\ op' = [op EXCEPT ![c] = r] /\ queue' = Append(queue, c)
    BY <1>1, Zenon DEF Submit
  <2>3. c # queue[1]
    BY <1>t, <2>1, <2>2, Zenon
  <2>4. Head(queue') = queue[1]
    BY <1>t, <1>h, <2>2
  <2> QED
    BY <1>t, <1>h, <2>2, <2>3, <2>4, Zenon
<1>2. ASSUME NEW i \in 1 .. Len(queue), CancelQueued(i)
      PROVE  Head(queue') = Head(queue) /\ op'[Head(queue)] = op[Head(queue)]
  <2> DEFINE front == SubSeq(queue, 1, i - 1)
             back == SubSeq(queue, i + 1, Len(queue))
  <2>1. /\ i > 1 /\ queue' = front \o back
        /\ op' = [op EXCEPT ![queue[i]] = NoRequest]
    BY <1>2 DEF CancelQueued, NoJob
  <2>2. /\ front \in Seq(Clients) /\ Len(front) = i - 1 /\ front[1] = queue[1]
        /\ back \in Seq(Clients)
    BY <1>t, <1>h, <2>1
  <2> HIDE DEF front, back
  <2>3. Head(queue') = front[1]
    BY <2>1, <2>2
  <2>4. queue[i] # queue[1]
    BY <1>t, <2>1
  <2> QED
    BY <1>t, <1>h, <2>1, <2>2, <2>3, <2>4, Zenon
<1> QED
  BY <1>1, <1>2, Zenon

\* In a job that stops, an operation that ends leaves the drive idle and the
\* rest of the work list as it is.
LEMMA StopFinishes ==
    ASSUME TypeOK, job.prog = "stop", NEW ok \in BOOLEAN, Finish(ok)
    PROVE  drive' = NoDrive /\ job'.prog = job.prog /\ job'.rest = job.rest
BY Zenon DEF Finish, TypeOK, JobType

\* Past its entry the stop of one version leaves the map alone, and goes on as
\* a stop or ends.
LEMMA StopDrives ==
    ASSUME IInv, Stops, job.prog = "stop",
           \/ FinishTerminal \/ SpawnChild \/ SpawnFailed \/ StartProbe \/ StartBackoff
           \/ Kill \/ GiveUp
           \/ ProbeOk \/ ProbeFailed \/ ProbeExited \/ BackoffOver \/ ExitAwaited \/ GraceOver
    PROVE  /\ UNCHANGED <<pools, clientvars>> /\ drive.at \notin {"idle", "entry"}
           /\ drive'.at = "idle" \/ drive'.entry = "stop"
           /\ job'.prog = job.prog /\ job'.rest = job.rest
<1>t. /\ TypeOK /\ Shape /\ drive \in DriveType
      /\ drive.at # "idle" => drive.entry = "stop"
  BY Zenon DEF IInv, TypeOK, Stops
<1>e. drive.at = "event" => /\ Decision.action # Spawn /\ Decision.action # HealthCheck
                            /\ Decision.action.do # "Backoff"
                            /\ Decision.action = None => Decision.next = Stopped
                            /\ EventShape
  BY <1>t, Decisions, Zenon DEF Shape
<1>d. ASSUME Finish(FALSE), UNCHANGED <<pools, clientvars>>, drive.at = "event"
      PROVE  /\ UNCHANGED <<pools, clientvars>> /\ drive.at \notin {"idle", "entry"}
             /\ drive'.at = "idle" \/ drive'.entry = "stop"
             /\ job'.prog = job.prog /\ job'.rest = job.rest
  <2>1. drive' = NoDrive /\ job'.prog = job.prog /\ job'.rest = job.rest
    BY <1>d, <1>t, StopFinishes, Zenon
  <2>2. drive'.at = "idle"
    BY <2>1, Zenon DEF NoDrive
  <2> QED
    BY <1>d, <2>1, <2>2, Zenon
<1>1. CASE FinishTerminal
  <2>1. drive.at = "event" /\ Decision.action = None /\ Decision.next = Stopped
    BY <1>1, <1>e, Zenon DEF FinishTerminal
  <2>2. Decision.next.tag = "Stopped"
    BY <2>1 DEF Stopped, State
  <2>3. /\ Finish(drive.entry = "stop") /\ UNCHANGED <<pools, clientvars>>
    BY <1>1, <2>2, Zenon DEF FinishTerminal
  <2>4. drive' = NoDrive /\ job'.prog = job.prog /\ job'.rest = job.rest
    BY <1>t, <2>3, StopFinishes, Zenon
  <2> QED
    BY <2>1, <2>3, <2>4, Zenon DEF NoDrive
<1>2. CASE SpawnChild \/ SpawnFailed \/ StartProbe \/ StartBackoff
  BY <1>2, <1>e, Zenon DEF SpawnChild, SpawnFailed, StartProbe, StartBackoff
<1>3. CASE Kill
  <2>1. CASE DriveError
    BY <1>3, <2>1, <1>d, Zenon DEF Kill, DriveError
  <2>2. CASE drive' = [Entered EXCEPT !.at = "waiting"] /\ UNCHANGED <<pools, clientvars, job>>
    <3>1. drive.at = "event" /\ drive'.entry = drive.entry
      BY <1>3, <1>t, <2>2, Zenon DEF Kill, Entered, DriveType
    <3> QED
      BY <1>t, <2>2, <3>1, Zenon
  <2> QED
    BY <1>3, <2>1, <2>2, Zenon DEF Kill
<1>4. CASE GiveUp
  BY <1>4, <1>d, Zenon DEF GiveUp, DriveError
<1>5. CASE ProbeOk \/ ProbeFailed \/ ProbeExited \/ BackoffOver
  BY <1>5, <1>t, Zenon DEF Shape, ProbeOk, ProbeFailed, ProbeExited, BackoffOver
<1>6. CASE ExitAwaited \/ GraceOver
  <2>1. /\ drive.at = "waiting" /\ UNCHANGED <<pools, clientvars, job>>
        /\ drive'.entry = drive.entry
    BY <1>6, <1>t, Zenon DEF ExitAwaited, GraceOver, Deliver, DriveType
  <2> QED
    BY <1>t, <2>1, Zenon
<1> QED
  BY <1>1, <1>2, <1>3, <1>4, <1>5, <1>6, Zenon

\* What each step makes of Stops.
LEMMA StopsKept ==
    ASSUME IInv, Stops, [Next]_vars
    PROVE  Stops'
<1>t. /\ TypeOK /\ Holding /\ job \in JobType /\ drive \in DriveType
      /\ pools \in [Versions -> {NoPool} \cup {Pool(p) : p \in Pids}]
  BY Zenon DEF IInv, TypeOK
<1>1. CASE UNCHANGED <<pools, clientvars, job, drive>>
  BY <1>1, Zenon DEF Stops, Asked, Seen, clientvars
<1>2. CASE \/ \E c \in Clients, r \in Request : Submit(c, r)
           \/ \E i \in 1 .. Len(queue) : CancelQueued(i)
  <2>1. UNCHANGED <<pools, job, drive>>
    BY <1>2, Zenon DEF Submit, CancelQueued
  <2>2. job.prog = "stop" => Head(queue') = Head(queue) /\ op'[Head(queue)] = op[Head(queue)]
    BY <1>2, HolderStays, Zenon
  <2> QED
    BY <2>1, <2>2, Zenon DEF Stops, Asked, Seen
<1>3. CASE Snapshots \/ Release \/ Cancel
  <2>1. job' = NoJob
    BY <1>3, Zenon DEF Snapshots, Release, Cancel
  <2> QED
    BY <2>1, Zenon DEF Stops, NoJob
<1>4. CASE Acquire
  <2>1. /\ job = NoJob /\ queue # <<>> /\ UNCHANGED <<pools, queue, op, drive>>
    BY <1>4, Zenon DEF Acquire, clientvars
  <2>2. op[Head(queue)] \in Request
    BY <2>1 DEF IInv, TypeOK, Queued
  <2>3. ASSUME job'.prog = "stop"
        PROVE  /\ op[Head(queue)].kind \in {"stop", "shutdown"}
               /\ op[Head(queue)].kind = "shutdown" => job'.rest = PoolKeys
               /\ op[Head(queue)].kind = "stop" => job'.rest = {op[Head(queue)].v}
    BY <1>4, <2>2, <2>3, Zenon DEF Acquire, Request
  <2>4. drive.at = "idle"
    BY <1>t, <2>1, Zenon DEF Holding, NoJob
  <2> QED
    BY <2>1, <2>3, <2>4, Zenon DEF Stops, Asked, Seen, PoolKeys
<1>5. CASE NextUnit
  <2>1. PICK v \in job.rest :
          /\ job' = [job EXCEPT !.rest = @ \ {v}]
          /\ drive' = [NoDrive EXCEPT !.at = "entry", !.v = v,
                          !.entry = IF job.prog = "ensure" THEN "ensure" ELSE "stop"]
    BY <1>5, Zenon DEF NextUnit
  <2>2. UNCHANGED <<pools, queue, op>> /\ drive.at = "idle"
    BY <1>5, Zenon DEF NextUnit, clientvars
  <2>3. /\ job'.prog = job.prog /\ job'.rest = job.rest \ {v}
        /\ drive'.at = "entry" /\ drive'.v = v /\ job.prog = "stop" => drive'.entry = "stop"
    BY <1>t, <2>1, Zenon DEF JobType, NoDrive
  <2>4. drive'.at = "entry" /\ drive'.v = v
    BY <2>1, Zenon DEF NoDrive
  <2> QED
    BY <2>2, <2>3, <2>4, Zenon DEF Stops, Asked, Seen
<1>6. CASE EnsureRunning \/ EnsureRefused \/ EnsureStart
  <2>1. drive.entry = "ensure" /\ drive.at = "entry" /\ job'.prog = job.prog
    BY <1>6, <1>t, Zenon DEF EnsureRunning, EnsureRefused, EnsureStart, Finish, JobType
  <2> QED
    BY <2>1, Zenon DEF Stops
<1>7. CASE StopAbsent
  <2>1. /\ drive.at = "entry" /\ pools[drive.v] = NoPool /\ Finish(TRUE)
        /\ UNCHANGED <<pools, queue, op>> /\ job'.prog = job.prog
    BY <1>7, <1>t, Zenon DEF StopAbsent, clientvars, Finish, JobType
  <2>2. job.prog = "stop" => drive' = NoDrive /\ job'.rest = job.rest
    BY <1>t, <2>1, StopFinishes, Zenon
  <2> QED
    BY <2>1, <2>2 DEF Stops, Asked, Seen, NoDrive
<1>8. CASE StopStart
  <2>1. /\ drive.at = "entry" /\ drive.v \in Versions
        /\ pools' = [pools EXCEPT ![drive.v] = NoPool]
        /\ UNCHANGED <<queue, op, job>>
    BY <1>8, <1>t, Zenon DEF StopStart, clientvars, DriveType
  <2>2. drive'.entry = drive.entry
    BY <1>8, <1>t, Zenon DEF StopStart, DriveType
  <2>3. \A v \in Versions : pools[v] = NoPool \/ v = drive.v => pools'[v] = NoPool
    BY <1>t, <2>1, Zenon
  <2> QED
    BY <2>1, <2>2, <2>3, Zenon DEF Stops, Asked, Seen
<1>9. CASE \/ FinishTerminal \/ SpawnChild \/ SpawnFailed \/ StartProbe \/ StartBackoff
           \/ Kill \/ GiveUp
           \/ ProbeOk \/ ProbeFailed \/ ProbeExited \/ BackoffOver \/ ExitAwaited \/ GraceOver
  <2>1. job'.prog = job.prog
    BY <1>9, <1>t, Zenon
    DEF FinishTerminal, SpawnChild, SpawnFailed, StartProbe, StartBackoff, Kill, GiveUp, DriveError,
        ProbeOk, ProbeFailed, ProbeExited, BackoffOver, ExitAwaited, GraceOver, Finish, JobType
  <2>2. job.prog = "stop" =>
          /\ UNCHANGED <<pools, clientvars>> /\ drive.at \notin {"idle", "entry"}
          /\ drive'.at = "idle" \/ drive'.entry = "stop"
          /\ job'.rest = job.rest
    BY <1>9, StopDrives, Zenon
  <2> QED
    BY <2>1, <2>2, Zenon DEF Stops, Asked, Seen, clientvars
<1>10. CASE \E p \in Pids : Boot(p) \/ Crash(p)
  BY <1>10, <1>1, Zenon DEF Boot, Crash
<1>11. CASE UNCHANGED vars
  BY <1>11, <1>1, Zenon DEF vars
<1> QED
  BY <1>2, <1>3, <1>4, <1>5, <1>6, <1>7, <1>8, <1>9, <1>10, <1>11, Zenon DEF Next, ManagerStep, DriveStep

\* When a stop or a shutdown is answered, even with an error, no master of the
\* versions it was asked to stop lives on unless it has been SIGKILLed: the map
\* has no entry for them (Stops), and no other handle is left (NoOrphan).
THEOREM StopsLeaveNothing == Spec => StopLeavesNothing
<1>1. Init => Stops
  BY DEF Init, Stops, NoJob
<1>2. Spec => [](IInv /\ Stops)
  BY <1>1, StopsKept, Inductive, PTL DEF Spec
<1>3. IInv /\ Stops /\ [Next]_vars =>
        [Release /\ job.prog = "stop" =>
           \A p \in Pids : Undoomed(p) =>
               /\ op[Head(queue)].kind # "shutdown"
               /\ unit[p] # op[Head(queue)].v]_vars
  <2> SUFFICES ASSUME IInv, Stops, Release, job.prog = "stop", NEW p \in Pids, Undoomed(p)
               PROVE  /\ op[Head(queue)].kind # "shutdown"
                      /\ unit[p] # op[Head(queue)].v
    BY Zenon
  <2>1. job.rest = {} /\ drive.at = "idle" /\ drive = NoDrive
    BY Zenon DEF Release, IInv, Holding
  <2>2. unit[p] \in Versions /\ drive.child = NoPid /\ p # NoPid
    BY <2>1, ManagerAssumption, Zenon DEF IInv, TypeOK, NoDrive
  <2>3. pools[unit[p]].child = p
    BY <2>2, Zenon DEF IInv, Ownership, NoOrphan
  <2>4. pools[unit[p]] # NoPool
    BY <2>2, <2>3 DEF NoPool
  <2>5. ~Seen(unit[p])
    BY <2>1, <2>4, Zenon DEF Seen
  <2> QED
    BY <2>2, <2>5, Zenon DEF Stops, Asked
<1> QED
  BY <1>2, <1>3, PTL DEF Spec, StopLeavesNothing

-----------------------------------------------------------------------------
(* PoolsAreSupervised: the manager implements SupervisedUnits.               *)

Driving == drive.at \notin {"idle", "entry"}

\* In every state the phases and the masters of a version fit together.
Sound ==
    \A v \in Versions :
        /\ Phase(v) \in {"down", "starting", "up", "stopping"}
        /\ \A p, q \in Masters(v) : p = q
        /\ Phase(v) = "down" => Masters(v) = {}
        /\ Phase(v) \in {"up", "stopping"} => Masters(v) # {}

\* A master is the child of its version's entry or of the drive, never both.
LEMMA MastersHeld ==
    ASSUME IInv, NEW v \in Versions, NEW p \in Masters(v)
    PROVE  /\ p \in Pids /\ Undoomed(p) /\ unit[p] = v
           /\ \/ p = pools[v].child /\ ~(Driving /\ drive.v = v)
              \/ p = drive.child /\ Driving /\ drive.v = v
<1>1. p \in Pids /\ Undoomed(p) /\ unit[p] = v
  BY Zenon DEF Masters
<1>2. p # NoPid /\ proc[p] # "gone"
  BY <1>1, ManagerAssumption, Zenon DEF Undoomed, Live
<1>3. pools[v].child = p \/ (drive.child = p /\ drive.v = v)
  BY <1>1, Zenon DEF IInv, Ownership, NoOrphan
<1>4. drive.child = p => Driving
  BY <1>2 DEF IInv, Holding, Shape, Driving, NoDrive
<1>5. Driving /\ drive.v = v => pools[v].child # p
  BY <1>2 DEF IInv, EntryIsDead, Driving, NoPool
<1> QED
  BY <1>1, <1>3, <1>4, <1>5, Zenon

LEMMA PhasesSound == IInv => Sound
<1> SUFFICES ASSUME IInv, NEW v \in Versions
             PROVE  /\ Phase(v) \in {"down", "starting", "up", "stopping"}
                    /\ \A p, q \in Masters(v) : p = q
                    /\ Phase(v) = "down" => Masters(v) = {}
                    /\ Phase(v) \in {"up", "stopping"} => Masters(v) # {}
  BY Zenon DEF Sound
<1>1. \A p, q \in Masters(v) : p = q
  BY MastersHeld
<1>2. Driving => drive.entry \in {"ensure", "stop"}
  BY Zenon DEF IInv, Holding, Driving
<1>3. Phase(v) = "down" => Masters(v) = {}
  BY <1>2, MastersHeld DEF Phase, Driven, Driving
<1> QED
  BY <1>1, <1>3, Zenon DEF Phase

\* A step that adds no master and moves one version along the arrows of
\* SupervisedUnits is a step of it.
LEMMA OneMoves ==
    ASSUME Sound, Sound', NEW w \in Versions,
           \A v \in Versions \ {w} : Phase(v)' = Phase(v) /\ Masters(v)' = Masters(v),
           Masters(w)' \subseteq Masters(w),
           Phase(w) = "down" => Phase(w)' \in {"down", "starting"},
           Phase(w) = "up" => Phase(w)' # "starting",
           Phase(w) = "stopping" => Phase(w)' \in {"stopping", "down"}
    PROVE  [Supervised!Next]_(Supervised!vars)
<1> DEFINE ph == [v \in Versions |-> Phase(v)]
           run == [v \in Versions |-> Masters(v)]
<1>s. /\ Phase(w) \in {"down", "starting", "up", "stopping"}
      /\ Phase(w) = "down" => Masters(w) = {}
      /\ Phase(w) \in {"up", "stopping"} => Masters(w) # {}
      /\ \A p, q \in Masters(w) : p = q
  BY Zenon DEF Sound
<1>p. /\ Phase(w)' \in {"down", "starting", "up", "stopping"}
      /\ Phase(w)' = "down" => Masters(w)' = {}
      /\ Phase(w)' \in {"up", "stopping"} => Masters(w)' # {}
  BY Zenon DEF Sound
<1>1. /\ ph' = [ph EXCEPT ![w] = Phase(w)'] /\ ph[w] = Phase(w)
      /\ run' = [run EXCEPT ![w] = Masters(w)'] /\ run[w] = Masters(w)
  BY Zenon
<1>2. Masters(w)' = {} \/ Masters(w)' = Masters(w)
  BY <1>s, Zenon
<1>3. Phase(w)' = Phase(w) => ph' = ph
  BY <1>1, Zenon
<1>4. Masters(w)' = Masters(w) => run' = run
  BY <1>1, Zenon
<1>5. CASE Phase(w)' = Phase(w) /\ Masters(w)' = Masters(w)
  BY <1>3, <1>4, <1>5, Zenon DEF Supervised!vars
<1>6. CASE Phase(w) = "down" /\ Phase(w)' = "starting"
  <2>1. Masters(w)' = Masters(w)
    BY <1>2, <1>s, <1>6, Zenon
  <2>2. Supervised!Start(w)
    BY <1>1, <1>4, <1>6, <2>1, Zenon DEF Supervised!Start, Supervised!Becomes
  <2> QED
    BY <2>2, Zenon DEF Supervised!Next
<1>7. CASE Phase(w) = "starting" /\ Phase(w)' = "starting" /\ Masters(w)' = {}
  <2>1. Supervised!Lose(w)
    BY <1>1, <1>3, <1>7, Zenon DEF Supervised!Lose, Supervised!HasNone
  <2> QED
    BY <2>1, Zenon DEF Supervised!Next
<1>8. CASE Phase(w) = "starting" /\ Phase(w)' = "up"
  <2>1. Masters(w)' = Masters(w) /\ Masters(w) # {}
    BY <1>2, <1>p, <1>8, Zenon
  <2>2. Supervised!Ready(w)
    BY <1>1, <1>4, <1>8, <2>1, Zenon DEF Supervised!Ready, Supervised!Becomes
  <2> QED
    BY <2>2, Zenon DEF Supervised!Next
<1>9. CASE Phase(w) \in {"starting", "up"} /\ Phase(w)' = "stopping"
  <2>1. Masters(w)' = Masters(w) /\ Masters(w) # {}
    BY <1>2, <1>p, <1>9, Zenon
  <2>2. Supervised!Stop(w)
    BY <1>1, <1>4, <1>9, <2>1, Zenon DEF Supervised!Stop, Supervised!Becomes
  <2> QED
    BY <2>2, Zenon DEF Supervised!Next
<1>10. CASE Phase(w) # "down" /\ Phase(w)' = "down"
  <2>1. Supervised!End(w)
    BY <1>1, <1>p, <1>10, Zenon DEF Supervised!End, Supervised!Becomes, Supervised!HasNone
  <2> QED
    BY <2>1, Zenon DEF Supervised!Next
<1>11. CASE Phase(w)' = Phase(w) /\ Phase(w) \in {"down", "up", "stopping"}
  <2>1. Masters(w)' = Masters(w)
    BY <1>2, <1>s, <1>p, <1>11, Zenon
  <2> QED
    BY <1>5, <1>11, <2>1, Zenon
<1> HIDE DEF ph, run
<1> QED
  BY <1>s, <1>p, <1>2, <1>5, <1>6, <1>7, <1>8, <1>9, <1>10, <1>11, Zenon

\* A process x dies or is killed, or nothing happens to any: the drive may go
\* on meanwhile, and lose the handle of a child that is dead.
LEMMA LosesOne ==
    ASSUME IInv, Sound, Sound', NEW x,
           \A p \in Pids : Undoomed(p)' <=> Undoomed(p) /\ p # x,
           UNCHANGED <<pools, unit>>,
           \A v \in Versions, e \in {"ensure", "stop"} : Driven(v, e)' <=> Driven(v, e),
           drive'.child = drive.child \/ (~Undoomed(drive.child) /\ drive'.child \notin Pids)
    PROVE  [Supervised!Next]_(Supervised!vars)
<1>u. unit \in [Pids -> Versions]
  BY Zenon DEF IInv, TypeOK
<1>1. \A v \in Versions : Masters(v)' = Masters(v) \ {x}
  BY Zenon DEF Masters
<1>2. ASSUME NEW v \in Versions, x \notin Masters(v)
      PROVE  Phase(v)' = Phase(v) /\ Masters(v)' = Masters(v)
  <2>1. Masters(v)' = Masters(v)
    BY <1>1, <1>2, Zenon
  <2>2. drive'.child \in Masters(v) <=> drive.child \in Masters(v)
    BY Zenon DEF Masters
  <2>3. Driven(v, "ensure")' <=> Driven(v, "ensure")
    BY Zenon
  <2>4. Driven(v, "stop")' <=> Driven(v, "stop")
    BY Zenon
  <2> QED
    BY <2>1, <2>2, <2>3, <2>4, Zenon DEF Phase
<1>3. CASE \E w \in Versions : x \in Masters(w)
  <2>1. PICK w \in Versions : x \in Masters(w)
    BY <1>3, Zenon
  <2>2. unit[x] = w
    BY <2>1, Zenon DEF Masters
  <2>3. \A v \in Versions \ {w} : x \notin Masters(v)
    BY <2>2, Zenon DEF Masters
  <2>s. \A p \in Masters(w) : p = x
    BY <2>1, Zenon DEF Sound
  <2>4. Masters(w)' = {}
    BY <1>1, <2>s, Zenon
  <2>5. Phase(w)' \notin {"up", "stopping"}
    BY <2>4, Zenon DEF Phase
  <2>6. Phase(w)' = "starting" <=> Phase(w) = "starting"
    BY Zenon DEF Phase
  <2>7. Phase(w)' \in {"down", "starting"}
    BY <2>5, Zenon DEF Sound
  <2>8. \A v \in Versions \ {w} : Phase(v)' = Phase(v) /\ Masters(v)' = Masters(v)
    BY <1>2, <2>3, Zenon
  <2>9. Phase(w) \in {"up", "stopping"} => Phase(w)' = "down"
    BY <2>6, <2>7, Zenon
  <2>10. Masters(w)' \subseteq Masters(w)
    BY <2>4, Zenon
  <2> QED
    BY <2>1, <2>7, <2>8, <2>9, <2>10, OneMoves, Zenon
<1>4. CASE \A w \in Versions : x \notin Masters(w)
  <2>1. \A v \in Versions : Phase(v)' = Phase(v) /\ Masters(v)' = Masters(v)
    BY <1>2, <1>4, Zenon
  <2> QED
    BY <2>1, Zenon DEF Supervised!vars
<1> QED
  BY <1>3, <1>4, Zenon

\* A drive is over, and its child, if it still runs, is killed with the handle.
LEMMA EndsDrive ==
    ASSUME IInv, Sound, Sound', Driving, drive'.at \in {"idle", "entry"},
           \A p \in Pids : Undoomed(p)' <=> Undoomed(p) /\ p # drive.child,
           UNCHANGED <<pools, unit>>
    PROVE  [Supervised!Next]_(Supervised!vars)
<1>t. PICK w \in Versions : w = drive.v
  BY Zenon DEF IInv, TypeOK, DriveType
<1>1. \A v \in Versions : Masters(v)' = Masters(v) \ {drive.child}
  BY Zenon DEF Masters
<1>2. Masters(w)' = {}
  <2>1. \A p \in Masters(w) : p = drive.child
    BY <1>t, MastersHeld, Zenon
  <2> QED
    BY <1>1, <2>1, Zenon
<1>3. Phase(w)' = "down"
  BY <1>2, Zenon DEF Phase, Driven
<1>4. ASSUME NEW v \in Versions \ {w}
      PROVE  Phase(v)' = Phase(v) /\ Masters(v)' = Masters(v)
  <2>1. drive.child \notin Masters(v)
    <3>1. drive.child # NoPid => unit[drive.child] = w
      BY <1>t, Zenon DEF IInv, Ownership
    <3> QED
      BY <3>1, ManagerAssumption, Zenon DEF Masters
  <2>2. Masters(v)' = Masters(v)
    BY <1>1, <2>1
  <2> QED
    BY <1>t, <2>2, Zenon DEF Phase, Driven
<1>5. Masters(w)' \subseteq Masters(w)
  BY <1>2, Zenon
<1> QED
  BY <1>3, <1>4, <1>5, OneMoves, Zenon

\* The same for a drive that ends with a pool: its child is the version's now.
LEMMA EndsUp ==
    ASSUME IInv, Sound, Sound', Driving, drive.entry = "ensure", drive'.at \in {"idle", "entry"},
           pools' = [pools EXCEPT ![drive.v] = Pool(drive.child)],
           UNCHANGED <<proc, sig, unit>>
    PROVE  [Supervised!Next]_(Supervised!vars)
<1>t. PICK w \in Versions : w = drive.v
  BY Zenon DEF IInv, TypeOK, DriveType
<1>1. \A v \in Versions : Masters(v)' = Masters(v)
  BY Zenon DEF Masters, Undoomed, Live
<1>2. Phase(w) = "starting" /\ Phase(w)' # "starting"
  BY <1>t, Zenon DEF Phase, Driven, Driving
<1>3. \A v \in Versions \ {w} : pools'[v] = pools[v]
  BY <1>t, Zenon DEF IInv, TypeOK
<1>4. \A v \in Versions \ {w} : Phase(v)' = Phase(v)
  BY <1>t, <1>1, <1>3, Zenon DEF Phase, Driven
<1> QED
  BY <1>1, <1>2, <1>4, OneMoves, Zenon

\* ensure starts what has no living master, and stop takes over what has one.
LEMMA BeginsDrive ==
    ASSUME IInv, Sound, Sound', EnsureStart \/ StopStart
    PROVE  [Supervised!Next]_(Supervised!vars)
<1>t. PICK w \in Versions : w = drive.v
  BY Zenon DEF IInv, TypeOK, DriveType
<1>d. /\ TypeOK /\ drive.at = "entry" /\ drive \in DriveType
      /\ drive'.v = w /\ drive'.entry = drive.entry
  BY <1>t, Zenon DEF IInv, TypeOK, DriveType, EnsureStart, StopStart
<1>1. \A p \in Pids : Undoomed(p)' <=> Undoomed(p)
  <2>1. CASE EnsureStart
    BY <1>d, <2>1, ReapFacts, Zenon DEF EnsureStart, Undoomed, Live
  <2>2. CASE StopStart
    BY <2>2, Zenon DEF StopStart, osvars, Undoomed, Live
  <2> QED
    BY <2>1, <2>2, Zenon
<1>2. unit' = unit
  BY Zenon DEF EnsureStart, StopStart, osvars
<1>3. \A v \in Versions : Masters(v)' = Masters(v)
  BY <1>1, <1>2, Zenon DEF Masters
<1>4. \A v \in Versions \ {w} : pools'[v] = pools[v]
  BY <1>t, <1>d, Zenon DEF EnsureStart, StopStart, TypeOK
<1>5. \A v \in Versions \ {w} : Phase(v)' = Phase(v)
  BY <1>t, <1>d, <1>3, <1>4, Zenon DEF Phase, Driven
<1>6. Phase(w) = IF pools[w].child \in Masters(w) THEN "up" ELSE "down"
  BY <1>d, Zenon DEF Phase, Driven
<1>7. CASE EnsureStart
  <2>1. Phase(w) = "down"
    BY <1>t, <1>6, <1>7, Zenon DEF EnsureStart, Masters, Undoomed
  <2>2. Phase(w)' = "starting"
    BY <1>d, <1>7 DEF EnsureStart, Phase, Driven
  <2> QED
    BY <1>3, <1>5, <2>1, <2>2, OneMoves, Zenon
<1>8. CASE StopStart
  <2>1. drive'.child = pools[w].child /\ drive'.at = "event" /\ drive.entry = "stop"
    BY <1>t, <1>d, <1>8, Zenon DEF StopStart, DriveType
  <2>2. pools'[w].child \notin Masters(w)
    BY <1>t, <1>d, <1>8, ManagerAssumption, Zenon DEF StopStart, TypeOK, NoPool, Masters
  <2>3. Phase(w)' = IF pools[w].child \in Masters(w) THEN "stopping" ELSE "down"
    BY <1>d, <1>3, <2>1, <2>2, Zenon DEF Phase, Driven
  <2> QED
    BY <1>3, <1>5, <1>6, <2>3, OneMoves, Zenon
<1> QED
  BY <1>7, <1>8, Zenon

\* A spawn is for a version that is being started and has no master.
LEMMA SpawnsOne ==
    ASSUME IInv, SpawnChild
    PROVE  Supervised!Next
<1>w. PICK w \in Versions : w = drive.v
  BY Zenon DEF IInv, TypeOK, DriveType
<1>t. TypeOK /\ drive.at = "event" /\ drive.entry = "ensure"
  BY Zenon DEF IInv, SpawnChild
<1>a. drive.child = NoPid /\ Entered.v = w /\ Entered.entry = "ensure" /\ Entered.at = "event"
  BY <1>w, <1>t, LoopFacts, Decisions, Zenon DEF SpawnChild
<1>1. PICK p \in Pids :
        /\ ~Live(p)
        /\ proc' = [proc EXCEPT ![p] = "booting"]
        /\ sig' = [Dropped(drive.child) EXCEPT ![p] = "none"]
        /\ unit' = [unit EXCEPT ![p] = w]
        /\ drive' = [Entered EXCEPT !.child = p, !.pending = SpawnSucceeded(p)]
  BY <1>w, Zenon DEF SpawnChild
<1>2. sig' = [sig EXCEPT ![p] = "none"]
  BY <1>1, <1>a, ManagerAssumption, Zenon DEF Dropped, Live
<1>3. \A v \in Versions : p \notin Masters(v)
  BY <1>1, Zenon DEF Masters, Undoomed
<1>4. Masters(w) = {}
  BY <1>w, <1>t, <1>a, MastersHeld, ManagerAssumption, Zenon DEF Driving
<1>5. \A q \in Pids : Undoomed(q)' <=> Undoomed(q) \/ q = p
  BY <1>t, <1>1, <1>2, Zenon DEF TypeOK, Undoomed, Live
<1>u. unit'[p] = w /\ \A q \in Pids \ {p} : unit'[q] = unit[q]
  BY <1>t, <1>1, Zenon DEF TypeOK
<1>6. Masters(w)' = {p}
  BY <1>u, <1>4, <1>5, Zenon DEF Masters
<1>7. \A v \in Versions \ {w} : Masters(v)' = Masters(v)
  BY <1>u, <1>3, <1>5, Zenon DEF Masters
<1>8. drive'.v = w /\ drive'.entry = "ensure" /\ drive'.at = "event" /\ pools' = pools
  BY <1>t, <1>a, <1>1, LoopFacts, Zenon DEF SpawnChild, DriveType
<1>9. Phase(w) = "starting" /\ Phase(w)' = "starting"
  BY <1>w, <1>t, <1>8, Zenon DEF Phase, Driven
<1>10. \A v \in Versions : Phase(v)' = Phase(v)
  BY <1>w, <1>t, <1>7, <1>8, <1>9 DEF Phase, Driven
<1>11. /\ [v \in Versions |-> Phase(v)]' = [v \in Versions |-> Phase(v)]
       /\ [v \in Versions |-> Masters(v)]' = [[v \in Versions |-> Masters(v)] EXCEPT ![w] = {p}]
  BY <1>6, <1>7, <1>10, Zenon
<1>12. Supervised!HasNew(w, p)
  BY <1>3, <1>4, <1>11, Zenon DEF Supervised!HasNew
<1>13. Supervised!Spawn(w)
  BY <1>9, <1>11, <1>12, Zenon DEF Supervised!Spawn
<1> QED
  BY <1>13, Zenon DEF Supervised!Next

\* Nothing happens to the processes, and the drive goes on, or waits.
LEMMA MovesOn ==
    ASSUME IInv, Sound, Sound',
           \A p \in Pids : Undoomed(p)' <=> Undoomed(p),
           UNCHANGED <<pools, unit>>,
           \/ drive' = drive
           \/ ~Driving /\ ~Driving' /\ drive'.child = NoPid
           \/ /\ Driving /\ Driving' /\ drive'.v = drive.v /\ drive'.entry = drive.entry
              /\ \/ drive'.child = drive.child
                 \/ ~Live(drive.child) /\ drive'.child = NoPid
    PROVE  [Supervised!Next]_(Supervised!vars)
<1>1. \A p \in Pids : Undoomed(p)' <=> Undoomed(p) /\ p # NoPid
  BY ManagerAssumption, Zenon
<1>2. \A v \in Versions, e \in {"ensure", "stop"} : Driven(v, e)' <=> Driven(v, e)
  BY Zenon DEF Driving, Driven
<1>h. Holding /\ Shape
  BY Zenon DEF IInv
<1>3. ~Driving => drive.child = NoPid
  <2>1. CASE drive.at = "idle"
    BY <1>h, <2>1 DEF Holding, NoDrive
  <2>2. CASE drive.at = "entry"
    BY <1>h, <2>2, Zenon DEF Shape
  <2> QED
    BY <2>1, <2>2, Zenon DEF Driving
<1>4. drive'.child = drive.child \/ (~Undoomed(drive.child) /\ drive'.child \notin Pids)
  BY <1>3, ManagerAssumption, Zenon DEF Undoomed
<1> QED
  BY <1>1, <1>2, <1>4, LosesOne, Zenon

\* What clients, the lock and the processes themselves do.
LEMMA OutsideSteps ==
    ASSUME IInv, Sound, Sound',
           \/ \E p \in Pids : Boot(p) \/ Crash(p)
           \/ \E c \in Clients, r \in Request : Submit(c, r)
           \/ \E i \in 1 .. Len(queue) : CancelQueued(i)
           \/ Snapshots \/ Acquire \/ NextUnit \/ Release
           \/ UNCHANGED vars
    PROVE  [Supervised!Next]_(Supervised!vars)
<1>t. TypeOK /\ proc \in [Pids -> ProcStates] /\ sig \in [Pids -> {"none", "term", "kill"}]
  BY Zenon DEF IInv, TypeOK
<1>1. CASE \E p \in Pids : Boot(p)
  <2>1. \A p \in Pids : Undoomed(p)' <=> Undoomed(p)
    BY <1>1, <1>t, Zenon DEF Boot, Undoomed, Live
  <2> QED
    BY <1>1, <2>1, MovesOn, Zenon DEF Boot
<1>2. CASE \E p \in Pids : Crash(p)
  <2>1. PICK x \in Pids : Crash(x)
    BY <1>2, Zenon
  <2>2. \A p \in Pids : Undoomed(p)' <=> Undoomed(p) /\ p # x
    BY <1>t, <2>1, Zenon DEF Crash, Undoomed, Live
  <2>3. UNCHANGED <<pools, unit, drive>>
    BY <2>1, Zenon DEF Crash
  <2>4. \A v \in Versions, e \in {"ensure", "stop"} : Driven(v, e)' <=> Driven(v, e)
    BY <2>3, Zenon DEF Driven
  <2> QED
    BY <2>2, <2>3, <2>4, LosesOne, Zenon
<1>3. CASE \/ \E c \in Clients, r \in Request : Submit(c, r)
           \/ \E i \in 1 .. Len(queue) : CancelQueued(i)
           \/ Release
  <2>1. UNCHANGED <<pools, proc, sig, unit, drive>>
    BY <1>3, Zenon DEF Submit, CancelQueued, Release, osvars
  <2>2. \A p \in Pids : Undoomed(p)' <=> Undoomed(p)
    BY <2>1, Zenon DEF Undoomed, Live
  <2> QED
    BY <2>1, <2>2, MovesOn, Zenon
<1>4. CASE UNCHANGED vars
  <2>1. UNCHANGED <<pools, proc, sig, unit, drive>>
    BY <1>4, Zenon DEF vars, osvars
  <2>2. \A p \in Pids : Undoomed(p)' <=> Undoomed(p)
    BY <2>1, Zenon DEF Undoomed, Live
  <2> QED
    BY <2>1, <2>2, MovesOn, Zenon
<1>5. CASE Snapshots \/ Acquire
  <2>1. UNCHANGED <<pools, sig, unit, drive>>
    BY <1>5, Zenon DEF Snapshots, Acquire
  <2>2. \/ proc' = Reap({pools[v].child : v \in Versions})
        \/ proc' = proc
    BY <1>5, Zenon DEF Snapshots, Acquire
  <2>3. \A p \in Pids : Undoomed(p)' <=> Undoomed(p)
    BY <1>t, <2>1, <2>2, ReapFacts, Zenon DEF Undoomed, Live
  <2> QED
    BY <2>1, <2>3, MovesOn, Zenon
<1>6. CASE NextUnit
  <2>1. UNCHANGED <<pools, proc, sig, unit>>
    BY <1>6, Zenon DEF NextUnit, osvars
  <2>2. \A p \in Pids : Undoomed(p)' <=> Undoomed(p)
    BY <2>1, Zenon DEF Undoomed, Live
  <2>3. drive.at = "idle" /\ drive'.at = "entry" /\ drive'.child = NoPid
    BY <1>6, Zenon DEF NextUnit, NoDrive
  <2> QED
    BY <2>1, <2>2, <2>3, MovesOn, Zenon DEF Driving
<1> QED
  BY <1>1, <1>2, <1>3, <1>4, <1>5, <1>6, Zenon

\* What ensure and stop answer without a drive.
LEMMA AnsweredSteps ==
    ASSUME IInv, Sound, Sound', EnsureRunning \/ EnsureRefused \/ StopAbsent
    PROVE  [Supervised!Next]_(Supervised!vars)
<1>t. TypeOK /\ Holding /\ drive.at = "entry"
  BY Zenon DEF IInv, EnsureRunning, EnsureRefused, StopAbsent
<1>1. UNCHANGED <<pools, sig, unit>>
  BY Zenon DEF EnsureRunning, EnsureRefused, StopAbsent, osvars
<1>2. proc' = proc \/ proc' = Reap({pools[drive.v].child})
  BY Zenon DEF EnsureRunning, EnsureRefused, StopAbsent, osvars
<1>3. \A p \in Pids : Undoomed(p)' <=> Undoomed(p)
  BY <1>t, <1>1, <1>2, ReapFacts, Zenon DEF Undoomed, Live
<1>4. Finish(TRUE) \/ Finish(FALSE)
  BY Zenon DEF EnsureRunning, EnsureRefused, StopAbsent
<1>5. drive'.at \in {"idle", "entry"} /\ drive'.child = NoPid
  BY <1>t, <1>4, FinishFacts, Zenon
<1> QED
  BY <1>1, <1>3, <1>t, <1>5, MovesOn, Zenon DEF Driving

\* A drive that fails or is cancelled drops the handle it has.
LEMMA DroppedSteps ==
    ASSUME IInv, Sound, Sound', Driving, DriveError \/ Cancel
    PROVE  [Supervised!Next]_(Supervised!vars)
<1>t. TypeOK /\ Holding /\ drive.at # "idle"
  BY Zenon DEF IInv, Driving
<1>1. sig' = Dropped(drive.child) /\ UNCHANGED <<pools, proc, unit>>
  BY Zenon DEF DriveError, Cancel
<1>2. \A p \in Pids : Undoomed(p)' <=> Undoomed(p) /\ p # drive.child
  BY <1>t, <1>1, Zenon DEF Dropped, Undoomed, Live, TypeOK
<1>3. CASE DriveError
  <2>1. drive'.at \in {"idle", "entry"}
    BY <1>t, <1>3, FinishFacts, Zenon DEF DriveError
  <2> QED
    BY <1>1, <1>2, <2>1, EndsDrive, Zenon
<1>4. CASE Cancel
  <2>1. drive'.at \in {"idle", "entry"}
    BY <1>4, Zenon DEF Cancel, NoDrive
  <2> QED
    BY <1>1, <1>2, <2>1, EndsDrive, Zenon
<1> QED
  BY <1>3, <1>4, Zenon

\* A drive ends in the version being up, or stopped.
LEMMA TerminalMaps ==
    ASSUME IInv, Sound, Sound', FinishTerminal
    PROVE  [Supervised!Next]_(Supervised!vars)
<1> USE ManagerAssumption
<1>t. TypeOK /\ Holding /\ EntryIsDead
  BY Zenon DEF IInv
<1>a. /\ drive.at = "event" /\ Decision.action = None /\ EventShape
      /\ drive.v \in Versions /\ probed \subseteq Pids
  BY LoopFacts, Zenon DEF FinishTerminal
<1>d. \/ /\ drive.entry = "ensure" /\ drive.child \in probed
         /\ Decision.next = Running(drive.child)
      \/ /\ drive.entry = "stop" /\ drive.child = NoPid
         /\ Decision.next = Stopped
  BY <1>t, <1>a, Decisions, Zenon
<1>1. CASE drive.entry = "stop"
  <2>0. Decision.next = Stopped /\ drive.child = NoPid
    BY <1>d, <1>1, Zenon
  <2>s. Stopped.tag = "Stopped"
    BY Zenon DEF Stopped, State
  <2>1. Decision.next.tag = "Stopped" /\ drive.child = NoPid
    BY <2>0, <2>s, Zenon
  <2>2. /\ sig' = Dropped(drive.child) /\ Finish(TRUE)
        /\ UNCHANGED <<pools, proc, unit>>
    BY <1>1, <2>1, Zenon DEF FinishTerminal
  <2>3. \A p \in Pids : Undoomed(p)' <=> Undoomed(p) /\ p # drive.child
    BY <2>1, <2>2, Zenon DEF Dropped, Undoomed, Live
  <2>4. drive'.at \in {"idle", "entry"}
    BY <1>t, <1>a, <2>2, FinishFacts, Zenon
  <2> QED
    BY <1>a, <2>2, <2>3, <2>4, EndsDrive, Zenon DEF Driving
<1>2. CASE drive.entry = "ensure"
  <2>1. /\ Decision.next = Running(drive.child)
        /\ drive.child # NoPid /\ Decision.next.tag = "Running"
    BY <1>a, <1>d, <1>2 DEF Running, State
  <2>2. /\ pools' = [pools EXCEPT ![drive.v] = Pool(drive.child)]
        /\ sig' = Dropped(pools[drive.v].child)
        /\ Finish(TRUE)
        /\ UNCHANGED <<proc, unit>>
    BY <1>2, <2>1, Zenon DEF FinishTerminal, Pool
  <2>3. ~Live(pools[drive.v].child)
    BY <1>t, <1>a, <1>2, PoolEntries, Zenon DEF EntryIsDead, Live
  <2>4. sig' = sig
    BY <2>2, <2>3, Zenon DEF Dropped
  <2>5. drive'.at \in {"idle", "entry"}
    BY <1>t, <1>a, <2>2, FinishFacts, Zenon
  <2> QED
    BY <1>a, <1>2, <2>2, <2>4, <2>5, EndsUp, Zenon DEF Driving
<1> QED
  BY <1>d, <1>1, <1>2, Zenon

\* The drive goes on to its next await, or to its next event.
LEMMA DrivingSteps ==
    ASSUME IInv, Sound, Sound', ~DriveError,
           \/ StartProbe \/ StartBackoff \/ Kill
           \/ ProbeOk \/ ProbeFailed \/ ProbeExited \/ BackoffOver \/ ExitAwaited \/ GraceOver
    PROVE  [Supervised!Next]_(Supervised!vars)
<1>t. /\ TypeOK /\ drive \in DriveType
      /\ sig \in [Pids -> {"none", "term", "kill"}]
  BY Zenon DEF IInv, TypeOK
<1>1. UNCHANGED <<pools, unit>>
  BY Zenon DEF StartProbe, StartBackoff, Kill, ProbeOk, ProbeFailed, ProbeExited, BackoffOver,
         ExitAwaited, GraceOver, osvars
<1>2. CASE StartProbe \/ StartBackoff
  <2>1. UNCHANGED <<proc, sig>> /\ drive.at = "event"
    BY <1>2, Zenon DEF StartProbe, StartBackoff, osvars
  <2>2. \/ drive' = [Entered EXCEPT !.at = "probing"]
        \/ drive' = [Entered EXCEPT !.at = "backoff"]
    BY <1>2, Zenon DEF StartProbe, StartBackoff
  <2>3. /\ drive'.v = drive.v /\ drive'.entry = drive.entry /\ drive'.child = drive.child
        /\ drive'.at \in {"probing", "backoff"}
    BY <2>1, <2>2, LoopFacts, Zenon DEF DriveType
  <2>4. \A p \in Pids : Undoomed(p)' <=> Undoomed(p)
    BY <2>1, Zenon DEF Undoomed, Live
  <2> QED
    BY <1>1, <2>1, <2>3, <2>4, MovesOn, Zenon DEF Driving
<1>3. CASE Kill
  <2>1. /\ drive' = [Entered EXCEPT !.at = "waiting"] /\ drive.at = "event"
        /\ proc' = proc
        /\ sig' = IF ~Live(drive.child) THEN sig
                  ELSE [sig EXCEPT ![drive.child] =
                          IF Decision.action = KillKill THEN "kill"
                          ELSE IF @ = "kill" THEN @ ELSE "term"]
    BY <1>3, Zenon DEF Kill
  <2>2. /\ drive'.v = drive.v /\ drive'.entry = drive.entry /\ drive'.child = drive.child
        /\ drive'.at = "waiting"
    BY <2>1, LoopFacts, Zenon DEF DriveType
  <2>3. CASE Decision.action = KillKill
    <3>1. \A p \in Pids : Undoomed(p)' <=> Undoomed(p) /\ p # drive.child
      BY <1>t, <2>1, <2>3, Zenon DEF Undoomed, Live
    <3>2. \A v \in Versions, e \in {"ensure", "stop"} : Driven(v, e)' <=> Driven(v, e)
      BY <2>1, <2>2, Zenon DEF Driven
    <3> QED
      BY <1>1, <2>2, <3>1, <3>2, LosesOne, Zenon
  <2>4. CASE Decision.action # KillKill
    <3>1. \A p \in Pids : sig'[p] = "kill" <=> sig[p] = "kill"
      BY <1>t, <2>1, <2>4, Zenon DEF Live
    <3>2. \A p \in Pids : Undoomed(p)' <=> Undoomed(p)
      BY <2>1, <3>1, Zenon DEF Undoomed, Live
    <3> QED
      BY <1>1, <2>1, <2>2, <3>2, MovesOn, Zenon DEF Driving
  <2> QED
    BY <2>3, <2>4, Zenon
<1>4. CASE \/ ProbeOk \/ ProbeFailed \/ ProbeExited \/ BackoffOver \/ ExitAwaited \/ GraceOver
  <2>1. sig' = sig /\ drive.at \in {"probing", "backoff", "waiting"}
    BY <1>4, Zenon DEF ProbeOk, ProbeFailed, ProbeExited, BackoffOver, ExitAwaited, GraceOver, osvars
  <2>2. proc' = proc \/ proc' = Reap({drive.child})
    BY <1>4, Zenon DEF ProbeOk, ProbeFailed, ProbeExited, BackoffOver, ExitAwaited, GraceOver, osvars
  <2>3. \A p \in Pids : Undoomed(p)' <=> Undoomed(p)
    BY <1>t, <2>1, <2>2, ReapFacts, Zenon DEF Undoomed, Live
  <2>4. drive'.at = "event" /\ drive'.v = drive.v /\ drive'.entry = drive.entry
    BY <1>4, <1>t, Zenon
    DEF ProbeOk, ProbeFailed, ProbeExited, BackoffOver, ExitAwaited, GraceOver, Deliver, DriveType
  <2>5. \/ drive'.child = drive.child
        \/ ~Live(drive.child) /\ drive'.child = NoPid
    BY <1>4, <1>t, Zenon
    DEF ProbeOk, ProbeFailed, ProbeExited, BackoffOver, ExitAwaited, GraceOver, Deliver, DriveType
  <2> QED
    BY <1>1, <2>1, <2>3, <2>4, <2>5, MovesOn, Zenon DEF Driving
<1> QED
  BY <1>2, <1>3, <1>4, Zenon

\* The manager implements the supervision of its versions, for any number of
\* versions, masters and clients: whatever crashes, fails or is cancelled, every
\* step of it is a step of SupervisedUnits or changes no phase and no master.
THEOREM ImplementsSupervision == Spec => PoolsAreSupervised
<1>1. Init => Supervised!Init
  <2> SUFFICES ASSUME Init PROVE Supervised!Init
    BY Zenon
  <2>1. \A v \in Versions : Masters(v) = {}
    BY Zenon DEF Init, Masters, Undoomed, Live
  <2>2. drive.at = "idle"
    BY Zenon DEF Init, NoDrive
  <2>3. \A v \in Versions : Phase(v) = "down"
    BY <2>1, <2>2, Zenon DEF Phase, Driven
  <2> QED
    BY <2>1, <2>3, Zenon DEF Supervised!Init
<1>2. IInv /\ Sound /\ Sound' /\ [Next]_vars => [Supervised!Next]_(Supervised!vars)
  <2> SUFFICES ASSUME IInv, Sound, Sound', [Next]_vars
               PROVE  [Supervised!Next]_(Supervised!vars)
    BY Zenon
  <2>1. CASE \/ \E p \in Pids : Boot(p) \/ Crash(p)
             \/ \E c \in Clients, r \in Request : Submit(c, r)
             \/ \E i \in 1 .. Len(queue) : CancelQueued(i)
             \/ Snapshots \/ Acquire \/ NextUnit \/ Release
             \/ UNCHANGED vars
    BY <2>1, OutsideSteps, Zenon
  <2>2. CASE EnsureRunning \/ EnsureRefused \/ StopAbsent
    BY <2>2, AnsweredSteps, Zenon
  <2>3. CASE EnsureStart \/ StopStart
    BY <2>3, BeginsDrive, Zenon
  <2>4. CASE FinishTerminal
    BY <2>4, TerminalMaps, Zenon
  <2>5. CASE SpawnChild
    BY <2>5, SpawnsOne, Zenon
  <2>6. CASE SpawnFailed \/ GiveUp
    BY <2>6, DroppedSteps, Zenon DEF SpawnFailed, GiveUp, Driving
  <2>7. CASE Cancel
    BY <2>7, DroppedSteps, Zenon DEF Cancel, Driving
  <2>8. CASE \/ StartProbe \/ StartBackoff \/ Kill
             \/ ProbeOk \/ ProbeFailed \/ ProbeExited \/ BackoffOver \/ ExitAwaited \/ GraceOver
    <3>1. Driving
      BY <2>8, Zenon DEF StartProbe, StartBackoff, Kill, ProbeOk, ProbeFailed, ProbeExited, BackoffOver,
                  ExitAwaited, GraceOver, Driving
    <3>2. CASE DriveError
      BY <3>1, <3>2, DroppedSteps, Zenon
    <3>3. CASE ~DriveError
      BY <2>8, <3>3, DrivingSteps, Zenon
    <3> QED
      BY <3>2, <3>3, Zenon
  <2> QED
    BY <2>1, <2>2, <2>3, <2>4, <2>5, <2>6, <2>7, <2>8, Zenon DEF Next, ManagerStep, DriveStep
<1> QED
  BY <1>1, <1>2, Inductive, PhasesSound, PTL DEF Spec, PoolsAreSupervised, Supervised!Spec
=============================================================================
