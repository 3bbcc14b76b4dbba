----------------------------- MODULE Supervisor -----------------------------
(* The pure supervision state machine of crates/yerd-supervise, shared by    *)
(* the PHP-FPM pools, the database services and the Cloudflare tunnels.      *)
(* It owns no state: `transition` maps a state and an event to the next      *)
(* state and the one action its driver must perform.  Every state is a       *)
(* record of one shape, so that a driver can store it in a variable; the     *)
(* exit reason a Failed state carries never influences a transition and is   *)
(* left out.                                                                 *)
EXTENDS Integers

CONSTANTS
    HealthCheckWindow,   \* how long Starting may keep probing
    BackoffInitial,      \* sleep before the first retry
    BackoffMax,          \* cap of the exponential backoff
    MaxRestartAttempts,  \* spawns before the failure is permanent
    StopGrace,           \* time between SIGTERM and SIGKILL
    FactorBits,          \* width of the backoff factor: 32 in the code
    NoPid                \* Option::None for a pid

ASSUME PolicyAssumption ==
    /\ HealthCheckWindow \in Nat
    /\ BackoffInitial \in Nat
    /\ BackoffMax \in Nat
    /\ MaxRestartAttempts \in Nat \ {0}
    /\ StopGrace \in Nat
    /\ FactorBits \in Nat \ {0}

-----------------------------------------------------------------------------
(* States, events and actions.                                               *)

State(tag, attempts, pid, sigkilled) ==
    [tag |-> tag, attempts |-> attempts, pid |-> pid, sigkilled |-> sigkilled]

Stopped == State("Stopped", 0, NoPid, FALSE)
Starting(attempts, pid) == State("Starting", attempts, pid, FALSE)
Running(pid) == State("Running", 0, pid, FALSE)
Failed(attempts) == State("Failed", attempts, NoPid, FALSE)
Stopping(sigkilled) == State("Stopping", 0, NoPid, sigkilled)

Tags == {"Stopped", "Starting", "Running", "Failed", "Stopping"}

\* The states of a unit over the process ids `pids`: no state counts more
\* attempts than the policy allows.
PoolState(pids) ==
    [tag : Tags, attempts : 0 .. MaxRestartAttempts,
     pid : pids \cup {NoPid}, sigkilled : BOOLEAN]

Event(name, pid, elapsed) == [name |-> name, pid |-> pid, elapsed |-> elapsed]

EnsureRequested == Event("EnsureRequested", NoPid, 0)
StopRequested == Event("StopRequested", NoPid, 0)
SpawnSucceeded(pid) == Event("SpawnSucceeded", pid, 0)
HealthCheckOk == Event("HealthCheckOk", NoPid, 0)
HealthCheckTick(elapsed) == Event("HealthCheckTick", NoPid, elapsed)
Crashed == Event("Crashed", NoPid, 0)
BackoffElapsed == Event("BackoffElapsed", NoPid, 0)
StopTick(elapsed) == Event("StopTick", NoPid, elapsed)
StopComplete == Event("StopComplete", NoPid, 0)

EventNames ==
    {"EnsureRequested", "StopRequested", "SpawnSucceeded", "HealthCheckOk",
     "HealthCheckTick", "Crashed", "BackoffElapsed", "StopTick", "StopComplete"}

\* The events a driver can deliver when no window is longer than `horizon`.
PoolEvent(pids, horizon) ==
    [name : EventNames, pid : pids \cup {NoPid}, elapsed : 0 .. horizon]

Act(do, wait) == [do |-> do, wait |-> wait]

None == Act("None", 0)
Spawn == Act("Spawn", 0)
HealthCheck == Act("HealthCheck", 0)
Backoff(wait) == Act("Backoff", wait)
KillTerm == Act("KillTerm", 0)
KillKill == Act("KillKill", 0)
PermanentFailure == Act("PermanentFailure", 0)

-----------------------------------------------------------------------------
Least(a, b) == IF a <= b THEN a ELSE b

\* Sleep before retry number `attempts`: initial * 2^(attempts-1), the factor
\* saturating at the largest value of its width, the product at the cap; 0
\* attempts count as 1.
backoff_for(attempts) ==
    LET n == IF attempts = 0 THEN 0 ELSE attempts - 1
        factor == IF n < FactorBits THEN 2^n ELSE 2^FactorBits - 1
    IN  Least(BackoffInitial * factor, BackoffMax)

To(next, action) == [next |-> next, action |-> action]

Retry(attempts) ==
    IF attempts < MaxRestartAttempts
    THEN To(Starting(attempts + 1, NoPid), Spawn)
    ELSE To(Failed(attempts), PermanentFailure)

transition(s, e) ==
    CASE s.tag = "Stopped" /\ e.name = "EnsureRequested" ->
            To(Starting(1, NoPid), Spawn)
      [] s.tag = "Starting" /\ e.name = "SpawnSucceeded" ->
            To(Starting(s.attempts, e.pid), HealthCheck)
      [] s.tag = "Starting" /\ e.name = "HealthCheckOk" /\ s.pid # NoPid ->
            To(Running(s.pid), None)
      [] s.tag = "Starting" /\ e.name = "HealthCheckTick" ->
            To(s, IF e.elapsed < HealthCheckWindow THEN HealthCheck ELSE KillTerm)
      [] s.tag = "Starting" /\ e.name = "Crashed" ->
            To(Failed(s.attempts), Backoff(backoff_for(s.attempts)))
      [] s.tag \in {"Starting", "Running"} /\ e.name = "StopRequested" ->
            To(Stopping(FALSE), KillTerm)
      [] s.tag = "Running" /\ e.name = "Crashed" ->
            To(Failed(1), Backoff(backoff_for(1)))
      [] s.tag = "Failed" /\ e.name = "BackoffElapsed" -> Retry(s.attempts)
      [] s.tag = "Failed" /\ e.name = "EnsureRequested" ->
            To(Starting(1, NoPid), Spawn)
      [] s.tag = "Failed" /\ e.name = "StopRequested" -> To(Stopped, None)
      [] s.tag = "Stopping" /\ e.name = "StopTick"
         /\ ~s.sigkilled /\ e.elapsed >= StopGrace ->
            To(Stopping(TRUE), KillKill)
      [] s.tag = "Stopping" /\ e.name = "StopComplete" -> To(Stopped, None)
      [] OTHER -> To(s, None)
=============================================================================
