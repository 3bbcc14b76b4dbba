-------------------------- MODULE SupervisedUnits --------------------------
(* What a manager of supervised processes promises of its units, whatever    *)
(* requests, crashes, failed spawns and dropped tasks it is made of: a unit  *)
(* is a PHP version with its FPM master (PhpManager) or a site with its quick *)
(* tunnel (TunnelManager).  How long anything takes, how often a start is    *)
(* tried again and who asked for it is left open.                            *)
CONSTANTS
    Units,     \* what is supervised
    Procs      \* process ids

VARIABLES
    phase,     \* unit -> down, starting, up or stopping
    running    \* unit -> its processes that run and have not been SIGKILLed

vars == <<phase, running>>

Init ==
    /\ phase = [u \in Units |-> "down"]
    /\ running = [u \in Units |-> {}]

Becomes(u, to) == phase' = [phase EXCEPT ![u] = to]
HasNone(u) == running' = [running EXCEPT ![u] = {}]

\* A process is spawned for a unit that has none, and serves no other.
HasNew(u, p) ==
    /\ running[u] = {} /\ \A w \in Units : p \notin running[w]
    /\ running' = [running EXCEPT ![u] = {p}]

\* Only a unit that is down is started; the first spawn may come with it.
Start(u) ==
    /\ phase[u] = "down" /\ Becomes(u, "starting")
    /\ running' = running \/ \E p \in Procs : HasNew(u, p)

Spawn(u) == phase[u] = "starting" /\ phase' = phase /\ \E p \in Procs : HasNew(u, p)

\* An attempt is over: its process died, or was given up and killed.
Lose(u) == phase[u] = "starting" /\ phase' = phase /\ HasNone(u)

\* A unit comes up with the process that was started for it.
Ready(u) == phase[u] = "starting" /\ running[u] # {} /\ Becomes(u, "up") /\ running' = running

\* From here on there is no way back: the process ends, and the unit is down.
Stop(u) ==
    /\ phase[u] \in {"starting", "up"} /\ running[u] # {}
    /\ Becomes(u, "stopping") /\ running' = running

\* Stopped, given up, or died by itself: a unit that is down has no process.
End(u) == phase[u] # "down" /\ Becomes(u, "down") /\ HasNone(u)

Next == \E u \in Units : Start(u) \/ Spawn(u) \/ Lose(u) \/ Ready(u) \/ Stop(u) \/ End(u)

Spec == Init /\ [][Next]_vars
=============================================================================
