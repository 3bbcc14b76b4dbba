---------------------------- MODULE MCPhpManager ----------------------------
(* The two managers that drive the supervisor, for TLC: PHP pools (PhpManager, *)
(* two versions, two clients and two processes, one of which ignores SIGTERM)  *)
(* and quick tunnels (TunnelManager, two tasks with two requests each for one  *)
(* site, and two processes, one of which ignores SIGTERM).  A behaviour is of  *)
(* one of the two; the other stays as it began.                                *)
EXTENDS PhpManager

VARIABLES part, inst, log, tunnelProc, tunnelSig, tunnelUnit, task, left, lock
qvars == <<inst, log, tunnelProc, tunnelSig, tunnelUnit, task, left, lock>>

TPids == {"p1", "p2"}
TTasks == {"t1", "t2"}
Q == INSTANCE TunnelManager WITH
       NoPid <- "none", NoTask <- "nobody", Sites <- {"s"}, Pids <- TPids, Tasks <- TTasks,
       Stubborn <- {"p1"}, MaxRequests <- 2,
       proc <- tunnelProc, sig <- tunnelSig, unit <- tunnelUnit

MCInit == part \in {"php", "tunnel"} /\ Init /\ Q!Init
\* Once its requests are used up and answered, the tunnel part may stay put.
Answered == part = "tunnel" /\ (\A t \in TTasks : task[t].at = "idle") /\ UNCHANGED <<part, vars, qvars>>
MCNext ==
  \/ part = "php" /\ Next /\ UNCHANGED <<part, qvars>>
  \/ part = "tunnel" /\ Q!Next /\ UNCHANGED <<part, vars>>
  \/ Answered
Php(A) == part = "php" /\ A /\ UNCHANGED <<part, qvars>>
Tunnel(A) == part = "tunnel" /\ A /\ UNCHANGED <<part, vars>>
MCSpec ==
  /\ MCInit /\ [][MCNext]_<<part, vars, qvars>>
  /\ WF_vars(Php(ManagerStep)) /\ \A p \in Pids : WF_vars(Php(Die(p)))
  /\ \A t \in TTasks : WF_qvars(Tunnel(Q!TaskStep(t)))
  /\ WF_qvars(Tunnel(Q!HolderStep)) /\ WF_qvars(Tunnel(Q!ClockAdvances("s")))
  /\ \A p \in TPids : WF_qvars(Tunnel(Q!Die(p)))

(* Every request is answered: nobody waits for the PHP manager's mutex for  *)
(* ever, unless a master that ignores SIGTERM keeps its holder in           *)
(* wait_after_kill (PhpManager), and every request for a quick tunnel is    *)
(* answered even by a cloudflared that ignores SIGTERM (TunnelManager).     *)
RequestsAnswered ==
  /\ part = "php" => EveryRequestAnswered
  /\ part = "tunnel" => Q!EveryRequestAnswered
=============================================================================
