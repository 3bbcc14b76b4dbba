---------------------------- MODULE MCPerSite ------------------------------
(* What the daemon runs for single sites, one component to a behaviour: quick  *)
(* tunnels (TunnelManager), the named tunnel beside the two caches             *)
(* (NamedTunnel), and per-site service instances (ServiceInstances).           *)
EXTENDS TunnelManager, NamedTunnel, ServiceInstances, TLC

CONSTANT Parts      \* the components of this run
VARIABLE part       \* the component of this behaviour
parts == <<part, vars, namedvars, instvars>>

MCInit ==
  /\ part \in Parts /\ Init /\ NamedInit /\ InstInit
  /\ part # "named" => managed /\ sysbin
  /\ part # "instances" => instances = [s \in Owners |-> Absent]
\* Of what follows once two tasks have overlapped on one site InstanceIsServed
\* says only its types, so the run goes no further there.
MCNext ==
  /\ part' = part
  /\ \/ part = "tunnels" /\ Next /\ UNCHANGED <<namedvars, instvars>>
     \/ part = "named" /\ NamedNext /\ UNCHANGED <<vars, instvars>>
     \/ part = "instances" /\ Without({"site"}) /\ InstNext /\ UNCHANGED <<vars, namedvars>>
MCSpec == MCInit /\ [][MCNext]_parts

\* Tasks are interchangeable, and so are names.
Symmetry == Permutations(Tasks) \cup Permutations(Names)
=============================================================================
