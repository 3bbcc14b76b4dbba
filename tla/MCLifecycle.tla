---------------------------- MODULE MCLifecycle ----------------------------
(* Two daemon processes (Lifecycle); or two update requests and appliers    *)
(* beside one daemon (SelfUpdate); or `yerd doctor` and its fixes (Doctor).  *)
(* A behaviour is of one of the three.                                       *)
EXTENDS Lifecycle, SelfUpdate

CONSTANTS d1, d2
VARIABLES part, platform, machine, live, ask, user, was, gone, fresh, faults

D == INSTANCE Doctor WITH
       HostOs <- Hosts, Versions <- {1, 2}, MaxFaults <- 1, os <- platform, host <- machine
dvars == <<platform, machine, live, ask, user, was, gone, fresh, faults>>

MCInit ==
  /\ part \in {"life", "update", "doctor"}
  /\ Init /\ UpdateInit /\ D!DocInit
  /\ part # "life" => os = (CHOOSE o \in Oses : TRUE) /\ ~pf
  /\ part # "update" => host = CHOOSE h \in Hosts : TRUE
  /\ part # "doctor" => /\ machine = D!Healthy /\ platform = CHOOSE h \in Hosts : TRUE
                        /\ \A v \in DOMAIN live.pools : live.pools[v] = "none"
MCNext ==
  \/ part = "life" /\ Next /\ UNCHANGED <<part, updatevars, dvars>>
  \/ part = "update" /\ UpdateNext /\ UNCHANGED <<part, vars, dvars>>
  \/ part = "doctor" /\ D!DocNext /\ UNCHANGED <<part, vars, updatevars>>
Life(A) == part = "life" /\ A /\ UNCHANGED <<part, updatevars, dvars>>
Doc(A) == part = "doctor" /\ A /\ UNCHANGED <<part, vars, updatevars>>
MCSpec ==
  /\ MCInit /\ [][MCNext]_<<part, vars, updatevars, dvars>>
  /\ \A d \in Daemons :
       WF_vars(Life(BootStep(d))) /\ WF_vars(Life(ExitStep(d))) /\ WF_vars(Life(RedirectProbe(d)))
  /\ WF_dvars(Doc(\E fix \in BOOLEAN : D!Begin(fix))) /\ WF_dvars(Doc(D!build_status_report))
  /\ WF_dvars(Doc(D!run_doctor_fix)) /\ WF_dvars(Doc(D!Read)) /\ WF_dvars(Doc(D!Follow))

(* Every finding of `yerd doctor`, and every absence of one, was true at    *)
(* some moment of the request, and a repair that `doctor fix` reports as    *)
(* done is not listed again (Doctor's DoctorTellsTheTruth and FixHelps).    *)
DoctorTellsTheTruth == D!DoctorTellsTheTruth /\ D!FixHelps

(* Following the remedies `yerd doctor` names leads out of every            *)
(* combination of faults (diagnose, plan_auto_fixes, run_doctor_fix).       *)
RemediesWork == part = "doctor" => D!RemediesWork
=============================================================================
