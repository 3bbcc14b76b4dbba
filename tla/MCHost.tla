------------------------------- MODULE MCHost -------------------------------
(* Commands run as root and the helper, or the shell profile (HostSetup);    *)
(* or the desktop app as the daemon's owner, or its tray (Desktop).  A       *)
(* behaviour is of one of the four.                                          *)
EXTENDS HostSetup

VARIABLES part,
          manager, gui, file, sm, job, up, unit, login, lock, th, told, launches, failures, commands,
          daemon, menu, transition, poller, last, refresh, life, changes, clicks
dvars == <<manager, gui, file, sm, job, up, unit, login, lock, th, told, launches, failures, commands>>
tvars == <<daemon, menu, transition, poller, last, refresh, life, changes, clicks>>

D == INSTANCE Desktop WITH host <- manager, faults <- failures, MaxLaunches <- 2, MaxFaults <- 1,
       MaxCommands <- 2, Hosts <- {"smapp", "loose", "systemd", "none"},
       SettleSteps <- 1, MaxChanges <- 2, MaxClicks <- 2

OneOf(v, set) == v = CHOOSE x \in set : TRUE
MCInit ==
  /\ part \in {"host", "desktop", "tray", "profile"}
  /\ Init /\ D!Init /\ D!TrayInit /\ ProfileInit
  /\ part # "host" => OneOf(host, Hosts) /\ OneOf(files["pf"], PfFiles) /\ files["resolver"] = None
  /\ part # "desktop" => manager = "none"
  /\ part # "tray" => daemon.up
  /\ part # "profile" => rc["bashrc"] = <<>>
MCNext ==
  \/ part = "host" /\ Next /\ UNCHANGED <<part, dvars, tvars, profilevars>>
  \/ part = "desktop" /\ D!Next /\ UNCHANGED <<part, vars, tvars, profilevars>>
  \/ part = "tray" /\ D!TrayNext /\ UNCHANGED <<part, vars, dvars, profilevars>>
  \/ part = "profile" /\ ProfileNext /\ UNCHANGED <<part, vars, dvars, tvars>>
Menu(A) == part = "tray" /\ A /\ UNCHANGED <<part, vars, dvars, profilevars>>
MCSpec ==
  /\ MCInit /\ [][MCNext]_<<part, vars, dvars, tvars, profilevars>>
  /\ WF_tvars(Menu(D!Poll)) /\ WF_tvars(Menu(D!Refresh))
  /\ \A k \in D!Tasks : WF_tvars(Menu(D!Lifecycle(k)))

(* What the helper says of the host is true: an install that exits 0 is in   *)
(* effect and a removal's summary lists what is left (ReportsAreTrue), an    *)
(* install that fails restores both NetworkManager files                     *)
(* (FailedInstallRestores), and pf.conf never loads an anchor file that is   *)
(* not there (RefsHaveAnchors), whichever step fails.  Files hold only what   *)
(* the helper or the user can have written (TypeOK, ProfileTypeOK).          *)
HostIsAsReported ==
  TypeOK /\ ProfileTypeOK /\ RefsHaveAnchors /\ FailedInstallRestores /\ ReportsAreTrue

(* No step of Yerd's takes what is the user's: pf.conf's other lines and    *)
(* anchors, the resolver file that was there before, and the lines of the   *)
(* shell profile around Yerd's block (install_ref, backup_existing,          *)
(* remove_block).                                                           *)
UsersOwnKept ==
  [][/\ part = "host" => KeepsOthers /\ KeepsUserFile
     /\ part = "profile" => KeepsOwnLines]_<<part, vars, profilevars>>

(* The launch of a newer app leaves the login daemon registered although a  *)
(* registration failed once, and an older app never replaces a newer one's  *)
(* registration (ensure_daemon_registration_retrying, unregister).          *)
UpgradeAdopted == [][part = "desktop" => D!AdoptsUpgrade /\ D!DowngradesNot]_<<part, dvars>>

(* What the app remembers and shows stays true: a login item the user       *)
(* turned off stays off, and while a lifecycle action runs the tray shows   *)
(* it and not an older menu (Desktop's LoginStaysOff and TransientOwned;    *)
(* TypeOK and TrayTypeOK).                                                  *)
DesktopIsHonest == D!TypeOK /\ D!TrayTypeOK /\ D!LoginStaysOff /\ D!TransientOwned

(* A lifecycle action of the tray always gives the menu back, whatever the  *)
(* daemon does (tray.rs, wait_until_restarted).                             *)
TransitionEnds == part = "tray" => D!TransitionEnds
=============================================================================
