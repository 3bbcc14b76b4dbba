----------------------------- MODULE MCClients -----------------------------
(* Two CLI processes over a restarting daemon, or one MCP session: `part`   *)
(* says which of the two the behaviour is about; the other stays put.       *)
EXTENDS Clients
CONSTANTS c1, c2
VARIABLE part

Line(x, j) == [cmd |-> x, json |-> j]
Flows == {Line(x, FALSE) : x \in {"lan enable", "install tool", "restart daemon"}}
CommandLines == {Line(x, FALSE) : x \in Commands}
         \cup {Line(x, TRUE) : x \in {"install tool", "doctor", "update --yes"}}
MCPlans == {(c1 :> x) @@ (c2 :> y) :
   <<x, y>> \in (CommandLines \X {Line("restart daemon", FALSE)}) \cup (Flows \X Flows)}

vars == <<part, cvars, mvars>>

MCInit ==
  \/ part = "cli" /\ Init /\ SessionInit /\ world.up /\ world.mcp
  \/ part = "mcp" /\ SessionInit /\ Init /\ \A c \in Clients : client[c].cmd = "restart daemon"
MCNext ==
  \/ part = "cli" /\ Next /\ UNCHANGED <<part, mvars>>
  \/ part = "mcp" /\ SessionNext /\ UNCHANGED <<part, cvars>>
MCSpec ==
  /\ MCInit /\ [][MCNext]_vars /\ Fairness
  /\ WF_vars(part = "mcp" /\ SessionStep /\ UNCHANGED <<part, cvars>>)

(* An MCP session says what happened: a tool call reaches the daemon only   *)
(* after initialize and a Status that allowed it, each line that is owed a  *)
(* reply has had exactly one, in order, and a call is reported as done only *)
(* if the daemon carried it out, late answers after a timeout included      *)
(* (CallsAreGated, RepliesMatchLines and NoFalseSuccess; SessionTypeOK).     *)
SessionIsHonest == SessionTypeOK /\ CallsAreGated /\ RepliesMatchLines /\ NoFalseSuccess

(* `yerd lan` has enforced the restart it promises when it reports success, *)
(* and no command of any flow ends on a reply it has no rendering for       *)
(* (RestartEnforced and NoUnexpectedReply of Clients; TypeOK).              *)
CommandsTellTheTruth == TypeOK /\ RestartEnforced /\ NoUnexpectedReply

(* Every command ends with an exit code, and every line of a session is     *)
(* dealt with, also when the daemon restarts or never answers.              *)
EverythingEnds ==
  /\ EveryCommandEnds
  /\ part = "mcp" /\ session.pc # "read" ~> session.pc = "read"
=============================================================================
