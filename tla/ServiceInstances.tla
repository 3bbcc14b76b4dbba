-------------------------- MODULE ServiceInstances --------------------------
(* Per-site service instances (Reverb): their config entries and ports, their  *)
(* processes and the proxy rules the daemon keeps for them.  An instance is    *)
(* named by its site.  A request is a task; each of its steps is one hold of   *)
(* the config lock (checks, persists, proxy mutations) or of the manager's.    *)
EXTENDS Naturals, FiniteSets

CONSTANTS
    Workers, Owners, Ports,
    AutoStart,    \* the boot auto-start task
    Default,      \* the type's default port
    Reserved,     \* ports of the daemon itself
    Absent,
    MaxWork   \* bound: requests ever started

ASSUME InstAssumption ==
    /\ AutoStart \notin Workers /\ Absent \notin Owners \cup Ports
    /\ Absent \notin [port : Ports, enabled : BOOLEAN]
    /\ Default \in Ports /\ MaxWork \in Nat

VARIABLES
    instances,  \* site -> [port, enabled], or Absent
    running,    \* site -> the port its server listens on, or Absent
    rule,       \* site -> the port the auto-managed proxy rule targets, or Absent
    mishaps,    \* "site": two requests, or one and the auto-start, overlapped on
                \* one site; "unlisted": a request named an instance that is not
                \* configured; "save": a config save failed
    work, budget

instvars == <<instances, running, rule, mishaps, work, budget>>
books == <<mishaps, budget>>

All == Workers \cup {AutoStart}
WorkOps == {"add", "remove", "port", "site", "start", "restart", "stop", "auto"}
Pcs == {"idle", "list", "next", "exists", "reserved", "persist", "read", "ensure", "record", "check", "halt",
        "drop", "move", "target", "unlink", "unrule", "rule"}
NoWork == [pc |-> "idle", op |-> "stop", site |-> Absent, new |-> Absent, port |-> Absent, on |-> FALSE, todo |-> {}]

Entries == [port : Ports, enabled : BOOLEAN]
Works == [pc : Pcs, op : WorkOps, site : Owners \cup {Absent}, new : Owners \cup {Absent},
          port : Ports \cup {Absent}, on : BOOLEAN, todo : SUBSET Owners]
InstTypeOK ==
    /\ instances \in [Owners -> {Absent} \cup Entries]
    /\ running \in [Owners -> Ports \cup {Absent}] /\ rule \in [Owners -> Ports \cup {Absent}]
    /\ work \in [All -> Works]
    /\ mishaps \subseteq {"site", "unlisted", "save"} /\ budget \in 0 .. MaxWork

PortOf(s) == IF instances[s] = Absent THEN Absent ELSE instances[s].port

\* The daemon starts on a config an earlier one left at rest.
InstInit ==
    /\ instances \in [Owners -> {Absent} \cup [port : Ports \ Reserved, enabled : BOOLEAN]]
    /\ \A s, o \in Owners : s # o /\ PortOf(s) # Absent => PortOf(s) # PortOf(o)
    /\ running = [s \in Owners |-> Absent] /\ rule = [s \in Owners |-> PortOf(s)]
    /\ work = [t \in All |-> IF t = AutoStart THEN [NoWork EXCEPT !.pc = "list", !.op = "auto"] ELSE NoWork]
    /\ mishaps = {} /\ budget = MaxWork

AtRest == \A t \in All : work[t].pc = "idle"
Goto(t, pc) == work' = [work EXCEPT ![t].pc = pc]
End(t) == work' = [work EXCEPT ![t] = NoWork]

\* The sites a task is at work on; the auto-start may yet start any of its list.
At(t) == IF work[t].pc = "list" THEN Owners ELSE ({work[t].site, work[t].new} \cup work[t].todo) \ {Absent}

Noted(sites, listed) ==
    mishaps' = mishaps \cup (IF \A t \in All : At(t) \cap sites = {} THEN {} ELSE {"site"})
                       \cup (IF listed THEN {} ELSE {"unlisted"})
SaveFails == mishaps' = mishaps \cup {"save"}
Without(what) == mishaps \cap what = {}

request(t, op, pc, s, new, p, on) ==
    /\ work[t].pc = "idle" /\ budget > 0 /\ budget' = budget - 1
    /\ Noted({s, new}, op = "add" \/ instances[s] # Absent)
    /\ work' = [work EXCEPT ![t] = [NoWork EXCEPT !.pc = pc, !.op = op, !.site = s, !.new = new, !.port = p, !.on = on]]
    /\ UNCHANGED <<instances, running, rule>>

\* The port may be given or left to pick_free_port.
add_service(t, s, p, on) == request(t, "add", "exists", s, Absent, p, on)
remove_service(t, s) == request(t, "remove", "halt", s, Absent, Absent, FALSE)
set_service_port(t, s, p) == request(t, "port", "reserved", s, Absent, p, FALSE)
set_service_site(t, s, new) == request(t, "site", "check", s, new, Absent, FALSE)
start_service(t, s) == request(t, "start", "read", s, Absent, Absent, FALSE)
restart_service(t, s) == request(t, "restart", "halt", s, Absent, Absent, FALSE)
stop_service(t, s) == request(t, "stop", "halt", s, Absent, Absent, FALSE)

\* Every configured instance's port and the daemon's own.
reserved_ports == Reserved \cup ({PortOf(s) : s \in Owners} \ {Absent})

\* set_service_port takes the instance's own port out again.
Taken(t) == IF work[t].op = "port" THEN reserved_ports \ {PortOf(work[t].site)} ELSE reserved_ports

Exists(t) ==
    /\ work[t].pc = "exists"
    /\ IF instances[work[t].site] # Absent THEN End(t) ELSE Goto(t, "reserved")
    /\ UNCHANGED <<instances, running, rule, books>>

\* The check of a given port, or pick_free_port: one that is not reserved and
\* binds, if any does.
Reserve(t) ==
    /\ work[t].pc = "reserved"
    /\ \/ work[t].port # Absent
          /\ IF work[t].port \in Taken(t) THEN End(t) ELSE Goto(t, "persist")
       \/ work[t].port = Absent
          /\ \E p \in Ports \ (Taken(t) \cup {running[o] : o \in Owners}) :
                work' = [work EXCEPT ![t].pc = "persist", ![t].port = p]
       \/ work[t].port = Absent /\ End(t)
    /\ UNCHANGED <<instances, running, rule, books>>

\* persist_instance inserts a missing entry, enabled by default.
Entry(s) == IF instances[s] = Absent THEN [port |-> Default, enabled |-> TRUE] ELSE instances[s]

\* The entry changes in memory before the save; a failed save answers with an
\* error and leaves it changed.  add_service persists before it starts.
Persist(t) ==
    /\ work[t].pc = "persist"
    /\ LET s == work[t].site
       IN  instances' = [instances EXCEPT ![s] =
             IF work[t].op = "add" THEN [port |-> work[t].port, enabled |-> work[t].on]
             ELSE [Entry(s) EXCEPT !.port = work[t].port]]
    /\ \/ Goto(t, IF work[t].op = "add" THEN "ensure" ELSE "unrule") /\ UNCHANGED mishaps
       \/ SaveFails /\ End(t)
    /\ UNCHANGED <<running, rule, budget>>

\* start_per_site reads the port.
Read(t) ==
    /\ work[t].pc = "read"
    /\ work' = [work EXCEPT ![t].pc = "ensure", ![t].port = Entry(work[t].site).port]
    /\ UNCHANGED <<instances, running, rule, books>>

\* auto_start_installed lists the enabled instances once, then start_one reads
\* each one's port when its turn comes.
List ==
    /\ work[AutoStart].pc = "list"
    /\ work' = [work EXCEPT ![AutoStart].pc = "next",
                            ![AutoStart].todo = {s \in Owners : instances[s] # Absent /\ Entry(s).enabled}]
    /\ UNCHANGED <<instances, running, rule, books>>

start_one ==
    /\ work[AutoStart].pc = "next"
    /\ \/ work[AutoStart].todo = {} /\ End(AutoStart)
       \/ \E s \in work[AutoStart].todo :
             work' = [work EXCEPT ![AutoStart].pc = "ensure", ![AutoStart].site = s, ![AutoStart].port = Entry(s).port,
                                  ![AutoStart].todo = @ \ {s}]
    /\ UNCHANGED <<instances, running, rule, books>>

\* After the ensure: auto-start records nothing; add sets the rule even when the
\* start failed.
Ensured(t, ok) ==
    CASE t = AutoStart -> Goto(t, "next")
      [] t # AutoStart /\ ok -> Goto(t, "record")
      [] t # AutoStart /\ ~ ok -> IF work[t].op = "add" THEN Goto(t, "unrule") ELSE End(t)

\* ensure under the manager's lock: already running, started, or failed.
Ensure(t) ==
    /\ work[t].pc = "ensure"
    /\ LET s == work[t].site
       IN \/ running[s] # Absent /\ Ensured(t, TRUE) /\ UNCHANGED running
          \/ /\ running[s] = Absent /\ \A o \in Owners : running[o] # work[t].port
             /\ running' = [running EXCEPT ![s] = work[t].port] /\ Ensured(t, TRUE)
          \/ running[s] = Absent /\ Ensured(t, FALSE) /\ UNCHANGED running
    /\ UNCHANGED <<instances, rule, books>>

\* ensure_and_persist records the port it asked for.
Record(t) ==
    /\ work[t].pc = "record"
    /\ instances' = [instances EXCEPT ![work[t].site] = [Entry(work[t].site) EXCEPT !.port = work[t].port]]
    /\ IF work[t].op = "add" THEN Goto(t, "unrule") ELSE End(t)
    /\ UNCHANGED <<running, rule, books>>

\* set_service_site refuses a site that already has an instance.
Check(t) ==
    /\ work[t].pc = "check"
    /\ IF instances[work[t].new] # Absent THEN End(t) ELSE Goto(t, "halt")
    /\ UNCHANGED <<instances, running, rule, books>>

AfterHalt(t) ==
    CASE work[t].op = "remove" -> Goto(t, "drop")
      [] work[t].op = "site" -> Goto(t, "move")
      [] work[t].op = "restart" -> Goto(t, "read")
      [] work[t].op = "stop" -> End(t)

Halt_NotRemoved(t) ==
    /\ work[t].pc = "halt"
    /\ running' = [running EXCEPT ![work[t].site] = IF work[t].op = "remove" THEN @ ELSE Absent]
    /\ AfterHalt(t)
    /\ UNCHANGED <<instances, rule, books>>

Halt(t) ==
    /\ work[t].pc = "halt"
    /\ running' = [running EXCEPT ![work[t].site] = Absent]
    /\ AfterHalt(t)
    /\ UNCHANGED <<instances, rule, books>>

\* The rule is cleared whether or not the save succeeds.
Drop(t) ==
    /\ work[t].pc = "drop"
    /\ instances' = [instances EXCEPT ![work[t].site] = Absent]
    /\ Goto(t, "unrule")
    /\ UNCHANGED <<running, rule, books>>

Move(t) ==
    /\ work[t].pc = "move"
    /\ instances' = IF instances[work[t].site] = Absent THEN instances
                    ELSE [instances EXCEPT ![work[t].site] = Absent, ![work[t].new] = instances[work[t].site]]
    /\ (Goto(t, "target") /\ UNCHANGED mishaps) \/ (SaveFails /\ End(t))
    /\ UNCHANGED <<running, rule, budget>>

\* The port the moved rule will target.
Target(t) ==
    /\ work[t].pc = "target"
    /\ work' = [work EXCEPT ![t].pc = "unlink", ![t].port = Entry(work[t].new).port]
    /\ UNCHANGED <<instances, running, rule, books>>

\* handle_mutation saves a copy first: a failed save changes nothing.
Ruled(s, p) ==
    \/ rule' = [rule EXCEPT ![s] = p] /\ UNCHANGED mishaps
    \/ SaveFails /\ UNCHANGED rule

\* clear_service_proxy on the old site of a move.
Unlink(t) ==
    /\ work[t].pc = "unlink"
    /\ Ruled(work[t].site, Absent)
    /\ Goto(t, "unrule")
    /\ UNCHANGED <<instances, running, budget>>

RuleSite(t) == IF work[t].op = "site" THEN work[t].new ELSE work[t].site

Unrule_Skipped(t) ==
    /\ work[t].pc = "unrule"
    /\ IF work[t].op = "remove" THEN End(t) ELSE Goto(t, "rule")
    /\ UNCHANGED <<instances, running, rule, books>>

\* RemoveProxyRule, in clear_service_proxy and first in set_service_proxy.
Unrule(t) ==
    /\ work[t].pc = "unrule"
    /\ Ruled(RuleSite(t), Absent)
    /\ IF work[t].op = "remove" THEN End(t) ELSE Goto(t, "rule")
    /\ UNCHANGED <<instances, running, budget>>

\* AddProxyRule refuses a prefix that has a rule; the refusal is only logged.
AddRule(t) ==
    /\ work[t].pc = "rule"
    /\ IF rule[RuleSite(t)] = Absent THEN Ruled(RuleSite(t), work[t].port) ELSE UNCHANGED <<rule, mishaps>>
    /\ End(t)
    /\ UNCHANGED <<instances, running, budget>>

set_service_autostart(s, on) ==
    /\ budget > 0 /\ budget' = budget - 1
    /\ Noted({s}, instances[s] # Absent)
    /\ instances' = [instances EXCEPT ![s] = [Entry(s) EXCEPT !.enabled = on]]
    /\ UNCHANGED <<running, rule, work>>

ServerExits(s) ==
    /\ running[s] # Absent
    /\ running' = [running EXCEPT ![s] = Absent]
    /\ UNCHANGED <<instances, rule, work, books>>

WorkStep(t) ==
    \/ Exists(t) \/ Reserve(t) \/ Persist(t) \/ Read(t) \/ Ensure(t) \/ Record(t) \/ Check(t) \/ Halt(t)
    \/ Drop(t) \/ Move(t) \/ Target(t) \/ Unlink(t) \/ Unrule(t) \/ AddRule(t)

InstNext ==
    \/ \E t \in Workers, s \in Owners, p \in Ports \cup {Absent}, on \in BOOLEAN : add_service(t, s, p, on)
    \/ \E t \in Workers, s \in Owners, p \in Ports : set_service_port(t, s, p)
    \/ \E t \in Workers, s \in Owners, new \in Owners : set_service_site(t, s, new)
    \/ \E t \in Workers, s \in Owners :
          remove_service(t, s) \/ start_service(t, s) \/ restart_service(t, s) \/ stop_service(t, s)
    \/ \E s \in Owners, on \in BOOLEAN : set_service_autostart(s, on)
    \/ \E t \in All : WorkStep(t)
    \/ List \/ start_one
    \/ \E s \in Owners : ServerExits(s)

InstSpec == InstInit /\ [][InstNext]_instvars

-----------------------------------------------------------------------------
\* set_service_proxy and clear_service_proxy: with no request in flight, exactly
\* the sites with an instance have the auto-managed rule, and it targets the
\* port the instance is configured for, also when requests for different sites
\* overlapped.
RuleFollowsInstance ==
    AtRest /\ Without({"site", "unlisted", "save"}) => \A s \in Owners : rule[s] = PortOf(s)

\* remove_service and set_service_site stop before they drop the entry: with no
\* request in flight and auto-start done, only configured instances run, also
\* after failed saves, unless two tasks were at work on one site.
NoStrayServer ==
    AtRest /\ Without({"site"}) => \A s \in Owners : running[s] # Absent => instances[s] # Absent

\* At rest each site's proxy rule is that of its instance, and only configured
\* instances run.
InstanceIsServed == InstTypeOK /\ RuleFollowsInstance /\ NoStrayServer
=============================================================================
