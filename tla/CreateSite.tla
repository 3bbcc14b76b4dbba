----------------------------- MODULE CreateSite -----------------------------
(* The create-site jobs: reserve the name, preflight, scaffold (for WordPress: *)
(* provision a database, then four WP-CLI steps), roll back on failure or      *)
(* cancellation, register, release.  Beside them a user works in the same      *)
(* folders, other clients use the same database server and remove sites, and  *)
(* the daemon may die.  A step is the stretch between two awaits.             *)
EXTENDS Naturals, FiniteSets

CONSTANTS
    Ids,          \* jobs
    Names,        \* site names; a name is also the project directory
    Dbs,          \* database names
    Steps         \* bound: what the other actors do

ASSUME CreateSiteAssumption ==
    /\ Ids \cap {"absent", "empty", "user", "none", "foreign"} = {}
    /\ Names # {} /\ Dbs # {} /\ Steps \in Nat

VARIABLES
    job,       \* id -> the job's registry entry and its task's local state
    reserved,  \* reserved_names
    dir,       \* name -> what the project directory holds
    db,        \* database -> who created it
    sqlServer, \* the database server is running
    sites,     \* registered sites
    others     \* what the other actors may still do

createvars == <<job, reserved, dir, db, sqlServer, sites, others>>

Frameworks == {"wordpress", "laravel", "template"}   \* template: composer create-project
Wp == <<"download", "configure", "install", "permalink">>
Work == {"preflight", "tools", "engine", "createdb", "created"} \cup {Wp[i] : i \in 1 .. 4} \cup {"scaffold", "dotenv", "dropdb", "register", "settings"}
\* Unregistered: Failed with "scaffolded, but registration failed".
Outcomes == {"Running", "Succeeded", "Failed", "Unregistered", "Cancelled"}

JobPcs == {"none", "reserve", "release", "finish", "done"} \cup Work
Records == [pc : JobPcs, name : Names, db : Dbs, framework : Frameworks, state : Outcomes, outcome : Outcomes,
            cancel : BOOLEAN, db_created : BOOLEAN, stuck : BOOLEAN, robbed : BOOLEAN]

CreateTypeOK ==
    /\ job \in [Ids -> Records]
    /\ reserved \subseteq Names /\ sites \subseteq Names
    /\ dir \in [Names -> {"absent", "empty", "user"} \cup Ids]
    /\ db \in [Dbs -> {"none", "foreign"} \cup Ids]
    /\ sqlServer \in BOOLEAN /\ others \in 0 .. Steps

NoJob(n, d, f) ==
    [pc |-> "none", name |-> n, db |-> d, framework |-> f, state |-> "Running", outcome |-> "Running",
     cancel |-> FALSE, db_created |-> FALSE, stuck |-> FALSE, robbed |-> FALSE]

CreateInit ==
    /\ job = [j \in Ids |-> NoJob(CHOOSE n \in Names : TRUE, CHOOSE d \in Dbs : TRUE, "laravel")]
    /\ reserved = {} /\ sites = {}
    /\ dir = [n \in Names |-> "absent"] /\ db = [d \in Dbs |-> "none"]
    /\ sqlServer = FALSE /\ others = Steps

At(j, pc) == job[j].pc = pc

GotoStage(j, pc) == job' = [job EXCEPT ![j].pc = pc]

EndJob(j, outcome) == job' = [job EXCEPT ![j].pc = "release", ![j].outcome = outcome]

\* Early returns; Cancelled only when the request has come.
Refused(j) == \/ EndJob(j, "Failed")
              \/ job[j].cancel /\ EndJob(j, "Cancelled")

-----------------------------------------------------------------------------
(* start and run_job.                                                        *)

start(j, n, d, f) ==
    /\ At(j, "none")
    /\ job' = [job EXCEPT ![j] = [NoJob(n, d, f) EXCEPT !.pc = "reserve"]]
    /\ UNCHANGED <<reserved, dir, db, sqlServer, sites, others>>

cancel(j) ==
    /\ job[j].pc \notin {"none", "done"} /\ ~job[j].cancel
    /\ job' = [job EXCEPT ![j].cancel = TRUE]
    /\ UNCHANGED <<reserved, dir, db, sqlServer, sites, others>>

Reserve_Unchecked(j) ==
    /\ At(j, "reserve")
    /\ reserved' = reserved \cup {job[j].name}
    /\ GotoStage(j, "preflight")
    /\ UNCHANGED <<dir, db, sqlServer, sites, others>>

Reserve(j) ==
    /\ At(j, "reserve")
    /\ IF job[j].name \in reserved
       THEN /\ job' = [job EXCEPT ![j].pc = "done", ![j].state = "Failed"]
            /\ UNCHANGED reserved
       ELSE /\ reserved' = reserved \cup {job[j].name}
            /\ GotoStage(j, "preflight")
    /\ UNCHANGED <<dir, db, sqlServer, sites, others>>

\* The reservation and the scratch directory go before the outcome is shown.
Release(j) ==
    /\ At(j, "release")
    /\ reserved' = reserved \ {job[j].name}
    /\ GotoStage(j, "finish")
    /\ UNCHANGED <<dir, db, sqlServer, sites, others>>

Finish(j) ==
    /\ At(j, "finish")
    /\ job' = [job EXCEPT ![j].pc = "done", ![j].state = job[j].outcome]
    /\ UNCHANGED <<reserved, dir, db, sqlServer, sites, others>>

-----------------------------------------------------------------------------
(* The framework bodies.                                                     *)

check_target_dir(n) == dir[n] \in {"absent", "empty"}

\* Anything else a preflight checks (PHP, tools, credentials, the parent) may refuse too.
Preflight(j, framework, next) ==
    /\ At(j, "preflight") /\ job[j].framework = framework
    /\ \/ check_target_dir(job[j].name) /\ GotoStage(j, next)
       \/ EndJob(j, "Failed")
    /\ UNCHANGED <<reserved, dir, db, sqlServer, sites, others>>

PreflightLaravel(j) == Preflight(j, "laravel", "scaffold")

PreflightTemplate(j) == Preflight(j, "template", "scaffold")

PreflightWordpress(j) == Preflight(j, "wordpress", "tools")

\* ensure_wp_cli, then the first look at the cancellation flag.
Tools(j) ==
    /\ At(j, "tools")
    /\ \/ ~job[j].cancel /\ GotoStage(j, "engine")
       \/ Refused(j)
    /\ UNCHANGED <<reserved, dir, db, sqlServer, sites, others>>

EnsureEngine(j) ==
    /\ At(j, "engine")
    /\ \/ /\ sqlServer' = TRUE
          /\ IF job[j].cancel THEN EndJob(j, "Cancelled") ELSE GotoStage(j, "createdb")
       \/ EndJob(j, "Failed") /\ UNCHANGED sqlServer
    /\ UNCHANGED <<reserved, dir, db, sites, others>>

CreateDb_IfMissing(j) ==
    /\ At(j, "createdb")
    /\ IF sqlServer
       THEN /\ db' = [db EXCEPT ![job[j].db] = IF @ = "none" THEN j ELSE @]
            /\ job' = [job EXCEPT ![j].db_created = TRUE, ![j].pc = "created"]
       ELSE EndJob(j, "Failed") /\ UNCHANGED db
    /\ UNCHANGED <<reserved, dir, sqlServer, sites, others>>

\* CREATE DATABASE fails on an existing name and on a stopped server.
CreateDb(j) ==
    /\ At(j, "createdb")
    /\ IF sqlServer /\ db[job[j].db] = "none"
       THEN /\ db' = [db EXCEPT ![job[j].db] = j]
            /\ job' = [job EXCEPT ![j].db_created = TRUE, ![j].pc = "created"]
       ELSE EndJob(j, "Failed") /\ UNCHANGED db
    /\ UNCHANGED <<reserved, dir, sqlServer, sites, others>>

\* rollback: the directory goes at once, the database in the step after.
RollBack(j, outcome) ==
    /\ dir' = [dir EXCEPT ![job[j].name] = "absent"]
    /\ job' = [job EXCEPT ![j].pc = IF job[j].db_created THEN "dropdb" ELSE "release", ![j].outcome = outcome]

\* The directory is made, or what the user put there is added to.
Scaffolded(j) == dir' = [dir EXCEPT ![job[j].name] = IF @ = "user" THEN @ ELSE j]

Created_NoRollback(j) ==
    /\ At(j, "created")
    /\ IF job[j].cancel
       THEN EndJob(j, "Cancelled") /\ UNCHANGED dir
       ELSE GotoStage(j, "download") /\ Scaffolded(j)
    /\ UNCHANGED <<reserved, db, sqlServer, sites, others>>

\* The flag is looked at again, and the directory made for the download.
Created(j) ==
    /\ At(j, "created")
    /\ \/ job[j].cancel /\ RollBack(j, "Cancelled")
       \/ ~job[j].cancel /\ GotoStage(j, "download") /\ Scaffolded(j)
       \/ ~job[j].cancel /\ RollBack(j, "Failed")
    /\ UNCHANGED <<reserved, db, sqlServer, sites, others>>

\* The next stage after a WP-CLI step.
After(pc) == IF pc = "permalink" THEN "register"
             ELSE Wp[1 + (CHOOSE i \in 1 .. 3 : Wp[i] = pc)]

\* run_streamed: the step ends well, fails (or times out), or the request to
\* cancel wins the select.  A failing permalink step is only a warning.
RunWpStep(j) ==
    /\ job[j].pc \in {Wp[i] : i \in 1 .. 4}
    /\ \/ GotoStage(j, After(job[j].pc)) /\ UNCHANGED dir
       \/ job[j].pc # "permalink" /\ RollBack(j, "Failed")
       \/ job[j].cancel /\ RollBack(j, "Cancelled")
    /\ UNCHANGED <<reserved, db, sqlServer, sites, others>>

ScaffoldLaravel(j) ==
    /\ At(j, "scaffold") /\ job[j].framework = "laravel"
    /\ \/ GotoStage(j, "register") /\ Scaffolded(j)
       \/ RollBack(j, "Failed")
       \/ job[j].cancel /\ RollBack(j, "Cancelled")
    /\ UNCHANGED <<reserved, db, sqlServer, sites, others>>

\* The same, and then the composer.json and .env checks, with an await between.
ScaffoldTemplate(j) ==
    /\ At(j, "scaffold") /\ job[j].framework = "template"
    /\ \/ GotoStage(j, "dotenv") /\ Scaffolded(j)
       \/ RollBack(j, "Failed")
       \/ job[j].cancel /\ RollBack(j, "Cancelled")
    /\ UNCHANGED <<reserved, db, sqlServer, sites, others>>

Dotenv(j) ==
    /\ At(j, "dotenv")
    /\ \/ GotoStage(j, "register") /\ UNCHANGED dir
       \/ RollBack(j, "Failed")
    /\ UNCHANGED <<reserved, db, sqlServer, sites, others>>

\* `robbed` remembers that someone else dropped the database a job had created.
Rob(d, by) == [j \in Ids |-> [job[j] EXCEPT !.robbed = @ \/ (db[d] = j /\ j # by)]]

DropDb_Waits(j) ==
    /\ At(j, "dropdb") /\ sqlServer
    /\ db' = [db EXCEPT ![job[j].db] = "none"] /\ GotoStage(j, "release")
    /\ UNCHANGED <<reserved, dir, sqlServer, sites, others>>

\* db_admin::drop, whose failure is ignored.
DropDb(j) ==
    /\ At(j, "dropdb")
    /\ IF sqlServer
       THEN /\ db' = [db EXCEPT ![job[j].db] = "none"]
            /\ job' = [Rob(job[j].db, j) EXCEPT ![j].pc = "release"]
       ELSE job' = [job EXCEPT ![j].pc = "release", ![j].stuck = TRUE] /\ UNCHANGED db
    /\ UNCHANGED <<reserved, dir, sqlServer, sites, others>>

\* register: link or park, then SetPhp and SetSecure, each a mutation.
Register(j) ==
    /\ At(j, "register")
    /\ \/ sites' = sites \cup {job[j].name} /\ GotoStage(j, "settings")
       \/ EndJob(j, "Unregistered") /\ UNCHANGED sites
    /\ UNCHANGED <<reserved, dir, db, sqlServer, others>>

Settings(j) ==
    /\ At(j, "settings")
    /\ \/ job[j].name \in sites /\ EndJob(j, "Succeeded")
       \/ EndJob(j, "Unregistered")
    /\ UNCHANGED <<reserved, dir, db, sqlServer, sites, others>>

-----------------------------------------------------------------------------
(* Everyone else.                                                            *)

Spend == others > 0 /\ others' = others - 1

UserWrites(n) ==
    /\ Spend /\ dir[n] \in {"absent", "empty"}
    /\ \E new \in {"empty", "user"} : dir' = [dir EXCEPT ![n] = new]
    /\ UNCHANGED <<job, reserved, db, sqlServer, sites>>

ForeignCreate(d) ==
    /\ Spend /\ sqlServer /\ db[d] = "none"
    /\ db' = [db EXCEPT ![d] = "foreign"]
    /\ UNCHANGED <<job, reserved, dir, sqlServer, sites>>

ForeignDrop(d) ==
    /\ Spend /\ sqlServer
    /\ db[d] # "none"
    /\ db' = [db EXCEPT ![d] = "none"]
    /\ job' = Rob(d, "foreign")
    /\ UNCHANGED <<reserved, dir, sqlServer, sites>>

EngineStops ==
    /\ Spend /\ sqlServer /\ sqlServer' = FALSE
    /\ UNCHANGED <<job, reserved, dir, db, sites>>

Unlink(n) ==
    /\ Spend /\ n \in sites /\ sites' = sites \ {n}
    /\ UNCHANGED <<job, reserved, dir, db, sqlServer>>

\* The jobs and the reservations are in memory only.
DaemonDies ==
    /\ Spend
    /\ job' = [j \in Ids |-> IF job[j].pc = "none" THEN job[j]
                             ELSE [job[j] EXCEPT !.pc = "done", !.state = IF job[j].pc = "done" THEN @ ELSE "Running"]]
    /\ reserved' = {} /\ sqlServer' = FALSE
    /\ UNCHANGED <<dir, db, sites>>

JobStep(j) ==
    \/ Reserve(j) \/ PreflightLaravel(j) \/ PreflightTemplate(j) \/ PreflightWordpress(j) \/ Tools(j) \/ EnsureEngine(j) \/ CreateDb(j) \/ Created(j)
    \/ RunWpStep(j) \/ ScaffoldLaravel(j) \/ ScaffoldTemplate(j) \/ Dotenv(j) \/ DropDb(j) \/ Register(j) \/ Settings(j) \/ Release(j) \/ Finish(j)

CreateNext ==
    \/ \E j \in Ids :
         \/ \E n \in Names, d \in Dbs, f \in Frameworks : start(j, n, d, f)
         \/ cancel(j) \/ JobStep(j)
    \/ \E n \in Names : UserWrites(n) \/ Unlink(n)
    \/ \E d \in Dbs : ForeignCreate(d) \/ ForeignDrop(d)
    \/ EngineStops \/ DaemonDies

CreateSpec == CreateInit /\ [][CreateNext]_createvars

CreateFairSpec == CreateSpec /\ \A j \in Ids : WF_createvars(JobStep(j))

-----------------------------------------------------------------------------
(* What must hold.                                                           *)

Working(j) == job[j].pc \in Work

\* No two jobs work in one project directory: a worker holds its reservation
\* until its rollback is over, and a name is reserved only while a job at work
\* holds it, on every path out of a job (reserved_names, run_job).
OneScaffolder ==
    /\ \A j, k \in Ids : Working(j) =>
         /\ job[j].name \in reserved
         /\ Working(k) /\ job[k].name = job[j].name => j = k
    /\ \A n \in reserved : \E j \in Ids : job[j].name = n /\ (Working(j) \/ job[j].pc = "release")

\* A job only ever drops a database that it created itself: neither one that
\* was there before nor another job's (rollback and db_created).  db_created is
\* a memory of the creation, so this fails only for a job whose database
\* another client has dropped behind its back.
DropsOwnOnly ==
    \A j \in Ids, d \in Dbs :
      db'[d] # db[d] /\ JobStep(j) => db[d] \in {"none", j} \/ job[j].robbed
OwnDatabasesOnly == [][DropsOwnOnly]_createvars

\* A job that was cancelled, or failed before its site was being registered,
\* leaves neither its directory nor its database behind once its outcome can
\* be seen, unless the server was down when the database was to be dropped.
RolledBack ==
    \A j \in Ids : job[j].state \in {"Cancelled", "Failed"} =>
        /\ dir[job[j].name] # j
        /\ \A d \in Dbs : db[d] = j => job[j].stuck

\* A creation that failed or was cancelled leaves nothing, and no two jobs work
\* in one directory (rollback, reserved_names).
CreateRollsBack == CreateTypeOK /\ RolledBack /\ OneScaffolder

\* Every job that is started ends with an outcome, whatever fails.
EveryJobEnds == \A j \in Ids : job[j].pc = "reserve" ~> job[j].pc = "done"
=============================================================================
