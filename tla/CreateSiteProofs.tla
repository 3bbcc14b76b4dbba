-------------------------- MODULE CreateSiteProofs --------------------------
(* Proofs about CreateSite, for any number of jobs, names, databases and     *)
(* outside steps, and about Databases.                                       *)
EXTENDS CreateSite, Databases, TLAPS

\* The reservations are those of the jobs at work, one job each: OneScaffolder
\* with the job that has yet to release counted in.
Holds(j) == Working(j) \/ job[j].pc = "release"
Reserved ==
    /\ \A j \in Ids : Holds(j) => job[j].name \in reserved
    /\ \A j, k \in Ids : Holds(j) /\ Holds(k) /\ job[k].name = job[j].name => j = k
    /\ \A n \in reserved : \E j \in Ids : job[j].name = n /\ Holds(j)

\* The stages at which a job can have made its directory, can have made its
\* database, and still has to answer for that database.
Ending == {"register", "settings", "release", "finish", "done"}
WpSteps == {"download", "configure", "install", "permalink"}
Built == WpSteps \cup {"dotenv"} \cup Ending
Provisioned == WpSteps \cup {"created", "dropdb"} \cup Ending
Owning == WpSteps \cup {"created", "dropdb"}

Undone == {"Cancelled", "Failed"}

\* Nothing of a job is left.
Gone(j) == (\A n \in Names : dir[n] # j) /\ \A d \in Dbs : db[d] = j => job[j].stuck

\* Only its own directory and database can be a job's; it gives them back
\* before it ends as cancelled or failed, and it knows its database from its
\* own memory of creating it.
Fits(j) ==
    /\ \A n \in Names : dir[n] = j => n = job[j].name /\ job[j].pc \in Built
    /\ \A d \in Dbs : db[d] = j => d = job[j].db /\ job[j].db_created
    /\ job[j].db_created => job[j].pc \in Provisioned
    /\ job[j].pc = "dropdb" => job[j].db_created /\ (\A n \in Names : dir[n] # j) /\ job[j].outcome \in Undone
    /\ job[j].pc \in {"release", "finish"} /\ job[j].outcome \in Undone => Gone(j)
    /\ job[j].state \in Undone => job[j].pc = "done" /\ Gone(j)
    /\ job[j].pc \in Owning /\ job[j].db_created /\ ~job[j].robbed => db[job[j].db] = j

IInv == CreateTypeOK /\ Reserved /\ \A j \in Ids : Fits(j)

\* The stages, written out.
LEMMA WpStages == {Wp[i] : i \in 1 .. 4} = WpSteps
<1>1. 1 .. 4 = {1, 2, 3, 4}
  BY SMT
<1>2. Wp[1] = "download" /\ Wp[2] = "configure" /\ Wp[3] = "install" /\ Wp[4] = "permalink"
  BY Zenon DEF Wp
<1>3. QED
  BY <1>1, <1>2, Zenon DEF WpSteps

LEMMA Stages ==
    Work = {"preflight", "tools", "engine", "createdb", "created", "scaffold", "dotenv", "dropdb", "register", "settings"} \cup WpSteps
BY WpStages, Zenon DEF Work

LEMMA AfterStage == ASSUME NEW p \in WpSteps PROVE After(p) \in WpSteps \cup {"register"}
<1>1. CASE p = "permalink"
  BY <1>1, Zenon DEF After
<1>2. CASE p # "permalink"
  <2>1. \E i \in 1 .. 3 : Wp[i] = p
    <3>1. 1 \in 1 .. 3 /\ 2 \in 1 .. 3 /\ 3 \in 1 .. 3
      BY SMT
    <3>2. Wp[1] = "download" /\ Wp[2] = "configure" /\ Wp[3] = "install"
      BY Zenon DEF Wp
    <3>3. QED
      BY <1>2, <3>1, <3>2, Zenon DEF WpSteps
  <2>2. (CHOOSE k \in 1 .. 3 : Wp[k] = p) \in 1 .. 3
    BY <2>1, Zenon
  <2>3. \A m \in 1 .. 3 : 1 + m \in 1 .. 4
    OBVIOUS
  <2>4. \A m \in 1 .. 3 : Wp[1 + m] \in WpSteps
    BY <2>3, WpStages, Zenon
  <2>5. QED
    BY <1>2, <2>2, <2>4, Zenon DEF After
<1>3. QED
  BY <1>1, <1>2, Zenon

LEMMA InitInv == CreateInit => IInv
<1> SUFFICES ASSUME CreateInit PROVE IInv
  BY Zenon
<1>1. PICK n \in Names, d \in Dbs : job = [j \in Ids |-> NoJob(n, d, "laravel")]
  <2>1. (CHOOSE n \in Names : TRUE) \in Names /\ (CHOOSE d \in Dbs : TRUE) \in Dbs
    BY CreateSiteAssumption, Zenon
  <2>2. QED
    BY <2>1, Zenon DEF CreateInit
<1>2. NoJob(n, d, "laravel") \in Records
  BY Zenon DEF NoJob, Records, JobPcs, Frameworks, Outcomes
<1>3. CreateTypeOK
  <2>1. others \in 0 .. Steps
    BY CreateSiteAssumption DEF CreateInit
  <2>2. QED
    BY <1>1, <1>2, <2>1, Zenon DEF CreateTypeOK, CreateInit
<1>4. \A j \in Ids : job[j].pc = "none" /\ job[j].state = "Running" /\ ~job[j].db_created
  BY <1>1, Zenon DEF NoJob
<1>5. Reserved
  BY <1>4, Stages, Zenon DEF Reserved, Holds, Working, CreateInit, WpSteps
<1>6. \A j \in Ids : Fits(j)
  <2> TAKE j \in Ids
  <2>1. (\A m \in Names : dir[m] # j) /\ \A e \in Dbs : db[e] # j
    BY CreateSiteAssumption, Zenon DEF CreateInit
  <2>2. QED
    BY <1>4, <2>1, Zenon DEF Fits, Undone, Owning, WpSteps
<1>7. QED
  BY <1>3, <1>5, <1>6, Zenon DEF IInv

-----------------------------------------------------------------------------
(* One step of one job.                                                      *)

\* Only job j changes, and it keeps what it was started with.
Moved(j, p) ==
    /\ job' \in [Ids -> Records] /\ job'[j].pc = p
    /\ \A k \in Ids \ {j} : job'[k] = job[k]
    /\ job'[j].name = job[j].name /\ job'[j].db = job[j].db /\ job'[j].robbed = job[j].robbed

\* ... but for its stage also what it has done.
SameWork(j) ==
    /\ job'[j].state = job[j].state /\ job'[j].db_created = job[j].db_created /\ job'[j].stuck = job[j].stuck

LEMMA GotoMoves ==
    ASSUME CreateTypeOK, NEW j \in Ids, NEW p \in JobPcs, GotoStage(j, p)
    PROVE  Moved(j, p) /\ SameWork(j) /\ job'[j].outcome = job[j].outcome
BY DEF CreateTypeOK, GotoStage, Moved, SameWork, Records

LEMMA EndMoves ==
    ASSUME CreateTypeOK, NEW j \in Ids, NEW o \in Outcomes, EndJob(j, o)
    PROVE  Moved(j, "release") /\ SameWork(j) /\ job'[j].outcome = o
<1>1. job \in [Ids -> Records] /\ job[j] \in Records /\ "release" \in JobPcs
  BY Zenon DEF CreateTypeOK, JobPcs
<1>2. job' = [job EXCEPT ![j] = [job[j] EXCEPT !.pc = "release", !.outcome = o]]
  BY <1>1, Zenon DEF EndJob
<1>3. [job[j] EXCEPT !.pc = "release", !.outcome = o] \in Records
  BY <1>1, Zenon DEF Records
<1>4. QED
  BY <1>1, <1>2, <1>3, Zenon DEF Moved, SameWork, Records

LEMMA RollBackMoves ==
    ASSUME CreateTypeOK, NEW j \in Ids, NEW o \in Outcomes, RollBack(j, o)
    PROVE  /\ Moved(j, IF job[j].db_created THEN "dropdb" ELSE "release") /\ SameWork(j) /\ job'[j].outcome = o
           /\ dir' = [dir EXCEPT ![job[j].name] = "absent"]
<1> DEFINE p == IF job[j].db_created THEN "dropdb" ELSE "release"
<1>1. job \in [Ids -> Records] /\ job[j] \in Records /\ p \in JobPcs
  BY Stages, Zenon DEF CreateTypeOK, JobPcs
<1>2. job' = [job EXCEPT ![j] = [job[j] EXCEPT !.pc = p, !.outcome = o]] /\ dir' = [dir EXCEPT ![job[j].name] = "absent"]
  BY <1>1, Zenon DEF RollBack
<1> HIDE DEF p
<1>3. [job[j] EXCEPT !.pc = p, !.outcome = o] \in Records
  BY <1>1, Zenon DEF Records
<1>4. Moved(j, p) /\ SameWork(j) /\ job'[j].outcome = o
  BY <1>1, <1>2, <1>3, Zenon DEF Moved, SameWork, Records
<1>5. QED
  BY <1>2, <1>4, Zenon DEF p

\* A job not moved keeps its share, as long as nobody gives it anything or
\* takes its database.
LEMMA OthersFit ==
    ASSUME NEW k \in Ids, Fits(k), job'[k] = job[k],
           \A n \in Names : dir'[n] = k => dir[n] = k,
           \A d \in Dbs : db'[d] = k <=> db[d] = k,
           job[k].db \in Dbs
    PROVE  Fits(k)'
BY Zenon DEF Fits, Gone

\* A move between two stages of work, or out of the work, keeps reservations.
LEMMA ReservedKept ==
    ASSUME CreateTypeOK, Reserved, NEW j \in Ids, NEW p, Moved(j, p), Holds(j), p \in Work \cup {"release"}, UNCHANGED reserved
    PROVE  Reserved'
<1>1. Holds(j)' /\ \A k \in Ids \ {j} : Holds(k)' <=> Holds(k)
  BY Zenon DEF Moved, Holds, Working
<1>2. \A k \in Ids : job'[k].name = job[k].name /\ (Holds(k)' <=> Holds(k))
  BY <1>1, Zenon DEF Moved
<1>3. QED
  BY <1>2, Zenon DEF Reserved

\* A stage that touches neither directory nor database: it may not forget what
\* it has made, and it may only end as undone if it has made nothing.
LEMMA MoveFits ==
    ASSUME IInv, NEW j \in Ids, NEW p \in JobPcs, Moved(j, p), SameWork(j), UNCHANGED <<dir, db>>,
           job[j].pc # "done", p \notin {"dropdb", "done"},
           job[j].pc \in Built => p \in Built,
           job[j].pc \in Provisioned => p \in Provisioned,
           p \in Owning => job[j].pc \in Owning \/ job[j].pc \notin Provisioned,
           p \in {"release", "finish"} /\ job'[j].outcome \in Undone =>
             \/ job[j].pc \notin Built \cup Provisioned
             \/ job[j].pc = "release" /\ job'[j].outcome = job[j].outcome
    PROVE  \A k \in Ids : Fits(k)'
<1>1. \A k \in Ids \ {j} : Fits(k)'
  <2> TAKE k \in Ids \ {j}
  <2>1. Fits(k) /\ job'[k] = job[k] /\ job[k].db \in Dbs
    BY Zenon DEF IInv, Moved, CreateTypeOK, Records
  <2>2. QED
    BY <2>1, OthersFit, Zenon
<1>2. Fits(j)'
  <2>1. Fits(j)
    BY Zenon DEF IInv
  <2>2. /\ \A n \in Names : dir'[n] = j => n = job'[j].name /\ p \in Built
        /\ \A d \in Dbs : db'[d] = j => d = job'[j].db /\ job'[j].db_created
        /\ job'[j].db_created => p \in Provisioned
    BY <2>1, Zenon DEF Fits, Moved, SameWork
  <2>3. job'[j].state \notin Undone
    BY <2>1, Zenon DEF Fits, SameWork
  <2>4. p \in {"release", "finish"} /\ job'[j].outcome \in Undone => Gone(j)'
    BY <2>1, Zenon DEF Fits, Gone, SameWork
  <2>5. p \in Owning /\ job'[j].db_created /\ ~job'[j].robbed => db'[job'[j].db] = j
    BY <2>1, Zenon DEF Fits, Moved, SameWork
  <2>6. job'[j].pc = p
    BY Zenon DEF Moved
  <2>7. QED
    BY <2>2, <2>3, <2>4, <2>5, <2>6, Zenon DEF Fits
<1>3. QED
  BY <1>1, <1>2, Zenon

\* Goto and Scaffolded: the directory becomes the job's, or stays the user's.
LEMMA ScaffoldFits ==
    ASSUME IInv, NEW j \in Ids, NEW p \in {"download", "dotenv", "register"}, GotoStage(j, p), Scaffolded(j), UNCHANGED db,
           job[j].pc \in {"created", "scaffold"}, p \in Provisioned \/ job[j].pc = "scaffold",
           p = "download" => job[j].pc = "created"
    PROVE  Moved(j, p) /\ \A k \in Ids : Fits(k)'
<1>1. p \in JobPcs /\ p \in Built
  BY Stages, Zenon DEF JobPcs, Built, WpSteps, Ending
<1>2. Moved(j, p) /\ SameWork(j)
  BY <1>1, GotoMoves, Zenon DEF IInv
<1>3. dir' = [dir EXCEPT ![job[j].name] = IF @ = "user" THEN @ ELSE j] /\ job[j].name \in Names /\ dir \in [Names -> {"absent", "empty", "user"} \cup Ids]
  BY Zenon DEF Scaffolded, IInv, CreateTypeOK, Records
<1>4. \A k \in Ids \ {j} : Fits(k)'
  <2> TAKE k \in Ids \ {j}
  <2>1. Fits(k) /\ job'[k] = job[k] /\ job[k].db \in Dbs
    BY <1>2, Zenon DEF IInv, Moved, CreateTypeOK, Records
  <2>2. \A n \in Names : dir'[n] = k => dir[n] = k
    BY <1>3, Zenon
  <2>3. QED
    BY <2>1, <2>2, OthersFit, Zenon
<1>5. Fits(j)'
  <2>1. Fits(j)
    BY Zenon DEF IInv
  <2>2. \A n \in Names : dir'[n] = j => n = job'[j].name
    BY <1>2, <1>3, <2>1, Zenon DEF Fits, Moved
  <2>3. /\ \A d \in Dbs : db'[d] = j => d = job'[j].db /\ job'[j].db_created
        /\ job'[j].db_created => p \in Provisioned
    BY <1>2, <2>1, Zenon DEF Fits, Moved, SameWork, Provisioned, WpSteps, Ending
  <2>4. job'[j].state \notin Undone
    BY <1>2, <2>1, Zenon DEF Fits, SameWork
  <2>5. p \in Owning /\ job'[j].db_created /\ ~job'[j].robbed => db'[job'[j].db] = j
    BY <1>2, <2>1, Zenon DEF Fits, Moved, SameWork, Owning, WpSteps
  <2>6. job'[j].pc = p
    BY <1>2, Zenon DEF Moved
  <2>7. QED
    BY <1>1, <2>2, <2>3, <2>4, <2>5, <2>6, Zenon DEF Fits
<1>6. QED
  BY <1>2, <1>4, <1>5, Zenon

\* rollback: the directory is gone; the database is next, if there is one.
LEMMA RollBackFits ==
    ASSUME IInv, NEW j \in Ids, NEW o \in Undone, RollBack(j, o), UNCHANGED db,
           job[j].pc \in WpSteps \cup {"created", "scaffold", "dotenv"}
    PROVE  \A k \in Ids : Fits(k)'
<1>1. o \in Outcomes
  BY Zenon DEF Undone, Outcomes
<1>2. PICK p \in {"dropdb", "release"} :
        /\ Moved(j, p) /\ SameWork(j) /\ job'[j].outcome = o
        /\ p = "dropdb" <=> job[j].db_created
  <2>1. CASE job[j].db_created
    BY <1>1, <2>1, RollBackMoves, Zenon DEF IInv
  <2>2. CASE ~job[j].db_created
    BY <1>1, <2>2, RollBackMoves, Zenon DEF IInv
  <2>3. QED
    BY <2>1, <2>2, Zenon
<1>3. dir' = [dir EXCEPT ![job[j].name] = "absent"] /\ job[j].name \in Names /\ dir \in [Names -> {"absent", "empty", "user"} \cup Ids]
  BY Zenon DEF RollBack, IInv, CreateTypeOK, Records
<1>4. \A k \in Ids : \A n \in Names : dir'[n] = k => dir[n] = k /\ n # job[j].name
  BY <1>3, CreateSiteAssumption, Zenon
<1>5. \A k \in Ids \ {j} : Fits(k)'
  <2> TAKE k \in Ids \ {j}
  <2>1. Fits(k) /\ job'[k] = job[k] /\ job[k].db \in Dbs
    BY <1>2, Zenon DEF IInv, Moved, CreateTypeOK, Records
  <2>2. QED
    BY <1>4, <2>1, OthersFit, Zenon
<1>6. Fits(j)'
  <2>1. Fits(j)
    BY Zenon DEF IInv
  <2>2. \A n \in Names : dir'[n] # j
    BY <1>4, <2>1, Zenon DEF Fits
  <2>3. /\ \A d \in Dbs : db'[d] = j => d = job'[j].db /\ job'[j].db_created
        /\ job'[j].db_created => p = "dropdb" /\ p \in Provisioned
    BY <1>2, <2>1, Zenon DEF Fits, Moved, SameWork, Provisioned
  <2>4. job'[j].state \notin Undone
    BY <1>2, <2>1, Zenon DEF Fits, SameWork, WpSteps
  <2>5. p = "release" => Gone(j)'
    BY <1>2, <2>2, <2>3, Zenon DEF Gone, SameWork
  <2>6. job[j].db_created => job[j].pc \in Owning
    BY <2>1, Zenon DEF Fits, Provisioned, Owning, Ending, WpSteps
  <2>7. p \in Owning /\ job'[j].db_created /\ ~job'[j].robbed => db'[job'[j].db] = j
    BY <1>2, <2>1, <2>6, Zenon DEF Fits, Moved, SameWork
  <2>8. job'[j].pc = p
    BY <1>2, Zenon DEF Moved
  <2>9. p = "dropdb" => job'[j].db_created
    BY <1>2, Zenon DEF SameWork
  <2>10. QED
    BY <1>2, <2>2, <2>3, <2>4, <2>5, <2>7, <2>8, <2>9, Zenon DEF Fits
<1>7. QED
  BY <1>5, <1>6, Zenon

-----------------------------------------------------------------------------
(* The actions of a job at work.                                             *)

\* What is left to show of a step by which a job stays at work or comes to its
\* release.
LEMMA WorkKeeps ==
    ASSUME IInv, NEW j \in Ids, NEW p \in Work \cup {"release"}, Holds(j), Moved(j, p),
           dir' \in [Names -> {"absent", "empty", "user"} \cup Ids], db' \in [Dbs -> {"none", "foreign"} \cup Ids],
           sqlServer' \in BOOLEAN, sites' \subseteq Names, UNCHANGED <<reserved, others>>,
           \A k \in Ids : Fits(k)'
    PROVE  IInv'
<1>1. CreateTypeOK'
  BY Zenon DEF IInv, CreateTypeOK, Moved
<1>2. Reserved'
  BY ReservedKept, Zenon DEF IInv
<1>3. QED
  BY <1>1, <1>2, Zenon DEF IInv

\* Goto between stages that make nothing.
LEMMA GotoKeeps ==
    ASSUME IInv, NEW j \in Ids, NEW p \in Work, GotoStage(j, p), Working(j), p # "dropdb",
           job[j].pc \in Built => p \in Built,
           job[j].pc \in Provisioned => p \in Provisioned,
           p \in Owning => job[j].pc \in Owning \/ job[j].pc \notin Provisioned,
           sqlServer' \in BOOLEAN, sites' \subseteq Names, UNCHANGED <<reserved, dir, db, others>>
    PROVE  IInv'
<1>1. p \in JobPcs /\ p \notin {"release", "finish", "done"} /\ job[j].pc # "done"
  BY Stages, Zenon DEF JobPcs, Working, WpSteps
<1>2. Moved(j, p) /\ SameWork(j)
  BY <1>1, GotoMoves, Zenon DEF IInv
<1>3. \A k \in Ids : Fits(k)'
  BY <1>1, <1>2, MoveFits, Zenon
<1>4. QED
  BY <1>2, <1>3, WorkKeeps, Zenon DEF IInv, CreateTypeOK, Holds

\* End: as undone only from a stage that has made nothing.
LEMMA EndKeeps ==
    ASSUME IInv, NEW j \in Ids, NEW o \in Outcomes, EndJob(j, o), Working(j),
           o \in Undone => job[j].pc \notin Built \cup Provisioned,
           sqlServer' \in BOOLEAN, sites' \subseteq Names, UNCHANGED <<reserved, dir, db, others>>
    PROVE  IInv'
<1>1. "release" \in JobPcs /\ "release" \in Built /\ "release" \in Provisioned /\ "release" \notin Owning /\ job[j].pc # "done"
  BY Stages, Zenon DEF JobPcs, Working, WpSteps, Built, Provisioned, Owning, Ending
<1>2. Moved(j, "release") /\ SameWork(j) /\ job'[j].outcome = o
  BY EndMoves, Zenon DEF IInv
<1>3. \A k \in Ids : Fits(k)'
  BY <1>1, <1>2, MoveFits, Zenon
<1>4. QED
  BY <1>2, <1>3, WorkKeeps, Zenon DEF IInv, CreateTypeOK, Holds

LEMMA ScaffoldKeeps ==
    ASSUME IInv, NEW j \in Ids, NEW p \in {"download", "dotenv", "register"}, GotoStage(j, p), Scaffolded(j),
           job[j].pc \in {"created", "scaffold"}, p \in Provisioned \/ job[j].pc = "scaffold",
           p = "download" => job[j].pc = "created", UNCHANGED <<reserved, db, sqlServer, sites, others>>
    PROVE  IInv'
<1>1. Moved(j, p) /\ \A k \in Ids : Fits(k)'
  BY ScaffoldFits, Zenon
<1>2. p \in Work /\ Holds(j)
  BY Stages, Zenon DEF Holds, Working, WpSteps
<1>3. dir' \in [Names -> {"absent", "empty", "user"} \cup Ids]
  BY Zenon DEF Scaffolded, IInv, CreateTypeOK
<1>4. QED
  BY <1>1, <1>2, <1>3, WorkKeeps, Zenon DEF IInv, CreateTypeOK

LEMMA RollBackKeeps ==
    ASSUME IInv, NEW j \in Ids, NEW o \in Undone, RollBack(j, o),
           job[j].pc \in WpSteps \cup {"created", "scaffold", "dotenv"}, UNCHANGED <<reserved, db, sqlServer, sites, others>>
    PROVE  IInv'
<1>1. \A k \in Ids : Fits(k)'
  BY RollBackFits, Zenon
<1>2. PICK p \in {"dropdb", "release"} : Moved(j, p)
  <2>1. o \in Outcomes
    BY Zenon DEF Undone, Outcomes
  <2>2. QED
    BY <2>1, RollBackMoves, Zenon DEF IInv
<1>3. p \in Work \cup {"release"} /\ Holds(j)
  BY Stages, Zenon DEF Holds, Working
<1>4. dir' \in [Names -> {"absent", "empty", "user"} \cup Ids]
  BY Zenon DEF RollBack, IInv, CreateTypeOK
<1>5. QED
  BY <1>1, <1>2, <1>3, <1>4, WorkKeeps, Zenon DEF IInv, CreateTypeOK

\* The stages up to the database.
LEMMA EarlyKeeps ==
    ASSUME IInv, NEW j \in Ids,
           PreflightLaravel(j) \/ PreflightTemplate(j) \/ PreflightWordpress(j) \/ Tools(j) \/ EnsureEngine(j)
    PROVE  IInv'
<1>1. /\ job[j].pc \in {"preflight", "tools", "engine"} /\ UNCHANGED <<reserved, dir, db, sites, others>> /\ sqlServer' \in BOOLEAN
      /\ \/ \E p \in {"scaffold", "tools", "engine", "createdb"} : GotoStage(j, p)
         \/ \E o \in {"Failed", "Cancelled"} : EndJob(j, o)
  BY Zenon DEF PreflightLaravel, PreflightTemplate, PreflightWordpress, Preflight, Tools, Refused, EnsureEngine, At, IInv, CreateTypeOK
<1>2. Working(j) /\ job[j].pc \notin Built \cup Provisioned /\ sites' \subseteq Names
  BY <1>1, Stages, Zenon DEF Working, Built, Provisioned, WpSteps, Ending, IInv, CreateTypeOK
<1>3. CASE \E p \in {"scaffold", "tools", "engine", "createdb"} : GotoStage(j, p)
  <2>1. PICK p \in {"scaffold", "tools", "engine", "createdb"} : GotoStage(j, p)
    BY <1>3, Zenon
  <2>2. p \in Work /\ p \notin Owning
    BY Stages, Zenon DEF Owning, WpSteps
  <2>3. QED
    BY <1>1, <1>2, <2>1, <2>2, GotoKeeps, Zenon
<1>4. CASE \E o \in {"Failed", "Cancelled"} : EndJob(j, o)
  BY <1>1, <1>2, <1>4, EndKeeps, Zenon DEF Outcomes
<1>5. QED
  BY <1>1, <1>3, <1>4, Zenon

\* The stages that make the directory or remove it.
LEMMA LateKeeps ==
    ASSUME IInv, NEW j \in Ids,
           Created(j) \/ RunWpStep(j) \/ ScaffoldLaravel(j) \/ ScaffoldTemplate(j) \/ Dotenv(j)
    PROVE  IInv'
<1>1. UNCHANGED <<reserved, db, sqlServer, sites, others>> /\ sqlServer' \in BOOLEAN /\ sites' \subseteq Names
  BY Zenon DEF Created, RunWpStep, ScaffoldLaravel, ScaffoldTemplate, Dotenv, IInv, CreateTypeOK
<1>2. job[j].pc \in WpSteps \cup {"created", "scaffold", "dotenv"} /\ Working(j)
  BY Stages, WpStages, Zenon DEF Created, RunWpStep, ScaffoldLaravel, ScaffoldTemplate, Dotenv, At, Working
<1>3. \/ \E o \in Undone : RollBack(j, o)
      \/ \E p \in {"download", "dotenv", "register"} :
           GotoStage(j, p) /\ Scaffolded(j) /\ ((job[j].pc = "created" /\ p = "download") \/ (job[j].pc = "scaffold" /\ p # "download"))
      \/ job[j].pc \in WpSteps /\ GotoStage(j, After(job[j].pc)) /\ UNCHANGED dir
      \/ job[j].pc = "dotenv" /\ GotoStage(j, "register") /\ UNCHANGED dir
  <2>1. CASE Created(j)
    <3>1. job[j].pc = "created" /\ (RollBack(j, "Cancelled") \/ RollBack(j, "Failed") \/ (GotoStage(j, "download") /\ Scaffolded(j)))
      BY <2>1, Zenon DEF Created, At
    <3>2. CASE GotoStage(j, "download") /\ Scaffolded(j)
      BY <3>1, <3>2, Zenon
    <3>3. QED
      BY <3>1, <3>2, Zenon DEF Undone
  <2>2. CASE RunWpStep(j)
    BY <2>2, WpStages, Zenon DEF RunWpStep, Undone
  <2>3. CASE ScaffoldLaravel(j) \/ ScaffoldTemplate(j) \/ Dotenv(j)
    BY <2>3, Zenon DEF ScaffoldLaravel, ScaffoldTemplate, Dotenv, At, Undone
  <2>4. QED
    BY <2>1, <2>2, <2>3, Zenon
<1>4. CASE \E o \in Undone : RollBack(j, o)
  BY <1>1, <1>2, <1>4, RollBackKeeps, Zenon
<1>5. CASE \E p \in {"download", "dotenv", "register"} :
             GotoStage(j, p) /\ Scaffolded(j) /\ ((job[j].pc = "created" /\ p = "download") \/ (job[j].pc = "scaffold" /\ p # "download"))
  BY <1>1, <1>5, ScaffoldKeeps, Zenon DEF Provisioned, WpSteps
<1>6. CASE job[j].pc \in WpSteps /\ GotoStage(j, After(job[j].pc)) /\ UNCHANGED dir
  <2>1. PICK p \in WpSteps \cup {"register"} : GotoStage(j, p)
    BY <1>6, AfterStage, Zenon
  <2>2. p \in Work /\ p # "dropdb" /\ p \in Built /\ p \in Provisioned /\ job[j].pc \in Owning
    BY <1>6, Stages, Zenon DEF WpSteps, Built, Provisioned, Owning, Ending
  <2>3. QED
    BY <1>1, <1>2, <1>6, <2>1, <2>2, GotoKeeps, Zenon
<1>7. CASE job[j].pc = "dotenv" /\ GotoStage(j, "register") /\ UNCHANGED dir
  <2>1. "register" \in Work /\ "register" \in Built /\ "register" \in Provisioned /\ "register" \notin Owning
    BY Stages, Zenon DEF WpSteps, Built, Provisioned, Owning, Ending
  <2>2. QED
    BY <1>1, <1>2, <1>7, <2>1, GotoKeeps, Zenon
<1>8. QED
  BY <1>3, <1>4, <1>5, <1>6, <1>7, Zenon

\* Registration undoes nothing.
LEMMA RegisterKeeps ==
    ASSUME IInv, NEW j \in Ids, Register(j) \/ Settings(j)
    PROVE  IInv'
<1>1. /\ job[j].pc \in {"register", "settings"} /\ UNCHANGED <<reserved, dir, db, sqlServer, others>>
      /\ GotoStage(j, "settings") \/ \E o \in {"Unregistered", "Succeeded"} : EndJob(j, o)
  BY Zenon DEF Register, Settings, At
<1>2. sqlServer' \in BOOLEAN /\ sites' \subseteq Names
  BY Zenon DEF Register, Settings, IInv, CreateTypeOK, Records
<1>3. Working(j) /\ "settings" \in Work /\ "settings" \in Built /\ "settings" \in Provisioned /\ "settings" \notin Owning
  BY <1>1, Stages, Zenon DEF Working, Built, Provisioned, Owning, WpSteps, Ending
<1>4. CASE GotoStage(j, "settings")
  BY <1>1, <1>2, <1>3, <1>4, GotoKeeps, Zenon
<1>5. CASE \E o \in {"Unregistered", "Succeeded"} : EndJob(j, o)
  BY <1>1, <1>2, <1>3, <1>5, EndKeeps, Zenon DEF Outcomes, Undone
<1>6. QED
  BY <1>1, <1>4, <1>5, Zenon

\* CreateDb: the name was free, so the database is the job's.
LEMMA CreateDbKeeps ==
    ASSUME IInv, NEW j \in Ids, CreateDb(j)
    PROVE  IInv'
<1>1. /\ job[j].pc = "createdb" /\ UNCHANGED <<reserved, dir, sqlServer, sites, others>>
      /\ job[j] \in Records /\ job \in [Ids -> Records] /\ job[j].db \in Dbs /\ db \in [Dbs -> {"none", "foreign"} \cup Ids]
  BY Zenon DEF CreateDb, At, IInv, CreateTypeOK, Records
<1>2. Working(j) /\ "created" \in Work /\ "created" \in JobPcs /\ sqlServer' \in BOOLEAN /\ sites' \subseteq Names
  BY <1>1, Stages, Zenon DEF Working, JobPcs, IInv, CreateTypeOK
<1>3. CASE ~(sqlServer /\ db[job[j].db] = "none")
  <2>1. EndJob(j, "Failed") /\ UNCHANGED db
    BY <1>3, Zenon DEF CreateDb
  <2>2. QED
    BY <1>1, <1>2, <2>1, EndKeeps, Zenon DEF Outcomes, Built, Provisioned, WpSteps, Ending
<1>4. CASE sqlServer /\ db[job[j].db] = "none"
  <2>1. /\ db' = [db EXCEPT ![job[j].db] = j]
        /\ job' = [job EXCEPT ![j] = [job[j] EXCEPT !.db_created = TRUE, !.pc = "created"]]
    BY <1>1, <1>4, Zenon DEF CreateDb
  <2>2. [job[j] EXCEPT !.db_created = TRUE, !.pc = "created"] \in Records
    BY <1>1, <1>2, Zenon DEF Records
  <2>3. Moved(j, "created") /\ job'[j].db_created /\ job'[j].state = job[j].state
    BY <1>1, <2>1, <2>2, Zenon DEF Moved, Records
  <2>4. \A k \in Ids \ {j} : Fits(k)'
    <3> TAKE k \in Ids \ {j}
    <3>1. Fits(k) /\ job'[k] = job[k] /\ job[k].db \in Dbs
      BY <2>3, Zenon DEF IInv, Moved, CreateTypeOK, Records
    <3>2. \A d \in Dbs : db'[d] = k <=> db[d] = k
      BY <1>1, <1>4, <2>1, CreateSiteAssumption, Zenon
    <3>3. QED
      BY <1>1, <3>1, <3>2, OthersFit, Zenon
  <2>5. Fits(j)'
    <3>1. Fits(j)
      BY Zenon DEF IInv
    <3>2. \A n \in Names : dir'[n] # j
      BY <1>1, <3>1, Zenon DEF Fits, Built, WpSteps, Ending
    <3>3. ~job[j].db_created /\ job[j].state \notin Undone
      BY <1>1, <3>1, Zenon DEF Fits, Provisioned, WpSteps, Ending
    <3>4. \A d \in Dbs : db'[d] = j => d = job[j].db
      BY <1>1, <2>1, <3>1, <3>3, Zenon DEF Fits
    <3>5. db'[job[j].db] = j
      BY <1>1, <2>1, Zenon
    <3>6. job'[j].pc = "created" /\ job'[j].db = job[j].db
      BY <2>3, Zenon DEF Moved
    <3>7. QED
      BY <2>3, <3>2, <3>3, <3>4, <3>5, <3>6, Zenon DEF Fits, Provisioned
  <2>6. \A k \in Ids : Fits(k)'
    BY <2>4, <2>5, Zenon
  <2>7. db' \in [Dbs -> {"none", "foreign"} \cup Ids] /\ dir' \in [Names -> {"absent", "empty", "user"} \cup Ids]
    BY <1>1, <2>1, Zenon DEF IInv, CreateTypeOK
  <2>8. Holds(j)
    BY <1>2, Zenon DEF Holds
  <2>9. QED
    BY <1>1, <1>2, <2>3, <2>6, <2>7, <2>8, WorkKeeps, Zenon
<1>5. QED
  BY <1>3, <1>4, Zenon

\* Whoever drops a database takes it from the job that has created it, and the
\* job, unless it drops the database itself, remembers that it was robbed.
LEMMA RobbedFits ==
    ASSUME IInv, NEW d \in Dbs, NEW k \in Ids, UNCHANGED dir, db' = [db EXCEPT ![d] = "none"],
           job'[k] \in Records, job'[k] = [job[k] EXCEPT !.robbed = @ \/ db[d] = k]
    PROVE  Fits(k)'
<1>1. Fits(k) /\ job[k] \in Records /\ job[k].db \in Dbs /\ db \in [Dbs -> {"none", "foreign"} \cup Ids]
  BY Zenon DEF IInv, CreateTypeOK, Records
<1>2. /\ job'[k].name = job[k].name /\ job'[k].db = job[k].db /\ job'[k].pc = job[k].pc /\ job'[k].state = job[k].state
      /\ job'[k].outcome = job[k].outcome /\ job'[k].db_created = job[k].db_created /\ job'[k].stuck = job[k].stuck
      /\ job'[k].robbed = (job[k].robbed \/ db[d] = k)
  BY <1>1, Zenon DEF Records
<1>3. \A e \in Dbs : (db'[e] = k => db[e] = k) /\ (db[e] = k /\ e # d => db'[e] = k)
  BY <1>1, CreateSiteAssumption, Zenon
<1>4. Gone(k) => Gone(k)'
  BY <1>2, <1>3, Zenon DEF Gone
<1>5. job'[k].pc \in Owning /\ job'[k].db_created /\ ~job'[k].robbed => db'[job'[k].db] = k
  BY <1>1, <1>2, <1>3, Zenon DEF Fits
<1>6. QED
  BY <1>1, <1>2, <1>3, <1>4, <1>5, Zenon DEF Fits

LEMMA ReservedSame ==
    ASSUME Reserved, UNCHANGED reserved, \A k \in Ids : job'[k].name = job[k].name /\ (Holds(k)' <=> Holds(k))
    PROVE  Reserved'
BY Zenon DEF Reserved

\* DropDb, whose failure is ignored.
LEMMA DropDbKeeps ==
    ASSUME IInv, NEW j \in Ids, DropDb(j)
    PROVE  IInv'
<1>1. /\ job[j].pc = "dropdb" /\ UNCHANGED <<reserved, dir, sqlServer, sites, others>>
      /\ job[j] \in Records /\ job \in [Ids -> Records] /\ job[j].db \in Dbs /\ db \in [Dbs -> {"none", "foreign"} \cup Ids]
  BY Zenon DEF DropDb, At, IInv, CreateTypeOK, Records
<1>2. Fits(j) /\ "release" \in JobPcs /\ Holds(j)
  BY <1>1, Stages, Zenon DEF IInv, JobPcs, Holds, Working
<1>3. CASE ~sqlServer
  <2>1. UNCHANGED db /\ job' = [job EXCEPT ![j] = [job[j] EXCEPT !.pc = "release", !.stuck = TRUE]]
    BY <1>1, <1>3, Zenon DEF DropDb
  <2>2. [job[j] EXCEPT !.pc = "release", !.stuck = TRUE] \in Records
    BY <1>1, <1>2, Zenon DEF Records
  <2>3. Moved(j, "release") /\ job'[j].stuck /\ job'[j].db_created = job[j].db_created /\ job'[j].state = job[j].state
    BY <1>1, <2>1, <2>2, Zenon DEF Moved, Records
  <2>4. \A k \in Ids \ {j} : Fits(k)'
    <3> TAKE k \in Ids \ {j}
    <3>1. Fits(k) /\ job'[k] = job[k] /\ job[k].db \in Dbs
      BY <2>3, Zenon DEF IInv, Moved, CreateTypeOK, Records
    <3>2. QED
      BY <1>1, <2>1, <3>1, OthersFit, Zenon
  <2>5. Fits(j)'
    <3>1. Gone(j)'
      BY <1>1, <1>2, <2>3, Zenon DEF Gone, Fits
    <3>2. job'[j].pc = "release" /\ job'[j].db = job[j].db /\ job'[j].state \notin Undone
      BY <1>1, <1>2, <2>3, Zenon DEF Moved, Fits
    <3>3. \A d \in Dbs : db'[d] = j => d = job'[j].db /\ job'[j].db_created
      BY <1>2, <2>1, <2>3, <3>2, Zenon DEF Fits
    <3>4. QED
      BY <3>1, <3>2, <3>3, Zenon DEF Fits, Gone, Provisioned, Owning, WpSteps, Ending
  <2>6. \A k \in Ids : Fits(k)'
    BY <2>4, <2>5, Zenon
  <2>7. QED
    BY <1>1, <1>2, <2>1, <2>3, <2>6, WorkKeeps, Zenon DEF IInv, CreateTypeOK
<1>4. CASE sqlServer
  <2> DEFINE d == job[j].db
  <2>1. db' = [db EXCEPT ![d] = "none"] /\ job' = [Rob(d, j) EXCEPT ![j].pc = "release"]
    BY <1>4, Zenon DEF DropDb
  <2> HIDE DEF d
  <2>2. d \in Dbs
    BY <1>1, Zenon DEF d
  <2>3. \A k \in Ids : [job[k] EXCEPT !.robbed = @ \/ (db[d] = k /\ k # j)] \in Records
    BY <1>1, Zenon DEF Records
  <2>4. \A k \in Ids \ {j} : job'[k] = [job[k] EXCEPT !.robbed = @ \/ db[d] = k] /\ job'[k] \in Records
    BY <2>1, <2>3, Zenon DEF Rob
  <2>5. PICK r \in Records : r = [job[j] EXCEPT !.robbed = @ \/ (db[d] = j /\ j # j)]
    BY <2>3, Zenon
  <2>6. job'[j] = [r EXCEPT !.pc = "release"]
    BY <2>1, <2>5, Zenon DEF Rob
  <2>7. /\ job'[j] \in Records /\ job'[j].pc = "release" /\ job'[j].name = job[j].name /\ job'[j].db = job[j].db
        /\ job'[j].state = job[j].state /\ job'[j].outcome = job[j].outcome /\ job'[j].db_created = job[j].db_created
    BY <1>1, <1>2, <2>5, <2>6, Zenon DEF Records
  <2>8. job' \in [Ids -> Records]
    <3>1. DOMAIN job' = Ids /\ job' = [k \in Ids |-> job'[k]]
      BY <2>1, Zenon DEF Rob
    <3>2. QED
      BY <2>4, <2>7, <3>1, Zenon
  <2>9. \A k \in Ids \ {j} : Fits(k)'
    BY <1>1, <2>1, <2>2, <2>4, RobbedFits, Zenon
  <2>10. Fits(j)'
    <3>1. \A e \in Dbs : db'[e] # j
      BY <1>1, <1>2, <2>1, CreateSiteAssumption, Zenon DEF Fits, d
    <3>2. \A n \in Names : dir'[n] # j
      BY <1>1, <1>2, Zenon DEF Fits
    <3>3. job'[j].state \notin Undone
      BY <1>1, <1>2, <2>7, Zenon DEF Fits
    <3>4. QED
      BY <2>7, <3>1, <3>2, <3>3, Zenon DEF Fits, Gone, Provisioned, Owning, WpSteps, Ending
  <2>11. CreateTypeOK'
    BY <1>1, <2>1, <2>2, <2>8, Zenon DEF IInv, CreateTypeOK
  <2>12. Reserved'
    <3>1. \A k \in Ids \ {j} : job'[k].name = job[k].name /\ job'[k].pc = job[k].pc
      <4> TAKE k \in Ids \ {j}
      <4>1. job[k] \in Records /\ job'[k] = [job[k] EXCEPT !.robbed = @ \/ db[d] = k]
        BY <1>1, <2>4, Zenon
      <4>2. QED
        BY <4>1, Zenon DEF Records
    <3>2. \A k \in Ids : job'[k].name = job[k].name /\ (Holds(k)' <=> Holds(k))
      BY <1>2, <2>7, <3>1, Zenon DEF Holds, Working
    <3>3. QED
      BY <1>1, <3>2, ReservedSame, Zenon DEF IInv
  <2>13. QED
    BY <2>9, <2>10, <2>11, <2>12, Zenon DEF IInv
<1>5. QED
  BY <1>3, <1>4, Zenon

\* start and cancel: nothing has been made, nothing is undone.
LEMMA StartKeeps ==
    ASSUME IInv, NEW j \in Ids, NEW n \in Names, NEW d \in Dbs, NEW f \in Frameworks, start(j, n, d, f)
    PROVE  IInv'
<1>1. /\ job[j].pc = "none" /\ UNCHANGED <<reserved, dir, db, sqlServer, sites, others>>
      /\ job' = [job EXCEPT ![j] = [NoJob(n, d, f) EXCEPT !.pc = "reserve"]] /\ job \in [Ids -> Records]
  BY Zenon DEF start, At, IInv, CreateTypeOK
<1>2. PICK r \in Records : /\ r = [NoJob(n, d, f) EXCEPT !.pc = "reserve"]
                           /\ r.pc = "reserve" /\ r.state = "Running" /\ r.db_created = FALSE
  <2>1. NoJob(n, d, f) \in Records
    BY Zenon DEF NoJob, Records, JobPcs, Outcomes
  <2>2. NoJob(n, d, f).state = "Running" /\ NoJob(n, d, f).db_created = FALSE /\ "reserve" \in JobPcs
    BY Zenon DEF NoJob, JobPcs
  <2>3. [NoJob(n, d, f) EXCEPT !.pc = "reserve"] \in Records
    BY <2>1, <2>2, Zenon DEF Records
  <2>4. QED
    BY <2>1, <2>2, <2>3, Zenon DEF Records
<1>3. job' = [job EXCEPT ![j] = r] /\ job' \in [Ids -> Records] /\ job'[j] = r /\ \A k \in Ids \ {j} : job'[k] = job[k]
  BY <1>1, <1>2, Zenon
<1>4. CreateTypeOK'
  BY <1>1, <1>3, Zenon DEF IInv, CreateTypeOK
<1>5. Reserved'
  <2>1. ~Holds(j) /\ ~Holds(j)'
    BY <1>1, <1>2, <1>3, Stages, Zenon DEF Holds, Working, WpSteps
  <2>2. \A k \in Ids \ {j} : Holds(k)' <=> Holds(k)
    BY <1>3, Zenon DEF Holds, Working
  <2>3. QED
    BY <1>1, <1>3, <2>1, <2>2 DEF IInv, Reserved
<1>6. \A k \in Ids \ {j} : Fits(k)'
  <2> TAKE k \in Ids \ {j}
  <2>1. Fits(k) /\ job'[k] = job[k] /\ job[k].db \in Dbs
    BY <1>3, Zenon DEF IInv, CreateTypeOK, Records
  <2>2. QED
    BY <1>1, <2>1, OthersFit, Zenon
<1>7. Fits(j)'
  <2>1. Fits(j)
    BY Zenon DEF IInv
  <2>2. (\A m \in Names : dir'[m] # j) /\ \A e \in Dbs : db'[e] # j
    BY <1>1, <2>1, Zenon DEF Fits, Built, Provisioned, WpSteps, Ending
  <2>3. QED
    BY <1>2, <1>3, <2>2, Zenon DEF Fits, Undone, Owning, WpSteps
<1>8. QED
  BY <1>4, <1>5, <1>6, <1>7, Zenon DEF IInv

LEMMA CancelKeeps ==
    ASSUME IInv, NEW j \in Ids, cancel(j)
    PROVE  IInv'
<1>1. /\ UNCHANGED <<reserved, dir, db, sqlServer, sites, others>> /\ job \in [Ids -> Records] /\ job[j] \in Records
      /\ job' = [job EXCEPT ![j] = [job[j] EXCEPT !.cancel = TRUE]]
  BY Zenon DEF cancel, IInv, CreateTypeOK
<1>2. PICK r \in Records :
        /\ r = [job[j] EXCEPT !.cancel = TRUE]
        /\ r.pc = job[j].pc /\ r.name = job[j].name /\ r.db = job[j].db /\ r.state = job[j].state /\ r.outcome = job[j].outcome
        /\ r.db_created = job[j].db_created /\ r.stuck = job[j].stuck /\ r.robbed = job[j].robbed
  <2>1. [job[j] EXCEPT !.cancel = TRUE] \in Records
    BY <1>1, Zenon DEF Records
  <2>2. QED
    BY <1>1, <2>1, Zenon DEF Records
<1>3. job' = [job EXCEPT ![j] = r] /\ job' \in [Ids -> Records]
  BY <1>1, <1>2, Zenon
<1>4. \A k \in Ids :
        /\ job'[k].pc = job[k].pc /\ job'[k].name = job[k].name /\ job'[k].db = job[k].db
        /\ job'[k].state = job[k].state /\ job'[k].outcome = job[k].outcome
        /\ job'[k].db_created = job[k].db_created /\ job'[k].stuck = job[k].stuck /\ job'[k].robbed = job[k].robbed
  BY <1>1, <1>2, <1>3, Zenon
<1>5. CreateTypeOK'
  BY <1>1, <1>3, Zenon DEF IInv, CreateTypeOK
<1>6. Reserved'
  BY <1>1, <1>4, ReservedSame, Zenon DEF IInv, Holds, Working
<1>7. \A k \in Ids : Fits(k)'
  <2> TAKE k \in Ids
  <2>1. Fits(k)
    BY Zenon DEF IInv
  <2>2. QED
    BY <1>1, <1>4, <2>1 DEF Fits, Gone
<1>8. QED
  BY <1>5, <1>6, <1>7, Zenon DEF IInv

\* Reserve: refused while another job holds the name.
LEMMA ReserveKeeps ==
    ASSUME IInv, NEW j \in Ids, Reserve(j)
    PROVE  IInv'
<1>1. /\ job[j].pc = "reserve" /\ UNCHANGED <<dir, db, sqlServer, sites, others>>
      /\ job \in [Ids -> Records] /\ job[j] \in Records /\ job[j].name \in Names /\ Fits(j)
  BY Zenon DEF Reserve, At, IInv, CreateTypeOK, Records
<1>2. ~Holds(j) /\ (\A n \in Names : dir[n] # j) /\ (\A d \in Dbs : db[d] # j) /\ job[j].state \notin Undone /\ ~job[j].db_created
  BY <1>1, Stages, Zenon DEF Holds, Working, WpSteps, Fits, Built, Provisioned, Ending
<1>3. CASE job[j].name \in reserved
  <2>1. UNCHANGED reserved /\ job' = [job EXCEPT ![j] = [job[j] EXCEPT !.pc = "done", !.state = "Failed"]]
    BY <1>1, <1>3, Zenon DEF Reserve
  <2>2. [job[j] EXCEPT !.pc = "done", !.state = "Failed"] \in Records
    BY <1>1, Zenon DEF Records, JobPcs, Outcomes
  <2>3. Moved(j, "done") /\ job'[j].db_created = job[j].db_created
    BY <1>1, <2>1, <2>2, Zenon DEF Moved, Records
  <2>4. CreateTypeOK'
    BY <1>1, <2>1, <2>3, Zenon DEF IInv, CreateTypeOK, Moved
  <2>5. Reserved'
    <3>1. ~Holds(j)'
      BY <2>3, Stages, Zenon DEF Moved, Holds, Working, WpSteps
    <3>2. \A k \in Ids : job'[k].name = job[k].name /\ (Holds(k)' <=> Holds(k))
      BY <1>2, <2>3, <3>1, Zenon DEF Moved, Holds, Working
    <3>3. QED
      BY <2>1, <3>2, ReservedSame, Zenon DEF IInv
  <2>6. \A k \in Ids \ {j} : Fits(k)'
    <3> TAKE k \in Ids \ {j}
    <3>1. Fits(k) /\ job'[k] = job[k] /\ job[k].db \in Dbs
      BY <2>3, Zenon DEF IInv, Moved, CreateTypeOK, Records
    <3>2. QED
      BY <1>1, <3>1, OthersFit, Zenon
  <2>7. Fits(j)'
    BY <1>1, <1>2, <2>3, Zenon DEF Fits, Gone, Moved, Owning, WpSteps
  <2>8. QED
    BY <2>4, <2>5, <2>6, <2>7, Zenon DEF IInv
<1>4. CASE job[j].name \notin reserved
  <2>1. reserved' = reserved \cup {job[j].name} /\ GotoStage(j, "preflight")
    BY <1>4, Zenon DEF Reserve
  <2>2. "preflight" \in JobPcs /\ "preflight" \in Work /\ "preflight" \notin Owning
    BY Stages, Zenon DEF JobPcs, Owning, WpSteps
  <2>3. Moved(j, "preflight") /\ SameWork(j)
    BY <2>1, <2>2, GotoMoves, Zenon DEF IInv
  <2>4. \A k \in Ids : Fits(k)'
    <3>1. job[j].pc \notin Built /\ job[j].pc \notin Provisioned
      BY <1>1, Zenon DEF Built, Provisioned, WpSteps, Ending
    <3>2. QED
      BY <1>1, <2>2, <2>3, <3>1, MoveFits, Zenon
  <2>5. CreateTypeOK'
    BY <1>1, <2>1, <2>3, Zenon DEF IInv, CreateTypeOK, Moved
  <2>6. Reserved'
    <3>1. Holds(j)' /\ job'[j].name = job[j].name
      BY <2>2, <2>3, Zenon DEF Moved, Holds, Working
    <3>2. \A k \in Ids \ {j} : job'[k] = job[k] /\ (Holds(k)' <=> Holds(k))
      BY <2>3, Zenon DEF Moved, Holds, Working
    <3>3. QED
      BY <1>2, <1>4, <2>1, <3>1, <3>2 DEF IInv, Reserved
  <2>7. QED
    BY <2>4, <2>5, <2>6, Zenon DEF IInv
<1>5. QED
  BY <1>3, <1>4, Zenon

\* Release: the reservation goes; no other job has the name.
LEMMA ReleaseKeeps ==
    ASSUME IInv, NEW j \in Ids, Release(j)
    PROVE  IInv'
<1>1. job[j].pc = "release" /\ UNCHANGED <<dir, db, sqlServer, sites, others>> /\ reserved' = reserved \ {job[j].name} /\ GotoStage(j, "finish")
  BY Zenon DEF Release, At
<1>2. "finish" \in JobPcs /\ "finish" \in Built /\ "finish" \in Provisioned /\ "finish" \notin Owning /\ "finish" \notin Work
  BY Stages, Zenon DEF JobPcs, Built, Provisioned, Owning, WpSteps, Ending
<1>3. Moved(j, "finish") /\ SameWork(j) /\ job'[j].outcome = job[j].outcome
  BY <1>1, <1>2, GotoMoves, Zenon DEF IInv
<1>4. \A k \in Ids : Fits(k)'
  BY <1>1, <1>2, <1>3, MoveFits, Zenon
<1>5. CreateTypeOK'
  BY <1>1, <1>3, Zenon DEF IInv, CreateTypeOK, Moved
<1>6. Reserved'
  <2>1. Holds(j) /\ ~Holds(j)'
    BY <1>1, <1>2, <1>3, Zenon DEF Moved, Holds, Working
  <2>2. \A k \in Ids \ {j} : job'[k] = job[k] /\ (Holds(k)' <=> Holds(k))
    BY <1>3, Zenon DEF Moved, Holds, Working
  <2>3. QED
    BY <1>1, <2>1, <2>2, Zenon DEF IInv, Reserved
<1>7. QED
  BY <1>4, <1>5, <1>6, Zenon DEF IInv

\* Finish: the outcome is shown; it is undone only with nothing left.
LEMMA FinishKeeps ==
    ASSUME IInv, NEW j \in Ids, Finish(j)
    PROVE  IInv'
<1>1. /\ job[j].pc = "finish" /\ UNCHANGED <<reserved, dir, db, sqlServer, sites, others>> /\ job \in [Ids -> Records]
      /\ job[j] \in Records /\ job[j].outcome \in Outcomes /\ "done" \in JobPcs /\ "done" \notin Work /\ Fits(j)
  BY Stages, Zenon DEF Finish, At, IInv, CreateTypeOK, Records, JobPcs, WpSteps
<1>2. job' = [job EXCEPT ![j] = [job[j] EXCEPT !.pc = "done", !.state = job[j].outcome]]
  BY <1>1, Zenon DEF Finish
<1>3. [job[j] EXCEPT !.pc = "done", !.state = job[j].outcome] \in Records
  BY <1>1, Zenon DEF Records
<1>4. /\ Moved(j, "done") /\ job'[j].db_created = job[j].db_created /\ job'[j].stuck = job[j].stuck
      /\ job'[j].state = job[j].outcome
  BY <1>1, <1>2, <1>3, Zenon DEF Moved, Records
<1>5. CreateTypeOK'
  BY <1>1, <1>4, Zenon DEF IInv, CreateTypeOK, Moved
<1>6. Reserved'
  <2>1. ~Holds(j) /\ ~Holds(j)'
    BY <1>1, <1>4, Stages, Zenon DEF Moved, Holds, Working, WpSteps
  <2>2. \A k \in Ids : job'[k].name = job[k].name /\ (Holds(k)' <=> Holds(k))
    BY <1>4, <2>1, Zenon DEF Moved, Holds, Working
  <2>3. QED
    BY <1>1, <2>2, ReservedSame, Zenon DEF IInv
<1>7. \A k \in Ids \ {j} : Fits(k)'
  <2> TAKE k \in Ids \ {j}
  <2>1. Fits(k) /\ job'[k] = job[k] /\ job[k].db \in Dbs
    BY <1>4, Zenon DEF IInv, Moved, CreateTypeOK, Records
  <2>2. QED
    BY <1>1, <2>1, OthersFit, Zenon
<1>8. Fits(j)'
  <2>1. job'[j].state \in Undone => Gone(j)'
    BY <1>1, <1>4, Zenon DEF Fits, Gone
  <2>2. QED
    BY <1>1, <1>4, <2>1, Zenon DEF Fits, Moved, Built, Provisioned, Owning, WpSteps, Ending
<1>9. QED
  BY <1>5, <1>6, <1>7, <1>8, Zenon DEF IInv

-----------------------------------------------------------------------------
(* Everyone else.                                                            *)

\* The user writes, the server stops, a site is unlinked, a foreign database is
\* created: the jobs are as they were and nothing of theirs is gone or added.
LEMMA OutsideKeeps ==
    ASSUME IInv,
           \/ \E n \in Names : UserWrites(n) \/ Unlink(n)
           \/ \E d \in Dbs : ForeignCreate(d)
           \/ EngineStops
    PROVE  IInv'
<1>1. UNCHANGED <<job, reserved>> /\ sqlServer' \in BOOLEAN /\ sites' \subseteq Names
  BY Zenon DEF UserWrites, Unlink, ForeignCreate, EngineStops, IInv, CreateTypeOK
<1>2. others' \in 0 .. Steps
  BY CreateSiteAssumption DEF UserWrites, Unlink, ForeignCreate, EngineStops, Spend, IInv, CreateTypeOK
<1>3. /\ dir' \in [Names -> {"absent", "empty", "user"} \cup Ids]
      /\ \A k \in Ids, m \in Names : dir'[m] = k => dir[m] = k
  BY CreateSiteAssumption, Zenon DEF UserWrites, Unlink, ForeignCreate, EngineStops, IInv, CreateTypeOK
<1>4. /\ db' \in [Dbs -> {"none", "foreign"} \cup Ids]
      /\ \A k \in Ids, d \in Dbs : db'[d] = k <=> db[d] = k
  BY CreateSiteAssumption, Zenon DEF UserWrites, Unlink, ForeignCreate, EngineStops, IInv, CreateTypeOK
<1>5. CreateTypeOK'
  BY <1>1, <1>2, <1>3, <1>4, Zenon DEF IInv, CreateTypeOK
<1>6. Reserved'
  BY <1>1, ReservedSame, Zenon DEF IInv, Holds, Working
<1>7. \A k \in Ids : Fits(k)'
  <2> TAKE k \in Ids
  <2>1. Fits(k) /\ job'[k] = job[k] /\ job[k].db \in Dbs
    BY <1>1, Zenon DEF IInv, CreateTypeOK, Records
  <2>2. QED
    BY <1>3, <1>4, <2>1, OthersFit, Zenon
<1>8. QED
  BY <1>5, <1>6, <1>7, Zenon DEF IInv

\* Another client drops a database.
LEMMA ForeignDropKeeps ==
    ASSUME IInv, NEW d \in Dbs, ForeignDrop(d)
    PROVE  IInv'
<1>1. /\ UNCHANGED <<reserved, dir, sqlServer, sites>> /\ db' = [db EXCEPT ![d] = "none"] /\ job' = Rob(d, "foreign")
      /\ job \in [Ids -> Records]
  BY Zenon DEF ForeignDrop, IInv, CreateTypeOK
<1>2. others' \in 0 .. Steps
  BY CreateSiteAssumption DEF ForeignDrop, Spend, IInv, CreateTypeOK
<1>3. \A k \in Ids : [job[k] EXCEPT !.robbed = @ \/ (db[d] = k /\ k # "foreign")] \in Records
  BY <1>1, Zenon DEF Records
<1>4. \A k \in Ids : k # "foreign"
  BY CreateSiteAssumption, Zenon
<1>5. \A k \in Ids : job'[k] = [job[k] EXCEPT !.robbed = @ \/ db[d] = k] /\ job'[k] \in Records
  BY <1>1, <1>3, <1>4, Zenon DEF Rob
<1>6. job' \in [Ids -> Records]
  BY <1>1, <1>3, Zenon DEF Rob
<1>7. CreateTypeOK'
  BY <1>1, <1>2, <1>6, Zenon DEF IInv, CreateTypeOK
<1>8. Reserved'
  <2>1. \A k \in Ids : job'[k].name = job[k].name /\ job'[k].pc = job[k].pc
    <3> TAKE k \in Ids
    <3>1. job[k] \in Records /\ job'[k] = [job[k] EXCEPT !.robbed = @ \/ db[d] = k]
      BY <1>1, <1>5, Zenon
    <3>2. QED
      BY <3>1, Zenon DEF Records
  <2>2. QED
    BY <1>1, <2>1, ReservedSame, Zenon DEF IInv, Holds, Working
<1>9. \A k \in Ids : Fits(k)'
  BY <1>1, <1>5, RobbedFits, Zenon
<1>10. QED
  BY <1>7, <1>8, <1>9, Zenon DEF IInv

\* The daemon dies: no job ends as undone by that.
LEMMA CrashKeeps ==
    ASSUME IInv, DaemonDies
    PROVE  IInv'
<1>1. /\ reserved' = {} /\ sqlServer' = FALSE /\ UNCHANGED <<dir, db, sites>> /\ job \in [Ids -> Records]
      /\ job' = [j \in Ids |-> IF job[j].pc = "none" THEN job[j]
                   ELSE [job[j] EXCEPT !.pc = "done", !.state = IF job[j].pc = "done" THEN @ ELSE "Running"]]
  BY Zenon DEF DaemonDies, IInv, CreateTypeOK
<1>2. others' \in 0 .. Steps
  <2>1. Spend /\ others \in 0 .. Steps
    BY Zenon DEF DaemonDies, IInv, CreateTypeOK
  <2>2. QED
    BY <2>1, CreateSiteAssumption DEF Spend
<1>3. \A k \in Ids : job[k].pc # "none" =>
        /\ job'[k] \in Records
        /\ job'[k].pc = "done" /\ job'[k].name = job[k].name /\ job'[k].db = job[k].db
        /\ job'[k].db_created = job[k].db_created /\ job'[k].stuck = job[k].stuck
        /\ job'[k].state = IF job[k].pc = "done" THEN job[k].state ELSE "Running"
  <2> SUFFICES ASSUME NEW k \in Ids, job[k].pc # "none" PROVE
        /\ job'[k] \in Records
        /\ job'[k].pc = "done" /\ job'[k].name = job[k].name /\ job'[k].db = job[k].db
        /\ job'[k].db_created = job[k].db_created /\ job'[k].stuck = job[k].stuck
        /\ job'[k].state = IF job[k].pc = "done" THEN job[k].state ELSE "Running"
    BY Zenon
  <2>1. PICK s : s = IF job[k].pc = "done" THEN job[k].state ELSE "Running"
    BY Zenon
  <2>2. job[k] \in Records /\ job'[k] = [job[k] EXCEPT !.pc = "done", !.state = s]
    BY <1>1, <2>1, Zenon
  <2>3. s \in Outcomes /\ "done" \in JobPcs
    BY <2>1, <2>2, Zenon DEF Records, Outcomes, JobPcs
  <2>4. [job[k] EXCEPT !.pc = "done", !.state = s] \in Records
    BY <2>2, <2>3, Zenon DEF Records
  <2>5. QED
    BY <2>1, <2>2, <2>4, Zenon DEF Records
<1>4. \A k \in Ids : job[k].pc = "none" => job'[k] = job[k]
  BY <1>1, Zenon
<1>5. job' \in [Ids -> Records]
  <2>1. \A k \in Ids : job'[k] \in Records
    BY <1>1, <1>3, <1>4, Zenon
  <2>2. DOMAIN job' = Ids /\ job' = [k \in Ids |-> job'[k]]
    BY <1>1, Zenon
  <2>3. QED
    BY <2>1, <2>2, Zenon
<1>6. CreateTypeOK'
  BY <1>1, <1>2, <1>5, Zenon DEF IInv, CreateTypeOK
<1>7. Reserved'
  <2>1. \A k \in Ids : ~Holds(k)'
    BY <1>3, <1>4, Stages, Zenon DEF Holds, Working, WpSteps
  <2>2. QED
    BY <1>1, <2>1, Zenon DEF Reserved
<1>8. \A k \in Ids : Fits(k)'
  <2> TAKE k \in Ids
  <2>1. Fits(k) /\ job[k].db \in Dbs
    BY <1>1, Zenon DEF IInv, CreateTypeOK, Records
  <2>2. CASE job[k].pc = "none"
    BY <1>1, <1>4, <2>1, <2>2, OthersFit, Zenon
  <2>3. CASE job[k].pc # "none"
    <3>1. /\ job'[k].pc = "done" /\ job'[k].name = job[k].name /\ job'[k].db = job[k].db
          /\ job'[k].db_created = job[k].db_created /\ job'[k].stuck = job[k].stuck
          /\ job'[k].state \in Undone => job[k].pc = "done" /\ job[k].state \in Undone
      BY <1>3, <2>3, Zenon DEF Undone
    <3>2. dir' = dir /\ db' = db
      BY <1>1, Zenon
    <3>3. job'[k].state \in Undone => Gone(k)'
      BY <2>1, <3>1, <3>2, Zenon DEF Fits, Gone
    <3>4. QED
      BY <2>1, <3>1, <3>2, <3>3, Zenon DEF Fits, Built, Provisioned, Owning, WpSteps, Ending
  <2>4. QED
    BY <2>2, <2>3, Zenon
<1>9. QED
  BY <1>6, <1>7, <1>8, Zenon DEF IInv

-----------------------------------------------------------------------------
\* IInv is inductive, in whatever order jobs, users, other clients, stops of
\* the server and deaths of the daemon interleave.
THEOREM Inductive == CreateSpec => []IInv
<1>1. CreateInit => IInv
  BY InitInv, Zenon
<1>2. IInv /\ [CreateNext]_createvars => IInv'
  <2> SUFFICES ASSUME IInv, [CreateNext]_createvars PROVE IInv'
    BY Zenon
  <2>1. CASE \E j \in Ids, n \in Names, d \in Dbs, f \in Frameworks : start(j, n, d, f)
    BY <2>1, StartKeeps, Zenon
  <2>2. CASE \E j \in Ids : cancel(j)
    BY <2>2, CancelKeeps, Zenon
  <2>3. CASE \E j \in Ids : JobStep(j)
    <3>1. PICK j \in Ids : JobStep(j)
      BY <2>3, Zenon
    <3>2. CASE PreflightLaravel(j) \/ PreflightTemplate(j) \/ PreflightWordpress(j) \/ Tools(j) \/ EnsureEngine(j)
      BY <3>2, EarlyKeeps, Zenon
    <3>3. CASE Created(j) \/ RunWpStep(j) \/ ScaffoldLaravel(j) \/ ScaffoldTemplate(j) \/ Dotenv(j)
      BY <3>3, LateKeeps, Zenon
    <3>4. CASE Register(j) \/ Settings(j)
      BY <3>4, RegisterKeeps, Zenon
    <3>5. CASE Reserve(j) \/ CreateDb(j) \/ DropDb(j) \/ Release(j) \/ Finish(j)
      BY <3>5, ReserveKeeps, CreateDbKeeps, DropDbKeeps, ReleaseKeeps, FinishKeeps, Zenon
    <3>6. QED
      BY <3>1, <3>2, <3>3, <3>4, <3>5, Zenon DEF JobStep
  <2>4. CASE (\E n \in Names : UserWrites(n) \/ Unlink(n)) \/ (\E d \in Dbs : ForeignCreate(d)) \/ EngineStops
    BY <2>4, OutsideKeeps, Zenon
  <2>5. CASE \E d \in Dbs : ForeignDrop(d)
    BY <2>5, ForeignDropKeeps, Zenon
  <2>6. CASE DaemonDies
    BY <2>6, CrashKeeps, Zenon
  <2>7. CASE UNCHANGED createvars
    <3>1. UNCHANGED <<job, reserved, dir, db, sqlServer, sites, others>>
      BY <2>7, Zenon DEF createvars
    <3>2. CreateTypeOK' /\ Reserved'
      BY <3>1, Zenon DEF IInv, CreateTypeOK, Reserved, Holds, Working
    <3>3. \A k \in Ids : Fits(k)'
      BY <3>1 DEF IInv, Fits, Gone
    <3>4. QED
      BY <3>2, <3>3, Zenon DEF IInv
  <2>8. QED
    BY <2>1, <2>2, <2>3, <2>4, <2>5, <2>6, <2>7, Zenon DEF CreateNext
<1>3. QED
  BY <1>1, <1>2, PTL DEF CreateSpec

\* One job at a time works in a project directory and each reservation is
\* some job's; a job shown as cancelled or failed has left neither directory
\* nor database behind, unless the server was down when the database was to go.
THEOREM CreateRollsBackAlways == CreateSpec => []CreateRollsBack
<1>1. IInv => OneScaffolder
  BY Zenon DEF IInv, Reserved, Holds, OneScaffolder
<1>2. IInv => RolledBack
  BY DEF IInv, Fits, Gone, Undone, RolledBack, CreateTypeOK, Records
<1>3. IInv => CreateRollsBack
  BY <1>1, <1>2, Zenon DEF IInv, CreateRollsBack
<1>4. QED
  BY <1>3, Inductive, PTL

\* A job drops no database but the one it created, unless another client has
\* dropped that one before.
THEOREM JobsDropTheirOwn == CreateSpec => OwnDatabasesOnly
<1>1. IInv => DropsOwnOnly
  <2> SUFFICES ASSUME IInv, NEW j \in Ids, NEW d \in Dbs, db'[d] # db[d], JobStep(j)
               PROVE  db[d] \in {"none", j} \/ job[j].robbed
    BY Zenon DEF DropsOwnOnly
  <2>1. CreateDb(j) \/ DropDb(j)
    BY Zenon DEF JobStep, Reserve, PreflightLaravel, PreflightTemplate, PreflightWordpress, Preflight, Tools, EnsureEngine, Created,
           RunWpStep, ScaffoldLaravel, ScaffoldTemplate, Dotenv, Register, Settings, Release, Finish
  <2>2. CASE CreateDb(j)
    BY <2>2, Zenon DEF CreateDb, IInv, CreateTypeOK
  <2>3. CASE DropDb(j)
    <3>1. job[j].pc = "dropdb" /\ d = job[j].db
      BY <2>3, Zenon DEF DropDb, At, IInv, CreateTypeOK
    <3>2. job[j].robbed \/ db[job[j].db] = j
      BY <3>1, Zenon DEF IInv, Fits, Owning
    <3>3. QED
      BY <3>1, <3>2, Zenon
  <2>4. QED
    BY <2>1, <2>2, <2>3, Zenon
<1>2. CreateSpec => []IInv
  BY Inductive, Zenon
<1>3. QED
  BY <1>1, <1>2, PTL DEF OwnDatabasesOnly

-----------------------------------------------------------------------------
(* The administration of databases (Databases), for any number of clients,   *)
(* destinations, requests and events.                                        *)

DumpLines == [part : {"tables", "routines"}, gen : Nat, of : {<<>>} \cup (DbClients \X Nat)]
Lines == DumpLines \cup {Hole}
DbPcs == {"idle", "prepare", "port", "check", "dump", "copy", "feed", "done"}
DbOps == {"", "list", "create", "drop", "backup", "restore"}
DbAnswers == {"", "Ok", "Internal", "InvalidPath", "NotFound", "AlreadyExists", "Databases"}
Places == DbPaths \cup {""}
DbReqs ==
  [pc : DbPcs, op : DbOps, name : DbNames, path : Places, port : DbPorts \cup {0}, file : Nat,
   pos : Nat, todo : Seq(Lines), answer : DbAnswers, rows : SUBSET DbNames]
DbTypeOK ==
  /\ server \in [up : BOOLEAN, port : DbPorts] /\ cfgPort \in DbPorts
  /\ DOMAIN dbs \subseteq DbNames /\ dbs \in [DOMAIN dbs -> [{"tables", "routines"} -> Nat]]
  /\ inode \in Seq(Seq(Lines)) /\ entry \in [DbPaths \X BOOLEAN -> Nat]
  /\ \A p \in DbPaths, b \in BOOLEAN : entry[<<p, b>>] <= Len(inode)
  /\ dbReq \in [DbClients -> DbReqs] /\ sent \in Nat /\ events \in Nat

(* A path's ".yerd-part" sibling and the file at the path itself.            *)
Sibling(p) == entry[<<p, TRUE>>]
Dest(p) == entry[<<p, FALSE>>]
Writing(r) == r.pc \in {"dump", "copy"}
Feeding(r) == r.pc = "feed"

(* What a request has at each place.                                         *)
ReqFits(r, n) ==
  /\ r.op \in {"backup", "restore"} => r.path \in DbPaths
  /\ Writing(r) => r.op = "backup" /\ r.file \in 1 .. n
  /\ Feeding(r) => r.op = "restore" /\ r.file \in 1 .. n /\ r.answer = "" /\ r.name # "system"
  /\ r.pc \notin {"copy", "feed", "done"} => r.pos = 0 /\ r.answer = ""

(* A sibling is one path's, and no destination.                              *)
SiblingsApart ==
  \A p, q \in DbPaths : Sibling(p) # NoFile => Dest(q) # Sibling(p) /\ (q # p => Sibling(q) # Sibling(p))

(* Who backs up writes to its path's sibling, alone; or the path is shared.  *)
WriterApart(r) ==
  /\ \A q \in DbPaths : /\ q # r.path => Sibling(q) # r.file
                        /\ Dest(q) = r.file => q = r.path /\ q \in shared
  /\ r.path \notin shared => Sibling(r.path) = r.file
WritersApart ==
  /\ \A c \in DbClients : Writing(dbReq[c]) => WriterApart(dbReq[c])
  /\ \A c, d \in DbClients : Writing(dbReq[c]) /\ Writing(dbReq[d]) =>
       /\ dbReq[c].path # dbReq[d].path => dbReq[c].file # dbReq[d].file
       /\ dbReq[c].path = dbReq[d].path /\ dbReq[c].path \notin shared => c = d

(* Who restores reads a file that nobody writes any more; or the path is     *)
(* shared.                                                                   *)
ReadersApart ==
  \A c \in DbClients : Feeding(dbReq[c]) =>
    /\ \A q \in DbPaths : Sibling(q) # dbReq[c].file
    /\ \A d \in DbClients : Writing(dbReq[d]) /\ dbReq[d].file = dbReq[c].file =>
         dbReq[d].path = dbReq[c].path /\ dbReq[c].path \in shared

(* A dump being written is what is in the file and then what is to do, of    *)
(* one moment.                                                               *)
InOrder(content, pos, todo) ==
  /\ Len(content) = pos /\ pos + Len(todo) = 2
  /\ \E o \in DbClients \X Nat :
       /\ \A i \in 1 .. pos : content[i].part = Parts[i] /\ content[i].of = o
       /\ \A i \in 1 .. Len(todo) : todo[i].part = Parts[pos + i] /\ todo[i].of = o
Progress(r, both, disk) ==
  r.path \notin both =>
    /\ r.pc = "dump" => disk[r.file] = <<>>
    /\ r.pc = "copy" => InOrder(disk[r.file], r.pos, r.todo)
    /\ r.pc = "feed" => Whole(disk[r.file])

(* What of a backup has been replayed is in the database.                    *)
Replayed(r, both, disk, held) ==
  r.pc = "feed" /\ r.path \notin both /\ r.name \notin both =>
    /\ r.name \in DOMAIN held
    /\ \A i \in 1 .. 2 : i <= r.pos => held[r.name][Parts[i]] = disk[r.file][i].gen

FilesFit == SiblingsApart /\ WritersApart /\ ReadersApart /\ BackupIsWhole
ReqsFit ==
  \A c \in DbClients : /\ ReqFits(dbReq[c], Len(inode)) /\ Progress(dbReq[c], shared, inode)
                       /\ Replayed(dbReq[c], shared, inode, dbs)
DbInv == DbTypeOK /\ FilesFit /\ ReqsFit

(* Requests that begin to read what is at a destination, go on or end, with  *)
(* the files as they are.                                                    *)
LEMMA ApartStill ==
  ASSUME DbInv, UNCHANGED entry, shared \subseteq shared',
         \A c \in DbClients : Writing(dbReq'[c]) =>
           /\ Writing(dbReq[c]) /\ dbReq'[c].path = dbReq[c].path /\ dbReq'[c].file = dbReq[c].file,
         \A c \in DbClients : Feeding(dbReq'[c]) =>
           \/ Feeding(dbReq[c]) /\ dbReq'[c].path = dbReq[c].path /\ dbReq'[c].file = dbReq[c].file
           \/ /\ dbReq'[c].path \in DbPaths /\ dbReq'[c].file = Dest(dbReq'[c].path)
              /\ dbReq'[c].file # NoFile
  PROVE  SiblingsApart' /\ WritersApart' /\ ReadersApart'
<1> FilesFit BY Zenon DEF DbInv
<1>1. SiblingsApart' BY Zenon DEF FilesFit, SiblingsApart, Sibling, Dest
<1>2. WritersApart'
  <2>1. ASSUME NEW c \in DbClients, Writing(dbReq'[c]) PROVE WriterApart(dbReq[c])'
    <3>1. WriterApart(dbReq[c]) BY <2>1, Zenon DEF FilesFit, WritersApart
    <3> QED BY <2>1, <3>1, Zenon DEF WriterApart, Sibling, Dest
  <2>2. ASSUME NEW c \in DbClients, NEW d \in DbClients, Writing(dbReq'[c]), Writing(dbReq'[d])
        PROVE  /\ dbReq'[c].path # dbReq'[d].path => dbReq'[c].file # dbReq'[d].file
               /\ dbReq'[c].path = dbReq'[d].path /\ dbReq'[c].path \notin shared' => c = d
    BY <2>2 DEF FilesFit, WritersApart
  <2> QED BY <2>1, <2>2, Zenon DEF WritersApart, Writing
<1>3. ReadersApart'
  <2> SUFFICES ASSUME NEW c \in DbClients, Feeding(dbReq'[c])
               PROVE  /\ \A q \in DbPaths : Sibling(q)' # dbReq'[c].file
                      /\ \A d \in DbClients : Writing(dbReq'[d]) /\ dbReq'[d].file = dbReq'[c].file =>
                           dbReq'[d].path = dbReq'[c].path /\ dbReq'[c].path \in shared'
    BY Zenon DEF ReadersApart, Feeding, Writing
  <2>1. CASE Feeding(dbReq[c]) /\ dbReq'[c].path = dbReq[c].path /\ dbReq'[c].file = dbReq[c].file
    BY <2>1, Zenon DEF FilesFit, ReadersApart, Sibling
  <2>2. CASE /\ dbReq'[c].path \in DbPaths /\ dbReq'[c].file = Dest(dbReq'[c].path)
             /\ dbReq'[c].file # NoFile
    <3>1. \A q \in DbPaths : Sibling(q)' # dbReq'[c].file
      BY <2>2, Zenon DEF FilesFit, SiblingsApart, Sibling
    <3>2. ASSUME NEW d \in DbClients, Writing(dbReq'[d]), dbReq'[d].file = dbReq'[c].file
          PROVE  dbReq'[d].path = dbReq'[c].path /\ dbReq'[c].path \in shared'
      <4>1. WriterApart(dbReq[d]) BY <3>2, Zenon DEF FilesFit, WritersApart
      <4> QED BY <2>2, <3>2, <4>1, Zenon DEF WriterApart
    <3> QED BY <3>1, <3>2, Zenon
  <2> QED BY <2>1, <2>2, Zenon
<1> QED BY <1>1, <1>2, <1>3, Zenon
LEMMA FilesStill ==
  ASSUME DbInv, UNCHANGED <<inode, entry>>, shared \subseteq shared',
         \A c \in DbClients : Writing(dbReq'[c]) =>
           /\ Writing(dbReq[c]) /\ dbReq'[c].path = dbReq[c].path /\ dbReq'[c].file = dbReq[c].file,
         \A c \in DbClients : Feeding(dbReq'[c]) =>
           \/ Feeding(dbReq[c]) /\ dbReq'[c].path = dbReq[c].path /\ dbReq'[c].file = dbReq[c].file
           \/ /\ dbReq'[c].path \in DbPaths /\ dbReq'[c].file = Dest(dbReq'[c].path)
              /\ dbReq'[c].file # NoFile
  PROVE  FilesFit'
<1>1. SiblingsApart' /\ WritersApart' /\ ReadersApart' BY ApartStill, Zenon
<1>2. BackupIsWhole' BY Zenon DEF DbInv, FilesFit, BackupIsWhole
<1> QED BY <1>1, <1>2, Zenon DEF FilesFit

(* A step of client c alone that leaves the files as they are, and the       *)
(* databases that others restore.                                            *)
LEMMA RequestStep ==
  ASSUME DbInv, UNCHANGED <<inode, entry, server, cfgPort, events>>, shared \subseteq shared',
         sent' \in Nat, NEW c \in DbClients, NEW r \in DbReqs, dbReq' = [dbReq EXCEPT ![c] = r],
         ReqFits(r, Len(inode)), Progress(r, shared', inode'), Replayed(r, shared', inode', dbs'),
         Writing(r) => Writing(dbReq[c]) /\ r.path = dbReq[c].path /\ r.file = dbReq[c].file,
         Feeding(r) => \/ Feeding(dbReq[c]) /\ r.path = dbReq[c].path /\ r.file = dbReq[c].file
                       \/ r.path \in DbPaths /\ r.file = Dest(r.path) /\ r.file # NoFile,
         DOMAIN dbs' \subseteq DbNames, dbs' \in [DOMAIN dbs' -> [{"tables", "routines"} -> Nat]],
         \A n \in DOMAIN dbs : n \notin shared' /\ (\E d \in DbClients \ {c} :
           Feeding(dbReq[d]) /\ dbReq[d].name = n) => n \in DOMAIN dbs' /\ dbs'[n] = dbs[n]
  PROVE  DbInv'
<1>1. \A d \in DbClients : dbReq'[d] = IF d = c THEN r ELSE dbReq[d] BY Zenon DEF DbInv, DbTypeOK
<1>2. DbTypeOK' BY Zenon DEF DbInv, DbTypeOK
<1>3. FilesFit' BY <1>1, FilesStill, Zenon
<1>4. ReqsFit'
  <2> SUFFICES ASSUME NEW d \in DbClients
               PROVE  /\ ReqFits(dbReq'[d], Len(inode')) /\ Progress(dbReq'[d], shared', inode')
                      /\ Replayed(dbReq'[d], shared', inode', dbs')
    BY Zenon DEF ReqsFit
  <2>1. CASE d = c BY <1>1, <2>1, Zenon DEF Progress, Replayed, ReqFits, Writing, Feeding
  <2>2. CASE d # c
    <3>1. dbReq'[d] = dbReq[d] BY <1>1, <2>2, Zenon
    <3>2. /\ ReqFits(dbReq[d], Len(inode)) /\ Progress(dbReq[d], shared, inode)
          /\ Replayed(dbReq[d], shared, inode, dbs)
      BY Zenon DEF DbInv, ReqsFit
    <3>3. ReqFits(dbReq'[d], Len(inode')) BY <3>1, <3>2, Zenon
    <3>4. Progress(dbReq'[d], shared', inode') BY <3>1, <3>2, Zenon DEF Progress
    <3>5. Replayed(dbReq'[d], shared', inode', dbs')
      <4> SUFFICES ASSUME dbReq[d].pc = "feed", dbReq[d].path \notin shared', dbReq[d].name \notin shared'
                   PROVE  /\ dbReq[d].name \in DOMAIN dbs'
                          /\ \A i \in 1 .. 2 : i <= dbReq[d].pos =>
                               dbs'[dbReq[d].name][Parts[i]] = inode[dbReq[d].file][i].gen
        BY <3>1, Zenon DEF Replayed
      <4>1. /\ dbReq[d].name \in DOMAIN dbs
            /\ \A i \in 1 .. 2 : i <= dbReq[d].pos =>
                 dbs[dbReq[d].name][Parts[i]] = inode[dbReq[d].file][i].gen
        BY <3>2, Zenon DEF Replayed
      <4>2. dbReq[d].name \in DOMAIN dbs' /\ dbs'[dbReq[d].name] = dbs[dbReq[d].name]
        BY <2>2, <4>1, Zenon DEF Feeding
      <4> QED BY <4>1, <4>2, Zenon
    <3> QED BY <3>3, <3>4, <3>5, Zenon
  <2> QED BY <2>1, <2>2, Zenon
<1> QED BY <1>2, <1>3, <1>4, Zenon DEF DbInv

(* A file that exists is not NoFile.                                         *)
LEMMA FileIsThere ==
  \A n \in Nat : /\ \A x \in 1 .. n : x # NoFile
                 /\ \A x \in 0 .. n : x \in Nat /\ x <= n
  BY DEF NoFile

(* What DbInv says of one request.                                           *)
LEMMA OneRequest ==
  ASSUME DbInv, NEW c \in DbClients
  PROVE  /\ dbReq \in [DbClients -> DbReqs] /\ dbReq[c] \in DbReqs
         /\ ReqFits(dbReq[c], Len(inode)) /\ Progress(dbReq[c], shared, inode)
         /\ Replayed(dbReq[c], shared, inode, dbs)
  BY Zenon DEF DbInv, DbTypeOK, ReqsFit

(* A request that is answered, or goes on without a file.                    *)
LEMMA Settles ==
  ASSUME NEW r, NEW both, NEW disk, NEW held, ~Writing(r), ~Feeding(r)
  PROVE  Progress(r, both, disk) /\ Replayed(r, both, disk, held)
  BY Zenon DEF Progress, Replayed, Writing, Feeding
LEMMA Answered ==
  ASSUME DbInv, NEW c \in DbClients,
         NEW a \in DbAnswers,
         NEW rows \in SUBSET DbNames,
         dbReq' = [dbReq EXCEPT ![c] = [dbReq[c] EXCEPT !.pc = "done", !.answer = a, !.rows = rows]],
         UNCHANGED <<inode, entry, server, cfgPort, events, sent>>, shared \subseteq shared',
         DOMAIN dbs' \subseteq DbNames, dbs' \in [DOMAIN dbs' -> [{"tables", "routines"} -> Nat]],
         \A n \in DOMAIN dbs : n \notin shared' /\ (\E d \in DbClients \ {c} :
           Feeding(dbReq[d]) /\ dbReq[d].name = n) => n \in DOMAIN dbs' /\ dbs'[n] = dbs[n]
  PROVE  DbInv'
<1> DEFINE r == [dbReq[c] EXCEPT !.pc = "done", !.answer = a, !.rows = rows]
<1>1. r \in DbReqs
  <2>1. "done" \in DbPcs BY Zenon DEF DbPcs
  <2> QED BY <2>1, OneRequest, Zenon DEF DbReqs
<1>2. r.pc = "done" /\ r.op = dbReq[c].op /\ r.path = dbReq[c].path BY OneRequest, Zenon DEF DbReqs
<1>3. dbReq' = [dbReq EXCEPT ![c] = r] BY Zenon
<1> HIDE DEF r
<1>4. ~Writing(r) /\ ~Feeding(r) BY <1>2, Zenon DEF Writing, Feeding
<1>5. ReqFits(r, Len(inode)) BY <1>2, <1>4, OneRequest, Zenon DEF ReqFits
<1>6. Progress(r, shared', inode') /\ Replayed(r, shared', inode', dbs') BY <1>1, <1>4, Settles, Zenon
<1>7. sent' \in Nat BY Zenon DEF DbInv, DbTypeOK
<1> QED BY <1>1, <1>3, <1>4, <1>5, <1>6, <1>7, RequestStep, Zenon

(* The same, with nothing done.                                              *)
LEMMA Refuses ==
  ASSUME DbInv, NEW c \in DbClients,
         NEW a \in DbAnswers,
         Answer(c, a), UNCHANGED <<inode, entry, server, cfgPort, events, sent, dbs>>,
         shared \subseteq shared'
  PROVE  DbInv'
<1> DEFINE rows == dbReq[c].rows
<1>1. rows \in SUBSET DbNames BY OneRequest, Zenon DEF DbReqs
<1>2. dbReq' = [dbReq EXCEPT ![c] = [dbReq[c] EXCEPT !.pc = "done", !.answer = a, !.rows = rows]]
  BY OneRequest, Zenon DEF Answer, DbGoto, DbReqs
<1>3. DOMAIN dbs \subseteq DbNames /\ dbs \in [DOMAIN dbs -> [{"tables", "routines"} -> Nat]]
  BY Zenon DEF DbInv, DbTypeOK
<1> HIDE DEF rows
<1> QED BY <1>1, <1>2, <1>3, Answered, Zenon

LEMMA IdleTyped == DbIdle \in DbReqs
<1>1. "idle" \in DbPcs /\ "" \in DbOps /\ "" \in DbAnswers /\ "" \in Places /\ "" \in DbNames
  BY Zenon DEF DbPcs, DbOps, DbAnswers, Places, DbNames
<1>2. <<>> \in Seq(Lines) OBVIOUS
<1>3. NoFile \in Nat BY Zenon DEF NoFile
<1> DEFINE nothing == <<>>
<1>4. DbIdle = [pc |-> "idle", op |-> "", name |-> "", path |-> "", port |-> 0, file |-> NoFile,
                pos |-> 0, todo |-> nothing, answer |-> "", rows |-> {}]
  BY Zenon DEF DbIdle
<1> HIDE DEF nothing
<1>5. nothing \in Seq(Lines) BY <1>2, Zenon DEF nothing
<1> QED BY <1>1, <1>3, <1>4, <1>5, Zenon DEF DbReqs

(* A request is sent, and prepares.                                          *)
LEMMA SendFits ==
  ASSUME DbInv, NEW c \in DbClients, Send(c)
  PROVE  DbInv'
<1>9. sent' \in Nat
  <2>1. sent' = sent + 1 BY Zenon DEF Send
  <2>2. sent \in Nat BY Zenon DEF DbInv, DbTypeOK
  <2> QED BY <2>1, <2>2
<1>1. PICK op \in {"list", "create", "drop", "backup", "restore"}, n \in DbNames, p \in DbPaths \cup {""} :
        /\ (p = "") = (op \notin {"backup", "restore"})
        /\ DbGoto(c, [DbIdle EXCEPT !.pc = "prepare", !.op = op, !.name = n, !.path = p])
  BY Zenon DEF Send
<1> DEFINE r == [DbIdle EXCEPT !.pc = "prepare", !.op = op, !.name = n, !.path = p]
<1>2. /\ r.pc = "prepare" /\ r.op = op /\ r.path = p /\ r.pos = 0 /\ r.answer = ""
  BY Zenon DEF DbIdle
<1>3. dbReq' = [dbReq EXCEPT ![c] = r] BY <1>1, Zenon DEF DbGoto
<1>4. r \in DbReqs
  <2>1. "prepare" \in DbPcs /\ op \in DbOps /\ p \in Places BY Zenon DEF DbPcs, DbOps, Places
  <2>2. DbIdle \in DbReqs BY IdleTyped, Zenon
  <2> QED BY <2>1, <2>2, Zenon DEF DbReqs
<1> HIDE DEF r
<1>5. ~Writing(r) /\ ~Feeding(r) BY <1>2, Zenon DEF Writing, Feeding
<1>6. ReqFits(r, Len(inode)) BY <1>1, <1>2, <1>5, Zenon DEF ReqFits
<1>7. Progress(r, shared', inode') /\ Replayed(r, shared', inode', dbs') BY <1>4, <1>5, Settles, Zenon
<1>8. UNCHANGED <<inode, entry, server, cfgPort, events, shared, dbs>> BY Zenon DEF Send, outside, files
<1>10. DOMAIN dbs \subseteq DbNames /\ dbs \in [DOMAIN dbs -> [{"tables", "routines"} -> Nat]]
  BY Zenon DEF DbInv, DbTypeOK
<1> QED BY <1>3, <1>4, <1>5, <1>6, <1>7, <1>8, <1>9, <1>10, RequestStep, Zenon

LEMMA PrepareFits ==
  ASSUME DbInv, NEW c \in DbClients, prepare(c)
  PROVE  DbInv'
<1>1. UNCHANGED <<inode, entry, server, cfgPort, events, shared, dbs, sent>>
  BY Zenon DEF prepare, outside, files
<1>2. CASE Answer(c, "Internal")
  <2>1. "Internal" \in DbAnswers BY Zenon DEF DbAnswers
  <2> QED BY <1>1, <1>2, <2>1, Refuses, Zenon
<1>3. ASSUME NEW r, DbGoto(c, r), r \in DbReqs, r.pc \in {"port", "check"},
             r.op = dbReq[c].op, r.path = dbReq[c].path, r.pos = dbReq[c].pos,
             r.answer = dbReq[c].answer, dbReq[c].pc \in {"prepare", "port"}
      PROVE  DbInv'
  <2>1. ~Writing(r) /\ ~Feeding(r) BY <1>3, Zenon DEF Writing, Feeding
  <2>2. ReqFits(r, Len(inode)) BY <1>3, <2>1, OneRequest, Zenon DEF ReqFits
  <2>3. Progress(r, shared', inode') /\ Replayed(r, shared', inode', dbs') BY <1>3, <2>1, Settles, Zenon
  <2>4. /\ sent' \in Nat
        /\ DOMAIN dbs \subseteq DbNames /\ dbs \in [DOMAIN dbs -> [{"tables", "routines"} -> Nat]]
    BY <1>1, Zenon DEF DbInv, DbTypeOK
  <2>5. dbReq' = [dbReq EXCEPT ![c] = r] BY <1>3, Zenon DEF DbGoto
  <2> QED BY <1>1, <1>3, <2>1, <2>2, <2>3, <2>4, <2>5, RequestStep, Zenon
<1>4. CASE dbReq[c].pc = "prepare" /\ DbGoto(c, [dbReq[c] EXCEPT !.pc = "port"])
  <2> DEFINE r == [dbReq[c] EXCEPT !.pc = "port"]
  <2>1. r \in DbReqs
    <3>1. "port" \in DbPcs BY Zenon DEF DbPcs
    <3> QED BY <3>1, OneRequest, Zenon DEF DbReqs
  <2>2. /\ r.pc = "port" /\ r.op = dbReq[c].op /\ r.path = dbReq[c].path /\ r.pos = dbReq[c].pos
        /\ r.answer = dbReq[c].answer
    BY OneRequest, Zenon DEF DbReqs
  <2> QED BY <1>3, <1>4, <2>1, <2>2, Zenon
<1>5. CASE dbReq[c].pc = "port" /\ DbGoto(c, [dbReq[c] EXCEPT !.pc = "check", !.port = cfgPort])
  <2> DEFINE r == [dbReq[c] EXCEPT !.pc = "check", !.port = cfgPort]
  <2>1. r \in DbReqs
    <3>1. "check" \in DbPcs BY Zenon DEF DbPcs
    <3>2. cfgPort \in DbPorts \cup {0} BY Zenon DEF DbInv, DbTypeOK
    <3> QED BY <3>1, <3>2, OneRequest, Zenon DEF DbReqs
  <2>2. /\ r.pc = "check" /\ r.op = dbReq[c].op /\ r.path = dbReq[c].path /\ r.pos = dbReq[c].pos
        /\ r.answer = dbReq[c].answer
    BY OneRequest, Zenon DEF DbReqs
  <2> QED BY <1>3, <1>5, <2>1, <2>2, Zenon
<1> QED BY <1>2, <1>4, <1>5, Zenon DEF prepare

(* The databases are listed, one is created or dropped.                      *)
LEMMA ListFits ==
  ASSUME DbInv, NEW c \in DbClients, list(c)
  PROVE  DbInv'
<1>1. UNCHANGED <<inode, entry, server, cfgPort, events, shared, dbs, sent>>
  BY Zenon DEF list, outside, files
<1>2. /\ DOMAIN dbs \subseteq DbNames /\ dbs \in [DOMAIN dbs -> [{"tables", "routines"} -> Nat]]
      /\ {"Internal", "Databases"} \subseteq DbAnswers
  BY Zenon DEF DbInv, DbTypeOK, DbAnswers
<1>3. CASE Answer(c, "Internal") BY <1>1, <1>2, <1>3, Refuses, Zenon
<1> DEFINE rows == parse_db_list(list_sql)
<1>4. CASE DbGoto(c, [dbReq[c] EXCEPT !.pc = "done", !.answer = "Databases", !.rows = rows])
  <2>1. rows \in SUBSET DbNames BY <1>2, Zenon DEF parse_db_list, list_sql
  <2> HIDE DEF rows
  <2> QED BY <1>1, <1>2, <1>4, <2>1, Answered, Zenon DEF DbGoto
<1> QED BY <1>3, <1>4, Zenon DEF list

LEMMA SqlFits ==
  ASSUME DbInv, NEW c \in DbClients, NEW a \in DbAnswers, Answer(c, a),
         UNCHANGED <<inode, entry, server, cfgPort, events, sent>>, shared \subseteq shared',
         DOMAIN dbs' \subseteq DbNames, dbs' \in [DOMAIN dbs' -> [{"tables", "routines"} -> Nat]],
         \A n \in DOMAIN dbs : n \notin shared' /\ (\E d \in DbClients \ {c} :
           Feeding(dbReq[d]) /\ dbReq[d].name = n) => n \in DOMAIN dbs' /\ dbs'[n] = dbs[n]
  PROVE  DbInv'
<1> DEFINE rows == dbReq[c].rows
<1>1. rows \in SUBSET DbNames BY OneRequest, Zenon DEF DbReqs
<1>2. dbReq' = [dbReq EXCEPT ![c] = [dbReq[c] EXCEPT !.pc = "done", !.answer = a, !.rows = rows]]
  BY OneRequest, Zenon DEF Answer, DbGoto, DbReqs
<1> HIDE DEF rows
<1> QED BY <1>1, <1>2, Answered, Zenon

LEMMA CreateFits ==
  ASSUME DbInv, NEW c \in DbClients, create(c)
  PROVE  DbInv'
<1>1. UNCHANGED <<inode, entry, server, cfgPort, events, shared, sent>> BY Zenon DEF create, outside, files
<1>2. /\ DOMAIN dbs \subseteq DbNames /\ dbs \in [DOMAIN dbs -> [{"tables", "routines"} -> Nat]]
      /\ {"Ok", "Internal", "InvalidPath", "NotFound", "AlreadyExists"} \subseteq DbAnswers
  BY Zenon DEF DbInv, DbTypeOK, DbAnswers
<1> DEFINE sql == create_sql(dbReq[c].name)
<1>3. sql.verb = "create" /\ sql.db = dbReq[c].name /\ sql.db \in DbNames
  BY OneRequest, Zenon DEF create_sql, DbReqs
<1>4. classify(sql) \in DbAnswers BY <1>2, Zenon DEF classify
<1>5. CASE Answer(c, "InvalidPath") /\ UNCHANGED dbs BY <1>1, <1>2, <1>5, Refuses, Zenon
<1>6. CASE Answer(c, "Internal") /\ UNCHANGED dbs BY <1>1, <1>2, <1>6, Refuses, Zenon
<1>7. CASE Answer(c, classify(sql)) /\ UNCHANGED dbs
  <2> HIDE DEF sql
  <2> QED BY <1>1, <1>4, <1>7, Refuses, Zenon
<1>8. CASE Answer(c, classify(sql)) /\ Effect(sql)
  <2> HIDE DEF sql
  <2> DEFINE fresh == [p \in {"tables", "routines"} |-> 0]
  <2>1. dbs' = [n \in DOMAIN dbs \cup {sql.db} |-> IF n \in DOMAIN dbs THEN dbs[n] ELSE fresh]
    BY <1>3, <1>8, Zenon DEF Effect
  <2>2. fresh \in [{"tables", "routines"} -> Nat] BY Zenon
  <2> HIDE DEF fresh
  <2>3. DOMAIN dbs' = DOMAIN dbs \cup {sql.db} /\ \A n \in DOMAIN dbs : dbs'[n] = dbs[n] BY <2>1, Zenon
  <2>4. dbs' \in [DOMAIN dbs' -> [{"tables", "routines"} -> Nat]] BY <1>2, <2>1, <2>2, Zenon
  <2> QED BY <1>1, <1>2, <1>3, <1>4, <1>8, <2>3, <2>4, SqlFits, Zenon
<1> QED BY <1>5, <1>6, <1>7, <1>8, Zenon DEF create, run_client, Refuse

(* What is marked while another restores a database.                         *)
LEMMA Marks ==
  ASSUME NEW n, NEW beside, BesideRestore(n, beside)
  PROVE  /\ shared \subseteq shared'
         /\ (\E d \in beside : Feeding(dbReq[d]) /\ dbReq[d].name = n) => n \in shared'
  BY Zenon DEF BesideRestore, Feeding

LEMMA DropFits ==
  ASSUME DbInv, NEW c \in DbClients, drop(c)
  PROVE  DbInv'
<1>1. UNCHANGED <<inode, entry, server, cfgPort, events, sent>> BY Zenon DEF drop, outside
<1>2. /\ DOMAIN dbs \subseteq DbNames /\ dbs \in [DOMAIN dbs -> [{"tables", "routines"} -> Nat]]
      /\ {"Ok", "Internal", "InvalidPath", "NotFound", "AlreadyExists"} \subseteq DbAnswers
  BY Zenon DEF DbInv, DbTypeOK, DbAnswers
<1> DEFINE sql == drop_sql(dbReq[c].name)
<1>3. sql.verb = "drop" /\ sql.db = dbReq[c].name BY Zenon DEF drop_sql
<1>4. classify(sql) \in DbAnswers BY <1>2, Zenon DEF classify
<1>5. CASE Refuse(c) /\ UNCHANGED shared BY <1>1, <1>2, <1>5, Refuses, Zenon DEF Refuse
<1>6. CASE run_client(c, sql) /\ BesideRestore(dbReq[c].name, DbClients \ {c})
  <2>1. /\ shared \subseteq shared'
        /\ (\E d \in DbClients \ {c} : Feeding(dbReq[d]) /\ dbReq[d].name = dbReq[c].name) =>
             dbReq[c].name \in shared'
    BY <1>6, Marks, Zenon
  <2> HIDE DEF sql
  <2>2. CASE Answer(c, "Internal") /\ UNCHANGED dbs BY <1>1, <1>2, <2>1, <2>2, Refuses, Zenon
  <2>3. CASE Answer(c, classify(sql)) /\ UNCHANGED dbs BY <1>1, <1>4, <2>1, <2>3, Refuses, Zenon
  <2>4. CASE Answer(c, classify(sql)) /\ Effect(sql)
    <3>1. dbs' = [n \in DOMAIN dbs \ {sql.db} |-> dbs[n]] BY <1>3, <2>4, Zenon DEF Effect
    <3>2. DOMAIN dbs' = DOMAIN dbs \ {dbReq[c].name}
          /\ \A n \in DOMAIN dbs \ {dbReq[c].name} : dbs'[n] = dbs[n]
      BY <1>3, <3>1, Zenon
    <3>3. dbs' \in [DOMAIN dbs' -> [{"tables", "routines"} -> Nat]] BY <1>2, <3>1, Zenon
    <3>4. \A n \in DOMAIN dbs : n \notin shared' /\ (\E d \in DbClients \ {c} :
            Feeding(dbReq[d]) /\ dbReq[d].name = n) => n \in DOMAIN dbs' /\ dbs'[n] = dbs[n]
      BY <2>1, <3>2, Zenon
    <3> QED BY <1>1, <1>2, <1>4, <2>1, <2>4, <3>2, <3>3, <3>4, SqlFits, Zenon
  <2> QED BY <1>6, <2>2, <2>3, <2>4, Zenon DEF run_client
<1> QED BY <1>5, <1>6, Zenon DEF drop

(* A restore begins with what is at the destination.                         *)
LEMMA RestoreFits ==
  ASSUME DbInv, NEW c \in DbClients, restore(c)
  PROVE  DbInv'
<1>1. UNCHANGED <<inode, entry, server, cfgPort, events, shared, dbs, sent>>
  BY Zenon DEF restore, outside, files
<1>2. /\ DOMAIN dbs \subseteq DbNames /\ dbs \in [DOMAIN dbs -> [{"tables", "routines"} -> Nat]]
      /\ {"Internal", "InvalidPath", "NotFound"} \subseteq DbAnswers /\ sent' \in Nat
  BY <1>1, Zenon DEF DbInv, DbTypeOK, DbAnswers
<1> DEFINE file == Dest(dbReq[c].path)
           r == [dbReq[c] EXCEPT !.pc = "feed", !.file = file]
<1>3. CASE /\ dbReq[c].name # "system" /\ file # NoFile /\ dbReq[c].name \in DOMAIN dbs
           /\ DbGoto(c, r)
  <2>1. dbReq[c].path \in DbPaths /\ dbReq[c].pos = 0 /\ dbReq[c].answer = ""
    BY OneRequest, Zenon DEF restore, ReqFits
  <2>2. file \in Nat /\ file <= Len(inode) /\ Len(inode) \in Nat
    <3>1. /\ entry \in [DbPaths \X BOOLEAN -> Nat] /\ inode \in Seq(Seq(Lines))
          /\ \A p \in DbPaths, b \in BOOLEAN : entry[<<p, b>>] <= Len(inode)
      BY Zenon DEF DbInv, DbTypeOK
    <3>2. entry[<<dbReq[c].path, FALSE>>] \in Nat BY <2>1, <3>1, Zenon
    <3>3. entry[<<dbReq[c].path, FALSE>>] <= Len(inode) BY <2>1, <3>1, Zenon
    <3>4. Len(inode) \in Nat BY <3>1
    <3> QED BY <3>2, <3>3, <3>4, Zenon DEF Dest
  <2>3. file \in 1 .. Len(inode) BY <1>3, <2>2 DEF NoFile
  <2>4. dbReq[c].path \notin shared => Whole(inode[file])
    BY <1>3, <2>1, Zenon DEF DbInv, FilesFit, BackupIsWhole, Dest
  <2>5. dbReq' = [dbReq EXCEPT ![c] = r] BY <1>3, Zenon DEF DbGoto
  <2>6. file = Dest(dbReq[c].path) BY Zenon
  <2> HIDE DEF file
  <2>7. r \in DbReqs
    <3>1. "feed" \in DbPcs BY Zenon DEF DbPcs
    <3> QED BY <2>2, <3>1, OneRequest, Zenon DEF DbReqs
  <2>8. /\ r.pc = "feed" /\ r.file = file /\ r.op = dbReq[c].op /\ r.path = dbReq[c].path
        /\ r.pos = 0 /\ r.answer = "" /\ r.name = dbReq[c].name
    BY <2>1, OneRequest, Zenon DEF DbReqs
  <2> HIDE DEF r
  <2>9. ReqFits(r, Len(inode)) BY <1>3, <2>1, <2>3, <2>8, Zenon DEF restore, ReqFits, Writing
  <2>10. Progress(r, shared', inode')
    <3>1. inode'[r.file] = inode[file] BY <1>1, <2>8, Zenon
    <3>2. r.path \notin shared' => Whole(inode'[r.file]) BY <1>1, <2>4, <2>8, <3>1, Zenon
    <3>3. r.pc # "dump" /\ r.pc # "copy" BY <2>8, Zenon
    <3> QED BY <3>2, <3>3, Zenon DEF Progress
  <2>11. Replayed(r, shared', inode', dbs')
    <3>1. \A i \in 1 .. 2 : ~(i <= 0) OBVIOUS
    <3>2. r.name \in DOMAIN dbs' BY <1>1, <1>3, <2>8, Zenon
    <3> QED BY <2>8, <3>1, <3>2, Zenon DEF Replayed
  <2>12. ~Writing(r) BY <2>8, Zenon DEF Writing
  <2> QED BY <1>1, <1>2, <1>3, <2>1, <2>5, <2>6, <2>7, <2>8, <2>9, <2>10, <2>11, <2>12, RequestStep, Zenon
<1> HIDE DEF r
<1>4. ASSUME NEW a \in {"Internal", "InvalidPath", "NotFound"}, Answer(c, a) PROVE DbInv'
  BY <1>1, <1>2, <1>4, Refuses, Zenon
<1>5. \/ Answer(c, "InvalidPath") \/ Answer(c, "Internal") \/ Answer(c, "NotFound")
      \/ /\ dbReq[c].name # "system" /\ file # NoFile /\ dbReq[c].name \in DOMAIN dbs
         /\ DbGoto(c, r)
  BY Zenon DEF restore, Dest, is_system_database, r
<1> QED BY <1>3, <1>4, <1>5, Zenon

(* A whole dump is the parts in order.                                       *)
LEMMA WholeParts ==
  ASSUME NEW content \in Seq(Lines), Whole(content)
  PROVE  Len(content) = 2 /\ \A i \in 1 .. 2 : content[i].part = Parts[i] /\ content[i] # Hole
<1>1. Len(Parts) = 2 /\ Parts[1] = "tables" /\ Parts[2] = "routines" BY Zenon DEF Parts
<1>2. Len(content) = 2 BY <1>1, Zenon DEF Whole
<1>3. \A i \in 1 .. 2 : content[i].part = Parts[i] BY <1>2 DEF Whole
<1>4. Hole.part = "hole" BY Zenon DEF Hole
<1>5. \A i \in 1 .. 2 : content[i] # Hole BY <1>1, <1>3, <1>4
<1> QED BY <1>2, <1>3, <1>5, Zenon

(* A statement changes one part of one database.                             *)
LEMMA OneStatement ==
  ASSUME NEW held, held \in [DOMAIN held -> [{"tables", "routines"} -> Nat]], NEW n \in DOMAIN held,
         NEW line \in DumpLines
  PROVE  LET new == [held EXCEPT ![n][line.part] = line.gen]
         IN /\ DOMAIN new = DOMAIN held /\ new \in [DOMAIN held -> [{"tables", "routines"} -> Nat]]
            /\ \A m \in DOMAIN held : m # n => new[m] = held[m]
            /\ new[n][line.part] = line.gen
            /\ \A p \in {"tables", "routines"} : p # line.part => new[n][p] = held[n][p]
<1>1. line.part \in {"tables", "routines"} /\ line.gen \in Nat BY Zenon DEF DumpLines
<1>2. held[n] \in [{"tables", "routines"} -> Nat] BY Zenon
<1> QED BY <1>1, <1>2, Zenon

(* The client runs a statement, or fails.                                    *)
LEMMA FeedFits ==
  ASSUME DbInv, NEW c \in DbClients, Feed(c)
  PROVE  DbInv'
<1> DEFINE n == dbReq[c].name
           content == inode[dbReq[c].file]
           next == dbReq[c].pos + 1
           line == content[next]
           r == [dbReq[c] EXCEPT !.pos = next]
<1>1. UNCHANGED <<inode, entry, server, cfgPort, events, sent>> BY Zenon DEF Feed, outside
<1>2. dbReq[c].pc = "feed" /\ dbReq[c].pos < Len(content) BY Zenon DEF Feed
<1>3. /\ shared \subseteq shared'
      /\ (\E d \in DbClients \ {c} : Feeding(dbReq[d]) /\ dbReq[d].name = n) => n \in shared'
  <2>1. BesideRestore(n, DbClients \ {c}) BY Zenon DEF Feed
  <2> QED BY <2>1, Marks, Zenon
<1>4. /\ DOMAIN dbs \subseteq DbNames /\ dbs \in [DOMAIN dbs -> [{"tables", "routines"} -> Nat]]
      /\ "Internal" \in DbAnswers /\ sent' \in Nat
  BY <1>1, Zenon DEF DbInv, DbTypeOK, DbAnswers
<1>5. CASE Answer(c, "Internal") /\ UNCHANGED dbs BY <1>1, <1>3, <1>4, <1>5, Refuses, Zenon
<1>6. CASE /\ n \in DOMAIN dbs /\ DbGoto(c, r)
           /\ dbs' = IF line = Hole THEN dbs ELSE [dbs EXCEPT ![n][line.part] = line.gen]
  <2>1. dbReq[c].file \in 1 .. Len(inode) /\ dbReq[c].pos \in Nat
    BY <1>2, OneRequest, Zenon DEF ReqFits, Feeding, DbReqs
  <2>2. content \in Seq(Lines) BY <2>1 DEF DbInv, DbTypeOK
  <2>3. next \in 1 .. Len(content) /\ next \in Nat BY <1>2, <2>1, <2>2
  <2>4. line \in Lines BY <2>2, <2>3
  <2>5. r \in DbReqs
    <3> HIDE DEF next
    <3> QED BY <2>3, OneRequest, Zenon DEF DbReqs
  <2>6. /\ r.pc = "feed" /\ r.file = dbReq[c].file /\ r.op = dbReq[c].op /\ r.path = dbReq[c].path
        /\ r.pos = next /\ r.answer = dbReq[c].answer /\ r.name = n
    <3> HIDE DEF next
    <3> QED BY <1>2, OneRequest, Zenon DEF DbReqs
  <2>7. dbReq' = [dbReq EXCEPT ![c] = r] BY <1>6, Zenon DEF DbGoto
  <2> HIDE DEF r
  <2>8. /\ DOMAIN dbs' = DOMAIN dbs /\ dbs' \in [DOMAIN dbs -> [{"tables", "routines"} -> Nat]]
        /\ \A m \in DOMAIN dbs : m # n => dbs'[m] = dbs[m]
        /\ line # Hole => /\ dbs'[n][line.part] = line.gen
                          /\ \A p \in {"tables", "routines"} : p # line.part => dbs'[n][p] = dbs[n][p]
    <3>1. CASE line = Hole BY <1>4, <1>6, <3>1, Zenon
    <3>2. CASE line # Hole
      <4>1. line \in DumpLines BY <2>4, <3>2, Zenon DEF Lines
      <4>2. dbs' = [dbs EXCEPT ![n][line.part] = line.gen] BY <1>6, <3>2, Zenon
      <4>3. n \in DOMAIN dbs BY <1>6, Zenon
      <4> HIDE DEF n, line
      <4> QED BY <1>4, <4>1, <4>2, <4>3, OneStatement
    <3> QED BY <3>1, <3>2, Zenon
  <2>9. ReqFits(r, Len(inode)) BY <1>2, <2>6, OneRequest, Zenon DEF ReqFits, Writing, Feeding
  <2>10. Feeding(dbReq[c]) /\ ~Writing(r) BY <1>2, <2>6, Zenon DEF Feeding, Writing
  <2>11. dbReq[c].path \notin shared => Whole(content)
    <3>1. Progress(dbReq[c], shared, inode) BY OneRequest, Zenon
    <3> QED BY <1>2, <3>1, Zenon DEF Progress
  <2>12. Progress(r, shared', inode')
    <3>1. r.path \notin shared' => Whole(inode'[r.file]) BY <1>1, <1>3, <2>6, <2>11, Zenon
    <3>2. r.pc # "dump" /\ r.pc # "copy" BY <2>6, Zenon
    <3> QED BY <3>1, <3>2, Zenon DEF Progress
  <2>13. Replayed(r, shared', inode', dbs')
    <3> SUFFICES ASSUME r.path \notin shared', n \notin shared'
                 PROVE  /\ n \in DOMAIN dbs'
                        /\ \A i \in 1 .. 2 : i <= next => dbs'[n][Parts[i]] = content[i].gen
      BY <1>1, <2>6, Zenon DEF Replayed
    <3>1. Whole(content) /\ n \notin shared /\ dbReq[c].path \notin shared BY <1>3, <2>6, <2>11, Zenon
    <3>2. \A i \in 1 .. 2 : i <= dbReq[c].pos => dbs[n][Parts[i]] = content[i].gen
      <4>1. Replayed(dbReq[c], shared, inode, dbs) BY OneRequest, Zenon
      <4> QED BY <1>2, <3>1, <4>1, Zenon DEF Replayed
    <3> HIDE DEF content
    <3>3. Len(content) = 2 /\ \A i \in 1 .. 2 : content[i].part = Parts[i] /\ content[i] # Hole
      BY <2>2, <3>1, WholeParts, Zenon
    <3>4. next \in 1 .. 2 /\ line # Hole /\ line.part = Parts[next] BY <2>3, <3>3, Zenon
    <3>5. Parts[1] = "tables" /\ Parts[2] = "routines" BY Zenon DEF Parts
    <3>6. n \in DOMAIN dbs' BY <1>6, <2>8, Zenon
    <3>7. dbs'[n][Parts[next]] = line.gen BY <2>8, <3>4, Zenon
    <3>8. \A i \in 1 .. 2 : i # next => dbs'[n][Parts[i]] = dbs[n][Parts[i]]
      BY <2>8, <3>4, <3>5
    <3>9. \A i \in 1 .. 2 : i <= next => i = next \/ i <= dbReq[c].pos BY <2>1
    <3> HIDE DEF next, n
    <3>10. ASSUME NEW i \in 1 .. 2, i <= next PROVE dbs'[n][Parts[i]] = content[i].gen
      <4>1. CASE i = next BY <3>7, <4>1, Zenon
      <4>2. CASE i # next BY <3>2, <3>8, <3>9, <3>10, <4>2, Zenon
      <4> QED BY <4>1, <4>2, Zenon
    <3> QED BY <3>6, <3>10, Zenon
  <2>14. \A m \in DOMAIN dbs : m \notin shared' /\ (\E d \in DbClients \ {c} :
           Feeding(dbReq[d]) /\ dbReq[d].name = m) => m \in DOMAIN dbs' /\ dbs'[m] = dbs[m]
    BY <1>3, <2>8, Zenon
  <2> QED BY <1>1, <1>3, <1>4, <2>5, <2>6, <2>7, <2>8, <2>9, <2>10, <2>12, <2>13, <2>14, RequestStep, Zenon
<1> HIDE DEF r
<1>7. \/ Answer(c, "Internal") /\ UNCHANGED dbs
      \/ /\ n \in DOMAIN dbs /\ DbGoto(c, r)
         /\ dbs' = IF line = Hole THEN dbs ELSE [dbs EXCEPT ![n][line.part] = line.gen]
  BY Zenon DEF Feed, dump_args, restore_args, r
<1> QED BY <1>5, <1>6, <1>7, Zenon

LEMMA FedFits ==
  ASSUME DbInv, NEW c \in DbClients, Fed(c)
  PROVE  DbInv'
<1>1. UNCHANGED <<inode, entry, server, cfgPort, events, shared, dbs, sent>>
  BY Zenon DEF Fed, outside, files
<1>2. "Ok" \in DbAnswers /\ "Internal" \in DbAnswers BY Zenon DEF DbAnswers
<1> QED BY <1>1, <1>2, Refuses, Zenon DEF Fed

(* The server, its port or the application's data change.                    *)
LEMMA EventFits ==
  ASSUME DbInv, Event
  PROVE  DbInv'
<1>1. UNCHANGED <<inode, entry, dbReq, sent>> BY Zenon DEF Event
<1>2. DbTypeOK BY Zenon DEF DbInv
<1>3. events' \in Nat
  <2>1. events' = events + 1 BY Zenon DEF Event
  <2> QED BY <1>2, <2>1 DEF DbTypeOK
<1>4. server' \in [up : BOOLEAN, port : DbPorts] /\ cfgPort' \in DbPorts
  <2>1. CASE UNCHANGED <<server, cfgPort>> BY <1>2, <2>1, Zenon DEF DbTypeOK
  <2>2. CASE server' = [up |-> ~server.up, port |-> IF server.up THEN server.port ELSE cfgPort]
             /\ UNCHANGED cfgPort
    BY <1>2, <2>2, Zenon DEF DbTypeOK
  <2>3. CASE cfgPort' \in DbPorts \ {cfgPort} /\ UNCHANGED server BY <1>2, <2>3, Zenon DEF DbTypeOK
  <2> QED BY <2>1, <2>2, <2>3, Zenon DEF Event
<1> DEFINE new == [p \in {"tables", "routines"} |-> 2 + events]
<1>5. \/ UNCHANGED <<dbs, shared>>
      \/ /\ "app" \in DOMAIN dbs /\ dbs' = [dbs EXCEPT !["app"] = new]
         /\ BesideRestore("app", DbClients)
  BY Zenon DEF Event
<1>6. new \in [{"tables", "routines"} -> Nat] BY <1>2 DEF DbTypeOK
<1> HIDE DEF new
<1>7. /\ DOMAIN dbs' = DOMAIN dbs /\ dbs' \in [DOMAIN dbs -> [{"tables", "routines"} -> Nat]]
      /\ shared \subseteq shared'
      /\ \A n \in DOMAIN dbs : n \notin shared' /\ (\E d \in DbClients :
           Feeding(dbReq[d]) /\ dbReq[d].name = n) => dbs'[n] = dbs[n]
  <2>1. CASE UNCHANGED <<dbs, shared>> BY <1>2, <2>1, Zenon DEF DbTypeOK
  <2>2. CASE /\ "app" \in DOMAIN dbs /\ dbs' = [dbs EXCEPT !["app"] = new]
             /\ BesideRestore("app", DbClients)
    <3>1. /\ DOMAIN dbs' = DOMAIN dbs /\ dbs' \in [DOMAIN dbs -> [{"tables", "routines"} -> Nat]]
          /\ \A n \in DOMAIN dbs : n # "app" => dbs'[n] = dbs[n]
      BY <1>2, <1>6, <2>2, Zenon DEF DbTypeOK
    <3>2. /\ shared \subseteq shared'
          /\ (\E d \in DbClients : Feeding(dbReq[d]) /\ dbReq[d].name = "app") => "app" \in shared'
      BY <2>2, Marks, Zenon
    <3> QED BY <3>1, <3>2, Zenon
  <2> QED BY <1>5, <2>1, <2>2, Zenon
<1>8. DbTypeOK' BY <1>1, <1>2, <1>3, <1>4, <1>7, Zenon DEF DbTypeOK
<1>9. FilesFit' BY <1>1, <1>7, FilesStill, Zenon
<1>10. ReqsFit'
  <2> SUFFICES ASSUME NEW d \in DbClients
               PROVE  /\ ReqFits(dbReq[d], Len(inode)) /\ Progress(dbReq[d], shared', inode)
                      /\ Replayed(dbReq[d], shared', inode, dbs')
    BY <1>1, Zenon DEF ReqsFit
  <2>1. /\ ReqFits(dbReq[d], Len(inode)) /\ Progress(dbReq[d], shared, inode)
        /\ Replayed(dbReq[d], shared, inode, dbs)
    BY OneRequest, Zenon
  <2>2. Progress(dbReq[d], shared', inode) BY <1>7, <2>1, Zenon DEF Progress
  <2>3. Replayed(dbReq[d], shared', inode, dbs')
    <3> SUFFICES ASSUME dbReq[d].pc = "feed", dbReq[d].path \notin shared', dbReq[d].name \notin shared'
                 PROVE  /\ dbReq[d].name \in DOMAIN dbs'
                        /\ \A i \in 1 .. 2 : i <= dbReq[d].pos =>
                             dbs'[dbReq[d].name][Parts[i]] = inode[dbReq[d].file][i].gen
      BY Zenon DEF Replayed
    <3>1. /\ dbReq[d].name \in DOMAIN dbs
          /\ \A i \in 1 .. 2 : i <= dbReq[d].pos =>
               dbs[dbReq[d].name][Parts[i]] = inode[dbReq[d].file][i].gen
      BY <1>7, <2>1, Zenon DEF Replayed
    <3>2. dbs'[dbReq[d].name] = dbs[dbReq[d].name] BY <1>7, <3>1, Zenon DEF Feeding
    <3> QED BY <1>7, <3>1, <3>2, Zenon
  <2> QED BY <2>1, <2>2, <2>3, Zenon
<1> QED BY <1>8, <1>9, <1>10, Zenon DEF DbInv

(* The daemon dies with its requests; the files stay.                        *)
LEMMA KilledFits ==
  ASSUME DbInv, Killed
  PROVE  DbInv'
<1>1. /\ UNCHANGED <<server, cfgPort, dbs, inode, entry, shared, sent>> /\ events' = events + 1
      /\ dbReq' = [c \in DbClients |-> DbIdle]
  BY Zenon DEF Killed, files
<1>2. DbIdle.pc = "idle" /\ DbIdle.pos = 0 /\ DbIdle.answer = "" /\ DbIdle.op = "" BY Zenon DEF DbIdle
<1>3. events' \in Nat BY <1>1 DEF DbInv, DbTypeOK
<1>4. dbReq' \in [DbClients -> DbReqs] BY <1>1, IdleTyped, Zenon
<1>5. DbTypeOK' BY <1>1, <1>3, <1>4, Zenon DEF DbInv, DbTypeOK
<1>6. \A c \in DbClients : dbReq'[c] = DbIdle BY <1>1, Zenon
<1>7. ~Writing(DbIdle) /\ ~Feeding(DbIdle) BY <1>2, Zenon DEF Writing, Feeding
<1>8. FilesFit' BY <1>1, <1>6, <1>7, FilesStill, Zenon
<1>9. ReqFits(DbIdle, Len(inode')) BY <1>2, <1>7, Zenon DEF ReqFits
<1>10. Progress(DbIdle, shared', inode') /\ Replayed(DbIdle, shared', inode', dbs')
  BY <1>7, IdleTyped, Settles, Zenon
<1>11. ReqsFit' BY <1>6, <1>9, <1>10, Zenon DEF ReqsFit
<1> QED BY <1>5, <1>8, <1>11, Zenon DEF DbInv

(* A file is written to: whoever has another goes on as before.              *)
LEMMA OthersGoOn ==
  ASSUME DbInv, NEW d \in DbClients, NEW f,
         Len(inode') \in Nat, Len(inode) <= Len(inode'), shared \subseteq shared',
         \A g \in 1 .. Len(inode) : g # f => inode'[g] = inode[g],
         dbReq[d].path \notin shared' /\ (Writing(dbReq[d]) \/ Feeding(dbReq[d])) => dbReq[d].file # f
  PROVE  /\ ReqFits(dbReq[d], Len(inode')) /\ Progress(dbReq[d], shared', inode')
         /\ Replayed(dbReq[d], shared', inode', dbs)
<1>1. /\ ReqFits(dbReq[d], Len(inode)) /\ Progress(dbReq[d], shared, inode)
      /\ Replayed(dbReq[d], shared, inode, dbs)
  BY OneRequest, Zenon
<1>2. Len(inode) \in Nat BY DEF DbInv, DbTypeOK
<1>3. ReqFits(dbReq[d], Len(inode'))
  <2>1. \A k \in 1 .. Len(inode) : k \in 1 .. Len(inode') BY <1>2
  <2> QED BY <1>1, <2>1, Zenon DEF ReqFits
<1>4. CASE dbReq[d].path \in shared' BY <1>3, <1>4, Zenon DEF Progress, Replayed
<1>5. CASE ~Writing(dbReq[d]) /\ ~Feeding(dbReq[d]) BY <1>3, <1>5, OneRequest, Settles, Zenon
<1>6. CASE dbReq[d].path \notin shared' /\ (Writing(dbReq[d]) \/ Feeding(dbReq[d]))
  <2>1. inode'[dbReq[d].file] = inode[dbReq[d].file] BY <1>1, <1>6, Zenon DEF ReqFits
  <2>2. Progress(dbReq[d], shared', inode') BY <1>1, <1>6, <2>1, Zenon DEF Progress
  <2>3. Replayed(dbReq[d], shared', inode', dbs)
    <3>1. dbReq[d].name \notin shared' => dbReq[d].name \notin shared BY Zenon
    <3>2. dbReq[d].path \notin shared BY <1>6, Zenon
    <3> QED BY <1>1, <2>1, <3>1, <3>2, Zenon DEF Replayed
  <2> QED BY <1>3, <2>2, <2>3, Zenon
<1> QED BY <1>4, <1>5, <1>6, Zenon

(* A step of one request that writes to one file, and its own.               *)
LEMMA WriteStep ==
  ASSUME DbInv, NEW c \in DbClients, NEW r \in DbReqs, NEW f,
         dbReq' = [dbReq EXCEPT ![c] = r], UNCHANGED <<server, cfgPort, events, sent, dbs>>,
         Len(inode') \in Nat, Len(inode) <= Len(inode'), inode' \in Seq(Seq(Lines)),
         shared \subseteq shared', \A g \in 1 .. Len(inode) : g # f => inode'[g] = inode[g],
         entry' \in [DbPaths \X BOOLEAN -> Nat],
         \A p \in DbPaths, b \in BOOLEAN : entry'[<<p, b>>] <= Len(inode'),
         SiblingsApart', WritersApart', ReadersApart', BackupIsWhole',
         \A d \in DbClients \ {c} : dbReq[d].path \notin shared'
           /\ (Writing(dbReq[d]) \/ Feeding(dbReq[d])) => dbReq[d].file # f,
         ReqFits(r, Len(inode')), Progress(r, shared', inode'), Replayed(r, shared', inode', dbs)
  PROVE  DbInv'
<1>1. \A d \in DbClients : dbReq'[d] = IF d = c THEN r ELSE dbReq[d] BY Zenon DEF DbInv, DbTypeOK
<1>2. DbTypeOK' BY Zenon DEF DbInv, DbTypeOK
<1>3. FilesFit' BY Zenon DEF FilesFit
<1>4. ReqsFit'
  <2> SUFFICES ASSUME NEW d \in DbClients
               PROVE  /\ ReqFits(dbReq'[d], Len(inode')) /\ Progress(dbReq'[d], shared', inode')
                      /\ Replayed(dbReq'[d], shared', inode', dbs')
    BY ZenonT(30) DEF ReqsFit
  <2>1. CASE d = c BY <1>1, <2>1, Zenon
  <2>2. CASE d # c BY <1>1, <2>2, OthersGoOn, Zenon
  <2> QED BY <2>1, <2>2, Zenon
<1> QED BY <1>2, <1>3, <1>4, Zenon DEF DbInv

(* The bounds of the entries.                                                *)
LEMMA EntryTyped ==
  ASSUME DbInv, NEW p \in DbPaths
  PROVE  /\ Len(inode) \in Nat /\ inode \in Seq(Seq(Lines)) /\ entry \in [DbPaths \X BOOLEAN -> Nat]
         /\ Sibling(p) \in 0 .. Len(inode) /\ Dest(p) \in 0 .. Len(inode)
<1>1. /\ entry \in [DbPaths \X BOOLEAN -> Nat] /\ inode \in Seq(Seq(Lines))
      /\ \A q \in DbPaths, b \in BOOLEAN : entry[<<q, b>>] <= Len(inode)
  BY Zenon DEF DbInv, DbTypeOK
<1>2. entry[<<p, TRUE>>] \in Nat /\ entry[<<p, FALSE>>] \in Nat BY <1>1, Zenon
<1>3. entry[<<p, TRUE>>] <= Len(inode) /\ entry[<<p, FALSE>>] <= Len(inode) BY <1>1, Zenon
<1>4. Len(inode) \in Nat BY <1>1
<1> QED BY <1>1, <1>2, <1>3, <1>4 DEF Sibling, Dest

(* What is copied goes to the end of the writer's own file.                  *)
LEMMA InOrderGoesOn ==
  ASSUME NEW content \in Seq(Lines), NEW pos \in Nat, NEW todo \in Seq(Lines), todo # <<>>,
         InOrder(content, pos, todo)
  PROVE  InOrder(Written(content, pos + 1, Head(todo)), pos + 1, Tail(todo))
<1> DEFINE new == Written(content, pos + 1, Head(todo))
<1>1. Len(content) = pos /\ pos + Len(todo) = 2 BY Zenon DEF InOrder
<1>2. PICK o \in DbClients \X Nat :
        /\ \A i \in 1 .. pos : content[i].part = Parts[i] /\ content[i].of = o
        /\ \A i \in 1 .. Len(todo) : todo[i].part = Parts[pos + i] /\ todo[i].of = o
  BY Zenon DEF InOrder
<1>3. new = [i \in 1 .. pos + 1 |-> IF i = pos + 1 THEN Head(todo)
                                     ELSE IF i <= Len(content) THEN content[i] ELSE Hole]
  BY <1>1 DEF Written
<1>4. Len(todo) \in 1 .. 2 /\ Head(todo) = todo[1]
  <2>1. Len(todo) # 0 OBVIOUS
  <2>2. Len(todo) \in Nat OBVIOUS
  <2>3. Head(todo) = todo[1] OBVIOUS
  <2>4. \A k \in Nat : k # 0 /\ pos + k = 2 => k \in 1 .. 2 OBVIOUS
  <2>5. Len(todo) \in 1 .. 2 BY <1>1, <2>1, <2>2, <2>4, Zenon
  <2> QED BY <2>3, <2>5, Zenon
<1>5. Len(new) = pos + 1 /\ \A i \in 1 .. pos + 1 : new[i] = IF i = pos + 1 THEN todo[1] ELSE content[i]
  BY <1>1, <1>3, <1>4
<1>6. Len(Tail(todo)) = Len(todo) - 1 /\ \A i \in 1 .. Len(todo) - 1 : Tail(todo)[i] = todo[i + 1]
  BY <1>4
<1> HIDE DEF new
<1>7. \A i \in 1 .. pos + 1 : new[i].part = Parts[i] /\ new[i].of = o BY <1>2, <1>4, <1>5
<1>8. \A i \in 1 .. Len(Tail(todo)) : Tail(todo)[i].part = Parts[(pos + 1) + i] /\ Tail(todo)[i].of = o
  BY <1>2, <1>4, <1>6
<1>9. (pos + 1) + Len(Tail(todo)) = 2 BY <1>1, <1>6, <1>4
<1> QED BY <1>5, <1>7, <1>8, <1>9, Zenon DEF InOrder, new

LEMMA WrittenTyped ==
  ASSUME NEW content \in Seq(Lines), NEW pos \in Nat \ {0}, NEW line \in Lines
  PROVE  Written(content, pos, line) \in Seq(Lines)
<1> DEFINE n == IF pos > Len(content) THEN pos ELSE Len(content)
<1>1. n \in Nat OBVIOUS
<1>2. Hole \in Lines BY Zenon DEF Lines
<1>3. \A i \in 1 .. n : (IF i = pos THEN line ELSE IF i <= Len(content) THEN content[i] ELSE Hole) \in Lines
  BY <1>2
<1> HIDE DEF n
<1>4. [i \in 1 .. n |-> IF i = pos THEN line ELSE IF i <= Len(content) THEN content[i] ELSE Hole]
        \in Seq(Lines)
  BY <1>1, <1>3
<1> QED BY <1>4, Zenon DEF Written, n

LEMMA CopyFits ==
  ASSUME DbInv, NEW c \in DbClients, Copy(c)
  PROVE  DbInv'
<1> DEFINE r == dbReq[c]
           file == r.file
           line == Head(r.todo)
           new == Written(inode[file], r.pos + 1, line)
           next == [r EXCEPT !.pos = @ + 1, !.todo = Tail(@)]
<1>1. /\ r.pc = "copy" /\ r.todo # <<>> /\ inode' = [inode EXCEPT ![file] = new]
      /\ dbReq' = [dbReq EXCEPT ![c] = next]
      /\ UNCHANGED <<server, cfgPort, events, sent, dbs, entry, shared>>
  BY Zenon DEF Copy, DbGoto, outside
<1>2. Writing(r) /\ r.op = "backup" /\ file \in 1 .. Len(inode) BY <1>1, OneRequest, Zenon DEF Writing, ReqFits
<1>3. inode \in Seq(Seq(Lines)) /\ r.pos \in Nat /\ r.todo \in Seq(Lines)
  BY OneRequest, Zenon DEF DbInv, DbTypeOK, DbReqs
<1>4. line \in Lines /\ Tail(r.todo) \in Seq(Lines) BY <1>1, <1>3
<1>5. inode[file] \in Seq(Lines) /\ r.pos + 1 \in Nat \ {0} BY <1>2, <1>3
<1> HIDE DEF line
<1>6. new \in Seq(Lines) BY <1>4, <1>5, WrittenTyped, Zenon
<1>7. next \in DbReqs
  <2>1. r.pos + 1 \in Nat BY <1>5, Zenon
  <2> QED BY <1>4, <2>1, OneRequest, Zenon DEF DbReqs
<1>8. /\ next.pc = "copy" /\ next.op = r.op /\ next.path = r.path /\ next.file = file
      /\ next.pos = r.pos + 1 /\ next.todo = Tail(r.todo)
  BY <1>1, OneRequest, Zenon DEF DbReqs
<1>9. WriterApart(r) BY <1>2, Zenon DEF DbInv, FilesFit, WritersApart
<1>10. r \in DbReqs /\ Progress(r, shared, inode) /\ ReqFits(r, Len(inode)) BY OneRequest, Zenon
<1> HIDE DEF new, next
<1>11. /\ inode' \in Seq(Seq(Lines)) /\ Len(inode') = Len(inode) /\ inode'[file] = new
       /\ \A g \in 1 .. Len(inode) : g # file => inode'[g] = inode[g]
  BY <1>1, <1>2, <1>3, <1>6
<1>12. Len(inode) \in Nat BY <1>3
<1>13. \A d \in DbClients : dbReq'[d] = IF d = c THEN next ELSE dbReq[d] BY <1>1, Zenon DEF DbInv, DbTypeOK
<1>14. Writing(next) /\ ~Feeding(next) BY <1>8, Zenon DEF Writing, Feeding
<1>15. SiblingsApart' /\ WritersApart' /\ ReadersApart'
  BY <1>1, <1>2, <1>8, <1>13, <1>14, ApartStill, Zenon
<1>16. BackupIsWhole'
  <2> SUFFICES ASSUME NEW p \in DbPaths \ shared, entry[<<p, FALSE>>] # NoFile
               PROVE  Whole(inode'[entry[<<p, FALSE>>]])
    BY <1>1, Zenon DEF BackupIsWhole
  <2>1. Dest(p) # file BY <1>9, Zenon DEF WriterApart
  <2>2. Dest(p) \in 1 .. Len(inode)
    <3>1. Dest(p) \in 0 .. Len(inode) /\ Len(inode) \in Nat BY EntryTyped, Zenon
    <3>2. Dest(p) # 0 BY Zenon DEF Dest, NoFile
    <3> QED BY <3>1, <3>2
  <2>3. inode'[Dest(p)] = inode[Dest(p)] BY <1>11, <2>1, <2>2, Zenon
  <2>4. Whole(inode[Dest(p)]) BY Zenon DEF DbInv, FilesFit, BackupIsWhole, Dest
  <2> QED BY <2>3, <2>4, Zenon DEF Dest
<1>17. ASSUME NEW d \in DbClients \ {c}, dbReq[d].path \notin shared',
              Writing(dbReq[d]) \/ Feeding(dbReq[d])
       PROVE  dbReq[d].file # file
  <2>1. CASE Writing(dbReq[d]) BY <1>1, <1>2, <1>17, <2>1, ZenonT(30) DEF DbInv, FilesFit, WritersApart
  <2>2. CASE Feeding(dbReq[d]) BY <1>1, <1>2, <1>17, <2>2, Zenon DEF DbInv, FilesFit, ReadersApart
  <2> QED BY <1>17, <2>1, <2>2, Zenon
<1>18. ReqFits(next, Len(inode')) BY <1>2, <1>8, <1>10, <1>11, <1>14, ZenonT(30) DEF ReqFits
<1>19. Progress(next, shared', inode')
  <2> SUFFICES ASSUME r.path \notin shared PROVE InOrder(new, r.pos + 1, Tail(r.todo))
    BY <1>1, <1>8, <1>11, Zenon DEF Progress
  <2>1. InOrder(inode[file], r.pos, r.todo) BY <1>1, <1>10, Zenon DEF Progress
  <2> QED BY <1>1, <1>3, <1>5, <2>1, InOrderGoesOn, ZenonT(30) DEF new, line
<1>20. Replayed(next, shared', inode', dbs) BY <1>8, Zenon DEF Replayed
<1>21. /\ entry' \in [DbPaths \X BOOLEAN -> Nat] /\ shared \subseteq shared'
       /\ \A p \in DbPaths, b \in BOOLEAN : entry'[<<p, b>>] <= Len(inode')
  BY <1>1, <1>11, Zenon DEF DbInv, DbTypeOK
<1>22. \A d \in DbClients \ {c} : dbReq[d].path \notin shared'
         /\ (Writing(dbReq[d]) \/ Feeding(dbReq[d])) => dbReq[d].file # file
  BY <1>17, Zenon
<1>23. Len(inode') \in Nat /\ Len(inode) <= Len(inode') BY <1>11, <1>12
<1> HIDE DEF r, file
<1> QED BY <1>1, <1>7, <1>11, <1>15, <1>16, <1>18, <1>19, <1>20, <1>21, <1>22, <1>23, WriteStep, ZenonT(30)

(* A backup that ends: the sibling is removed, or renamed when it is whole.  *)
LEMMA LeaveStep ==
  ASSUME DbInv, NEW c \in DbClients, NEW a \in DbAnswers, Answer(c, a), Writing(dbReq[c]),
         UNCHANGED <<server, cfgPort, events, sent, dbs, inode, shared>>,
         NEW p, p = dbReq[c].path, NEW dest, dest \in {Dest(p), Sibling(p)},
         entry' = [entry EXCEPT ![<<p, FALSE>>] = dest, ![<<p, TRUE>>] = NoFile],
         p \notin shared /\ dest # NoFile => Whole(inode[dest])
  PROVE  DbInv'
<1> DEFINE next == [dbReq[c] EXCEPT !.pc = "done", !.answer = a]
<1>1. dbReq' = [dbReq EXCEPT ![c] = next] BY Zenon DEF Answer, DbGoto
<1>2. next \in DbReqs
  <2>1. "done" \in DbPcs BY Zenon DEF DbPcs
  <2> QED BY <2>1, OneRequest, ZenonT(30) DEF DbReqs
<1>3. next.pc = "done" /\ next.op = dbReq[c].op /\ next.path = p BY OneRequest, Zenon DEF DbReqs
<1>4. p \in DbPaths BY OneRequest, Zenon DEF ReqFits
<1>a. dest \in 0 .. Len(inode) BY <1>4, EntryTyped, Zenon
<1>5. \A q \in DbPaths : /\ Sibling(q)' = (IF q = p THEN NoFile ELSE Sibling(q))
                         /\ Dest(q)' = (IF q = p THEN dest ELSE Dest(q))
  <2> SUFFICES ASSUME NEW q \in DbPaths
               PROVE  /\ entry'[<<q, TRUE>>] = (IF q = p THEN NoFile ELSE entry[<<q, TRUE>>])
                      /\ entry'[<<q, FALSE>>] = (IF q = p THEN dest ELSE entry[<<q, FALSE>>])
    BY Zenon DEF Sibling, Dest
  <2>1. entry \in [DbPaths \X BOOLEAN -> Nat] BY <1>4, EntryTyped, Zenon
  <2> QED BY <1>4, <2>1, Zenon
<1> HIDE DEF next
<1>6. \A d \in DbClients : dbReq'[d] = IF d = c THEN next ELSE dbReq[d] BY <1>1, Zenon DEF DbInv, DbTypeOK
<1>7. ~Writing(next) /\ ~Feeding(next) BY <1>3, Zenon DEF Writing, Feeding
<1>8. \A d \in DbClients : Writing(dbReq[d]) \/ Feeding(dbReq[d]) => dbReq[d].file # NoFile
  <2> SUFFICES ASSUME NEW d \in DbClients, Writing(dbReq[d]) \/ Feeding(dbReq[d])
               PROVE  dbReq[d].file # NoFile
    BY ZenonT(30)
  <2>1. dbReq[d].file \in 1 .. Len(inode) BY OneRequest, Zenon DEF ReqFits
  <2> QED BY <2>1, <1>4, EntryTyped, FileIsThere, Zenon
<1>9. SiblingsApart'
  <2> SUFFICES ASSUME NEW q1 \in DbPaths, NEW q2 \in DbPaths, Sibling(q1)' # NoFile
               PROVE  Dest(q2)' # Sibling(q1)' /\ (q2 # q1 => Sibling(q2)' # Sibling(q1)')
    BY Zenon DEF SiblingsApart, NoFile
  <2>1. q1 # p /\ Sibling(q1)' = Sibling(q1) /\ Sibling(q1) # NoFile BY <1>5, Zenon
  <2>2. SiblingsApart BY Zenon DEF DbInv, FilesFit
  <2> QED BY <1>4, <1>5, <2>1, <2>2 DEF SiblingsApart
<1>10. ASSUME NEW d \in DbClients, d # c, Writing(dbReq[d]), dbReq[d].path = p PROVE p \in shared
  BY <1>10, Zenon DEF DbInv, FilesFit, WritersApart
<1>11. WritersApart'
  <2>1. ASSUME NEW d \in DbClients, Writing(dbReq'[d]) PROVE WriterApart(dbReq[d])'
    <3>1. d # c /\ dbReq'[d] = dbReq[d] /\ Writing(dbReq[d]) BY <1>6, <1>7, <2>1, Zenon
    <3>2. WriterApart(dbReq[d]) BY <3>1, ZenonT(30) DEF DbInv, FilesFit, WritersApart
    <3>3. dbReq[d].file # NoFile BY <1>8, <3>1, Zenon
    <3>4. dbReq[d].path = p => p \in shared BY <1>10, <3>1, Zenon
    <3>5. \A q \in DbPaths : q # dbReq[d].path => Sibling(q)' # dbReq[d].file
      BY <1>5, <3>2, <3>3, ZenonT(30) DEF WriterApart
    <3>6. \A q \in DbPaths : Dest(q)' = dbReq[d].file => q = dbReq[d].path /\ q \in shared
      BY <1>4, <1>5, <3>2, <3>4, Zenon DEF WriterApart
    <3>7. dbReq[d].path \notin shared => entry'[<<dbReq[d].path, TRUE>>] = dbReq[d].file
      <4>1. dbReq[d].path \in DbPaths BY <3>1, OneRequest, Zenon DEF ReqFits
      <4> QED BY <1>5, <3>2, <3>4, <4>1, Zenon DEF WriterApart, Sibling
    <3> QED BY <3>1, <3>5, <3>6, <3>7, Zenon DEF WriterApart, Sibling, Dest
  <2>2. ASSUME NEW d \in DbClients, NEW e \in DbClients, Writing(dbReq'[d]), Writing(dbReq'[e])
        PROVE  /\ dbReq'[d].path # dbReq'[e].path => dbReq'[d].file # dbReq'[e].file
               /\ dbReq'[d].path = dbReq'[e].path /\ dbReq'[d].path \notin shared' => d = e
    BY <1>6, <1>7, <2>2, Zenon DEF DbInv, FilesFit, WritersApart
  <2> QED BY <2>1, <2>2, Zenon DEF WritersApart, Writing
<1>12. ReadersApart'
  <2> SUFFICES ASSUME NEW d \in DbClients, Feeding(dbReq'[d])
               PROVE  /\ \A q \in DbPaths : Sibling(q)' # dbReq'[d].file
                      /\ \A e \in DbClients : Writing(dbReq'[e]) /\ dbReq'[e].file = dbReq'[d].file =>
                           dbReq'[e].path = dbReq'[d].path /\ dbReq'[d].path \in shared'
    BY Zenon DEF ReadersApart, Feeding, Writing
  <2>1. d # c /\ dbReq'[d] = dbReq[d] /\ Feeding(dbReq[d]) BY <1>6, <1>7, Zenon
  <2>2. ReadersApart BY Zenon DEF DbInv, FilesFit
  <2>3. dbReq[d].file # NoFile BY <1>8, <2>1, ZenonT(30)
  <2>4. \A q \in DbPaths : Sibling(q)' # dbReq'[d].file BY <1>5, <2>1, <2>2, <2>3, Zenon DEF ReadersApart
  <2> QED BY <1>6, <1>7, <2>1, <2>2, <2>4, ZenonT(30) DEF ReadersApart
<1>13. BackupIsWhole'
  <2> SUFFICES ASSUME NEW q \in DbPaths \ shared, Dest(q)' # NoFile PROVE Whole(inode[Dest(q)'])
    BY ZenonT(30) DEF BackupIsWhole, Dest, NoFile
  <2>1. BackupIsWhole BY Zenon DEF DbInv, FilesFit
  <2> QED BY <1>5, <2>1, Zenon DEF BackupIsWhole, Dest
<1>14. entry' \in [DbPaths \X BOOLEAN -> Nat] /\ Len(inode') \in Nat /\ inode' \in Seq(Seq(Lines))
  <2>1. dest \in Nat BY <1>a, <1>4, EntryTyped, FileIsThere, Zenon
  <2>2. NoFile \in Nat BY Zenon DEF NoFile
  <2> QED BY <1>4, <2>1, <2>2, EntryTyped, Zenon
<1>15. \A q \in DbPaths, b \in BOOLEAN : entry'[<<q, b>>] <= Len(inode')
  <2> SUFFICES ASSUME NEW q \in DbPaths PROVE Sibling(q)' <= Len(inode) /\ Dest(q)' <= Len(inode)
    BY Zenon DEF Sibling, Dest
  <2>1. Sibling(q) <= Len(inode) /\ Dest(q) <= Len(inode) /\ NoFile <= Len(inode)
    BY EntryTyped DEF NoFile
  <2>2. dest <= Len(inode) BY <1>a, <1>4, EntryTyped, FileIsThere, Zenon
  <2> QED BY <1>5, <2>1, <2>2, Zenon
<1>16. ReqFits(next, Len(inode')) BY <1>3, <1>4, <1>7, Zenon DEF ReqFits
<1>17. Progress(next, shared', inode') /\ Replayed(next, shared', inode', dbs) BY <1>7, Settles, Zenon
<1>18. shared \subseteq shared' /\ Len(inode) <= Len(inode') BY <1>14
<1> QED BY <1>1, <1>2, <1>8, <1>9, <1>11, <1>12, <1>13, <1>14, <1>15, <1>16, <1>17, <1>18, WriteStep, Zenon

(* A file is emptied, or a new one made.                                     *)
Emptied(file) ==
  /\ inode' \in Seq(Seq(Lines)) /\ Len(inode') \in Nat /\ Len(inode) <= Len(inode')
  /\ file \in 1 .. Len(inode') /\ inode'[file] = <<>>
  /\ \A g \in 1 .. Len(inode) : g # file => inode'[g] = inode[g]
LEMMA EmptyFile ==
  ASSUME DbInv, NEW file, NEW p \in DbPaths,
         IF Sibling(p) = NoFile THEN file = Len(inode) + 1 ELSE file = Sibling(p),
         inode' = IF Sibling(p) = NoFile THEN inode \o <<<<>>>> ELSE [inode EXCEPT ![file] = <<>>]
  PROVE  Emptied(file)
<1>0. Len(inode) \in Nat /\ inode \in Seq(Seq(Lines)) /\ Sibling(p) \in 0 .. Len(inode)
  BY EntryTyped, Zenon
<1>1. CASE Sibling(p) = NoFile
  <2> DEFINE nothing == <<>>
  <2>1. nothing \in Seq(Lines) OBVIOUS
  <2>2. inode' = Append(inode, nothing) /\ file = Len(inode) + 1 BY <1>1, <1>0
  <2> HIDE DEF nothing, Emptied
  <2>3. Append(inode, nothing) \in Seq(Seq(Lines)) BY <1>0, <2>1
  <2>4. Len(Append(inode, nothing)) = Len(inode) + 1 BY <1>0, <2>1
  <2>5. Append(inode, nothing)[Len(inode) + 1] = nothing BY <1>0, <2>1
  <2>6. \A g \in 1 .. Len(inode) : Append(inode, nothing)[g] = inode[g] BY <1>0, <2>1
  <2> QED BY <1>0, <2>2, <2>3, <2>4, <2>5, <2>6 DEF nothing, Emptied
<1>2. CASE Sibling(p) # NoFile
  <2> DEFINE nothing == <<>>
  <2>1. nothing \in Seq(Lines) OBVIOUS
  <2>2. inode' = [inode EXCEPT ![file] = nothing] BY <1>2, Zenon
  <2>3. file \in 1 .. Len(inode) BY <1>0, <1>2 DEF NoFile
  <2> HIDE DEF nothing, Emptied
  <2>4. inode' \in Seq(Seq(Lines)) /\ Len(inode') = Len(inode) BY <1>0, <2>1, <2>2, <2>3
  <2>5. inode'[file] = nothing /\ \A g \in 1 .. Len(inode) : g # file => inode'[g] = inode[g]
    BY <1>0, <2>2, <2>3
  <2> QED BY <1>0, <2>3, <2>4, <2>5 DEF nothing, Emptied
<1> QED BY <1>1, <1>2, Zenon

(* A backup begins: the sibling is new, or one that a killed daemon left, or *)
(* another backup's to the same path.                                        *)
LEMMA BackupBegins ==
  ASSUME DbInv, NEW c \in DbClients, NEW file, NEW p \in DbPaths, p = dbReq[c].path,
         dbReq[c].op = "backup", dbReq[c].pc = "check",
         Sibling(p) = NoFile => file = Len(inode) + 1, Sibling(p) # NoFile => file = Sibling(p),
         Emptied(file),
         entry' = [entry EXCEPT ![<<p, TRUE>>] = file], shared \subseteq shared',
         \A d \in DbClients \ {c} : Writing(dbReq[d]) /\ dbReq[d].path = p => p \in shared',
         NEW next \in DbReqs, dbReq' = [dbReq EXCEPT ![c] = next], next.pc = "dump", next.op = "backup",
         next.path = p, next.file = file, next.pos = dbReq[c].pos, next.answer = dbReq[c].answer,
         UNCHANGED <<server, cfgPort, events, sent, dbs>>
  PROVE  DbInv'
<1> SiblingsApart /\ WritersApart /\ ReadersApart /\ BackupIsWhole BY Zenon DEF DbInv, FilesFit
<1>1. /\ Len(inode) \in Nat /\ inode \in Seq(Seq(Lines)) /\ entry \in [DbPaths \X BOOLEAN -> Nat]
      /\ \A q \in DbPaths : Sibling(q) \in 0 .. Len(inode) /\ Dest(q) \in 0 .. Len(inode)
  BY EntryTyped, Zenon
<1>2. \A d \in DbClients : Writing(dbReq[d]) \/ Feeding(dbReq[d]) => dbReq[d].file \in 1 .. Len(inode)
  BY OneRequest, Zenon DEF ReqFits
<1>3. /\ inode' \in Seq(Seq(Lines)) /\ Len(inode') \in Nat /\ Len(inode) <= Len(inode')
      /\ file \in 1 .. Len(inode') /\ \A g \in 1 .. Len(inode) : g # file => inode'[g] = inode[g]
  BY Zenon DEF Emptied
<1>4. file \in Nat \ {NoFile} BY <1>3 DEF NoFile
<1>5. \A q \in DbPaths : Dest(q) # file
  <2>1. CASE Sibling(p) = NoFile BY <1>1, <2>1
  <2>2. CASE Sibling(p) # NoFile BY <2>2, Zenon DEF SiblingsApart
  <2> QED BY <2>1, <2>2, Zenon
<1>6. \A q \in DbPaths : q # p => Sibling(q) # file
  <2>1. CASE Sibling(p) = NoFile BY <1>1, <2>1
  <2>2. CASE Sibling(p) # NoFile BY <2>2, Zenon DEF SiblingsApart
  <2> QED BY <2>1, <2>2, Zenon
<1>7. \A d \in DbClients : Writing(dbReq[d]) /\ dbReq[d].path # p => dbReq[d].file # file
  <2>1. CASE Sibling(p) = NoFile BY <1>1, <1>2, <2>1
  <2>2. CASE Sibling(p) # NoFile BY <2>2 DEF WritersApart, WriterApart
  <2> QED BY <2>1, <2>2, Zenon
<1>8. \A d \in DbClients : Feeding(dbReq[d]) => dbReq[d].file # file
  <2>1. CASE Sibling(p) = NoFile BY <1>1, <1>2, <2>1
  <2>2. CASE Sibling(p) # NoFile BY <2>2, Zenon DEF ReadersApart
  <2> QED BY <2>1, <2>2, Zenon
<1>9. \A q \in DbPaths : Sibling(q)' = (IF q = p THEN file ELSE Sibling(q)) /\ Dest(q)' = Dest(q)
  BY <1>1, Zenon DEF Sibling, Dest
<1>13. \A d \in DbClients : dbReq'[d] = IF d = c THEN next ELSE dbReq[d] BY Zenon DEF DbInv, DbTypeOK
<1>14. Writing(next) /\ ~Feeding(next) BY Zenon DEF Writing, Feeding
<1>15. SiblingsApart'
  <2> SUFFICES ASSUME NEW q1 \in DbPaths, NEW q2 \in DbPaths, Sibling(q1)' # NoFile
               PROVE  Dest(q2)' # Sibling(q1)' /\ (q2 # q1 => Sibling(q2)' # Sibling(q1)')
    BY Zenon DEF SiblingsApart, NoFile
  <2>1. CASE q1 = p BY <1>5, <1>6, <1>9, <2>1, Zenon
  <2>2. CASE q1 # p BY <1>6, <1>9, <2>2 DEF SiblingsApart
  <2> QED BY <2>1, <2>2, Zenon
<1>16. WritersApart'
  <2>1. ASSUME NEW d \in DbClients, Writing(dbReq'[d]) PROVE WriterApart(dbReq[d])'
    <3>1. CASE d = c
      <4>1. dbReq'[d] = next BY <1>13, <3>1, Zenon
      <4>2. \A q \in DbPaths : q # p => Sibling(q)' # file BY <1>6, <1>9, Zenon
      <4>3. \A q \in DbPaths : Dest(q)' # file BY <1>5, <1>9, Zenon
      <4>4. entry'[<<p, TRUE>>] = file BY <1>9, Zenon DEF Sibling
      <4> QED BY <4>1, <4>2, <4>3, <4>4, Zenon DEF WriterApart, Sibling, Dest
    <3>2. CASE d # c
      <4>1. dbReq'[d] = dbReq[d] /\ Writing(dbReq[d]) BY <1>13, <2>1, <3>2, Zenon
      <4>2. WriterApart(dbReq[d]) BY <4>1, Zenon DEF WritersApart
      <4>3. \A q \in DbPaths : q # dbReq[d].path => Sibling(q)' # dbReq[d].file
        BY <1>7, <1>9, <4>1, <4>2, Zenon DEF WriterApart
      <4>4. \A q \in DbPaths : Dest(q)' = dbReq[d].file => q = dbReq[d].path /\ q \in shared'
        BY <1>9, <4>2, Zenon DEF WriterApart
      <4>5. dbReq[d].path \notin shared' => entry'[<<dbReq[d].path, TRUE>>] = dbReq[d].file
        <5>1. dbReq[d].path \in DbPaths BY <4>1, OneRequest, Zenon DEF ReqFits
        <5>2. dbReq[d].path = p => p \in shared' BY <3>2, <4>1, Zenon
        <5> QED BY <1>9, <4>2, <5>1, <5>2, Zenon DEF WriterApart, Sibling
      <4> QED BY <4>1, <4>3, <4>4, <4>5, Zenon DEF WriterApart, Sibling, Dest
    <3> QED BY <3>1, <3>2, Zenon
  <2>2. ASSUME NEW d \in DbClients, NEW e \in DbClients, Writing(dbReq'[d]), Writing(dbReq'[e])
        PROVE  /\ dbReq'[d].path # dbReq'[e].path => dbReq'[d].file # dbReq'[e].file
               /\ dbReq'[d].path = dbReq'[e].path /\ dbReq'[d].path \notin shared' => d = e
    <3>1. CASE d = c /\ e = c BY <3>1, Zenon
    <3>2. CASE d = c /\ e # c BY <1>7, <1>13, <2>2, <3>2
    <3>3. CASE d # c /\ e = c BY <1>7, <1>13, <2>2, <3>3
    <3>4. CASE d # c /\ e # c BY <1>13, <2>2, <3>4 DEF WritersApart
    <3> QED BY <3>1, <3>2, <3>3, <3>4, Zenon
  <2> QED BY <2>1, <2>2, Zenon DEF WritersApart, Writing
<1>17. ReadersApart'
  <2> SUFFICES ASSUME NEW d \in DbClients, Feeding(dbReq'[d])
               PROVE  /\ \A q \in DbPaths : Sibling(q)' # dbReq'[d].file
                      /\ \A e \in DbClients : Writing(dbReq'[e]) /\ dbReq'[e].file = dbReq'[d].file =>
                           dbReq'[e].path = dbReq'[d].path /\ dbReq'[d].path \in shared'
    BY Zenon DEF ReadersApart, Feeding, Writing
  <2>1. dbReq'[d] = dbReq[d] /\ Feeding(dbReq[d]) BY <1>13, <1>14, Zenon
  <2>2. \A q \in DbPaths : Sibling(q)' # dbReq'[d].file BY <1>8, <1>9, <2>1, Zenon DEF ReadersApart
  <2>3. ASSUME NEW e \in DbClients, Writing(dbReq'[e]), dbReq'[e].file = dbReq'[d].file
        PROVE  dbReq'[e].path = dbReq'[d].path /\ dbReq'[d].path \in shared'
    <3>1. CASE e = c BY <1>8, <1>13, <2>1, <2>3, <3>1
    <3>2. CASE e # c
      <4>1. dbReq'[e] = dbReq[e] /\ Writing(dbReq[e]) BY <1>13, <2>3, <3>2, Zenon
      <4>2. dbReq[e].path = dbReq[d].path /\ dbReq[d].path \in shared
        BY <2>1, <2>3, <4>1, Zenon DEF ReadersApart
      <4> QED BY <2>1, <4>1, <4>2, Zenon
    <3> QED BY <3>1, <3>2, Zenon
  <2> QED BY <2>2, <2>3, Zenon
<1>18. BackupIsWhole'
  <2> SUFFICES ASSUME NEW q \in DbPaths \ shared', Dest(q)' # NoFile PROVE Whole(inode'[Dest(q)'])
    BY Zenon DEF BackupIsWhole, Dest, NoFile
  <2>1. Dest(q)' = Dest(q) /\ Dest(q) # file /\ Dest(q) # NoFile BY <1>5, <1>9, Zenon
  <2>2. Dest(q) \in 1 .. Len(inode) BY <1>1, <2>1 DEF NoFile
  <2>3. inode'[Dest(q)] = inode[Dest(q)] BY <1>3, <2>1, <2>2, Zenon
  <2> QED BY <2>1, <2>3, Zenon DEF BackupIsWhole, Dest
<1>19. /\ entry' \in [DbPaths \X BOOLEAN -> Nat]
       /\ \A q \in DbPaths, b \in BOOLEAN : entry'[<<q, b>>] <= Len(inode')
  <2>1. entry' \in [DbPaths \X BOOLEAN -> Nat] BY <1>1, <1>4, Zenon
  <2>2. ASSUME NEW q \in DbPaths PROVE Sibling(q)' <= Len(inode') /\ Dest(q)' <= Len(inode')
    <3>1. \A k \in 0 .. Len(inode) : k <= Len(inode') BY <1>1, <1>3
    <3>2. Sibling(q) <= Len(inode') /\ Dest(q) <= Len(inode') BY <1>1, <3>1, Zenon
    <3>3. file <= Len(inode') BY <1>3
    <3> QED BY <1>9, <3>2, <3>3, ZenonT(30)
  <2> QED BY <2>1, <2>2, Zenon DEF Sibling, Dest
<1>20. \A d \in DbClients \ {c} : dbReq[d].path \notin shared'
         /\ (Writing(dbReq[d]) \/ Feeding(dbReq[d])) => dbReq[d].file # file
  BY <1>7, <1>8, Zenon
<1>21. ReqFits(next, Len(inode'))
  <2>1. dbReq[c].pos = 0 /\ dbReq[c].answer = "" BY OneRequest, Zenon DEF ReqFits
  <2> QED BY <1>3, <1>14, <2>1, Zenon DEF ReqFits
<1>22. Progress(next, shared', inode') BY Zenon DEF Progress, Emptied
<1>23. Replayed(next, shared', inode', dbs) BY Zenon DEF Replayed
<1>24. DbTypeOK' BY <1>3, <1>19, Zenon DEF DbInv, DbTypeOK
<1>25. FilesFit' BY <1>15, <1>16, <1>17, <1>18, Zenon DEF FilesFit
<1>26. ReqsFit'
  <2> SUFFICES ASSUME NEW d \in DbClients
               PROVE  /\ ReqFits(dbReq'[d], Len(inode')) /\ Progress(dbReq'[d], shared', inode')
                      /\ Replayed(dbReq'[d], shared', inode', dbs')
    BY Zenon DEF ReqsFit
  <2>1. CASE d = c BY <1>13, <1>21, <1>22, <1>23, <2>1, Zenon
  <2>2. CASE d # c
    <3>1. dbReq[d].path \notin shared' /\ (Writing(dbReq[d]) \/ Feeding(dbReq[d])) => dbReq[d].file # file
      BY <1>20, <2>2, Zenon
    <3> QED BY <1>3, <1>13, <2>2, <3>1, OthersGoOn, ZenonT(30)
  <2> QED BY <2>1, <2>2, Zenon
<1> QED BY <1>24, <1>25, <1>26, Zenon DEF DbInv

LEMMA BackupFits ==
  ASSUME DbInv, NEW c \in DbClients, backup(c)
  PROVE  DbInv'
<1> DEFINE p == dbReq[c].path
           beside == {d \in DbClients \ {c} : dbReq[d].op = "backup" /\ dbReq[d].path = p
                                                /\ dbReq[d].pc \in {"dump", "copy"}}
           file == IF entry[<<p, TRUE>>] = NoFile THEN Len(inode) + 1 ELSE entry[<<p, TRUE>>]
           next == [dbReq[c] EXCEPT !.pc = "dump", !.file = file]
<1>1. UNCHANGED <<server, cfgPort, events, sent, dbs>> BY Zenon DEF backup, outside
<1>2. dbReq[c].op = "backup" /\ dbReq[c].pc = "check" BY Zenon DEF backup
<1>3. p \in DbPaths BY <1>2, OneRequest, Zenon DEF ReqFits
<1>4. CASE Answer(c, "InvalidPath") /\ UNCHANGED files
  <2>1. "InvalidPath" \in DbAnswers BY Zenon DEF DbAnswers
  <2> QED BY <1>1, <1>4, <2>1, Refuses, Zenon DEF files
<1>5. CASE Answer(c, "Internal") /\ UNCHANGED files
  <2>1. "Internal" \in DbAnswers BY Zenon DEF DbAnswers
  <2> QED BY <1>1, <1>5, <2>1, Refuses, Zenon DEF files
<1>6. CASE /\ inode' = IF entry[<<p, TRUE>>] = NoFile THEN inode \o <<<<>>>>
                       ELSE [inode EXCEPT ![file] = <<>>]
           /\ entry' = [entry EXCEPT ![<<p, TRUE>>] = file]
           /\ shared' = IF beside = {} THEN shared ELSE shared \cup {p}
           /\ DbGoto(c, next)
  <2>1. \A d \in DbClients \ {c} : Writing(dbReq[d]) /\ dbReq[d].path = p => p \in shared'
    <3> SUFFICES ASSUME NEW d \in DbClients \ {c}, Writing(dbReq[d]), dbReq[d].path = p
                 PROVE  p \in shared'
      BY Zenon
    <3>1. dbReq[d].op = "backup" BY OneRequest, Zenon DEF ReqFits
    <3>2. d \in beside BY <3>1, Zenon DEF Writing
    <3> QED BY <1>6, <3>2, Zenon
  <2>2. shared \subseteq shared' BY <1>6, Zenon
  <2>3. IF Sibling(p) = NoFile THEN file = Len(inode) + 1 ELSE file = Sibling(p) BY Zenon DEF Sibling
  <2>6. inode' = IF Sibling(p) = NoFile THEN inode \o <<<<>>>> ELSE [inode EXCEPT ![file] = <<>>]
    BY <1>6, Zenon DEF Sibling
  <2>4. /\ entry' = [entry EXCEPT ![<<p, TRUE>>] = file]
        /\ dbReq' = [dbReq EXCEPT ![c] = next]
    BY <1>6, Zenon DEF Sibling, DbGoto
  <2>5. p = dbReq[c].path BY Zenon
  <2> HIDE DEF p, file, beside
  <2>7. Emptied(file)
    BY <1>3, <2>3, <2>6, EmptyFile, Zenon
  <2>8. /\ Sibling(p) = NoFile => file = Len(inode) + 1
        /\ Sibling(p) # NoFile => file = Sibling(p)
    BY <2>3, Zenon
  <2>9. next \in DbReqs
    <3>1. "dump" \in DbPcs BY Zenon DEF DbPcs
    <3>2. file \in Nat BY <2>7 DEF Emptied
    <3> QED BY <3>1, <3>2, OneRequest, Zenon DEF DbReqs
  <2>10. /\ next.pc = "dump" /\ next.op = "backup" /\ next.path = p /\ next.file = file
         /\ next.pos = dbReq[c].pos /\ next.answer = dbReq[c].answer
    BY <1>2, OneRequest, Zenon DEF DbReqs, p
  <2> HIDE DEF next
  <2> QED BY <1>1, <1>2, <1>3, <2>1, <2>2, <2>4, <2>5, <2>7, <2>8, <2>9, <2>10, BackupBegins, Zenon
<1> QED BY <1>4, <1>5, <1>6, Zenon DEF backup, tmp_sibling

(* The sibling is removed.                                                   *)
LEMMA FailFits ==
  ASSUME DbInv, NEW c \in DbClients, Writing(dbReq[c]), NEW a \in DbAnswers, Fail(c, a),
         UNCHANGED <<server, cfgPort, events, sent, dbs, inode, shared>>
  PROVE  DbInv'
<1> DEFINE p == dbReq[c].path
<1>1. p \in DbPaths BY OneRequest, Zenon DEF ReqFits
<1>2. Answer(c, a) /\ entry' = [entry EXCEPT ![<<p, TRUE>>] = NoFile] BY Zenon DEF Fail, tmp_sibling
<1>3. [entry EXCEPT ![<<p, TRUE>>] = NoFile]
        = [entry EXCEPT ![<<p, FALSE>>] = Dest(p), ![<<p, TRUE>>] = NoFile]
  BY <1>1, EntryTyped, Zenon DEF Dest
<1>4. p \notin shared /\ Dest(p) # NoFile => Whole(inode[Dest(p)])
  BY <1>1, Zenon DEF DbInv, FilesFit, BackupIsWhole, Dest
<1>5. p = dbReq[c].path BY Zenon
<1> HIDE DEF p
<1> QED BY <1>2, <1>3, <1>4, <1>5, LeaveStep, Zenon

(* One line of a dump.                                                       *)
LEMMA LineTyped ==
  \A gen \in [{"tables", "routines"} -> Nat], p \in {"tables", "routines"}, o \in {<<>>} \cup (DbClients \X Nat) :
    [part |-> p, gen |-> gen[p], of |-> o] \in DumpLines
  BY Zenon DEF DumpLines

(* The snapshot, in the order of the parts.                                  *)
LEMMA DumpInOrder ==
  ASSUME NEW gen \in [{"tables", "routines"} -> Nat], NEW o \in DbClients \X Nat
  PROVE  /\ Dump(gen, Parts, o) \in Seq(Lines)
         /\ InOrder(<<>>, 0, Dump(gen, Parts, o))
<1> DEFINE D == Dump(gen, Parts, o)
<1>1. DOMAIN Parts = 1 .. 2 /\ Parts[1] = "tables" /\ Parts[2] = "routines" BY DEF Parts
<1>2. D = [i \in 1 .. 2 |-> [part |-> Parts[i], gen |-> gen[Parts[i]], of |-> o]] BY <1>1, Zenon DEF Dump
<1>3. \A i \in 1 .. 2 : [part |-> Parts[i], gen |-> gen[Parts[i]], of |-> o] \in DumpLines
  <2>1. \A i \in 1 .. 2 : Parts[i] \in {"tables", "routines"} BY <1>1
  <2>2. o \in {<<>>} \cup (DbClients \X Nat) BY Zenon
  <2> QED BY <2>1, <2>2, LineTyped, Zenon
<1>4. \A i \in 1 .. 2 : D[i] \in Lines /\ D[i].part = Parts[i] /\ D[i].of = o
  BY <1>2, <1>3 DEF Lines
<1>5. DOMAIN D = 1 .. 2 /\ Len(D) = 2 BY <1>2
<1>6. D \in Seq(Lines) BY <1>2, <1>3 DEF Lines
<1> HIDE DEF D
<1>7. InOrder(<<>>, 0, D)
  <2>1. \A i \in 1 .. Len(D) : D[i].part = Parts[0 + i] /\ D[i].of = o BY <1>4, <1>5
  <2> QED BY <1>5, <2>1 DEF InOrder
<1> QED BY <1>6, <1>7, Zenon DEF D

LEMMA StartDumpFits ==
  ASSUME DbInv, NEW c \in DbClients, StartDump(c)
  PROVE  DbInv'
<1>1. UNCHANGED <<server, cfgPort, events, sent, dbs, inode, shared>> BY Zenon DEF StartDump, outside
<1>2. dbReq[c].pc = "dump" /\ Writing(dbReq[c]) BY Zenon DEF StartDump, Writing
<1>3. {"NotFound", "Internal"} \subseteq DbAnswers BY Zenon DEF DbAnswers
<1>4. CASE Fail(c, IF server.up THEN "NotFound" ELSE "Internal")
  <2>1. (IF server.up THEN "NotFound" ELSE "Internal") \in DbAnswers BY <1>3, Zenon
  <2> QED BY <1>1, <1>2, <1>4, <2>1, FailFits, Zenon
<1> DEFINE todo == Dump(dbs[dbReq[c].name], Parts, <<c, sent>>)
           next == [dbReq[c] EXCEPT !.pc = "copy", !.todo = todo]
<1>5. CASE dbReq[c].name \in DOMAIN dbs /\ DbGoto(c, next) /\ UNCHANGED entry
  <2>1. dbs[dbReq[c].name] \in [{"tables", "routines"} -> Nat] /\ <<c, sent>> \in DbClients \X Nat
    BY <1>5, Zenon DEF DbInv, DbTypeOK
  <2>2. todo \in Seq(Lines) /\ InOrder(<<>>, 0, todo) BY <2>1, DumpInOrder, Zenon
  <2>3. dbReq' = [dbReq EXCEPT ![c] = next] BY <1>5, Zenon DEF DbGoto
  <2> HIDE DEF todo
  <2>4. next \in DbReqs
    <3>1. "copy" \in DbPcs BY Zenon DEF DbPcs
    <3> QED BY <2>2, <3>1, OneRequest, Zenon DEF DbReqs
  <2>5. /\ next.pc = "copy" /\ next.op = dbReq[c].op /\ next.path = dbReq[c].path
        /\ next.file = dbReq[c].file /\ next.pos = dbReq[c].pos /\ next.todo = todo
    BY OneRequest, Zenon DEF DbReqs
  <2> HIDE DEF next
  <2>6. Writing(next) /\ ~Feeding(next) BY <2>5, Zenon DEF Writing, Feeding
  <2>7. ReqFits(next, Len(inode)) BY <1>2, <2>5, <2>6, OneRequest, Zenon DEF ReqFits
  <2>8. Progress(next, shared', inode')
    <3> SUFFICES ASSUME dbReq[c].path \notin shared
                 PROVE  InOrder(inode[dbReq[c].file], dbReq[c].pos, todo)
      BY <1>1, <2>5, Zenon DEF Progress
    <3>1. inode[dbReq[c].file] = <<>> BY <1>2, OneRequest, Zenon DEF Progress
    <3>2. dbReq[c].pos = 0 BY <1>2, OneRequest, Zenon DEF ReqFits
    <3> QED BY <2>2, <3>1, <3>2, Zenon
  <2>9. Replayed(next, shared', inode', dbs') BY <2>5, Zenon DEF Replayed
  <2>10. /\ sent' \in Nat
         /\ DOMAIN dbs \subseteq DbNames /\ dbs \in [DOMAIN dbs -> [{"tables", "routines"} -> Nat]]
    BY <1>1, Zenon DEF DbInv, DbTypeOK
  <2> QED BY <1>1, <1>2, <1>5, <2>3, <2>4, <2>5, <2>6, <2>7, <2>8, <2>9, <2>10, RequestStep, Zenon
<1> QED BY <1>4, <1>5, Zenon DEF StartDump, dump_args

LEMMA FinishFits ==
  ASSUME DbInv, NEW c \in DbClients, FinishDump(c)
  PROVE  DbInv'
<1> DEFINE p == dbReq[c].path
           r == dbReq[c]
<1>1. UNCHANGED <<server, cfgPort, events, sent, dbs, inode, shared>> BY Zenon DEF FinishDump, outside
<1>2. r.pc = "copy" /\ Writing(r) BY Zenon DEF FinishDump, Writing
<1>3. {"Ok", "Internal"} \subseteq DbAnswers BY Zenon DEF DbAnswers
<1>4. CASE Fail(c, "Internal") BY <1>1, <1>2, <1>3, <1>4, FailFits, Zenon
<1>5. CASE /\ r.todo = <<>> /\ Answer(c, "Ok")
           /\ entry' = [entry EXCEPT ![<<p, FALSE>>] = Sibling(p), ![<<p, TRUE>>] = NoFile]
  <2>1. p \notin shared => Whole(inode[Sibling(p)])
    <3> SUFFICES ASSUME p \notin shared PROVE Whole(inode[r.file])
      BY <1>2, Zenon DEF DbInv, FilesFit, WritersApart, WriterApart
    <3>1. InOrder(inode[r.file], r.pos, r.todo) BY <1>2, OneRequest, Zenon DEF Progress
    <3>2. r.file \in 1 .. Len(inode) BY <1>2, OneRequest, Zenon DEF ReqFits
    <3>3. inode[r.file] \in Seq(Lines) BY <3>2 DEF DbInv, DbTypeOK
    <3>4. Len(r.todo) = 0 BY <1>5
    <3>5. r.pos \in Nat BY OneRequest, Zenon DEF DbReqs
    <3>6. Len(inode[r.file]) = 2 /\ r.pos = 2 BY <3>1, <3>4, <3>5 DEF InOrder
    <3>7. PICK o : \A i \in 1 .. 2 : inode[r.file][i].part = Parts[i] /\ inode[r.file][i].of = o
      BY <3>1, <3>6, Zenon DEF InOrder
    <3>8. DOMAIN inode[r.file] = 1 .. 2 /\ Len(Parts) = 2 BY <3>3, <3>6 DEF Parts
    <3> QED BY <3>6, <3>7, <3>8 DEF Whole
  <2>2. p = dbReq[c].path BY Zenon
  <2> HIDE DEF p
  <2> QED BY <1>1, <1>2, <1>3, <1>5, <2>1, <2>2, LeaveStep, ZenonT(30)
<1> QED BY <1>4, <1>5, Zenon DEF FinishDump, tmp_sibling, Sibling

LEMMA DbInitFits ==
  ASSUME DbInit
  PROVE  DbInv
<1> DEFINE zero == [p \in {"tables", "routines"} |-> 0]
           first == Dump(zero, Parts, <<>>)
<1>1. first \in Seq(Lines) /\ Whole(first)
  <2> DEFINE none == <<>>
             D == Dump(zero, Parts, none)
  <2>1. none \in {<<>>} BY Zenon
  <2>2. zero \in [{"tables", "routines"} -> Nat] BY Zenon
  <2>3. DOMAIN Parts = 1 .. 2 /\ Len(Parts) = 2 /\ Parts[1] = "tables" /\ Parts[2] = "routines" BY DEF Parts
  <2> HIDE DEF none, zero
  <2>4. D = [i \in 1 .. 2 |-> [part |-> Parts[i], gen |-> zero[Parts[i]], of |-> none]] BY <2>3, Zenon DEF Dump
  <2>5. \A i \in 1 .. 2 : [part |-> Parts[i], gen |-> zero[Parts[i]], of |-> none] \in DumpLines
    <3>1. \A i \in 1 .. 2 : Parts[i] \in {"tables", "routines"} BY <2>3
    <3>2. none \in {<<>>} \cup (DbClients \X Nat) BY <2>1, Zenon
    <3> QED BY <3>1, <3>2, <2>2, LineTyped, Zenon
  <2>6. D \in Seq(Lines) BY <2>4, <2>5 DEF Lines
  <2>7. DOMAIN D = 1 .. 2 /\ Len(D) = 2 /\ \A i \in 1 .. 2 : D[i].part = Parts[i] /\ D[i].of = none
    <3> HIDE DEF D
    <3>1. DOMAIN D = 1 .. 2 /\ Len(D) = 2 BY <2>4
    <3>2. \A i \in 1 .. 2 : D[i] = [part |-> Parts[i], gen |-> zero[Parts[i]], of |-> none] BY <2>4, Zenon
    <3> QED BY <3>1, <3>2
  <2> HIDE DEF D
  <2>8. Whole(D) BY <2>3, <2>7 DEF Whole
  <2> QED BY <2>6, <2>8, Zenon DEF D, none
<1>2. inode = <<first>> BY Zenon DEF DbInit
<1> HIDE DEF first
<1>3. inode \in Seq(Seq(Lines)) /\ Len(inode) = 1 /\ inode[1] = first BY <1>1, <1>2
<1>4. /\ entry \in [DbPaths \X BOOLEAN -> {NoFile, 1}] /\ \A p \in DbPaths : entry[<<p, TRUE>>] = NoFile
      /\ dbReq = [c \in DbClients |-> DbIdle] /\ shared = {} /\ sent = 0 /\ events = 0
      /\ server \in [up : BOOLEAN, port : {1}] /\ cfgPort = 1
      /\ dbs = [n \in {"system", "app", "my-app"} |-> [p \in {"tables", "routines"} |-> 1]]
  BY Zenon DEF DbInit
<1>5. DbTypeOK
  <2>1. entry \in [DbPaths \X BOOLEAN -> Nat] BY <1>4 DEF NoFile
  <2>2. ASSUME NEW p \in DbPaths, NEW b \in BOOLEAN PROVE entry[<<p, b>>] <= Len(inode)
    BY <1>3, <1>4 DEF NoFile
  <2>3. dbReq \in [DbClients -> DbReqs] BY <1>4, IdleTyped, Zenon
  <2>4. DOMAIN dbs \subseteq DbNames /\ dbs \in [DOMAIN dbs -> [{"tables", "routines"} -> Nat]]
    BY <1>4, Zenon DEF DbNames
  <2>5. server \in [up : BOOLEAN, port : DbPorts] /\ cfgPort \in DbPorts /\ sent \in Nat /\ events \in Nat
    BY <1>4, Zenon DEF DbPorts
  <2> QED BY <1>3, <2>1, <2>2, <2>3, <2>4, <2>5, Zenon DEF DbTypeOK
<1>6. \A c \in DbClients : /\ ~Writing(dbReq[c]) /\ ~Feeding(dbReq[c]) /\ dbReq[c].op = ""
                           /\ dbReq[c].pos = 0 /\ dbReq[c].answer = "" /\ dbReq[c] \in DbReqs
  BY <1>4, IdleTyped, Zenon DEF DbIdle, Writing, Feeding
<1>7. FilesFit
  <2>1. SiblingsApart BY <1>4, Zenon DEF SiblingsApart, Sibling
  <2>2. WritersApart BY <1>6, Zenon DEF WritersApart
  <2>3. ReadersApart BY <1>6, Zenon DEF ReadersApart
  <2>4. BackupIsWhole
    <3> SUFFICES ASSUME NEW p \in DbPaths, entry[<<p, FALSE>>] # NoFile
                 PROVE  Whole(inode[entry[<<p, FALSE>>]])
      BY Zenon DEF BackupIsWhole
    <3>1. entry[<<p, FALSE>>] = 1 BY <1>4, Zenon
    <3> QED BY <1>1, <1>3, <3>1, Zenon
  <2> QED BY <2>1, <2>2, <2>3, <2>4, Zenon DEF FilesFit
<1>8. ReqsFit
  <2> SUFFICES ASSUME NEW c \in DbClients
               PROVE  /\ ReqFits(dbReq[c], Len(inode)) /\ Progress(dbReq[c], shared, inode)
                      /\ Replayed(dbReq[c], shared, inode, dbs)
    BY Zenon DEF ReqsFit
  <2>1. ReqFits(dbReq[c], Len(inode)) BY <1>6, Zenon DEF ReqFits
  <2> QED BY <1>6, <2>1, Settles, Zenon
<1> QED BY <1>5, <1>7, <1>8, Zenon DEF DbInv

LEMMA DbStepFits ==
  ASSUME DbInv, [DbNext]_dbvars
  PROVE  DbInv'
<1>1. CASE UNCHANGED dbvars
  BY <1>1, Zenon DEF dbvars, DbInv, DbTypeOK, FilesFit, ReqsFit, SiblingsApart, WritersApart, WriterApart,
                     ReadersApart, BackupIsWhole, Sibling, Dest
<1>2. ASSUME NEW c \in DbClients,
             \/ Send(c) \/ prepare(c) \/ list(c) \/ create(c) \/ drop(c)
             \/ backup(c) \/ StartDump(c) \/ Copy(c) \/ FinishDump(c) \/ restore(c) \/ Feed(c) \/ Fed(c)
      PROVE  DbInv'
  BY <1>2, SendFits, PrepareFits, ListFits, CreateFits, DropFits, BackupFits, StartDumpFits, CopyFits,
     FinishFits, RestoreFits, FeedFits, FedFits, Zenon
<1>3. CASE Event BY <1>3, EventFits, Zenon
<1>4. CASE Killed BY <1>4, KilledFits, Zenon
<1> QED BY <1>1, <1>2, <1>3, <1>4, Zenon DEF DbNext

(* The invariant of backups and restores: every file being written is one    *)
(* path's alone, no destination and nobody's source, in the order of its     *)
(* dump; unless two backups to the path ran at the same time (backup,        *)
(* restore).                                                                 *)
THEOREM DbInductive == DbSpec => []DbInv
<1>1. DbInit => DbInv BY DbInitFits, Zenon
<1>2. DbInv /\ [DbNext]_dbvars => DbInv' BY DbStepFits, Zenon
<1> QED BY <1>1, <1>2, PTL DEF DbSpec

(* A backup's destination always holds a complete dump of one moment: neither*)
(* a failing tool, a stopped server, a full disk nor a killed daemon leaves  *)
(* part of one there (backup: temp sibling and rename; dump_args).           *)
THEOREM BackupIsWholeAlways == DbSpec => []BackupIsWhole
<1>1. DbInv => BackupIsWhole BY Zenon DEF DbInv, FilesFit
<1> QED BY <1>1, DbInductive, PTL

(* No request changes a system database, nor does the application.           *)
LEMMA SystemStays ==
  ASSUME DbInv, "system" \in DOMAIN dbs, [DbNext]_dbvars
  PROVE  "system" \in DOMAIN dbs' /\ dbs'["system"] = dbs["system"]
<1>1. CASE UNCHANGED dbs BY <1>1, Zenon
<1>2. ASSUME NEW c \in DbClients, create(c) PROVE UNCHANGED dbs \/ Effect(create_sql(dbReq[c].name))
  BY <1>2, Zenon DEF create, run_client, Refuse
<1>3. ASSUME NEW c \in DbClients, drop(c)
      PROVE  UNCHANGED dbs \/ (Effect(drop_sql(dbReq[c].name)) /\ dbReq[c].name # "system")
  BY <1>3, Zenon DEF drop, run_client, Refuse, is_system_database
<1>4. ASSUME NEW c \in DbClients, Effect(create_sql(dbReq[c].name))
      PROVE  "system" \in DOMAIN dbs' /\ dbs'["system"] = dbs["system"]
  BY <1>4, Zenon DEF Effect, create_sql
<1>5. ASSUME NEW c \in DbClients, Effect(drop_sql(dbReq[c].name)), dbReq[c].name # "system"
      PROVE  "system" \in DOMAIN dbs' /\ dbs'["system"] = dbs["system"]
  <2>1. dbs' = [n \in DOMAIN dbs \ {dbReq[c].name} |-> dbs[n]] BY <1>5, Zenon DEF Effect, drop_sql
  <2> QED BY <1>5, <2>1, Zenon
<1>6. ASSUME NEW c \in DbClients, Feed(c)
      PROVE  "system" \in DOMAIN dbs' /\ dbs'["system"] = dbs["system"]
  <2>1. dbReq[c].name # "system" BY <1>6, OneRequest, Zenon DEF Feed, ReqFits, Feeding
  <2>2. UNCHANGED dbs \/ \E part, gen : dbs' = [dbs EXCEPT ![dbReq[c].name][part] = gen]
    BY <1>6, Zenon DEF Feed
  <2>3. dbs \in [DOMAIN dbs -> [{"tables", "routines"} -> Nat]] BY Zenon DEF DbInv, DbTypeOK
  <2> QED BY <1>1, <2>1, <2>2, <2>3, Zenon
<1>7. CASE Event
  <2>1. UNCHANGED dbs \/ dbs' = [dbs EXCEPT !["app"] = [p \in {"tables", "routines"} |-> 2 + events]]
    BY <1>7, Zenon DEF Event
  <2>2. dbs \in [DOMAIN dbs -> [{"tables", "routines"} -> Nat]] BY Zenon DEF DbInv, DbTypeOK
  <2> QED BY <1>1, <2>1, <2>2, Zenon
<1>8. ASSUME NEW c \in DbClients,
             \/ Send(c) \/ prepare(c) \/ list(c) \/ backup(c) \/ StartDump(c) \/ Copy(c)
             \/ FinishDump(c) \/ restore(c) \/ Fed(c)
      PROVE  UNCHANGED dbs
  BY <1>8, Zenon DEF Send, prepare, list, backup, StartDump, Copy, FinishDump, restore, Fed
<1>9. CASE Killed \/ UNCHANGED dbvars BY <1>1, <1>9, Zenon DEF Killed, dbvars
<1>10. ASSUME NEW c \in DbClients,
              \/ Send(c) \/ prepare(c) \/ list(c) \/ create(c) \/ drop(c)
              \/ backup(c) \/ StartDump(c) \/ Copy(c) \/ FinishDump(c) \/ restore(c) \/ Feed(c) \/ Fed(c)
       PROVE  "system" \in DOMAIN dbs' /\ dbs'["system"] = dbs["system"]
  BY <1>1, <1>2, <1>3, <1>4, <1>5, <1>6, <1>8, <1>10, ZenonT(30)
<1> QED BY <1>7, <1>9, <1>10, Zenon DEF DbNext

(* A request that others, the service or the application leave alone.        *)
LEMMA AnsweredByItself ==
  ASSUME DbInv, [DbNext]_dbvars, NEW c \in DbClients, dbReq[c].pc = "feed", dbReq'[c].answer = "Ok"
  PROVE  dbReq[c].pos = Len(inode[dbReq[c].file])
<1>1. dbReq[c].answer = "" BY OneRequest, Zenon DEF ReqFits, Feeding
<1>2. dbReq'[c] # dbReq[c] BY <1>1, Zenon
<1>3. ~UNCHANGED dbReq BY <1>2, Zenon
<1>4. ASSUME NEW d \in DbClients, NEW r, dbReq' = [dbReq EXCEPT ![d] = r]
      PROVE  d = c /\ dbReq'[c] = r
  <2>1. dbReq \in [DbClients -> DbReqs] BY OneRequest, Zenon
  <2> QED BY <1>2, <1>4, <2>1, Zenon
<1>5. PICK d \in DbClients :
        \/ Send(d) \/ prepare(d) \/ list(d) \/ create(d) \/ drop(d)
        \/ backup(d) \/ StartDump(d) \/ Copy(d) \/ FinishDump(d) \/ restore(d) \/ Feed(d) \/ Fed(d)
  <2>1. ~UNCHANGED dbvars BY <1>3, Zenon DEF dbvars
  <2>2. ~Event BY <1>3, Zenon DEF Event
  <2>3. ~Killed
    <3>1. Killed => dbReq'[c] = DbIdle BY Zenon DEF Killed
    <3>2. DbIdle.answer = "" BY Zenon DEF DbIdle
    <3> QED BY <3>1, <3>2, Zenon
  <2> QED BY <2>1, <2>2, <2>3, Zenon DEF DbNext
<1>6. \E r : dbReq' = [dbReq EXCEPT ![d] = r]
  <2>1. ASSUME NEW a, Answer(d, a) PROVE \E r : dbReq' = [dbReq EXCEPT ![d] = r]
    BY <2>1, Zenon DEF Answer, DbGoto
  <2>2. ASSUME NEW a, DbGoto(d, a) PROVE \E r : dbReq' = [dbReq EXCEPT ![d] = r]
    BY <2>2, Zenon DEF DbGoto
  <2>3. ASSUME Send(d) PROVE \E r : DbGoto(d, r) BY <2>3, Zenon DEF Send
  <2>4. ASSUME prepare(d) \/ list(d) \/ backup(d) \/ restore(d) \/ Feed(d) \/ Copy(d) \/ StartDump(d)
        PROVE  \E r : Answer(d, r) \/ DbGoto(d, r)
    BY <2>4, Zenon DEF prepare, list, backup, restore, Feed, Copy, StartDump, Fail
  <2>5. ASSUME create(d) \/ drop(d) \/ FinishDump(d) \/ Fed(d) PROVE \E r : Answer(d, r)
    BY <2>5, Zenon DEF create, drop, run_client, Refuse, FinishDump, Fail, Fed
  <2> QED BY <1>5, <2>1, <2>2, <2>3, <2>4, <2>5, Zenon
<1>7. d = c BY <1>4, <1>6, Zenon
<1>8. Feed(c) \/ Fed(c)
  BY <1>5, <1>7, Zenon DEF Send, prepare, list, create, drop, backup, StartDump, Copy, FinishDump, restore
<1>9. ~Answer(c, "Internal")
  <2>1. Answer(c, "Internal") => dbReq'[c].answer = "Internal" BY OneRequest DEF Answer, DbGoto, DbReqs
  <2> QED BY <2>1, Zenon
<1>10. ~DbGoto(c, [dbReq[c] EXCEPT !.pos = @ + 1])
  <2>1. DbGoto(c, [dbReq[c] EXCEPT !.pos = @ + 1]) => dbReq'[c].answer = dbReq[c].answer
    BY OneRequest, Zenon DEF DbGoto, DbReqs
  <2> QED BY <1>1, <2>1, Zenon
<1>11. ~Feed(c) BY <1>9, <1>10, Zenon DEF Feed
<1> QED BY <1>8, <1>9, <1>11, Zenon DEF Fed

LEMMA RestoreStep ==
  ASSUME DbInv, "system" \in DOMAIN dbs, [DbNext]_dbvars
  PROVE  RestoresBackup
<1>1. ASSUME NEW c \in DbClients, dbReq[c].pc = "feed", dbReq'[c].answer = "Ok",
             dbReq[c].name \notin shared, dbReq[c].path \notin shared
      PROVE  /\ dbReq[c].name \in DOMAIN dbs
             /\ \A i \in DOMAIN Parts : dbs[dbReq[c].name][Parts[i]] = inode[dbReq[c].file][i].gen
  <2>1. dbReq[c].pos = Len(inode[dbReq[c].file]) BY <1>1, AnsweredByItself, Zenon
  <2>2. Whole(inode[dbReq[c].file]) BY <1>1, OneRequest, Zenon DEF Progress
  <2>3. DOMAIN Parts = 1 .. 2 /\ Len(Parts) = 2 BY DEF Parts
  <2>4. dbReq[c].pos = 2 BY <2>1, <2>2, <2>3, Zenon DEF Whole
  <2>5. /\ dbReq[c].name \in DOMAIN dbs
        /\ \A i \in 1 .. 2 : i <= dbReq[c].pos =>
             dbs[dbReq[c].name][Parts[i]] = inode[dbReq[c].file][i].gen
    BY <1>1, OneRequest, Zenon DEF Replayed
  <2>6. \A i \in 1 .. 2 : i <= dbReq[c].pos BY <2>4
  <2> QED BY <2>3, <2>5, <2>6, Zenon
<1>2. "system" \in DOMAIN dbs' /\ dbs'["system"] = dbs["system"] BY SystemStays, Zenon
<1> QED BY <1>1, <1>2, Zenon DEF RestoresBackup

(* A restore answered with Ok has put all of the backup into the database,   *)
(* and no request ever changes a system database (restore, restore_args,     *)
(* is_system_database).                                                      *)
THEOREM RestoresBackupAlways == DbSpec => [][RestoresBackup]_dbvars
<1> DEFINE SystemHeld == "system" \in DOMAIN dbs
<1>1. DbInit => SystemHeld BY Zenon DEF DbInit
<1>2. DbInv /\ SystemHeld /\ [DbNext]_dbvars => SystemHeld' BY SystemStays, Zenon
<1>3. DbInv /\ SystemHeld /\ [DbNext]_dbvars => RestoresBackup BY RestoreStep, Zenon
<1> HIDE DEF SystemHeld
<1> QED BY <1>1, <1>2, <1>3, DbInductive, PTL DEF DbSpec
=============================================================================
