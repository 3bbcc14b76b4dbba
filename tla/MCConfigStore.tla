--------------------------- MODULE MCConfigStore ----------------------------
(* Two roots with a project directory each, and two clients (ConfigStore);   *)
(* or a create-site job, as it comes to its end (CreateSite, whose safety     *)
(* MCServices checks with two).  A behaviour is of one of the two.           *)
EXTENDS ConfigStore

CONSTANTS r1, r2, d1, d2, Ids, Names

MCRootOf(d) == IF d = d1 THEN r1 ELSE r2

VARIABLES part, job, reserved, dir, db, sqlServer, sites, others
C == INSTANCE CreateSite WITH Dbs <- {"d"}, Steps <- 1
cvars == <<job, reserved, dir, db, sqlServer, sites, others>>

\* The two roots are interchangeable, each with its directory: of two initial
\* states that are mirror images of each other one is enough.
Representative ==
  /\ disk.roots # {r2}
  /\ disk.roots # {r1} =>
       <<dirs[d1], dirs[d2]>> \notin {<<"empty", "absent">>, <<"app", "absent">>, <<"app", "empty">>}

MCInit ==
  /\ part \in {"store", "create"} /\ Init /\ C!CreateInit /\ Representative
  /\ part = "create" => disk.roots = {} /\ \A d \in Dirs : dirs[d] = "absent"
MCNext ==
  \/ part = "store" /\ Next /\ UNCHANGED <<part, cvars>>
  \/ part = "create" /\ C!CreateNext /\ UNCHANGED <<part, vars>>
Store(A) == part = "store" /\ A /\ UNCHANGED <<part, cvars>>
MCSpec ==
  /\ MCInit /\ [][MCNext]_<<part, vars, cvars>>
  /\ WF_vars(Store(WatcherStep)) /\ \A t \in Tasks : WF_vars(Store(TaskStep(t)))
  /\ \A j \in Ids : WF_cvars(part = "create" /\ C!JobStep(j) /\ UNCHANGED <<part, vars>>)

\* A rebuild that an event asked for happens and serves what it saw, or the
\* daemon is down or kept its last routing (fs_watch run), and every
\* create-site job ends with an outcome, whatever fails (run_job).
EventuallyDone ==
  /\ part = "store" => EventuallyServed
  /\ part = "create" => C!EveryJobEnds
=============================================================================
