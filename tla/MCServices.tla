---------------------------- MODULE MCServices -----------------------------
(* What the daemon runs and keeps for all sites, one component to a behaviour: *)
(* an engine's versions and data (ServiceEngine), the start of one server      *)
(* (ServiceStart), databases and backups (Databases), the jobs that create     *)
(* sites (CreateSite) and their registry (Jobs), captured mail (Mail), dumps   *)
(* (Dumps), config.toml (ConfigFile).                                          *)
EXTENDS ServiceEngine, CreateSite, Databases, TLC

CONSTANTS
    Components  \* the components of this run

(* Two versions of each kind of engine: Redis (a shared directory), MySQL and  *)
(* MariaDB (shared, initialised), PostgreSQL (two majors, initialised) and     *)
(* Meilisearch (a directory per version).                                      *)
Shared == [v \in Versions |-> 0]
Own == [v \in Versions |-> v]
Redis == [dir |-> Shared, exact |-> FALSE, init |-> FALSE]
MySql == [dir |-> Shared, exact |-> FALSE, init |-> TRUE]
Postgres == [dir |-> Own, exact |-> FALSE, init |-> TRUE]
Meilisearch == [dir |-> Own, exact |-> TRUE, init |-> FALSE]
AllEngines == {Redis, MySql, Postgres, Meilisearch}
OneEngine == {Redis}

\* Two builds of a major, one with the extensions, and the next major.
PgPlain == <<<<16, "">>, <<4, "">>>>
PgFull == <<<<16, "">>, <<10, "-full">>>>
PgNext == <<<<17, "">>>>

\* One line, lines that begin with dots, more lines than are kept.
SmtpTexts == {<<<<0, "a">>>>, <<<<1, "">>, <<1, "b">>>>, <<<<0, "a">>, <<0, "b">>, <<0, "a">>>>}

(* config.toml: a request or a line for each rule of its validators.           *)
Text(w, n, m) == [w |-> w, n |-> n, m |-> m]
NoText == Text("none", 0, {})
Line(sec, at, key, val) == [sec |-> sec, at |-> at, key |-> key, val |-> val]

V3 == Text("8.3", 3, {})
Key(w) == Text(w, 12, {})
Plain(w) == Text(w, 4, {})
Port(n) == Text("p", n, {})
Blog == Text("blog", 4, {})

FileRequests ==
    {Line("settings", NoText, Key("memory_limit"), Text("16", 2, {"pad"})),
     Line("settings", NoText, Key("memory_limit"), Text("", 0, {})),
     Line("version_settings", V3, Key("memory_limit"), Text("2000", 4, {})),
     Line("version_settings", V3, Key("display_errors"), Text("0", 1, {})),
     Line("directives", V3, Text("opcache.jit", 11, {"dot"}), Text("tracing", 9, {"pad"})),
     Line("directives", V3, Key("memory_limit"), Text("16", 2, {})),
     Line("pool", V3, Key("max_children"), Text("16", 3, {"zeros"})),
     Line("extensions", V3, NoText, Text("xdebug", 20, {"slash", "so"})),
     Line("service_overrides", Plain("redis"), Key("maxmemory"), Text("100mb", 6, {"pad"})),
     Line("service_overrides", Text("mysql", 5, {"site"}), Key("max_connections"), Text("16", 2, {})),
     Line("service_overrides", Plain("postgres"), Key("port"), Text("16", 2, {})),
     Line("services", NoText, Plain("redis"), Text("false", 1, {})),
     Line("mail", NoText, Text("port", 1, {}), Port(0)),
     Line("ports", NoText, Port(8080), Port(9090)),
     Line("groups", NoText, Text("work", 4, {"pad", "upper"}), NoText),
     Line("rename_group", NoText, Text("work", 4, {}), Text("home", 4, {})),
     Line("members", NoText, Text("blog", 4, {"upper"}), Text("work", 4, {})),
     Line("linked", NoText, Text("blog", 4, {"upper"}), Text("public", 6, {})),
     Line("added", Blog, Text("api", 3, {"upper"}), NoText),
     Line("primary", Blog, Text("api", 3, {}), NoText),
     Line("proxies", NoText, Text("app", 3, {"upper"}), Text("up:9000", 9, {"upper"})),
     Line("proxy_rules", Blog, Text("ws", 4, {"slash", "tail"}), Text("up:80", 9, {})),
     Line("route_rules", Blog, Text("old", 4, {"slash"}), Text("index", 9, {})),
     Line("tunnel_sites", NoText, Text("blog", 4, {}), Text("blog.example.com", 16, {"dot"}))}

FileHandLines ==
    {Line("settings", NoText, Key("memory_limit"), Text("lots", 4, {"odd"})),
     Line("version_settings", V3, Key("memory_limit"), Text("16", 2, {"ctl"})),
     Line("directives", V3, Text("pm.", 15, {"dot"}), Text("2", 1, {})),
     Line("pool", V3, Key("max_children"), Text("16", 3, {"pad"})),
     Line("service_overrides", Plain("redis"), Key("bind"), Text("all", 3, {})),
     Line("service_overrides", Plain("postgres"), Key("work_mem"), Text("4MB", 5, {"quote", "pad"})),
     Line("services", NoText, Plain("redis"), NoText),
     Line("mystery", NoText, Key("x"), NoText),
     Line("proxies", NoText, Blog, Text("up:80", 9, {}))}

FileOldFiles ==
    {[ver |-> 2, lines |-> {Line("services_enabled", NoText, Plain("redis"), NoText)}],
     [ver |-> 14, lines |-> {Line("services", NoText, Plain("redis"), Text("false", 1, {})),
                             Line("services", Blog, Plain("reverb"), NoText)}],
     [ver |-> 23, lines |-> {Line("services", NoText, Plain("mysql"), Text("false", 1, {}))}],
     [ver |-> 24, lines |-> {}]}

-----------------------------------------------------------------------------
\* A behaviour is of one component, `part`: ServiceEngine, CreateSite, Databases,
\* or another whose variables the y's stand for.
VARIABLES part, y1, y2, y3, y4, y5, y6, y7, y8, y9, y10, y11, y12

Start == INSTANCE ServiceStart WITH
    Types <- {"redis", "mysql", "postgres", "meilisearch", "reverb"},
    Labels <- {PgPlain, PgFull, PgNext}, Overrides <- {{}, {"a"}},
    Window <- 1, MaxAttempts <- 2, MaxStarts <- 2, MaxFaults <- 1,
    type <- y1, tree <- y2, disk <- y3, procs <- y4, foreign <- y6, inst <- y5,
    job <- y7, spare <- y8
Mailbox == INSTANCE Mail WITH
    Conns <- {"c"}, Messages <- SmtpTexts, Cap <- 2, MaxBytes <- 2, MaxMail <- 3, MaxMailOps <- 3,
    conn <- y1, mem <- y2, eml <- y3, index <- y4, job <- y5, mailUp <- y6,
    owed <- y7, used <- y8, mails <- y9, mailOps <- y10
Capture == INSTANCE Dumps WITH
    Windows <- {1}, Requests <- {1, 2, 3}, RingCap <- 2, RemovedCap <- 3, Retained <- 2,
    DumpPorts <- {1, 2}, Setters <- {1, 2}, MaxFrames <- 5, MaxDeletes <- 1, MaxSets <- 3,
    ring <- y1, persist <- y2, win <- y3, dumps <- y4, saved <- y5,
    stateFile <- y6, srv <- y7, taken <- y8, setter <- y9, pools <- y10,
    unsaved <- y12, left <- y11
Registry(jobs, lines) == INSTANCE Jobs WITH
    Clients <- {1}, LOG_CAP <- 2, TERMINAL_CAP <- 1, MaxJobs <- jobs, MaxLines <- lines,
    next <- y1, map <- y2, task <- y8, client <- y3
File == INSTANCE ConfigFile WITH
    Requests <- FileRequests, HandLines <- FileHandLines, OldFiles <- FileOldFiles, MaxOps <- 3,
    file <- y1, cfg <- y4, pc <- y2, want <- y3, edited <- y5, reply <- y6,
    ops <- y7

\* The trees a publisher ships, and at most one data directory to begin with;
\* none for Meilisearch, which has one per version.  Whether the build with
\* extensions is there makes a difference to PostgreSQL.
InstalledAsPublished ==
    /\ y2[PgPlain] = {"server", "init"}
    /\ y2[PgFull] \in {{}, {"server", "init", "timescaledb"}}
    /\ y1 # "postgres" => y2[PgFull] # {}
    /\ y2[PgNext] \in {{"timescaledb"}, {"server"}}
    /\ Cardinality({d \in Start!Dirs : y3.data[d] # 0}) <= IF y1 = "meilisearch" THEN 0 ELSE 1
    /\ y3.local = "absent" => y2[PgNext] = {"server"}

\* Dumps: frames arrive, or settings change on a host with taken ports.
FramesOrSettings ==
    /\ y4.port = 1
    /\ y11.frames > 0 => y8 = {}
    /\ y11.sets > 0 => ~y2

\* There is no engine where ServiceEngine is not the component.
EngineRests ==
    /\ engine = Nil /\ installed = {} /\ data = << >> /\ cfg = Nil /\ inst = Nil /\ servers = {}
    /\ lock = Nil /\ task = << >> /\ stopped = "no" /\ mishaps = {} /\ left = 0 /\ boots = 0
DbRests == server = [up |-> FALSE, port |-> 1] /\ build = {} /\ \A p \in DbPaths : entry[<<p, FALSE>>] = NoFile
YRests == /\ y1 = 0 /\ y2 = 0 /\ y3 = 0 /\ y4 = 0 /\ y5 = 0 /\ y6 = 0
          /\ y7 = 0 /\ y8 = 0 /\ y9 = 0 /\ y10 = 0 /\ y11 = 0 /\ y12 = 0
y == <<y1, y2, y3, y4, y5, y6, y7, y8, y9, y10, y11, y12>>

MCInit ==
  /\ part \in Components /\ CreateInit
  /\ sqlEngine \in IF part = "databases" THEN SqlEngines ELSE {CHOOSE e \in SqlEngines : TRUE}
  /\ DbInit /\ (part # "databases" => DbRests)
  /\ \/ /\ part = "engine" /\ Init /\ YRests
     \/ /\ part = "start" /\ Start!StartInit /\ EngineRests /\ InstalledAsPublished
        /\ y9 = 0 /\ y10 = 0 /\ y11 = 0 /\ y12 = 0
     \/ part \in {"databases", "create"} /\ EngineRests /\ YRests
     \/ /\ part = "mail" /\ Mailbox!MailInit /\ EngineRests
        /\ y11 = 0 /\ y12 = 0
     \/ /\ part = "dumps" /\ Capture!DumpInit /\ EngineRests /\ FramesOrSettings
     \/ /\ \/ part = "jobs" /\ Registry(2, 3)!Init
           \/ part = "prune" /\ Registry(4, 1)!Init
        /\ EngineRests
        /\ y4 = 0 /\ y5 = 0 /\ y6 = 0 /\ y7 = 0 /\ y9 = 0 /\ y10 = 0 /\ y11 = 0 /\ y12 = 0
     \/ /\ part = "file" /\ File!Init /\ EngineRests
        /\ y8 = 0 /\ y9 = 0 /\ y10 = 0 /\ y11 = 0 /\ y12 = 0
MCNext ==
  /\ part' = part
  /\ part # "create" => UNCHANGED createvars
  /\ part # "databases" => UNCHANGED dbvars
  /\ \/ part = "engine" /\ Next /\ UNCHANGED y
     \/ part = "start" /\ Start!StartNext /\ UNCHANGED <<vars, y9, y10, y11, y12>>
     \/ part = "databases" /\ DbNext /\ UNCHANGED <<vars, y>>
     \/ part = "create" /\ CreateNext /\ UNCHANGED <<vars, y>>
     \/ part = "mail" /\ Mailbox!MailNext /\ UNCHANGED <<vars, y11, y12>>
     \/ part = "dumps" /\ Capture!DumpNext /\ UNCHANGED vars
     \/ part = "jobs" /\ Registry(2, 3)!Next /\ UNCHANGED <<vars, y4, y5, y6, y7, y9, y10, y11, y12>>
     \/ part = "prune" /\ Registry(4, 1)!Next /\ UNCHANGED <<vars, y4, y5, y6, y7, y9, y10, y11, y12>>
     \/ part = "file" /\ File!Next /\ UNCHANGED <<vars, y8, y9, y10, y11, y12>>
x == <<part, vars, createvars, dbvars, y>>
MCSpec == MCInit /\ [][MCNext]_x

-----------------------------------------------------------------------------
\* A server runs only on a whole data directory of its major, a start answered
\* as done runs what it was asked for, and no way for a start or stop to end
\* leaves a server the manager does not hold (ServiceStart's DataIsWhole,
\* StartedAsAsked and NoServerLeft).
StartIsSafe == part = "start" => Start!DataIsWhole /\ Start!StartedAsAsked /\ Start!NoServerLeft

\* What was captured is shown: a queued mail stays listed under an id of its
\* own until it is deleted or evicted, also across a kill (QueuedIsKept,
\* OneMailPerId); a poll of the dumps window leaves it showing the ring, and
\* the server settles on the configured port (PollShowsTheRing, SettledOnPort);
\* a poller of a job's log can account for every line, and the ring never
\* outgrows its cap (NoSilentLoss, TypeOK).
CapturedIsShown ==
  /\ part = "mail" => Mailbox!QueuedIsKept /\ Mailbox!OneMailPerId
  /\ part = "dumps" => Capture!PollShowsTheRing /\ Capture!SettledOnPort
  /\ part = "jobs" => Registry(2, 3)!TypeOK /\ Registry(2, 3)!NoSilentLoss

\* What was saved is kept and read back: a start reads the acknowledged
\* configuration, keeps the services of an older file and is never kept down
\* by a bad lenient line; what was accepted is in the rendered files; a restore
\* that answers Ok replayed the whole backup; a database goes only with the job
\* that created it, and a job's outcome only by prune_terminal (StartReadsBack,
\* MigratesAll, LenientNeverRefused, AcceptedIsRendered, RestoresBackup,
\* DropsOwnOnly, KeepsOutcomes).
SavedIsKept ==
  [][/\ part = "file" => /\ File!TypeOK /\ File!StartReadsBack /\ File!MigratesAll
                         /\ File!LenientNeverRefused /\ File!AcceptedIsRendered
     /\ part = "databases" => RestoresBackup
     /\ part = "create" => DropsOwnOnly
     /\ part = "jobs" => Registry(2, 3)!KeepsOutcomes
     /\ part = "prune" => Registry(4, 1)!KeepsOutcomes]_x

Symmetry == Permutations(Tasks)
=============================================================================
