----------------------------- MODULE Databases ------------------------------
(***************************************************************************)
(* Database administration: list, create, drop, back up and restore a      *)
(* database of the running SQL server (yerdd db_admin.rs over the pure     *)
(* yerd-services database.rs).  Each request prepares its context under    *)
(* short locks and then runs the engine's client with no lock held, so     *)
(* that requests, the server's stops and starts, and the application's own *)
(* writes interleave.                                                      *)
(*                                                                         *)
(* A database is what it holds of each part a dump may carry; a dump is    *)
(* the sequence of the statements that rebuild them.  A file is an inode,  *)
(* a path or its ".yerd-part" sibling names one.                           *)
(***************************************************************************)
EXTENDS Integers, Sequences, FiniteSets

CONSTANTS
    SqlEngines,        \* the SQL engines an instance covers
    DbClients,      \* connections that send a request
    DbPaths,        \* destinations of backups
    MaxDbRequests,    \* requests sent
    MaxDbEvents       \* stops, starts, port changes and application writes

\* Names by what the validators and the engines tell apart; "my-app" is a name
\* only the engine makes.
DbNames == {"app", "my-app", "", "system"}
Parts == <<"tables", "routines">>
DbPorts == {1, 2}
NoFile == 0
Hole == [part |-> "hole", gen |-> 0, of |-> <<>>]

VARIABLES
    sqlEngine,     \* the engine of the service
    server,     \* [up, port]: the process, and the port it listens on
    cfgPort,    \* the port of the configuration
    build,      \* the binaries the installed build includes
    dbs,        \* [database -> [part -> generation]]
    inode,      \* sequence of the contents of the files
    entry,      \* [<<path, TRUE for its .yerd-part>> -> inode or NoFile]
    dbReq,      \* the request of each client
    shared,     \* paths two backups wrote to at the same time, and databases that
                \* were changed beside a restore
    sent, events

dbvars == <<sqlEngine, server, cfgPort, build, dbs, inode, entry, dbReq, shared, sent, events>>

DbIdle == [pc |-> "idle", op |-> "", name |-> "", path |-> "", port |-> 0, file |-> NoFile, pos |-> 0,
         todo |-> <<>>, answer |-> "", rows |-> {}]

\* The dump `of` a database that holds gen of each part.
Dump(gen, parts, of) == [i \in DOMAIN parts |-> [part |-> parts[i], gen |-> gen[parts[i]], of |-> of]]
Whole(content) ==
    /\ Len(content) = Len(Parts)
    /\ \A i \in DOMAIN content : content[i].part = Parts[i] /\ content[i].of = content[1].of

-----------------------------------------------------------------------------
\* The strict policy for the names Yerd creates ("system" is well formed).
validate_db_name(n) == n \notin {"", "my-app"}
validate_existing_db_name(n) == n # ""
is_system_database(n) == n = "system"

\* quote_ident keeps every name apart in the statements.
create_sql(n) == [verb |-> "create", db |-> n]
drop_sql(n) == [verb |-> "drop", db |-> n]

\* client_args: MySQL and MariaDB connect over the one socket, PostgreSQL to the
\* port that was read from the configuration.
client_args(port) == server.up /\ (sqlEngine = "postgres" => port = server.port)

dump_args_Bare(e) == [parts |-> IF e = "postgres" THEN Parts ELSE <<"tables">>, clean |-> e # "postgres"]

\* dump_args: what the dump carries (without --routines --events --triggers only
\* the tables), and whether replaying it drops what is there first (default in
\* MySQL, --clean --if-exists in PostgreSQL).
dump_args(e) == [parts |-> Parts, clean |-> TRUE]

\* restore_args: whether a failing statement ends the client with an error
\* (default in MySQL, ON_ERROR_STOP=1 in PostgreSQL).
restore_args(e) == [stops |-> TRUE]

\* What list_sql returns, and parse_db_list of it (hexadecimal names are decoded exactly).
list_sql == DOMAIN dbs
parse_db_list(rows) == {n \in rows : ~is_system_database(n)}

tmp_sibling(path) == <<path, TRUE>>

-----------------------------------------------------------------------------
DbInit ==
    /\ sqlEngine \in SqlEngines
    /\ server \in [up : BOOLEAN, port : {1}] /\ cfgPort = 1
    /\ build \in {{"client", "dump"}, {"client"}, {}}
    /\ dbs = [n \in {"system", "app", "my-app"} |-> [p \in {"tables", "routines"} |-> 1]]
    /\ inode = <<Dump([p \in {"tables", "routines"} |-> 0], Parts, <<>>)>>
    /\ entry \in [DbPaths \X BOOLEAN -> {NoFile, 1}]
    /\ \A p \in DbPaths : entry[<<p, TRUE>>] = NoFile
    /\ dbReq = [c \in DbClients |-> DbIdle]
    /\ shared = {} /\ sent = 0 /\ events = 0

DbGoto(c, r) == dbReq' = [dbReq EXCEPT ![c] = r]
Answer(c, a) == DbGoto(c, [dbReq[c] EXCEPT !.pc = "done", !.answer = a])
files == <<inode, entry, shared>>
BesideRestore(n, others) ==
    shared' = shared \cup IF \E d \in others : dbReq[d].pc = "feed" /\ dbReq[d].name = n THEN {n} ELSE {}
outside == <<sqlEngine, server, cfgPort, build, events>>

Send(c) ==
    /\ dbReq[c].pc \in {"idle", "done"} /\ sent < MaxDbRequests /\ sent' = sent + 1
    /\ \E op \in {"list", "create", "drop", "backup", "restore"}, n \in DbNames, p \in DbPaths \cup {""} :
         /\ (p = "") = (op \notin {"backup", "restore"}) /\ (op = "list" => n = "")
         /\ DbGoto(c, [DbIdle EXCEPT !.pc = "prepare", !.op = op, !.name = n, !.path = p])
    /\ UNCHANGED <<outside, dbs, files>>

\* prepare: the client of the installed version, then, under the manager's lock,
\* that the server runs; the port is read after that.
prepare(c) ==
    /\ \/ /\ dbReq[c].pc = "prepare"
          /\ IF "client" \notin build \/ ~server.up THEN Answer(c, "Internal")
             ELSE DbGoto(c, [dbReq[c] EXCEPT !.pc = "port"])
       \/ /\ dbReq[c].pc = "port"
          /\ DbGoto(c, [dbReq[c] EXCEPT !.pc = "check", !.port = cfgPort])
    /\ UNCHANGED <<outside, dbs, files, sent>>

\* The statements by their effect on the server (external); map_stderr and
\* classify give the code of its error.
classify(sql) ==
    CASE sql.verb = "create" /\ sql.db \in DOMAIN dbs -> "AlreadyExists"
      [] sql.verb = "drop" /\ sql.db \notin DOMAIN dbs -> "NotFound"
      [] OTHER -> "Ok"
Effect(sql) ==
    dbs' = CASE sql.verb = "create" -> [n \in DOMAIN dbs \cup {sql.db} |-> IF n \in DOMAIN dbs THEN dbs[n]
                                            ELSE [p \in {"tables", "routines"} |-> 0]]
             [] sql.verb = "drop" -> [n \in DOMAIN dbs \ {sql.db} |-> dbs[n]]

run_client(c, sql) ==
    IF ~client_args(dbReq[c].port) THEN Answer(c, "Internal") /\ UNCHANGED dbs
    ELSE /\ Answer(c, classify(sql))
         /\ IF classify(sql) = "Ok" THEN Effect(sql) ELSE UNCHANGED dbs

Refuse(c) == Answer(c, "InvalidPath") /\ UNCHANGED dbs

list(c) ==
    /\ dbReq[c].pc = "check" /\ dbReq[c].op = "list"
    /\ IF client_args(dbReq[c].port)
       THEN DbGoto(c, [dbReq[c] EXCEPT !.pc = "done", !.answer = "Databases", !.rows = parse_db_list(list_sql)])
       ELSE Answer(c, "Internal")
    /\ UNCHANGED <<outside, dbs, files, sent>>

create(c) ==
    /\ dbReq[c].pc = "check" /\ dbReq[c].op = "create"
    /\ IF validate_db_name(dbReq[c].name) THEN run_client(c, create_sql(dbReq[c].name)) ELSE Refuse(c)
    /\ UNCHANGED <<outside, files, sent>>

drop(c) ==
    /\ dbReq[c].pc = "check" /\ dbReq[c].op = "drop"
    /\ IF validate_existing_db_name(dbReq[c].name) /\ ~is_system_database(dbReq[c].name)
       THEN run_client(c, drop_sql(dbReq[c].name)) /\ BesideRestore(dbReq[c].name, DbClients \ {c})
       ELSE Refuse(c) /\ UNCHANGED shared
    /\ UNCHANGED <<outside, inode, entry, sent>>

-----------------------------------------------------------------------------
\* backup: the sibling is created or truncated.
backup(c) ==
    LET r == dbReq[c]
        tmp == tmp_sibling(r.path)
        others == {d \in DbClients \ {c} : dbReq[d].op = "backup" /\ dbReq[d].path = r.path
                                             /\ dbReq[d].pc \in {"dump", "copy"}}
    IN /\ r.pc = "check" /\ r.op = "backup"
       /\ IF ~validate_existing_db_name(r.name) THEN Answer(c, "InvalidPath") /\ UNCHANGED files
          ELSE IF "dump" \notin build THEN Answer(c, "Internal") /\ UNCHANGED files
          ELSE LET new == entry[tmp] = NoFile
                   file == IF new THEN Len(inode) + 1 ELSE entry[tmp]
               IN /\ inode' = IF new THEN inode \o <<<<>>>> ELSE [inode EXCEPT ![file] = <<>>]
                  /\ entry' = [entry EXCEPT ![tmp] = file]
                  /\ shared' = IF others = {} THEN shared ELSE shared \cup {r.path}
                  /\ DbGoto(c, [r EXCEPT !.pc = "dump", !.file = file])
       /\ UNCHANGED <<outside, dbs, sent>>

\* A failed backup removes the sibling.
Fail(c, code) ==
    /\ entry' = [entry EXCEPT ![tmp_sibling(dbReq[c].path)] = NoFile]
    /\ Answer(c, code)

\* The dump tool connects and takes its snapshot (external: pg_dump's, or the
\* read locks of mysqldump --opt).
StartDump(c) ==
    /\ dbReq[c].pc = "dump"
    /\ IF ~client_args(dbReq[c].port) \/ dbReq[c].name \notin DOMAIN dbs
       THEN Fail(c, IF server.up THEN "NotFound" ELSE "Internal")
       ELSE DbGoto(c, [dbReq[c] EXCEPT !.pc = "copy",
                       !.todo = Dump(dbs[dbReq[c].name], dump_args(sqlEngine).parts, <<c, sent>>)]) /\ UNCHANGED entry
    /\ UNCHANGED <<outside, dbs, inode, shared, sent>>

\* What is written at position pos of a file.
Written(content, pos, x) ==
    [i \in 1 .. (IF pos > Len(content) THEN pos ELSE Len(content)) |->
        IF i = pos THEN x ELSE IF i <= Len(content) THEN content[i] ELSE Hole]

\* Its output is copied to the file as it comes.
Copy(c) ==
    LET r == dbReq[c]
    IN /\ r.pc = "copy" /\ r.todo # <<>> /\ server.up
       /\ inode' = [inode EXCEPT ![r.file] = Written(@, r.pos + 1, Head(r.todo))]
       /\ DbGoto(c, [r EXCEPT !.pos = @ + 1, !.todo = Tail(@)])
       /\ UNCHANGED <<outside, dbs, entry, shared, sent>>

FinishDump_Anyway(c) ==
    LET r == dbReq[c] tmp == tmp_sibling(dbReq[c].path)
    IN /\ r.pc = "copy"
       /\ IF entry[tmp] = NoFile THEN Answer(c, "Internal") /\ UNCHANGED entry
          ELSE Answer(c, "Ok") /\ entry' = [entry EXCEPT ![<<r.path, FALSE>>] = entry[tmp], ![tmp] = NoFile]
       /\ UNCHANGED <<outside, dbs, inode, shared, sent>>

\* A clean exit of the tool after all of its output: rename.  An exit with an
\* error, a copy or a rename that fails: the sibling is removed.
FinishDump(c) ==
    LET r == dbReq[c] tmp == tmp_sibling(dbReq[c].path)
    IN /\ r.pc = "copy"
       /\ \/ r.todo = <<>> /\ entry[tmp] # NoFile
             /\ entry' = [entry EXCEPT ![<<r.path, FALSE>>] = entry[tmp], ![tmp] = NoFile]
             /\ Answer(c, "Ok")
          \/ Fail(c, "Internal")
       /\ UNCHANGED <<outside, dbs, inode, shared, sent>>

-----------------------------------------------------------------------------
\* Mutant: a system database is restored like any other.
restore_Any(c) ==
    LET r == dbReq[c]
    IN /\ r.pc = "check" /\ r.op = "restore"
       /\ CASE ~validate_existing_db_name(r.name) \/ entry[<<r.path, FALSE>>] = NoFile ->
                 Answer(c, "InvalidPath")
            [] OTHER ->
                 IF ~client_args(r.port) THEN Answer(c, "Internal")
                 ELSE IF r.name \notin DOMAIN dbs THEN Answer(c, "NotFound")
                 ELSE DbGoto(c, [r EXCEPT !.pc = "feed", !.file = entry[<<r.path, FALSE>>]])
       /\ UNCHANGED <<outside, dbs, files, sent>>

\* restore: the client is fed the file; single-database dumps create nothing.
restore(c) ==
    LET r == dbReq[c]
    IN /\ r.pc = "check" /\ r.op = "restore"
       /\ CASE ~validate_existing_db_name(r.name) \/ is_system_database(r.name) \/ entry[<<r.path, FALSE>>] = NoFile ->
                 Answer(c, "InvalidPath")
            [] OTHER ->
                 IF ~client_args(r.port) THEN Answer(c, "Internal")
                 ELSE IF r.name \notin DOMAIN dbs THEN Answer(c, "NotFound")
                 ELSE DbGoto(c, [r EXCEPT !.pc = "feed", !.file = entry[<<r.path, FALSE>>]])
       /\ UNCHANGED <<outside, dbs, files, sent>>

\* The client runs the next statement.  It fails when the server is gone, and,
\* from a dump that drops nothing first, on what is already there.
Feed(c) ==
    LET r == dbReq[c]
        content == inode[r.file]
        fails == ~server.up \/ r.name \notin DOMAIN dbs \/ ~dump_args(sqlEngine).clean
    IN /\ r.pc = "feed" /\ r.pos < Len(content)
       /\ IF fails /\ (restore_args(sqlEngine).stops \/ ~server.up)
          THEN Answer(c, "Internal") /\ UNCHANGED dbs
          ELSE /\ DbGoto(c, [r EXCEPT !.pos = @ + 1])
               /\ dbs' = IF fails \/ content[r.pos + 1] = Hole THEN dbs
                         ELSE [dbs EXCEPT ![r.name][content[r.pos + 1].part] = content[r.pos + 1].gen]
       /\ BesideRestore(r.name, DbClients \ {c})
       /\ UNCHANGED <<outside, inode, entry, sent>>

Fed(c) ==
    /\ dbReq[c].pc = "feed"
    /\ \/ dbReq[c].pos = Len(inode[dbReq[c].file]) /\ Answer(c, "Ok")
       \/ Answer(c, "Internal")                 \* the file cannot be read to its end
    /\ UNCHANGED <<outside, dbs, files, sent>>

-----------------------------------------------------------------------------
\* The service is stopped or started (on the configured port), its port is set
\* for the next start, or the application writes to its database.
Event ==
    /\ events < MaxDbEvents /\ events' = events + 1
    /\ \/ /\ server' = [up |-> ~server.up, port |-> IF server.up THEN server.port ELSE cfgPort]
          /\ UNCHANGED <<cfgPort, dbs, shared>>
       \/ cfgPort' \in DbPorts \ {cfgPort} /\ UNCHANGED <<server, dbs, shared>>
       \/ /\ server.up /\ "app" \in DOMAIN dbs
          /\ dbs' = [dbs EXCEPT !["app"] = [p \in {"tables", "routines"} |-> 2 + events]]
          /\ BesideRestore("app", DbClients)
          /\ UNCHANGED <<server, cfgPort>>
    /\ UNCHANGED <<sqlEngine, build, inode, entry, dbReq, sent>>

\* The daemon dies; what it had started is lost, the files stay.
Killed ==
    /\ \E c \in DbClients : dbReq[c].pc \notin {"idle", "done"}
    /\ events < MaxDbEvents /\ events' = events + 1
    /\ dbReq' = [c \in DbClients |-> DbIdle]
    /\ UNCHANGED <<sqlEngine, server, cfgPort, build, dbs, files, sent>>

DbNext ==
    \/ \E c \in DbClients :
         \/ Send(c) \/ prepare(c) \/ list(c) \/ create(c) \/ drop(c)
         \/ backup(c) \/ StartDump(c) \/ Copy(c) \/ FinishDump(c) \/ restore(c) \/ Feed(c) \/ Fed(c)
    \/ Event \/ Killed

DbSpec == DbInit /\ [][DbNext]_dbvars

-----------------------------------------------------------------------------
\* A backup's destination always holds a complete dump of one moment, the one it
\* held before or a new one: a failing tool, a stopped server, a full disk or a
\* killed daemon never leave part of one (backup: temp sibling and rename;
\* dump_args).  Two backups to one path at the same time share the sibling and
\* are left out here; BackupNeverTorn states it for them too.
BackupIsWhole ==
    \A p \in DbPaths \ shared : entry[<<p, FALSE>>] # NoFile => Whole(inode[entry[<<p, FALSE>>]])

\* The same for backups that run at the same time: "a failed dump never truncates
\* an existing target" (db_admin.rs, backup).
BackupNeverTorn == \A p \in DbPaths : entry[<<p, FALSE>>] # NoFile => Whole(inode[entry[<<p, FALSE>>]])

\* A restore answered with Ok replayed all of the file: the database holds what
\* it holds, unless another request or the application changed it in between;
\* and no request ever changes a system database (restore, restore_args,
\* is_system_database).
RestoresBackup ==
    /\ \A c \in DbClients :
         dbReq[c].pc = "feed" /\ dbReq'[c].answer = "Ok"
           /\ dbReq[c].name \notin shared /\ dbReq[c].path \notin shared =>
         /\ dbReq[c].name \in DOMAIN dbs
         /\ \A i \in DOMAIN Parts : dbs[dbReq[c].name][Parts[i]] = inode[dbReq[c].file][i].gen
    /\ "system" \in DOMAIN dbs' /\ dbs'["system"] = dbs["system"]
=============================================================================
