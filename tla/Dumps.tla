-------------------------------- MODULE Dumps -------------------------------
(***************************************************************************)
(* The dump server of the daemon (yerdd dump_server.rs): the ring of       *)
(* captured events and the windows that poll it, the listener that moves   *)
(* with the configured port, and the [dumps] settings with their state     *)
(* file.  One life of the daemon: event ids start again with the next one. *)
(***************************************************************************)
EXTENDS Integers, Sequences, FiniteSets, SequencesExt

CONSTANTS
    Windows,        \* dump windows polling the ring
    Requests,       \* request ids of captured frames
    RingCap,        \* RING_CAP
    RemovedCap,     \* REMOVED_LOG_CAP
    Retained,       \* RETAINED_REQUESTS
    DumpPorts,      \* ports the server may be given
    Setters,        \* concurrent settings requests
    MaxFrames, MaxDeletes, MaxSets

VARIABLES
    ring,       \* DumpRing: [events, removed, next, recent]
    persist,    \* DumpStore::persist
    win,        \* the windows: [rows, cursor, page, clear, missed]
    dumps,      \* the [dumps] section in memory: [enabled, port, persist]
    saved,      \* the same in config.toml
    stateFile,  \* {state}/dumps/state.json
    srv,        \* the server task: [pc, port, permit]
    taken,      \* ports another program holds
    setter,     \* the requests in progress
    pools,      \* "plain" | "loaded": pools run with the extension
    unsaved,    \* a failed save has left a port in memory alone
    left        \* budgets: [frames, deletes, sets]

settingsVars == <<persist, dumps, saved, stateFile, srv, taken, setter, pools, unsaved>>

Event(id, req) == [id |-> id, req |-> req]
EventIds(events) == {events[i].id : i \in DOMAIN events}
Live == EventIds(ring.events)

-----------------------------------------------------------------------------
\* trim_removed: the newest RemovedCap ids.
trim_removed(log) == SubSeq(log, IF Len(log) > RemovedCap THEN Len(log) - RemovedCap + 1 ELSE 1, Len(log))

IdsOf(events) == [i \in DOMAIN events |-> events[i].id]

\* evict_request: all events of a request, in order, into the removed log.
evict_request(r, req) ==
    [r EXCEPT !.events = SelectSeq(@, LAMBDA e : e.req # req),
              !.removed = trim_removed(@ \o IdsOf(SelectSeq(r.events, LAMBDA e : e.req = req)))]

\* The window of requests kept: a new one in, the oldest beyond Retained out,
\* and with it its events unless logs persist.
Admit(r, req, keep) ==
    IF Contains(r.recent, req) THEN r
    ELSE LET recent == Append(r.recent, req)
         IN IF Len(recent) <= Retained THEN [r EXCEPT !.recent = recent]
            ELSE IF keep THEN [r EXCEPT !.recent = Tail(recent)]
            ELSE [evict_request(r, Head(recent)) EXCEPT !.recent = Tail(recent)]

Over(r) == Len(r.events) > RingCap

push(r, req, keep) ==
    LET a == Admit(r, req, keep)
        p == [a EXCEPT !.next = @ + 1, !.events = Append(@, Event(a.next + 1, req))]
    IN IF ~Over(p) THEN p
       ELSE [p EXCEPT !.events = Tail(@), !.removed = trim_removed(Append(@, Head(p.events).id))]

delete(r, id) ==
    IF id \notin EventIds(r.events) THEN r
    ELSE [r EXCEPT !.events = SelectSeq(@, LAMBDA e : e.id # id), !.removed = trim_removed(Append(@, id))]

clear(r) ==
    [r EXCEPT !.events = <<>>, !.recent = <<>>, !.removed = trim_removed(@ \o IdsOf(r.events))]

list_StrictRemoved(r, since) ==
    [events |-> {i \in EventIds(r.events) : i > since},
     removed |-> {r.removed[i] : i \in DOMAIN r.removed} \cap 0 .. since - 1,
     latest |-> r.next,
     minLive |-> IF r.events = <<>> THEN r.next + 1 ELSE Head(r.events).id]

\* list: the events after the cursor, the removed ids up to it, the next
\* cursor and the smallest live id.
list(r, since) ==
    [events |-> {i \in EventIds(r.events) : i > since},
     removed |-> {r.removed[i] : i \in DOMAIN r.removed} \cap 0 .. since,
     latest |-> r.next,
     minLive |-> IF r.events = <<>> THEN r.next + 1 ELSE Head(r.events).id]

\* poll of the dumps window: rows below the smallest live id or removed go,
\* the new ones come.
Applied(rows, page) == {i \in rows : i >= page.minLive /\ i \notin page.removed} \cup page.events

NoPage == [events |-> {}, removed |-> {}, latest |-> -1, minLive |-> 0]
NewRing == [events |-> <<>>, removed |-> <<>>, next |-> 0, recent |-> <<>>]
NewWindow == [rows |-> {}, cursor |-> 0, page |-> NoPage, clear |-> "none", missed |-> FALSE]

-----------------------------------------------------------------------------
DumpInit ==
    /\ ring = NewRing
    /\ persist \in BOOLEAN
    /\ win = [w \in Windows |-> NewWindow]
    /\ \E p \in DumpPorts : dumps = [enabled |-> FALSE, port |-> p, persist |-> persist]
    /\ saved = dumps /\ stateFile = dumps
    /\ srv = [pc |-> "start", port |-> dumps.port, permit |-> FALSE]
    /\ taken \in SUBSET DumpPorts
    /\ setter = [s \in Setters |-> [pc |-> "idle", kind |-> "port", v |-> dumps.port, first |-> FALSE, snap |-> dumps]]
    /\ pools = "plain" /\ unsaved = FALSE
    /\ left \in {[frames |-> MaxFrames, deletes |-> MaxDeletes, sets |-> 0],
                 [frames |-> 0, deletes |-> 0, sets |-> MaxSets]}

\* handle_conn: a frame of the extension; longer or malformed lines never
\* reach the ring.
Frame(req) ==
    /\ left.frames > 0 /\ left' = [left EXCEPT !.frames = @ - 1]
    /\ ring' = push(ring, req, persist)
    /\ UNCHANGED <<win, settingsVars>>

\* DeleteDump: one event.
DeleteOne(id) ==
    /\ left.deletes > 0 /\ left' = [left EXCEPT !.deletes = @ - 1]
    /\ ring' = delete(ring, id)
    /\ UNCHANGED <<win, settingsVars>>

\* poll: ListDumps is answered, the answer is applied later.
PollAnswered(w) ==
    /\ win[w].page = NoPage
    /\ win' = [win EXCEPT ![w].page = list(ring, win[w].cursor)]
    /\ UNCHANGED <<ring, left, settingsVars>>

PollApplied(w) ==
    /\ win[w].page # NoPage
    /\ win' = [win EXCEPT ![w] = [@ EXCEPT
         !.rows = Applied(@, win[w].page), !.cursor = win[w].page.latest, !.page = NoPage,
         !.missed = @ \/ (win[w].clear = "done" /\ win[w].page.events # {})]]
    /\ UNCHANGED <<ring, left, settingsVars>>

\* doClear: ClearDumps empties the ring, its answer empties the rows.  A page
\* applied in between loses its rows from this window (missed).
ClearAnswered(w) ==
    /\ left.deletes > 0 /\ left' = [left EXCEPT !.deletes = @ - 1]
    /\ win[w].clear = "none"
    /\ ring' = clear(ring)
    /\ win' = [win EXCEPT ![w].clear = "done"]
    /\ UNCHANGED settingsVars
ClearApplied(w) ==
    /\ win[w].clear = "done"
    /\ win' = [win EXCEPT ![w].clear = "none", ![w].rows = {}]
    /\ UNCHANGED <<ring, left, settingsVars>>

-----------------------------------------------------------------------------
\* run: the port is read, then bound; a failure waits for a rebind signal.
ReadPort ==
    /\ srv.pc = "start"
    /\ srv' = [srv EXCEPT !.pc = "bind", !.port = dumps.port]
    /\ UNCHANGED <<ring, win, persist, dumps, saved, stateFile, taken, setter, pools, unsaved, left>>
Bind ==
    /\ srv.pc = "bind"
    /\ srv' = [srv EXCEPT !.pc = IF srv.port \in taken THEN "failed" ELSE "accept"]
    /\ UNCHANGED <<ring, win, persist, dumps, saved, stateFile, taken, setter, pools, unsaved, left>>

\* The rebind signal ends the wait or the accept loop.
Rebind ==
    /\ srv.pc \in {"accept", "failed"} /\ srv.permit
    /\ srv' = [srv EXCEPT !.pc = "start", !.permit = FALSE]
    /\ UNCHANGED <<ring, win, persist, dumps, saved, stateFile, taken, setter, pools, unsaved, left>>

request_rebind_Waiters == IF srv.pc \in {"accept", "failed"} THEN [srv EXCEPT !.permit = TRUE] ELSE srv

\* notify_one: kept as a permit when the task is not waiting.
request_rebind == [srv EXCEPT !.permit = TRUE]

Listening == IF srv.pc = "accept" THEN {srv.port} ELSE {}

\* set_enabled reads the old flag; set_port answers Ok at once for the
\* configured port, and probes any other; the settings change later.
Ask(s, kind, v) ==
    /\ left.sets > 0 /\ left' = [left EXCEPT !.sets = @ - 1]
    /\ setter[s].pc = "idle"
    /\ kind = "port" => v # dumps.port /\ v \notin taken \cup Listening
    /\ setter' = [setter EXCEPT ![s] = [@ EXCEPT !.pc = "apply", !.kind = kind, !.v = v,
                                                 !.first = kind = "enabled" /\ v /\ ~dumps.enabled]]
    /\ UNCHANGED <<ring, win, persist, dumps, saved, stateFile, srv, taken, pools, unsaved>>

\* apply_config under the config lock: memory first, then the file; a failed
\* save returns its error with memory changed.
apply_config(s) ==
    /\ setter[s].pc = "apply"
    /\ \E change \in {[dumps EXCEPT ![setter[s].kind] = setter[s].v]} :
         /\ dumps' = change
         /\ \/ /\ saved' = change
               /\ unsaved' = (unsaved /\ setter[s].kind # "port")
               /\ setter' = [setter EXCEPT ![s].pc = "write", ![s].snap = change]
               /\ UNCHANGED left
            \/ /\ left.sets > 0 /\ left' = [left EXCEPT !.sets = @ - 1]
               /\ unsaved' = (unsaved \/ setter[s].kind = "port")
               /\ setter' = [setter EXCEPT ![s].pc = "idle"]
               /\ UNCHANGED saved
    /\ UNCHANGED <<ring, win, persist, stateFile, srv, taken, pools>>

\* write_state_file, after the lock, from the snapshot; a failure is logged.
write_state_file(s) ==
    /\ setter[s].pc = "write"
    /\ setter' = [setter EXCEPT ![s].pc = "after"]
    /\ \/ stateFile' = setter[s].snap
       \/ UNCHANGED stateFile
    /\ UNCHANGED <<ring, win, persist, dumps, saved, srv, taken, pools, unsaved, left>>

\* Then the flag the frames read (set_persist), a rebind (set_port), or, on
\* the first enable, the extension and a restart of the pools
\* (ensure_ext_and_restart).
Finish(s) ==
    /\ setter[s].pc = "after"
    /\ setter' = [setter EXCEPT ![s].pc = "idle"]
    /\ persist' = IF setter[s].kind = "persist" THEN setter[s].v ELSE persist
    /\ srv' = IF setter[s].kind = "port" THEN request_rebind ELSE srv
    /\ pools' = IF setter[s].first THEN "loaded" ELSE pools
    /\ UNCHANGED <<ring, win, dumps, saved, stateFile, taken, unsaved, left>>

\* Another program takes or frees a port.
PortTaken ==
    /\ left.sets > 0 /\ left' = [left EXCEPT !.sets = @ - 1]
    /\ \E p \in DumpPorts \ Listening :
         taken' = IF p \in taken THEN taken \ {p} ELSE taken \cup {p}
    /\ UNCHANGED <<ring, win, persist, dumps, saved, stateFile, srv, setter, pools, unsaved>>

DumpNext ==
    \/ \E req \in Requests : Frame(req)
    \/ \E id \in Live : DeleteOne(id)
    \/ \E w \in Windows : PollAnswered(w) \/ PollApplied(w) \/ ClearAnswered(w) \/ ClearApplied(w)
    \/ ReadPort \/ Bind \/ Rebind \/ PortTaken
    \/ \E s \in Setters :
         \/ apply_config(s) \/ write_state_file(s) \/ Finish(s)
         \/ \E p \in DumpPorts : Ask(s, "port", p)
         \/ \E on \in BOOLEAN : Ask(s, "enabled", on) \/ Ask(s, "persist", on)

-----------------------------------------------------------------------------
\* Whenever a window polls, what it then shows is exactly what the ring holds:
\* no row of an evicted, deleted or cleared event stays, and no event is
\* skipped, although the log of removed ids is bounded (list, min_live_id, the
\* window's poll).  Except for rows that came with a page applied between a
\* clear and its answer: those the window drops for good (doClear).
PollShowsTheRing ==
    \A w \in Windows : win[w].page = NoPage /\ win[w].clear = "none" /\ ~win[w].missed =>
      Applied(win[w].rows, list(ring, win[w].cursor)) = Live

\* The server never settles on another port than the configured one: when it
\* waits, with no rebind signal pending and no port change half done, it
\* listens on that port or has failed to bind it (run, set_port,
\* request_rebind).  Except after a save that failed, which leaves the new port
\* in memory and the server where it was (apply_config).
SettledOnPort ==
    (/\ srv.pc \in {"accept", "failed"} /\ ~srv.permit /\ ~unsaved
     /\ \A s \in Setters : setter[s].pc \in {"write", "after"} => setter[s].kind # "port")
      => srv.port = dumps.port
=============================================================================
