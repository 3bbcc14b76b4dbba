-------------------------------- MODULE Jobs --------------------------------
(* The registry of background jobs: tasks append log lines to a ring, set a   *)
(* terminal state and end; clients start jobs, ask for cancellation and poll  *)
(* with a cursor.  Every operation runs under the registry's mutex and is one *)
(* step.  A log line is its number; phases are left out.                      *)
EXTENDS Naturals, FiniteSets, SequencesExt

CONSTANTS
    Clients,
    LOG_CAP,       \* retained lines per job
    TERMINAL_CAP,  \* terminal jobs kept by a prune
    MaxJobs,       \* bound: jobs ever created
    MaxLines       \* bound: lines a job writes

VARIABLES
    next,    \* the id of the next job
    map,     \* id -> job, for the jobs the registry holds
    task,    \* id -> lines written and the cancellation asked for, for the tasks that run
    client   \* client -> the job it follows, its cursor and what it was shown

vars == <<next, map, task, client>>

States == {"Running", "Succeeded", "Failed", "Cancelled"}
Terminal == States \ {"Running"}
JobIds == 0 .. MaxJobs - 1
NoJob == MaxJobs

Job == [state : States, log : Seq(1 .. MaxLines), dropped : 0 .. MaxLines]

TypeOK ==
    /\ next \in 0 .. MaxJobs
    /\ DOMAIN map \subseteq 0 .. next - 1
    /\ \A id \in DOMAIN map : map[id] \in Job /\ Len(map[id].log) <= LOG_CAP
    /\ DOMAIN task \subseteq 0 .. next - 1
    /\ \A id \in DOMAIN task : task[id] \in [lines : 0 .. MaxLines, cancel : BOOLEAN]
    /\ client \in [Clients -> [job : JobIds \cup {NoJob}, cursor : 0 .. MaxLines,
                               shown : SUBSET (1 .. MaxLines), lost : 0 .. MaxLines, state : States]]

Watching(id) == [job |-> id, cursor |-> 0, shown |-> {}, lost |-> 0, state |-> "Running"]

Init ==
    /\ next = 0 /\ map = <<>> /\ task = <<>>
    /\ client = [c \in Clients |-> Watching(NoJob)]

is_terminal(job) == job.state # "Running"

TerminalIds(jobs) == {id \in DOMAIN jobs : is_terminal(jobs[id])}

prune_terminal_Any(jobs) ==
    LET excess == Cardinality(TerminalIds(jobs)) - TERMINAL_CAP
    IN  Restrict(jobs, {id \in DOMAIN jobs : Cardinality({o \in DOMAIN jobs : o < id}) >= excess})

\* The oldest ids go first, until TERMINAL_CAP terminal jobs are left.
prune_terminal(jobs) ==
    LET excess == Cardinality(TerminalIds(jobs)) - TERMINAL_CAP
    IN  Restrict(jobs, {id \in DOMAIN jobs :
            is_terminal(jobs[id]) => Cardinality({o \in TerminalIds(jobs) : o < id}) >= excess})

With(f, id, x) == [i \in DOMAIN f \cup {id} |-> IF i = id THEN x ELSE f[i]]

NewJob == [state |-> "Running", log |-> <<>>, dropped |-> 0]

\* The registry does not know its clients: some follow the new job.
create(followers) ==
    /\ next < MaxJobs
    /\ map' = With(prune_terminal(map), next, NewJob)
    /\ task' = With(task, next, [lines |-> 0, cancel |-> FALSE])
    /\ next' = next + 1
    /\ client' = [c \in Clients |-> IF c \in followers THEN Watching(next) ELSE client[c]]

\* The ring: the oldest lines are evicted and counted.
Pushed(job, line) ==
    LET log == Append(job.log, line)
        over == IF Len(log) > LOG_CAP THEN Len(log) - LOG_CAP ELSE 0
    IN  [job EXCEPT !.log = SubSeq(log, over + 1, Len(log)), !.dropped = @ + over]

push_log(id) ==
    /\ task[id].lines < MaxLines
    /\ task' = [task EXCEPT ![id].lines = @ + 1]
    /\ map' = IF id \in DOMAIN map THEN [map EXCEPT ![id] = Pushed(@, task'[id].lines)] ELSE map
    /\ UNCHANGED <<next, client>>

\* A task ends as cancelled only when it has seen the request.
finish(id, state) ==
    /\ state = "Cancelled" => task[id].cancel
    /\ task' = Restrict(task, DOMAIN task \ {id})
    /\ map' = IF id \in DOMAIN map THEN [map EXCEPT ![id].state = state] ELSE map
    /\ UNCHANGED <<next, client>>

\* The send on the job's channel; nobody receives it once the task has ended.
cancel(id) ==
    /\ id \in DOMAIN map
    /\ task' = [task EXCEPT ![id].cancel = TRUE]
    /\ UNCHANGED <<next, map, client>>

start_at_Absolute(job, cursor) == IF cursor < Len(job.log) THEN cursor ELSE Len(job.log)

\* Where in the retained lines a poll starts to answer.
start_at(job, cursor) ==
    LET behind == IF cursor > job.dropped THEN cursor - job.dropped ELSE 0
    IN  IF behind < Len(job.log) THEN behind ELSE Len(job.log)

poll(c) ==
    LET id == client[c].job
    IN  /\ id \in DOMAIN map
        /\ LET job == map[id]
               lines == SubSeq(job.log, start_at(job, client[c].cursor) + 1, Len(job.log))
               total == job.dropped + Len(job.log)
           IN  client' = [client EXCEPT ![c] = [job |-> id, cursor |-> total,
                   shown |-> @.shown \cup ToSet(lines),
                   \* the client learns of a gap from the cursor
                   lost |-> @.lost + ((total - @.cursor) - Len(lines)), state |-> job.state]]
        /\ UNCHANGED <<next, map, task>>

Next ==
    \/ \E followers \in SUBSET Clients : create(followers)
    \/ \E c \in Clients : poll(c)
    \/ \E id \in DOMAIN task :
         \/ push_log(id) \/ cancel(id)
         \/ \E state \in Terminal : finish(id, state)

Spec == Init /\ [][Next]_vars

-----------------------------------------------------------------------------
(* What must hold.                                                           *)

\* A poller never loses its place: everything before its cursor it was shown,
\* or it can count as missed from the cursor, and what it missed the ring had
\* evicted (poll, push_log).
NoSilentLoss ==
    \A c \in Clients :
        LET seen == client[c]
        IN  /\ Cardinality(seen.shown) + seen.lost = seen.cursor
            /\ seen.job \in DOMAIN map =>
                 \A n \in 1 .. seen.cursor : n \in seen.shown \/ n <= map[seen.job].dropped

\* A job's outcome, once a poll can show it, never changes, and a job is
\* forgotten only after its outcome, when another is created while TERMINAL_CAP
\* terminal jobs with newer ids are kept (finish, prune_terminal).
KeepsOutcomes ==
    \A id \in DOMAIN map :
      \/ id \in DOMAIN map' /\ (is_terminal(map[id]) => map'[id].state = map[id].state)
      \/ /\ is_terminal(map[id]) /\ next' = next + 1
         /\ Cardinality({o \in TerminalIds(map') : o > id}) >= TERMINAL_CAP
=============================================================================
