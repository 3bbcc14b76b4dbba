-------------------------------- MODULE Mail --------------------------------
(***************************************************************************)
(* The mail catcher (crate yerd-mail): SMTP connections of the sites, the  *)
(* store they deliver to (one .eml file per message and an index of        *)
(* them), the requests of the clients, and a daemon that may be killed     *)
(* between any two writes.                                                 *)
(*                                                                         *)
(* A line of a message is <<dots, rest>>: the dots it starts with and what *)
(* follows them, so that the dot a sender puts before such a line, and the *)
(* lone dot that ends the data, are told apart as in the protocol.         *)
(***************************************************************************)
EXTENDS Integers, Sequences, FiniteSets, SequencesExt, Functions

CONSTANTS
    Conns,          \* SMTP connections
    Messages,       \* the messages sites send: sequences of lines
    Cap,            \* retention cap of the store (DEFAULT_CAP)
    MaxBytes,       \* lines kept of one message (MAX_MESSAGE_BYTES)
    MaxMail,        \* messages sent in all
    MaxMailOps      \* client requests, failures and restarts

VARIABLES
    conn,       \* the sessions: [pc, rcpt, data, sent]
    mem,        \* Inner: [entries, next]
    eml,        \* the .eml files: id -> text
    index,      \* index.json: a sequence of entries
    job,        \* the store operation holding the mutex, step by step
    mailUp,     \* the daemon runs
    owed,       \* id -> text: acknowledged, and not deleted, evicted or cleared since
    used,       \* ids ever given to a message
    mails, mailOps

NoFn == [i \in {} |-> <<>>]
Entry(id) == [id |-> id, read |-> FALSE]
IdsOf(entries) == {entries[i].id : i \in DOMAIN entries}
NoJob == [kind |-> "none", by |-> "", drop |-> <<>>, text |-> <<>>]
Offline == [pc |-> "off", rcpt |-> FALSE, data |-> <<>>, sent |-> <<>>]

-----------------------------------------------------------------------------
\* What a sender puts on the wire for a message: a dot more before each line
\* that starts with one, then the lone dot.
Terminator == <<1, "">>
Stuffed(text) == [i \in DOMAIN text |-> IF text[i][1] > 0 THEN <<text[i][1] + 1, text[i][2]>> ELSE text[i]]
             \o <<Terminator>>

\* unstuff: one leading dot less on each line that starts with one.
unstuff(data) == [i \in DOMAIN data |-> IF data[i][1] > 0 THEN <<data[i][1] - 1, data[i][2]>> ELSE data[i]]

\* read_data: the lines up to the lone dot or the end of the stream, the first
\* MaxBytes of them kept.
read_data(stream) ==
    LET dot == SelectInSeq(stream, LAMBDA l : l = Terminator)
        data == IF dot = 0 THEN stream ELSE SubSeq(stream, 1, dot - 1)
    IN SubSeq(data, 1, IF Len(data) < MaxBytes THEN Len(data) ELSE MaxBytes)

evict_count(n) == IF n > Cap THEN n - Cap ELSE 0

\* max_eml_id, and the highest id of the index; -1 is none.
Highest(ids) == IF ids = {} THEN -1 ELSE CHOOSE i \in ids : \A j \in ids : j <= i

open_with_cap_FilesOnly(files, entries) ==
    [entries |-> entries, next |-> Highest(DOMAIN files) + 1]

\* open_with_cap: the entries of the index (load_index), and an id above both
\* the index's and the files'.
open_with_cap(files, entries) ==
    [entries |-> entries, next |-> Highest(DOMAIN files \cup IdsOf(entries)) + 1]

-----------------------------------------------------------------------------
MailInit ==
    /\ conn = [c \in Conns |-> Offline]
    /\ mem = [entries |-> <<>>, next |-> 0]
    /\ eml = NoFn /\ index = <<>> /\ job = NoJob /\ mailUp = TRUE
    /\ owed = NoFn /\ used = {} /\ mails = 0 /\ mailOps = 0

MailOp == mailOps < MaxMailOps /\ mailOps' = mailOps + 1
MailQuiet == UNCHANGED <<mem, eml, index, job, mailUp, owed, used>>

\* serve accepts, handle_conn greets.
Accept(c) ==
    /\ mailUp /\ conn[c].pc = "off" /\ mails < MaxMail
    /\ conn' = [conn EXCEPT ![c] = [Offline EXCEPT !.pc = "cmd"]]
    /\ MailQuiet /\ UNCHANGED <<mails, mailOps>>

\* Session::command: MAIL and RSET forget the recipients, RCPT adds one, DATA
\* is refused with 503 before one; QUIT (or the end of the stream) closes.
Command(c, verb) ==
    /\ conn[c].pc = "cmd"
    /\ \/ verb = "MAIL" /\ conn[c].rcpt /\ conn' = [conn EXCEPT ![c].rcpt = FALSE]
       \/ verb = "RCPT" /\ ~conn[c].rcpt /\ conn' = [conn EXCEPT ![c].rcpt = TRUE]
       \/ verb = "QUIT" /\ conn' = [conn EXCEPT ![c] = Offline]
    /\ MailQuiet /\ UNCHANGED <<mails, mailOps>>

\* DATA with a recipient: the site sends a message, or drops the connection
\* after some of its lines; read_data returns what it has either way, and
\* finish_data takes the envelope.
Data(c, text, cut) ==
    /\ conn[c].pc = "cmd" /\ conn[c].rcpt /\ mails < MaxMail
    /\ mails' = mails + 1
    /\ LET wire == Stuffed(text)
       IN conn' = [conn EXCEPT ![c] =
            [pc |-> IF cut < Len(wire) THEN "gone" ELSE "store", rcpt |-> FALSE,
             data |-> unstuff(read_data(SubSeq(wire, 1, cut))), sent |-> text]]
    /\ MailQuiet /\ UNCHANGED mailOps

\* append takes the mutex and an id, and writes the message's file.  A failing
\* write is answered 451 with the id spent.
AppendFile(c) ==
    /\ mailUp /\ job = NoJob /\ conn[c].pc \in {"store", "gone"}
    /\ mem' = [mem EXCEPT !.next = @ + 1]
    /\ used' = used \cup {mem.next}
    /\ \/ /\ eml' = (mem.next :> conn[c].data) @@ eml
          /\ job' = [kind |-> "append", by |-> c, drop |-> <<mem.next>>, text |-> conn[c].data]
          /\ UNCHANGED <<conn, mailOps>>
       \/ /\ MailOp
          /\ conn' = [conn EXCEPT ![c] = IF @.pc = "gone" THEN Offline ELSE [Offline EXCEPT !.pc = "cmd"]]
          /\ UNCHANGED <<eml, job>>
    /\ UNCHANGED <<index, mailUp, owed, mails>>

Without(f, ids) == Restrict(f, DOMAIN f \ ids)

AppendEvict_Newest ==
    /\ job.kind = "append"
    /\ LET all == mem.entries \o <<Entry(job.drop[1])>>
           n == evict_count(Len(all))
           old == IdsOf(SubSeq(all, Len(all) - n, Len(all) - 1))
       IN /\ mem' = [mem EXCEPT !.entries = SelectSeq(all, LAMBDA e : e.id \notin old)]
          /\ eml' = Without(eml, old)
          /\ owed' = Without(owed, IdsOf(SubSeq(all, 1, n)))
    /\ job' = [job EXCEPT !.kind = "append_index"]
    /\ UNCHANGED <<conn, index, mailUp, used, mails, mailOps>>

\* The entry joins the list, the oldest beyond the cap leave it and their
\* files are removed.
AppendEvict ==
    /\ job.kind = "append"
    /\ LET all == mem.entries \o <<Entry(job.drop[1])>>
           old == IdsOf(SubSeq(all, 1, evict_count(Len(all))))
       IN /\ mem' = [mem EXCEPT !.entries = SelectSeq(all, LAMBDA e : e.id \notin old)]
          /\ eml' = Without(eml, old)
          /\ owed' = Without(owed, old)
    /\ job' = [job EXCEPT !.kind = "append_index"]
    /\ UNCHANGED <<conn, index, mailUp, used, mails, mailOps>>

Answered(c) == [conn EXCEPT ![c] = IF @.pc = "gone" THEN Offline ELSE [Offline EXCEPT !.pc = "cmd"]]

\* write_index: a temporary file renamed over index.json.
write_index(entries) == index' = entries

\* append saves the index and answers "250 OK: queued"; a failing save is
\* answered 451 although the message is listed until the daemon ends.
AppendIndex ==
    /\ job.kind = "append_index"
    /\ \/ /\ write_index(mem.entries)
          /\ owed' = IF conn[job.by].pc = "store" THEN (job.drop[1] :> conn[job.by].sent) @@ owed ELSE owed
          /\ UNCHANGED mailOps
       \/ MailOp /\ UNCHANGED <<index, owed>>
    /\ conn' = Answered(job.by)
    /\ job' = NoJob
    /\ UNCHANGED <<mem, eml, mailUp, used, mails>>

\* delete_many and clear (all of them): the entries leave the list, then their
\* files are removed, then the index is saved.
DeleteMany(ids) ==
    /\ mailUp /\ job = NoJob /\ MailOp
    /\ mem' = [mem EXCEPT !.entries = SelectSeq(@, LAMBDA e : e.id \notin ids)]
    /\ job' = [NoJob EXCEPT !.kind = "delete", !.drop = SetToSeq(IdsOf(mem.entries) \cap ids)]
    /\ owed' = Without(owed, ids)
    /\ UNCHANGED <<conn, eml, index, mailUp, used, mails>>
Clear == DeleteMany(IdsOf(mem.entries))

DeleteFiles ==
    /\ job.kind = "delete" /\ job.drop # <<>>
    /\ eml' = Without(eml, {Head(job.drop)})
    /\ job' = [job EXCEPT !.drop = Tail(@)]
    /\ UNCHANGED <<conn, mem, index, mailUp, owed, used, mails, mailOps>>

DeleteIndex ==
    /\ job.kind = "delete" /\ job.drop = <<>>
    /\ \/ write_index(mem.entries) /\ UNCHANGED mailOps
       \/ MailOp /\ UNCHANGED index
    /\ job' = NoJob
    /\ UNCHANGED <<conn, mem, eml, mailUp, owed, used, mails>>

\* mark_read: saved only when an entry changed.
MarkRead(ids) ==
    /\ mailUp /\ job = NoJob /\ MailOp
    /\ \E i \in DOMAIN mem.entries : ~mem.entries[i].read /\ mem.entries[i].id \in ids
    /\ mem' = [mem EXCEPT !.entries =
                [i \in DOMAIN @ |-> IF @[i].id \in ids THEN [@[i] EXCEPT !.read = TRUE] ELSE @[i]]]
    /\ write_index(mem'.entries)
    /\ UNCHANGED <<conn, eml, job, mailUp, owed, used, mails>>

\* The daemon is killed, between any two writes, or stops; the connections end.
\* (A file cut while it is written is in no index, and never read.)
Kill ==
    /\ mailUp /\ MailOp /\ mailUp' = FALSE
    /\ conn' = [c \in Conns |-> Offline]
    /\ job' = NoJob /\ mem' = [entries |-> <<>>, next |-> 0]
    /\ UNCHANGED <<eml, index, owed, used, mails>>

\* Store::open in bring_up: an index that is there and parses, or none.
OpenStore ==
    /\ ~mailUp /\ mailUp' = TRUE
    /\ mem' = open_with_cap(eml, index)
    /\ UNCHANGED <<conn, eml, index, job, owed, used, mails, mailOps>>

MailNext ==
    \/ \E c \in Conns : Accept(c) \/ AppendFile(c) \/ \E v \in {"MAIL", "RCPT", "QUIT"} : Command(c, v)
    \/ \E c \in Conns, text \in Messages : \E cut \in 0 .. Len(text) + 1 : Data(c, text, cut)
    \/ AppendEvict \/ AppendIndex \/ DeleteFiles \/ DeleteIndex \/ Clear \/ Kill \/ OpenStore
    \/ \E ids \in {{i} : i \in IdsOf(mem.entries)} : DeleteMany(ids) \/ MarkRead(ids)

-----------------------------------------------------------------------------
\* A message answered "250 OK: queued" is listed, can be opened and is what the
\* site sent, until it is deleted, cleared or evicted: through later messages,
\* and through a daemon killed between any two writes (append, write_index,
\* open_with_cap, get).
QueuedIsKept ==
    mailUp => \A id \in DOMAIN owed :
      /\ id \in IdsOf(mem.entries) /\ id \in DOMAIN eml
      /\ Len(owed[id]) <= MaxBytes => eml[id] = owed[id]

\* Two listed messages never have the same id, so that a delete, a read mark or
\* an opened message is the one the user means: also when the daemon was killed
\* after a message's file was removed and before the index was saved.
OneMailPerId == \A i, j \in DOMAIN mem.entries : mem.entries[i].id = mem.entries[j].id => i = j
=============================================================================
