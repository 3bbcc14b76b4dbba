----------------------------- MODULE FcgiForward -----------------------------
(***************************************************************************)
(* One request forwarded to PHP-FPM (yerd-proxy forward/fcgi.rs, with      *)
(* pure/cgi_head.rs and pure/fcgi_codec.rs): the client and its upload, the *)
(* task that writes the request, the task that reads the response and      *)
(* relays it through a bounded channel, the two directions of a socket with *)
(* little room, and an FPM worker running a script that may answer before  *)
(* it has read its input, stream for ever, fall silent or die.             *)
(***************************************************************************)
EXTENDS Naturals, Sequences, SequencesExt

CONSTANTS Uploads,      \* sizes of the request body, in frames
          Scripts,      \* what a script may write, in records
          Orders,       \* "read first", "never read": what it does with its input
          SocketRoom,   \* records a direction of the socket holds
          ChannelRoom,  \* STDOUT_CHANNEL_RECORDS
          MaxDiscarded  \* MAX_DISCARDED_BYTES, in records

VARIABLES
  client,  \* [up, left, got, head, end, here, whole, reset]
  writer,  \* where the request writer is
  stop,    \* has stop_writing been sent
  up,      \* the socket towards FPM
  fpm,     \* the worker: what it has read, what its script will still write
  down,    \* the socket towards the proxy
  reader,  \* where the forwarder or the response reader is
  chan,    \* the channel to the client
  bodyless \* HEAD, 204, 304: hyper gives the response no body

vars == <<client, writer, stop, up, fpm, down, reader, chan, bodyless>>

(* Records of a response: header block in parts, its end with or without    *)
(* the first of the body, too long a block, body, empty or error output,    *)
(* the end of the request.                                                  *)
HeadEnds == {"head", "head+"}

Init ==
  /\ \E n \in Uploads, whole \in BOOLEAN :
       client = [left |-> n, up |-> n, got |-> <<>>, end |-> "open", here |-> TRUE,
                 whole |-> whole, reset |-> FALSE]
  /\ writer = "unborn" /\ stop = FALSE /\ up = <<>>
  /\ \E script \in Scripts, order \in Orders :
       fpm = [script |-> script, order |-> order, state |-> "idle", read |-> 0,
              eof |-> FALSE, wrote |-> 0, ended |-> FALSE]
  /\ down = <<>> /\ reader = [pc |-> "connect", rest |-> 0, seen |-> 0] /\ chan = <<>>
  /\ bodyless \in BOOLEAN

-----------------------------------------------------------------------------
(* The client uploads `left` more frames; an upload that is not whole fails  *)
(* after the last of them.                                                  *)
Writing == {"prelude", "body", "term"}
ReaderOver == reader.pc \in {"done", "gone"}
(* tokio::io::split: the socket closes when both halves are dropped. *)
Closed == writer \notin Writing /\ ReaderOver
FpmGone == fpm.state = "free"

(* hyper drops the service future, or the response body, of a client that   *)
(* is gone; its request body ends in an error.                              *)
ClientLeaves ==
  /\ client.here /\ client.end = "open"
  /\ client' = [client EXCEPT !.here = FALSE]
  /\ UNCHANGED <<writer, stop, up, fpm, down, reader, chan, bodyless>>
(* The WriterHandle dropped with its task in it: the writer is aborted, and  *)
(* what is left of the upload is lost under the client.                     *)
Abort(c) ==
  /\ writer' = IF writer = "finished" THEN writer ELSE "aborted"
  /\ client' = [c EXCEPT !.reset = writer # "finished" /\ c.here]
ForwardCancelled ==
  /\ ~client.here /\ reader.pc \in {"head", "drain"}
  /\ Abort(client)
  /\ reader' = [reader EXCEPT !.pc = "gone"]
  /\ UNCHANGED <<stop, up, fpm, down, chan, bodyless>>

(* forward: the connection, the prelude (begin record and parameters) ready *)
(* to be written, the writer's task started; or no connection.              *)
OpenBackend ==
  /\ reader.pc = "connect"
  /\ \/ /\ writer' = "prelude" /\ reader' = [reader EXCEPT !.pc = "head"]
        /\ UNCHANGED <<client, fpm>>
     \/ /\ writer' = "finished" /\ reader' = [reader EXCEPT !.pc = "done"]
        /\ client' = [client EXCEPT !.end = "error", !.reset = TRUE]
        /\ fpm' = [fpm EXCEPT !.state = "free"]
  /\ UNCHANGED <<stop, up, down, chan, bodyless>>

(* write_request: prelude, frames as STDIN records, terminator; an upload   *)
(* that fails part-way is half-closed instead.  A write fails once FPM is   *)
(* gone.                                                                    *)
Room(q) == Len(q) < SocketRoom
NextFrame == IF ~client.here THEN "error"
             ELSE IF client.left > 0 THEN "frame"
             ELSE IF client.whole THEN "none" ELSE "error"
(* Mutant: an upload that breaks off is terminated like a whole one. *)
WriteRequest_Term ==
  /\ writer \in Writing /\ ~stop
  /\ \/ FpmGone /\ writer' = "drain" /\ UNCHANGED <<client, up>>
     \/ /\ ~FpmGone /\ Room(up)
        /\ CASE writer = "prelude" -> /\ up' = Append(up, "begin") /\ writer' = "body"
                                      /\ UNCHANGED client
             [] writer = "body" /\ NextFrame = "frame" ->
                  /\ up' = Append(up, "in") /\ client' = [client EXCEPT !.left = @ - 1]
                  /\ UNCHANGED writer
             [] writer = "body" -> writer' = "term" /\ UNCHANGED <<up, client>>
             [] OTHER -> up' = Append(up, "eof") /\ writer' = "drain" /\ UNCHANGED client
  /\ UNCHANGED <<stop, fpm, down, reader, chan, bodyless>>
WriteRequest ==
  /\ writer \in Writing /\ ~stop
  /\ \/ FpmGone /\ writer' = "drain" /\ UNCHANGED <<client, up>>
     \/ /\ ~FpmGone /\ Room(up)
        /\ CASE writer = "prelude" -> /\ up' = Append(up, "begin") /\ writer' = "body"
                                      /\ UNCHANGED client
             [] writer = "body" /\ NextFrame = "frame" ->
                  /\ up' = Append(up, "in") /\ client' = [client EXCEPT !.left = @ - 1]
                  /\ UNCHANGED writer
             [] writer = "body" /\ NextFrame = "none" ->
                  writer' = "term" /\ UNCHANGED <<up, client>>
             [] writer = "body" /\ NextFrame = "error" ->
                  up' = Append(up, "shut") /\ writer' = "drain" /\ UNCHANGED client
             [] OTHER -> up' = Append(up, "eof") /\ writer' = "drain" /\ UNCHANGED client
  /\ UNCHANGED <<stop, fpm, down, reader, chan, bodyless>>
(* The select arm that stops writing. *)
StopWriting ==
  /\ writer \in Writing /\ stop
  /\ writer' = "drain"
  /\ UNCHANGED <<client, stop, up, fpm, down, reader, chan, bodyless>>
DrainClientBody ==
  /\ writer = "drain"
  /\ IF NextFrame = "frame" THEN client' = [client EXCEPT !.left = @ - 1] /\ UNCHANGED writer
     ELSE writer' = "finished" /\ UNCHANGED client
  /\ UNCHANGED <<stop, up, fpm, down, reader, chan, bodyless>>

-----------------------------------------------------------------------------
(* The FPM worker. *)
FpmReads ==
  /\ up # <<>> /\ ~FpmGone
  /\ fpm.state = "idle" \/ (fpm.order = "read first" /\ ~fpm.eof) \/ Head(up) = "shut"
  /\ up' = Tail(up)
  /\ fpm' = CASE Head(up) = "begin" -> [fpm EXCEPT !.state = "busy"]
              [] Head(up) = "in" -> [fpm EXCEPT !.read = @ + 1]
              [] Head(up) = "eof" -> [fpm EXCEPT !.eof = TRUE]
              [] OTHER -> [fpm EXCEPT !.state = "free"]
  /\ UNCHANGED <<client, writer, stop, down, reader, chan, bodyless>>
FpmWrites ==
  /\ fpm.state = "busy" /\ fpm.script # <<>> /\ Room(down)
  /\ fpm.order = "read first" => fpm.eof
  /\ Head(fpm.script) \notin {"hang", "die"}
  /\ down' = Append(down, Head(fpm.script))
  /\ fpm' = CASE Head(fpm.script) = "end" -> [fpm EXCEPT !.state = "free", !.ended = TRUE,
                                                       !.script = <<>>]
              [] Head(fpm.script) = "loop" -> fpm
              [] OTHER -> [fpm EXCEPT !.script = Tail(@),
                    !.wrote = IF Head(fpm.script) \in {"body", "head+"} THEN @ + 1 ELSE @]
  /\ UNCHANGED <<client, writer, stop, up, reader, chan, bodyless>>
(* The script dies, or FPM notices that the proxy has closed the socket. *)
FpmStops ==
  /\ ~FpmGone
  /\ \/ fpm.state = "busy" /\ fpm.script # <<>> /\ Head(fpm.script) = "die"
     \/ Closed
  /\ fpm' = [fpm EXCEPT !.state = "free"]
  /\ UNCHANGED <<client, writer, stop, up, down, reader, chan, bodyless>>

-----------------------------------------------------------------------------
(* read_record: a record, or an error once FPM has gone.  Records are       *)
(* numbered as they are read.                                               *)
Readable == down # <<>> \/ FpmGone
ReadRecord == IF down # <<>> THEN Head(down) ELSE "error"
Consumed == IF down # <<>> THEN Tail(down) ELSE down

(* WriterHandle::wind_down. *)
(* Mutant: the handle is dropped as it is. *)
WindDown_Abort(c) == Abort(c) /\ UNCHANGED stop
WindDown(c) == stop' = TRUE /\ client' = c /\ UNCHANGED writer

(* forward up to the end of the header block (HeadAccumulator::feed and     *)
(* finish, Header::decode): a failure is still a clean error response.      *)
(* Mutant: the response is read when the request has been written. *)
ReadHead_Sequential ==
  /\ reader.pc = "head" /\ Readable /\ writer = "finished"
  /\ down' = Consumed
  /\ CASE ReadRecord \in {"error", "huge"} ->
            /\ reader' = [reader EXCEPT !.pc = "done"]
            /\ Abort([client EXCEPT !.end = "error"]) /\ UNCHANGED stop
       [] ReadRecord = "end" ->
            /\ reader' = [reader EXCEPT !.pc = "done"]
            /\ WindDown([client EXCEPT !.end = "clean"])
       [] ReadRecord \in HeadEnds ->
            /\ reader' = [reader EXCEPT !.rest = IF ReadRecord = "head+" THEN 1 ELSE 0,
                 !.seen = IF ReadRecord = "head+" /\ ~bodyless THEN 1 ELSE 0,
                 !.pc = IF bodyless THEN "drain" ELSE "relay"]
            /\ UNCHANGED <<client, writer, stop>>
       [] OTHER -> UNCHANGED <<reader, client, writer, stop>>
  /\ UNCHANGED <<up, fpm, chan, bodyless>>
ReadHead ==
  /\ reader.pc = "head" /\ Readable
  /\ down' = Consumed
  /\ CASE ReadRecord \in {"error", "huge"} ->
            /\ reader' = [reader EXCEPT !.pc = "done"]
            /\ Abort([client EXCEPT !.end = "error"]) /\ UNCHANGED stop
       [] ReadRecord = "end" ->
            /\ reader' = [reader EXCEPT !.pc = "done"]
            /\ WindDown([client EXCEPT !.end = "clean"])
       [] ReadRecord \in HeadEnds ->
            /\ reader' = [reader EXCEPT !.rest = IF ReadRecord = "head+" THEN 1 ELSE 0,
                 !.seen = IF ReadRecord = "head+" /\ ~bodyless THEN 1 ELSE 0,
                 !.pc = IF bodyless THEN "drain" ELSE "relay"]
            /\ UNCHANGED <<client, writer, stop>>
       [] OTHER -> UNCHANGED <<reader, client, writer, stop>>
  /\ UNCHANGED <<up, fpm, chan, bodyless>>

(* drain_to_end_request: up to the cap, for a response without a body. *)
DrainToEnd ==
  /\ reader.pc = "drain" /\ Readable
  /\ down' = Consumed
  /\ CASE ReadRecord = "error" ->
            /\ reader' = [reader EXCEPT !.pc = "done"]
            /\ Abort([client EXCEPT !.end = "error"]) /\ UNCHANGED stop
       [] ReadRecord = "end" \/ (ReadRecord \in {"body", "loop"} /\ reader.seen >= MaxDiscarded) ->
            /\ reader' = [reader EXCEPT !.pc = "done"]
            /\ WindDown([client EXCEPT !.end = "clean"])
       [] OTHER ->
            /\ reader' = [reader EXCEPT !.seen = IF ReadRecord \in {"body", "loop"} THEN @ + 1 ELSE @]
            /\ UNCHANGED <<client, writer, stop>>
  /\ UNCHANGED <<up, fpm, chan, bodyless>>

(* read_response.  What the head left over goes first; then records one at  *)
(* a time, each waiting for room; a client that is gone, or an error, ends   *)
(* it with the writer's handle dropped.                                     *)
Broken == 1000
Send(item) == Len(chan) < ChannelRoom /\ chan' = Append(chan, item)
SendRest ==
  /\ reader.pc = "relay" /\ reader.rest > 0 /\ client.here
  /\ Send(1)
  /\ reader' = [reader EXCEPT !.rest = 0]
  /\ UNCHANGED <<client, writer, stop, up, fpm, down, bodyless>>
(* Mutant: a read that fails just ends the response. *)
Relay_Quiet ==
  /\ reader.pc = "relay" /\ reader.rest = 0 /\ client.here /\ Readable
  /\ down' = Consumed
  /\ \/ /\ ReadRecord \in {"end", "error"}
        /\ reader' = [reader EXCEPT !.pc = "done"]
        /\ WindDown(client) /\ UNCHANGED chan
     \/ /\ ReadRecord \in {"body", "loop"} /\ Send(IF ReadRecord = "body" THEN reader.seen + 1 ELSE 0)
        /\ reader' = [reader EXCEPT !.seen = IF ReadRecord = "body" THEN @ + 1 ELSE @]
        /\ UNCHANGED <<client, writer, stop>>
     \/ /\ ReadRecord \notin {"end", "error", "body", "loop"}
        /\ UNCHANGED <<reader, client, writer, stop, chan>>
  /\ UNCHANGED <<up, fpm, bodyless>>
Relay ==
  /\ reader.pc = "relay" /\ reader.rest = 0 /\ client.here /\ Readable
  /\ down' = Consumed
  /\ \/ /\ ReadRecord = "end"
        /\ reader' = [reader EXCEPT !.pc = "done"]
        /\ WindDown(client) /\ UNCHANGED chan
     \/ /\ ReadRecord = "error" /\ Send(Broken)
        /\ reader' = [reader EXCEPT !.pc = "done"]
        /\ Abort(client) /\ UNCHANGED stop
     \/ /\ ReadRecord \in {"body", "loop"} /\ Send(IF ReadRecord = "body" THEN reader.seen + 1 ELSE 0)
        /\ reader' = [reader EXCEPT !.seen = IF ReadRecord = "body" THEN @ + 1 ELSE @]
        /\ UNCHANGED <<client, writer, stop>>
     \/ /\ ReadRecord \notin {"end", "error", "body", "loop"}
        /\ UNCHANGED <<reader, client, writer, stop, chan>>
  /\ UNCHANGED <<up, fpm, bodyless>>
(* tx.closed(), or a send to a client that is gone. *)
(* Mutant: the loop only notices when it has something to send. *)
RelayClosed_OnSend ==
  /\ reader.pc = "relay" /\ ~client.here /\ down # <<>>
  /\ reader' = [reader EXCEPT !.pc = "gone"]
  /\ Abort(client)
  /\ UNCHANGED <<stop, up, fpm, down, chan, bodyless>>
RelayClosed ==
  /\ reader.pc = "relay" /\ ~client.here
  /\ reader' = [reader EXCEPT !.pc = "gone"]
  /\ Abort(client)
  /\ UNCHANGED <<stop, up, fpm, down, chan, bodyless>>

(* ChannelBody::poll_frame; hyper ends the response when the channel does,  *)
(* and aborts the connection on an error.                                   *)
ClientReads ==
  /\ client.here /\ client.end = "open" /\ reader.pc \in {"relay", "done"} /\ ~bodyless
  /\ \/ /\ chan # <<>> /\ chan' = Tail(chan)
        /\ client' = IF Head(chan) = Broken THEN [client EXCEPT !.end = "aborted"]
                     ELSE IF Head(chan) = 0 THEN client
                     ELSE [client EXCEPT !.got = Append(@, Head(chan))]
     \/ /\ chan = <<>> /\ reader.pc = "done"
        /\ client' = [client EXCEPT !.end = "clean"] /\ UNCHANGED chan
  /\ UNCHANGED <<writer, stop, up, fpm, down, reader, bodyless>>

ProxyStep ==
  \/ OpenBackend \/ ForwardCancelled \/ ReadHead \/ DrainToEnd \/ SendRest \/ Relay \/ RelayClosed
WriterStep == WriteRequest \/ StopWriting \/ DrainClientBody
FpmStep == FpmReads \/ FpmWrites \/ FpmStops
Over == FpmGone /\ (client.end # "open" \/ ~client.here) /\ UNCHANGED vars
Silent == fpm.script # <<>> /\ Head(fpm.script) = "hang" /\ UNCHANGED vars

Next ==
  ClientLeaves \/ ClientReads \/ WriterStep \/ ProxyStep \/ FpmStep \/ Over \/ Silent
Fairness ==
  WF_vars(ProxyStep) /\ WF_vars(WriterStep) /\ WF_vars(FpmStep) /\ WF_vars(ClientReads)
Spec == Init /\ [][Next]_vars /\ Fairness

-----------------------------------------------------------------------------
(* A response that ends cleanly is the whole of what the script wrote: a    *)
(* failure after the head is on the wire aborts the connection instead.     *)
CleanIsWhole ==
  /\ \A i \in DOMAIN client.got : client.got[i] = i
  /\ client.end = "clean" /\ ~bodyless => fpm.ended /\ Len(client.got) = fpm.wrote

(* PHP is told that its input is complete only when it is: an upload that   *)
(* broke off is half-closed, not terminated.                                *)
EofIsWhole == fpm.eof => client.whole /\ fpm.read = client.up

(* wind_down: a client that was answered to the end is never reset under    *)
(* its own upload.                                                          *)
NotReset == client.end = "clean" => ~client.reset

(* The worker is freed: when the script ends or dies, when the client goes,  *)
(* and, for a response without a body, when the script has said too much.   *)
(* Only a silent script, or an endless one with an audience, keeps it.      *)
Kept == client.here /\ fpm.script # <<>> /\ Head(fpm.script) \in {"hang", "loop"}
WorkerFreed == fpm.state = "busy" ~> FpmGone \/ Kept

(* Every exchange with a script that ends comes to an end, also when PHP    *)
(* answers first and neither side has room left.                            *)
ExchangeEnds == (client.end = "open") ~> (client.end # "open" \/ ~client.here \/ Kept)
=============================================================================
