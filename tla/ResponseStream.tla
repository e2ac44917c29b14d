-------------------------- MODULE ResponseStream --------------------------
(***************************************************************************)
(* The response path of one worker: what PHP does with the bridge          *)
(* (bridge.rs), the bounded channel of response chunks, the caller that    *)
(* reads it (collect_stream, or a plugin that streams), and the supervisor *)
(* that waits for done before it sends the next request, or gives up.      *)
(*                                                                         *)
(* Chunks are their kinds.  PHP uses the bridge in one of two ways: "loop" *)
(* is folk_worker_run, which calls a handler per request and finalises the *)
(* stream when it returns; "manual" is a script that calls                 *)
(* folk_worker_recv and folk_worker_send itself.  In both the functions    *)
(* may be called in any order.                                             *)
(*                                                                         *)
(* The caller reads in one of two ways as well: "pool" is the caller of    *)
(* the pool, which reads while PHP writes; "execute" is the handle's own   *)
(* execute(), which waits for done first and reads what is in the channel  *)
(* then.                                                                   *)
(***************************************************************************)
EXTENDS Integers, SequencesExt

CONSTANTS
    MaxRequests, \* requests the supervisor sends to the worker
    StreamCap,   \* capacity of a response channel (64)
    MaxWrites,   \* bound on folk_write calls per request
    MayDie       \* TRUE: the PHP thread may end early

ASSUME StreamAssumption ==
    /\ MaxRequests \in Nat /\ StreamCap \in Nat \ {0}
    /\ MaxWrites \in Nat /\ MayDie \in BOOLEAN

Requests == 1 .. MaxRequests
NoRequest == 0

VARIABLES
    api,     \* how PHP uses the bridge: loop or manual
    style,   \* how the caller reads: pool or execute
    pc,      \* the PHP thread: recv, php, sending, gone
    tasks,   \* the worker's task channel
    cur,     \* request of current_stream_tx and current_done_tx
    started, \* stream_started
    writes,  \* writes[r]: folk_write calls for r
    out,     \* chunks the call in progress has still to send
    outTo,   \* the request they belong to
    after,   \* where PHP goes on: recv or php
    chan,    \* chan[r]: chunks sent and not yet read
    open,    \* open[r]: a sender of r's stream exists
    done,    \* done[r]: done_tx is pending, sent or dropped
    log,     \* log[r]: chunks the caller of r has read
    caller,  \* caller[r]: none, waiting (for done), reading, left, or
             \* what it returned
    sup      \* the request the supervisor executes, or NoRequest

phpVars == <<api, style, pc, tasks, cur, started, writes, out, outTo, after>>
vars == <<phpVars, chan, open, done, log, caller, sup>>

Reading(r) == caller[r] = "reading"
Listening(r) == caller[r] \in {"waiting", "reading"}

Init ==
    /\ api \in {"loop", "manual"} /\ style \in {"pool", "execute"}
    /\ pc = IF api = "loop" THEN "recv" ELSE "php"
    /\ tasks = <<>> /\ cur = NoRequest /\ started = FALSE
    /\ writes = [r \in Requests |-> 0]
    /\ out = <<>> /\ outTo = NoRequest /\ after = "php"
    /\ chan = [r \in Requests |-> <<>>] /\ open = [r \in Requests |-> FALSE]
    /\ done = [r \in Requests |-> "none"]
    /\ log = [r \in Requests |-> <<>>]
    /\ caller = [r \in Requests |-> "none"]
    /\ sup = NoRequest
----------------------------------------------------------------------------
(* The supervisor: execute_streaming under exec_timeout.  execute() borrows
   the handle until it has collected the response. *)

SupSend(r) ==
    /\ sup = NoRequest /\ done[r] = "none" /\ pc # "gone"
    /\ style = "execute" => \A q \in Requests : ~Listening(q)
    /\ \A q \in 1 .. r - 1 : done[q] # "none"
    /\ sup' = r
    /\ tasks' = Append(tasks, r)
    /\ open' = [open EXCEPT ![r] = TRUE]
    /\ done' = [done EXCEPT ![r] = "pending"]
    /\ caller' = [caller EXCEPT ![r] =
                      IF style = "pool" THEN "reading" ELSE "waiting"]
    /\ UNCHANGED <<api, style, pc, cur, started, writes, out, outTo, after, chan,
                   log>>

(* execute() reads after a done, and returns an error without one. *)
SupDone ==
    /\ sup # NoRequest /\ done[sup] # "pending"
    /\ sup' = NoRequest
    /\ IF caller[sup] # "waiting" THEN UNCHANGED <<chan, caller>>
       ELSE IF done[sup] = "sent"
       THEN caller' = [caller EXCEPT ![sup] = "reading"] /\ UNCHANGED chan
       ELSE /\ caller' = [caller EXCEPT ![sup] = "error"]
            /\ chan' = [chan EXCEPT ![sup] = <<>>]
    /\ UNCHANGED <<phpVars, open, done, log>>

(* The future is dropped: of execute(), the receiver is in it. *)
SupTimeout ==
    /\ sup # NoRequest /\ done[sup] = "pending"
    /\ sup' = NoRequest
    /\ IF caller[sup] # "waiting" THEN UNCHANGED <<chan, caller>>
       ELSE /\ caller' = [caller EXCEPT ![sup] = "left"]
            /\ chan' = [chan EXCEPT ![sup] = <<>>]
    /\ UNCHANGED <<phpVars, open, done, log>>
----------------------------------------------------------------------------
(* PHP. *)

(* do_recv, called by a script or by a handler of the dispatch loop, and the
   head of that loop.  A request that was not answered is replaced: its
   senders are dropped. *)
Recv ==
    /\ pc \in {"recv", "php"} /\ tasks # <<>>
    /\ tasks' = Tail(tasks)
    /\ cur' = Head(tasks) /\ started' = FALSE
    /\ open' = [r \in Requests |-> open[r] /\ r # cur]
    /\ done' = [r \in Requests |-> IF r = cur THEN "dropped" ELSE done[r]]
    /\ pc' = "php"
    /\ UNCHANGED <<api, style, writes, out, outTo, after, chan, log, caller, sup>>

(* A call that sends chunks to the current request. *)
Sends(chunks, then) ==
    /\ pc' = "sending" /\ after' = then
    /\ out' = chunks /\ outTo' = cur
    /\ UNCHANGED <<api, style, tasks, chan, open, done, log, caller, sup>>

(* A call that answers it: stream and done sender are taken first. *)
MutAnswers(chunks, then) ==
    /\ Sends(chunks, then)
    /\ UNCHANGED <<cur, started, writes>>
Answers(chunks, then) ==
    /\ Sends(chunks, then)
    /\ cur' = NoRequest /\ started' = FALSE
    /\ UNCHANGED writes

MayWriteHead == cur # NoRequest /\ ~started

WriteHead ==
    /\ pc = "php" /\ MayWriteHead
    /\ started' = TRUE
    /\ Sends(<<"Headers">>, "php")
    /\ UNCHANGED <<cur, writes>>

Write ==
    /\ pc = "php" /\ cur # NoRequest /\ writes[cur] < MaxWrites
    /\ writes' = [writes EXCEPT ![cur] = @ + 1]
    /\ Sends(<<"Body">>, "php")
    /\ UNCHANGED <<cur, started>>

WriteEnd ==
    /\ pc = "php" /\ cur # NoRequest
    /\ Answers(<<"End">>, "php")

(* do_send with a value, with an __error or malformed JSON; do_send_error. *)
Send ==
    /\ pc = "php" /\ cur # NoRequest
    /\ \E chunk \in {"Return", "Error"} : Answers(<<chunk, "End">>, "php")

(* The handler returns a value or an error, or throws: the dispatch loop
   finalises the stream.  What a handler that has streamed returns, or that
   it failed, is ignored. *)
MutFinal(chunk) == IF started THEN <<>> ELSE <<chunk, "End">>
Final(chunk) == IF started THEN <<"End">> ELSE <<chunk, "End">>

HandlerReturns ==
    /\ pc = "php" /\ api = "loop"
    /\ IF cur = NoRequest
       THEN /\ pc' = "recv"
            /\ UNCHANGED <<api, style, tasks, cur, started, writes, out, outTo,
                           after, chan, open, done, log, caller, sup>>
       ELSE \E chunk \in {"Return", "Error"} : Answers(Final(chunk), "recv")

(* blocking_send: waits for room, fails at once when the receiver is gone.
   All callers of it go on in the same way when it fails. *)
MutRoom(r) == Listening(r) /\ Len(chan[r]) < StreamCap
Room(r) == ~Listening(r) \/ Len(chan[r]) < StreamCap

Push ==
    /\ pc = "sending" /\ out # <<>> /\ Room(outTo)
    /\ out' = Tail(out)
    /\ chan' = IF Listening(outTo)
               THEN [chan EXCEPT ![outTo] = Append(@, Head(out))] ELSE chan
    /\ UNCHANGED <<api, style, pc, tasks, cur, started, writes, outTo, after, open,
                   done, log, caller, sup>>

(* The call returns; one that answered the request has dropped its stream
   and sends done. *)
Pushed == pc = "sending" /\ out = <<>>

CallReturns ==
    /\ Pushed
    /\ pc' = after /\ outTo' = NoRequest /\ out' = <<>>
    /\ IF cur = outTo
       THEN UNCHANGED <<open, done>>
       ELSE /\ open' = [open EXCEPT ![outTo] = FALSE]
            /\ done' = [done EXCEPT ![outTo] = "sent"]
    /\ UNCHANGED <<api, style, tasks, cur, started, writes, after, chan, log,
                   caller, sup>>

(* The script ends early (exit(), a fatal error): cleanup_worker_state drops
   everything the thread owns. *)
Dies ==
    /\ MayDie /\ pc = "php"
    /\ pc' = "gone"
    /\ open' = [r \in Requests |-> FALSE]
    /\ done' = [r \in Requests |->
                   IF done[r] = "pending" THEN "dropped" ELSE done[r]]
    /\ tasks' = <<>> /\ cur' = NoRequest
    /\ UNCHANGED <<api, style, started, writes, out, outTo, after, chan, log, caller,
                   sup>>
----------------------------------------------------------------------------
(* The caller of r: collect_stream, or collect_stream_to_value, which stops
   at a value. *)

(* What collect_stream returns for the chunks it has read: a value verbatim,
   else the {status, headers, body} it puts together. *)
Collected(chunks) ==
    IF "Return" \in ToSet(chunks) THEN "value" ELSE "http"

MutStops(chunk) == chunk # "Headers"
Stops(chunk) ==
    chunk \in {"Error", "End"} \/ (chunk = "Return" /\ style = "execute")

Read(r) ==
    LET chunk == Head(chan[r])
        all == Append(log[r], chunk)
    IN /\ Reading(r) /\ chan[r] # <<>>
       /\ log' = [log EXCEPT ![r] = all]
       /\ caller' = [caller EXCEPT ![r] =
             IF ~Stops(chunk) THEN "reading"
             ELSE IF chunk = "Error" THEN "error" ELSE Collected(all)]
       /\ chan' = [chan EXCEPT ![r] =
                      IF Stops(chunk) THEN <<>> ELSE Tail(@)]
       /\ UNCHANGED <<phpVars, open, done, sup>>

(* The stream is closed: the loop ends as it does on End. *)
ReadClosed(r) ==
    /\ Reading(r) /\ chan[r] = <<>> /\ ~open[r]
    /\ caller' = [caller EXCEPT ![r] = Collected(log[r])]
    /\ UNCHANGED <<phpVars, chan, open, done, log, sup>>

(* The caller's future is dropped, and the receiver with it. *)
Leave(r) ==
    /\ Reading(r)
    /\ caller' = [caller EXCEPT ![r] = "left"]
    /\ chan' = [chan EXCEPT ![r] = <<>>]
    /\ UNCHANGED <<phpVars, open, done, log, sup>>

Next ==
    \/ Recv \/ WriteHead \/ Write \/ WriteEnd \/ Send \/ HandlerReturns
    \/ Push \/ CallReturns \/ Dies
    \/ SupDone \/ SupTimeout
    \/ \E r \in Requests : SupSend(r) \/ Read(r) \/ ReadClosed(r) \/ Leave(r)

Spec == Init /\ [][Next]_vars

(* Threads run; a caller drains its stream until it leaves ("Callers must
   drain the receiver to End"); a handler returns, and a script that has
   taken a request goes on to answer it or to take another. *)
Php == Recv \/ WriteEnd \/ Send \/ HandlerReturns
FairSpec ==
    /\ Spec
    /\ WF_vars(Php) /\ WF_vars(Push) /\ WF_vars(CallReturns)
    /\ \A r \in Requests : WF_vars(Read(r)) /\ WF_vars(ReadClosed(r))
----------------------------------------------------------------------------
(* Everything sent to the caller of r that it did not discard. *)
Stream(r) == log[r] \o chan[r]
Count(chunks, kind) == Cardinality({i \in DOMAIN chunks : chunks[i] = kind})

(* A stream is a response: headers at most once, nothing after End, and a
   value or an error only right before it, whatever PHP calls in which order,
   also when it returns a value after it has answered. *)
StreamWellFormed ==
    \A r \in Requests :
        LET s == Stream(r) IN
        /\ Count(s, "Headers") <= 1
        /\ \A i \in 1 .. Len(s) - 1 :
               /\ s[i] # "End"
               /\ s[i] \in {"Return", "Error"} => s[i + 1] = "End"

(* "All response chunks (including the final ResponseChunk::End) must be sent
   here before done_tx is signalled": a supervisor that gets done and takes
   the next request leaves a complete stream behind, or one nobody reads. *)
DoneAfterEnd ==
    \A r \in Requests : done[r] = "sent" =>
        ~Listening(r) \/ (Stream(r) # <<>> /\ Last(Stream(r)) = "End")

(* What PHP answers is what the caller gets: a caller that did not leave
   returns the error PHP gave, the value, or a response of all the chunks PHP
   wrote, through a channel that was full at times.  execute() returns an
   error when the worker dropped the request. *)
AnswerDelivered ==
    \A r \in Requests :
        /\ caller[r] = "error" =>
               \/ log[r] # <<>> /\ Last(log[r]) = "Error"
               \/ style = "execute" /\ done[r] = "dropped"
        /\ caller[r] = "http" => ToSet(log[r]) \cap {"Return", "Error"} = {}
        /\ caller[r] \in {"value", "http"} =>
               /\ Count(log[r], "Body") = writes[r]
               /\ done[r] = "sent" =>
                      Last(log[r]) = IF style = "execute" /\ caller[r] = "value"
                                     THEN "Return" ELSE "End"

(* execute() does not read before done: a response that does not fit in the
   channel waits for a reader that waits for the response. *)
Overlong ==
    /\ pc = "sending" /\ caller[outTo] = "waiting"
    /\ Len(chan[outTo]) = StreamCap

(* PHP is never stuck in blocking_send: a caller that reads or leaves lets
   the worker go on.  The one exception is a response longer than the
   channel under execute(). *)
SendCompletes == (pc = "sending") ~> (pc # "sending" \/ Overlong)

(* A response is reported as success only if the worker has finished it:
   WorkError has "worker died during request", and errors are to be surfaced
   so that "the consumer returns 500/502, not a silent 200". *)
NoSilentSuccess ==
    \A r \in Requests : caller[r] \in {"value", "http"} =>
        log[r] # <<>> /\ Last(log[r]) \in {"Return", "End"}
============================================================================
