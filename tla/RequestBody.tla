--------------------------- MODULE RequestBody ---------------------------
(***************************************************************************)
(* The streaming request body of one worker thread (folk-ext, bridge.rs):  *)
(* the channel of the current request's body, the unconsumed tail of the   *)
(* last chunk, the multipart cursor, and the five operations PHP has on    *)
(* them, in any order and of any length, over two or more requests.        *)
(*                                                                         *)
(* A blocking_recv returns what the HTTP side sends next, or None once it  *)
(* has closed the channel, so the channel of a request is the sequence of  *)
(* everything that will be sent on it.  Raw chunks are data items.  Parts  *)
(* are start, data and end items in any order: the stream may be cut short *)
(* (the client left) or malformed.  A chunk may be empty.  A byte is named *)
(* by its request, its item and its place in it.                           *)
(***************************************************************************)
EXTENDS Integers, SequencesExt

CONSTANTS
    MaxRequests,  \* bound on the requests the thread handles
    MaxItems,     \* bound on the items of the first body
    MaxNextItems, \* bound on the items of a later body
    MaxChunk,     \* bound on the bytes of a chunk
    MaxRead,      \* bound on the length PHP asks for
    DefaultRead   \* the length for one that is not positive (8192)

ASSUME BodyBounds ==
    /\ MaxRequests \in Nat /\ MaxItems \in Nat /\ MaxNextItems \in Nat
    /\ MaxChunk \in Nat /\ MaxRead \in Nat
    /\ DefaultRead \in Nat \ {0}

VARIABLES
    request,   \* the number of the current request, or of the last one
    sent,      \* its body as sent: the items, numbered by position
    kind,      \* current_body: none, raw or parts
    channel,   \* the items not yet received
    leftover,  \* current_body_leftover
    partState, \* current_part_state
    got,       \* the bytes PHP has been given for this request
    headers,   \* the part headers PHP has been given: their positions, and
               \* how many bytes PHP had been given before
    last       \* the last operation and the bytes it returned

vars == <<request, sent, kind, channel, leftover, partState, got, headers,
          last>>

Bytes(req, pos, n) == [k \in 1 .. n |-> <<req, pos, k>>]
Item(req, pos, shape) == [type |-> shape.type, pos |-> pos,
                          bytes |-> Bytes(req, pos, shape.size)]

(* What may be sent on a channel, and the streams of request req of at most n
   items of these shapes. *)
RawShapes == [type : {"data"}, size : 0 .. MaxChunk]
PartShapes == RawShapes \cup [type : {"start", "end"}, size : {0}]
Streams(req, n, shapes) ==
    {[p \in 1 .. Len(f) |-> Item(req, p, f[p])] : f \in BoundedSeq(shapes, n)}

Content(items) == FlattenSeq([i \in 1 .. Len(items) |-> items[i].bytes])

From(items, i) == SubSeq(items, i, Len(items))

(* The data items up to the first that is none, or to the close. *)
NotData(item) == item.type # "data"
DataRun(items) ==
    LET mark == SelectInSeq(items, NotData)
    IN SubSeq(items, 1, IF mark = 0 THEN Len(items) ELSE mark - 1)
AfterRun(items) == From(items, Len(DataRun(items)) + 1)
Rest(items) == IF items = <<>> THEN <<>> ELSE Tail(items)
IsNext(items, type) == items # <<>> /\ Head(items).type = type

MutReceived(req, stream) ==
    /\ request' = req
    /\ sent' = stream /\ channel' = stream
    /\ partState' = "BeforeFirst"
    /\ got' = <<>> /\ headers' = <<>>
    /\ last' = [op |-> "recv", bytes |-> <<>>]
    /\ UNCHANGED leftover
Received(req, stream) ==
    /\ request' = req
    /\ sent' = stream /\ channel' = stream
    /\ leftover' = <<>> /\ partState' = "BeforeFirst"
    /\ got' = <<>> /\ headers' = <<>>
    /\ last' = [op |-> "recv", bytes |-> <<>>]

Init ==
    /\ request = 0 /\ sent = <<>>
    /\ kind = "none" /\ channel = <<>> /\ leftover = <<>>
    /\ partState = "BeforeFirst" /\ got = <<>> /\ headers = <<>>
    /\ last = [op |-> "init", bytes |-> <<>>]

(* do_recv and the head of the dispatch loop. *)
Recv ==
    /\ request < MaxRequests
    /\ LET n == IF request = 0 THEN MaxItems ELSE MaxNextItems
           req == request + 1
       IN \/ kind' = "none" /\ Received(req, <<>>)
          \/ kind' = "raw" /\ \E f \in Streams(req, n, RawShapes) :
                                  Received(req, f)
          \/ kind' = "parts" /\ \E f \in Streams(req, n, PartShapes) :
                                    Received(req, f)

(* The request is answered: the receiver is dropped with the rest. *)
Finish ==
    /\ kind' = "none" /\ channel' = <<>>
    /\ leftover' = <<>> /\ partState' = "Done"
    /\ last' = [op |-> "finish", bytes |-> <<>>]
    /\ UNCHANGED <<request, sent, got, headers>>
----------------------------------------------------------------------------
Give(op, bytes) ==
    /\ got' = got \o bytes
    /\ last' = [op |-> op, bytes |-> bytes]
    /\ UNCHANGED <<request, sent, kind, headers>>

(* Give at most n bytes of buffer and keep the others. *)
MutTake(op, buffer, n) ==
    /\ Give(op, SubSeq(buffer, 1, IF n < Len(buffer) THEN n ELSE Len(buffer)))
    /\ leftover' = <<>>
Take(op, buffer, n) ==
    LET take == IF n < Len(buffer) THEN n ELSE Len(buffer) IN
    /\ Give(op, SubSeq(buffer, 1, take))
    /\ leftover' = From(buffer, take + 1)

(* The length folk_read and folk_part_read pass on. *)
MutLength(n) == IF n < 0 THEN DefaultRead ELSE n
Length(n) == IF n <= 0 THEN DefaultRead ELSE n

(* do_read: the buffer is looked at before the kind of body is. *)
Read(n) ==
    IF leftover # <<>>
    THEN Take("read", leftover, n) /\ UNCHANGED <<channel, partState>>
    ELSE IF kind = "raw" /\ channel # <<>>
    THEN /\ Take("read", Head(channel).bytes, n)
         /\ channel' = Tail(channel)
         /\ UNCHANGED partState
    ELSE Give("read", <<>>) /\ UNCHANGED <<channel, leftover, partState>>

(* do_read_all *)
MutReadAll ==
    /\ Give("read_all", IF kind = "raw" THEN Content(channel) ELSE leftover)
    /\ channel' = IF kind = "raw" THEN <<>> ELSE channel
    /\ leftover' = <<>>
    /\ UNCHANGED partState
ReadAll ==
    /\ Give("read_all",
            leftover \o IF kind = "raw" THEN Content(channel) ELSE <<>>)
    /\ channel' = IF kind = "raw" THEN <<>> ELSE channel
    /\ leftover' = <<>>
    /\ UNCHANGED partState
----------------------------------------------------------------------------
(* The header read of do_next_part, from the items that follow the current
   part: anything but a start ends the parts. *)
Header(item) == [pos |-> item.pos, at |-> Len(got)]
MutNextHeader(items) ==
    /\ channel' = Rest(items)
    /\ IF IsNext(items, "start")
       THEN /\ partState' = "InPart"
            /\ headers' = Append(headers, Header(Head(items)))
       ELSE partState' = "Done" /\ UNCHANGED headers
    /\ UNCHANGED leftover
NextHeader(items) ==
    /\ leftover' = <<>>
    /\ channel' = Rest(items)
    /\ IF IsNext(items, "start")
       THEN /\ partState' = "InPart"
            /\ headers' = Append(headers, Header(Head(items)))
       ELSE partState' = "Done" /\ UNCHANGED headers

(* The rest of a part that PHP did not read is discarded up to its end; a
   start or the close of the channel instead of the end ends the parts. *)
Drain ==
    LET rest == AfterRun(channel) IN
    IF IsNext(rest, "end")
    THEN NextHeader(Tail(rest))
    ELSE /\ partState' = "Done" /\ leftover' = <<>>
         /\ channel' = Rest(rest)
         /\ UNCHANGED headers

NextPart ==
    /\ IF kind # "parts" \/ partState = "Done"
       THEN UNCHANGED <<channel, leftover, partState, headers>>
       ELSE IF partState = "InPart" THEN Drain ELSE NextHeader(channel)
    /\ last' = [op |-> "next_part", bytes |-> <<>>]
    /\ UNCHANGED <<request, sent, kind, got>>

(* The state after a mark: the end of the part, or of all parts. *)
MutAfterMark(items) == "Done"
AfterMark(items) == IF IsNext(items, "end") THEN "PartEnded" ELSE "Done"

(* do_part_read *)
PartRead(n) ==
    IF partState # "InPart"
    THEN Give("part_read", <<>>) /\ UNCHANGED <<channel, leftover, partState>>
    ELSE IF leftover # <<>>
    THEN Take("part_read", leftover, n) /\ UNCHANGED <<channel, partState>>
    ELSE IF kind # "parts"
    THEN Give("part_read", <<>>) /\ UNCHANGED <<channel, leftover, partState>>
    ELSE /\ channel' = Rest(channel)
         /\ IF IsNext(channel, "data")
            THEN /\ Take("part_read", Head(channel).bytes, n)
                 /\ UNCHANGED partState
            ELSE /\ partState' = AfterMark(channel)
                 /\ Give("part_read", <<>>)
                 /\ UNCHANGED leftover

(* do_part_read_all *)
PartReadAll ==
    IF partState # "InPart"
    THEN /\ Give("part_read_all", <<>>)
         /\ UNCHANGED <<channel, leftover, partState>>
    ELSE IF kind # "parts"
    THEN /\ Give("part_read_all", leftover) /\ leftover' = <<>>
         /\ UNCHANGED <<channel, partState>>
    ELSE /\ Give("part_read_all", leftover \o Content(DataRun(channel)))
         /\ leftover' = <<>>
         /\ channel' = Rest(AfterRun(channel))
         /\ partState' = AfterMark(AfterRun(channel))

Next ==
    \/ Recv \/ Finish \/ ReadAll \/ NextPart \/ PartReadAll
    \/ \E n \in -1 .. MaxRead : Read(Length(n)) \/ PartRead(Length(n))

Spec == Init /\ [][Next]_vars
----------------------------------------------------------------------------
(* Positions of the items of the part that starts at position h: up to its
   end, or to the item that shows the stream is cut or malformed. *)
PartData(h) ==
    {p \in h + 1 .. Len(sent) :
        \A q \in h + 1 .. p : sent[q].type = "data"}
PartBytes(h) == Content(DataRun(From(sent, h + 1)))

(* The bytes PHP has been given between header i and the next one. *)
Given(i) ==
    SubSeq(got, headers[i].at + 1,
           IF i = Len(headers) THEN Len(got) ELSE headers[i + 1].at)

(* A raw body is delivered whole and in order however it is chunked and read:
   what PHP has been given, what is buffered and what is still to come are
   the body. *)
RawConservation ==
    kind = "raw" => got \o leftover \o Content(channel) = Content(sent)

(* PHP gets no byte of another request, also when it stopped reading that one
   early, and none at all once it has answered. *)
NoForeignBytes ==
    /\ \A i \in 1 .. Len(got) : got[i][1] = request
    /\ kind = "none" => last.bytes = <<>>

(* A byte of a multipart body is given as part of the part whose header PHP
   has read last, by whatever call: bytes an unread part leaves behind are
   never taken for the next one's, and raw reads, which look at the buffer
   before the kind of body, hand out the current part's bytes only. *)
BytesOfCurrentPart ==
    kind = "parts" =>
        \A i \in 1 .. Len(last.bytes) :
            headers # <<>> /\ last.bytes[i][2] \in PartData(Last(headers).pos)

(* A script that reads until it gets "" reads everything: without empty
   chunks in the body, and with any length asked for, folk_read returns ""
   only at the end of a raw body and folk_part_read only outside a part. *)
EmptyReadMeansEnd ==
    /\ \A p \in 1 .. Len(sent) : sent[p].type = "data" => sent[p].bytes # <<>>
    /\ last.bytes = <<>>
    => /\ last.op = "read" /\ kind = "raw" => got = Content(sent)
       /\ last.op = "part_read" => partState # "InPart"

(* What PHP has been given of each part is a prefix of it, and the part that
   has just ended is complete. *)
PartsWhole ==
    \A i \in 1 .. Len(headers) :
        /\ IsPrefix(Given(i), PartBytes(headers[i].pos))
        /\ (i = Len(headers) /\ partState = "PartEnded") =>
               Given(i) = PartBytes(headers[i].pos)

(* next_part skips no part: up to the last header given, every start of a
   well-formed stream has been given; when the parts of a well-formed stream
   are over, all have been. *)
WellFormed ==
    \A p \in 1 .. Len(sent) :
        LET before == {q \in 1 .. p - 1 : sent[q].type # "data"}
            open == \E q \in before : /\ sent[q].type = "start"
                                      /\ \A x \in before : x <= q
        IN (sent[p].type = "start") # open
Starts(n) == {p \in 1 .. n : sent[p].type = "start"}
Positions == {headers[i].pos : i \in 1 .. Len(headers)}
NoPartSkipped ==
    /\ headers # <<>> /\ WellFormed => Positions = Starts(Last(headers).pos)
    /\ kind = "parts" /\ partState = "Done" /\ WellFormed =>
           Positions = Starts(Len(sent))
============================================================================
