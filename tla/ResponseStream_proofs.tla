----------------------- MODULE ResponseStream_proofs -----------------------
(***************************************************************************)
(* Theorems about ResponseStream, for every number of requests and writes, *)
(* every channel capacity, both ways of using the bridge and both ways of  *)
(* reading: streams are well formed, done means that the stream has its    *)
(* end, and what PHP answers is what the caller gets.                      *)
(*                                                                         *)
(* None of the three is inductive.  What they say of the chunks a caller   *)
(* has read and the channel holds has to be said of the chunks PHP is      *)
(* about to send as well: Full(r) is all of them, and Sound(r) says what a *)
(* stream that somebody reads looks like at each point of a request's life *)
(* in PHP.  PhpInv says where a request is in PHP, so that nothing is sent *)
(* to one that was answered.                                               *)
(***************************************************************************)
EXTENDS ResponseStream, FiniteSetTheorems, SequenceTheorems, TLAPS

USE StreamAssumption

Chunks == {"Headers", "Body", "Return", "Error", "End"}
Finals == {"Return", "Error", "End"}

(* A well-formed stream, one that is not finished, one with headers. *)
WellFormed(s) ==
    /\ Count(s, "Headers") <= 1
    /\ \A i \in 1 .. Len(s) - 1 :
           /\ s[i] # "End"
           /\ s[i] \in {"Return", "Error"} => s[i + 1] = "End"
Unfinished(s) == \A i \in 1 .. Len(s) : s[i] \notin Finals
HasHeaders(s) == \E i \in 1 .. Len(s) : s[i] = "Headers"
Ends(s) == s # <<>> /\ Last(s) = "End"
-----------------------------------------------------------------------------
(* Counting chunks. *)

Positions(s, kind) == {i \in DOMAIN s : s[i] = kind}

(* A count is a number. *)
LEMMA CountNat ==
  ASSUME NEW s \in Seq(Chunks), NEW kind
  PROVE  /\ IsFiniteSet(Positions(s, kind))
         /\ Count(s, kind) = Cardinality(Positions(s, kind))
         /\ Count(s, kind) \in Nat
<1>1. IsFiniteSet(1 .. Len(s))
  BY FS_Interval
<1>2. Positions(s, kind) \subseteq 1 .. Len(s)
  BY DEF Positions
<1>3. IsFiniteSet(Positions(s, kind))
  BY <1>1, <1>2, FS_Subset
<1>4. Count(s, kind) = Cardinality(Positions(s, kind))
  BY DEF Count, Positions
<1> QED
  BY <1>3, <1>4, FS_CardinalityType

(* A chunk that is appended counts if it is of the kind. *)
LEMMA CountAppend ==
  ASSUME NEW s \in Seq(Chunks), NEW c \in Chunks, NEW kind
  PROVE  Count(Append(s, c), kind) = Count(s, kind) + (IF c = kind THEN 1 ELSE 0)
<1> DEFINE I == Positions(s, kind)
           J == Positions(Append(s, c), kind)
<1>1. Append(s, c) \in Seq(Chunks)
  OBVIOUS
<1>2. /\ IsFiniteSet(I) /\ Count(s, kind) = Cardinality(I)
      /\ Count(s, kind) \in Nat
  BY CountNat
<1>3. Count(Append(s, c), kind) = Cardinality(J)
  BY <1>1, CountNat
<1>4. Len(s) + 1 \notin I
  BY DEF Positions
<1>5. CASE c = kind
  <2>1. J = I \cup {Len(s) + 1}
    BY <1>5 DEF Positions
  <2> HIDE DEF I, J
  <2>2. Cardinality(J) = Cardinality(I) + 1
    BY <1>2, <1>4, <2>1, FS_AddElement
  <2> QED
    BY <1>2, <1>3, <1>5, <2>2
<1>6. CASE c # kind
  <2>1. J = I
    BY <1>6 DEF Positions
  <2> QED
    BY <1>2, <1>3, <1>6, <2>1
<1> QED
  BY <1>5, <1>6

(* A prefix has no more chunks of a kind than the whole. *)
LEMMA CountPrefix ==
  ASSUME NEW s \in Seq(Chunks), NEW t \in Seq(Chunks), NEW kind
  PROVE  Count(s, kind) <= Count(s \o t, kind)
<1> DEFINE I == Positions(s, kind)
           J == Positions(s \o t, kind)
<1>1. s \o t \in Seq(Chunks)
  OBVIOUS
<1>2. IsFiniteSet(J) /\ Count(s \o t, kind) = Cardinality(J)
  BY <1>1, CountNat
<1>3. I \subseteq J
  BY DEF Positions
<1>4. Count(s, kind) = Cardinality(I)
  BY CountNat
<1> HIDE DEF I, J
<1>5. Cardinality(I) <= Cardinality(J)
  BY <1>2, <1>3, FS_Subset
<1> QED
  BY <1>2, <1>4, <1>5

(* A stream without chunks of a kind has none to count. *)
LEMMA CountNone ==
  ASSUME NEW s \in Seq(Chunks), NEW kind, \A i \in 1 .. Len(s) : s[i] # kind
  PROVE  Count(s, kind) = 0
<1>1. {i \in DOMAIN s : s[i] = kind} = {}
  OBVIOUS
<1> QED
  BY <1>1, FS_EmptySet DEF Count
-----------------------------------------------------------------------------
(* Building well-formed streams. *)

(* The empty stream is well formed and has nothing. *)
LEMMA EmptyStream ==
  /\ <<>> \in Seq(Chunks) /\ WellFormed(<<>>) /\ Unfinished(<<>>)
  /\ ~HasHeaders(<<>>) /\ Count(<<>>, "Body") = 0
<1>1. <<>> \in Seq(Chunks) /\ Len(<<>>) = 0
  OBVIOUS
<1>2. Count(<<>>, "Headers") = 0 /\ Count(<<>>, "Body") = 0
  <2> DEFINE e == <<>>
  <2>1. e \in Seq(Chunks) /\ Len(e) = 0
    BY <1>1
  <2> HIDE DEF e
  <2>2. \A i \in 1 .. Len(e) : e[i] # "Headers" /\ e[i] # "Body"
    BY <2>1
  <2>3. Count(e, "Headers") = 0
    BY <2>1, <2>2, CountNone
  <2>4. Count(e, "Body") = 0
    BY <2>1, <2>2, CountNone
  <2> QED
    BY <2>3, <2>4 DEF e
<1> QED
  BY <1>1, <1>2 DEF WellFormed, Unfinished, HasHeaders

(* An unfinished stream takes any chunk, headers if it has none. *)
LEMMA WellFormedAppend ==
  ASSUME NEW s \in Seq(Chunks), NEW c \in Chunks, WellFormed(s),
         Unfinished(s), c = "Headers" => ~HasHeaders(s)
  PROVE  WellFormed(Append(s, c))
<1>1. Count(Append(s, c), "Headers") <= 1
  <2>1. CASE c = "Headers"
    <3>1. Count(s, "Headers") = 0
      BY <2>1, CountNone DEF HasHeaders
    <3> QED
      BY <2>1, <3>1, CountAppend
  <2>2. CASE c # "Headers"
    <3>1. Count(s, "Headers") <= 1 /\ Count(s, "Headers") \in Nat
      BY CountNat DEF WellFormed
    <3>2. Count(Append(s, c), "Headers") = Count(s, "Headers") + 0
      BY <2>2, CountAppend
    <3> QED
      BY <3>1, <3>2
  <2> QED
    BY <2>1, <2>2
<1> QED
  BY <1>1 DEF WellFormed, Unfinished, Finals

(* An unfinished stream takes a value or an error with its End. *)
LEMMA WellFormedEnd ==
  ASSUME NEW s \in Seq(Chunks), NEW c \in {"Return", "Error"}, WellFormed(s),
         Unfinished(s)
  PROVE  WellFormed(Append(Append(s, c), "End"))
<1> DEFINE t == Append(s, c)
<1>1. t \in Seq(Chunks) /\ c \in Chunks /\ "End" \in Chunks
  BY DEF Chunks
<1>2. WellFormed(t)
  BY <1>1, WellFormedAppend
<1>3. Count(Append(t, "End"), "Headers") <= 1
  <2> HIDE DEF t
  <2> QED
    <3>1. Count(t, "Headers") <= 1 /\ Count(t, "Headers") \in Nat
      BY <1>1, <1>2, CountNat DEF WellFormed
    <3>2. Count(Append(t, "End"), "Headers") = Count(t, "Headers") + 0
      BY <1>1, CountAppend
    <3> QED
      BY <3>1, <3>2
<1>4. ASSUME NEW i \in 1 .. Len(Append(t, "End")) - 1
      PROVE  /\ Append(t, "End")[i] # "End"
             /\ Append(t, "End")[i] \in {"Return", "Error"} =>
                    Append(t, "End")[i + 1] = "End"
  BY <1>4 DEF Unfinished, Finals
<1> QED
  BY <1>3, <1>4 DEF WellFormed

(* What comes first in a well-formed stream is well formed. *)
LEMMA WellFormedPrefix ==
  ASSUME NEW s \in Seq(Chunks), NEW t \in Seq(Chunks), WellFormed(s \o t)
  PROVE  WellFormed(s)
<1>1. s \o t \in Seq(Chunks)
  OBVIOUS
<1>2. Count(s, "Headers") <= 1
  <2>1. Count(s \o t, "Headers") <= 1
    BY DEF WellFormed
  <2>2. Count(s \o t, "Headers") \in Nat /\ Count(s, "Headers") \in Nat
    BY <1>1, CountNat
  <2>3. Count(s, "Headers") <= Count(s \o t, "Headers")
    BY CountPrefix
  <2> QED
    BY <2>1, <2>2, <2>3
<1> QED
  BY <1>2 DEF WellFormed

(* Nothing follows the chunk a caller stops at, except the end. *)
LEMMA NothingAfter ==
  ASSUME NEW s \in Seq(Chunks), NEW t \in Seq(Chunks), NEW c \in Finals,
         WellFormed(Append(s, c) \o t)
  PROVE  Count(Append(s, c), "Body") = Count(Append(s, c) \o t, "Body")
<1> DEFINE a == Append(s, c)
           f == a \o t
           p == Len(s) + 1
<1>1. /\ c \in Chunks /\ a \in Seq(Chunks) /\ f \in Seq(Chunks)
      /\ Len(a) = p /\ Len(f) = p + Len(t) /\ f[p] = c
  BY DEF Chunks, Finals
<1>2. \A i \in 1 .. Len(f) - 1 :
          f[i] # "End" /\ (f[i] \in {"Return", "Error"} => f[i + 1] = "End")
  BY DEF WellFormed
<1>3. CASE t = <<>>
  BY <1>1, <1>3
<1>4. CASE t # <<>>
  <2>1. Len(t) > 0 /\ p \in 1 .. Len(f) - 1
    BY <1>1, <1>4
  <2>2. c # "End" /\ f[p + 1] = "End"
    BY <1>1, <1>2, <2>1 DEF Finals
  <2>3. p + 1 = Len(f)
    BY <1>1, <1>2, <2>1, <2>2
  <2>4. f = Append(a, "End")
    BY <1>1, <2>2, <2>3
  <2> HIDE DEF a, f
  <2>5. Count(f, "Body") = Count(a, "Body") + 0
    BY <1>1, <2>4, CountAppend DEF Chunks
  <2>6. Count(a, "Body") \in Nat
    BY <1>1, CountNat
  <2>7. Count(a, "Body") = Count(f, "Body")
    BY <2>5, <2>6
  <2> QED
    BY <2>7 DEF a, f
<1> QED
  BY <1>3, <1>4
-----------------------------------------------------------------------------
(* Where a request is in PHP. *)

RequestOrNone == Requests \cup {NoRequest}
Callers == {"none", "waiting", "reading", "left", "error", "value", "http"}

PhpTypes ==
    /\ api \in {"loop", "manual"} /\ style \in {"pool", "execute"}
    /\ pc \in {"recv", "php", "sending", "gone"}
    /\ after \in {"recv", "php"}
    /\ tasks \in Seq(Requests)
    /\ cur \in RequestOrNone /\ outTo \in RequestOrNone
    /\ sup \in RequestOrNone
    /\ started \in BOOLEAN
    /\ done \in [Requests -> {"none", "pending", "sent", "dropped"}]
    /\ open \in [Requests -> BOOLEAN]
    /\ out \in Seq(Chunks)

ChannelTypes ==
    /\ writes \in [Requests -> Nat]
    /\ chan \in [Requests -> Seq(Chunks)] /\ log \in [Requests -> Seq(Chunks)]
    /\ caller \in [Requests -> Callers]

Queued(r) == \E i \in 1 .. Len(tasks) : tasks[i] = r

(* A call in progress sends to the current request, or has taken its senders;
   a request that is pending is in one place, and its stream is open as long
   as it is pending. *)
PhpInv ==
    /\ IF pc = "sending" THEN outTo # NoRequest /\ cur \in {outTo, NoRequest}
                         ELSE outTo = NoRequest /\ out = <<>>
    /\ \A i, j \in 1 .. Len(tasks) : tasks[i] = tasks[j] => i = j
    /\ \A r \in Requests :
           /\ Queued(r) => r # cur /\ r # outTo
           /\ done[r] = "pending" <=> Queued(r) \/ r = cur \/ r = outTo
           /\ open[r] <=> done[r] = "pending"
    /\ sup # NoRequest => done[sup] # "none"

(* What is left of the task channel when its first item is taken. *)
LEMMA TaskTaken ==
  ASSUME PhpTypes, PhpInv, tasks # <<>>, tasks' = Tail(tasks)
  PROVE  /\ Head(tasks) \in Requests
         /\ Queued(Head(tasks))
         /\ \A r \in Requests : Queued(r)' <=> Queued(r) /\ r # Head(tasks)
         /\ \A i, j \in 1 .. Len(tasks') : tasks'[i] = tasks'[j] => i = j
<1>1. /\ tasks \in Seq(Requests) /\ Len(tasks) > 0
      /\ Len(Tail(tasks)) = Len(tasks) - 1 /\ Head(tasks) = tasks[1]
      /\ \A i \in 1 .. Len(tasks) - 1 : Tail(tasks)[i] = tasks[i + 1]
  BY DEF PhpTypes
<1>2. \A i, j \in 1 .. Len(tasks) : tasks[i] = tasks[j] => i = j
  BY DEF PhpInv
<1>3. Queued(Head(tasks)) /\ Head(tasks) \in Requests
  BY <1>1 DEF Queued
<1>4. ASSUME NEW r \in Requests, Queued(r)'
      PROVE  Queued(r) /\ r # Head(tasks)
  <2>1. PICK i \in 1 .. Len(tasks) - 1 : tasks[i + 1] = r
    BY <1>1, <1>4 DEF Queued
  <2>2. i + 1 \in 1 .. Len(tasks) /\ 1 \in 1 .. Len(tasks) /\ i + 1 # 1
    BY <1>1, <2>1
  <2> QED
    BY <1>1, <1>2, <2>1, <2>2 DEF Queued
<1>5. ASSUME NEW r \in Requests, Queued(r), r # Head(tasks)
      PROVE  Queued(r)'
  <2>1. PICK i \in 1 .. Len(tasks) : tasks[i] = r /\ i # 1
    BY <1>1, <1>5 DEF Queued
  <2>2. i - 1 \in 1 .. Len(tasks) - 1 /\ Tail(tasks)[i - 1] = tasks[(i - 1) + 1]
    BY <1>1, <2>1
  <2> QED
    BY <1>1, <2>1, <2>2 DEF Queued
<1>6. ASSUME NEW i \in 1 .. Len(tasks'), NEW j \in 1 .. Len(tasks'),
             tasks'[i] = tasks'[j]
      PROVE  i = j
  <2>1. /\ i + 1 \in 1 .. Len(tasks) /\ j + 1 \in 1 .. Len(tasks)
        /\ tasks[i + 1] = tasks[j + 1]
    BY <1>1, <1>6
  <2> QED
    BY <1>2, <2>1
<1> QED
  BY <1>3, <1>4, <1>5, <1>6

(* What is in the task channel when a request is added. *)
LEMMA TaskAdded ==
  ASSUME PhpTypes, PhpInv, NEW r \in Requests, ~Queued(r),
         tasks' = Append(tasks, r)
  PROVE  /\ \A q \in Requests : Queued(q)' <=> Queued(q) \/ q = r
         /\ \A i, j \in 1 .. Len(tasks') : tasks'[i] = tasks'[j] => i = j
<1>1. /\ tasks \in Seq(Requests) /\ Len(tasks') = Len(tasks) + 1
      /\ tasks'[Len(tasks) + 1] = r
      /\ \A i \in 1 .. Len(tasks) : tasks'[i] = tasks[i]
  BY DEF PhpTypes
<1>2. \A q \in Requests : Queued(q)' <=> Queued(q) \/ q = r
  BY <1>1 DEF Queued
<1>3. ASSUME NEW i \in 1 .. Len(tasks'), NEW j \in 1 .. Len(tasks'),
             tasks'[i] = tasks'[j]
      PROVE  i = j
  BY <1>1, <1>3 DEF Queued, PhpInv
<1> QED
  BY <1>2, <1>3

(* Calls that send, and what they send. *)
LEMMA SendsTypes ==
  ASSUME PhpTypes,
         WriteHead \/ Write \/ WriteEnd \/ Send
             \/ (HandlerReturns /\ cur # NoRequest)
  PROVE  /\ cur # NoRequest /\ pc = "php" /\ pc' = "sending"
         /\ after' \in {"recv", "php"} /\ outTo' = cur
         /\ UNCHANGED <<api, style, tasks, chan, open, done, log, caller, sup>>
         /\ \/ /\ WriteHead \/ Write
               /\ cur' = cur /\ out' \in {<<"Headers">>, <<"Body">>}
               /\ started' \in BOOLEAN
            \/ /\ ~WriteHead /\ ~Write
               /\ cur' = NoRequest /\ started' = FALSE /\ writes' = writes
               /\ out' \in {<<"End">>, <<"Return", "End">>, <<"Error", "End">>}
<1>1. CASE WriteHead
  BY <1>1 DEF WriteHead, MayWriteHead, Sends
<1>2. CASE Write
  BY <1>2 DEF Write, Sends, PhpTypes
<1>3. CASE WriteEnd
  BY <1>1, <1>2, <1>3 DEF WriteEnd, Answers, Sends
<1>4. CASE Send
  BY <1>1, <1>2, <1>4 DEF Send, Answers, Sends
<1>5. CASE HandlerReturns /\ cur # NoRequest
  BY <1>1, <1>2, <1>5 DEF HandlerReturns, Final, Answers, Sends
<1> QED
  BY <1>1, <1>2, <1>3, <1>4, <1>5

(* PHP starts to send: PhpTypes and PhpInv are kept. *)
LEMMA PhpSendsStep ==
  ASSUME PhpTypes, PhpInv,
         WriteHead \/ Write \/ WriteEnd \/ Send
             \/ (HandlerReturns /\ cur # NoRequest)
  PROVE  PhpTypes' /\ PhpInv'
<1>1. /\ cur # NoRequest /\ pc = "php" /\ pc' = "sending"
      /\ after' \in {"recv", "php"} /\ outTo' = cur
      /\ UNCHANGED <<api, style, tasks, open, done, sup>>
      /\ cur' \in {cur, NoRequest} /\ started' \in BOOLEAN
  BY SendsTypes
<1>2. out' \in Seq(Chunks)
  <2>1. out' \in {<<"Headers">>, <<"Body">>, <<"End">>, <<"Return", "End">>,
                  <<"Error", "End">>}
    BY SendsTypes
  <2>2. <<"Headers">> \in Seq(Chunks) /\ <<"Body">> \in Seq(Chunks)
    BY DEF Chunks
  <2>3. <<"End">> \in Seq(Chunks)
    BY DEF Chunks
  <2>4. <<"Return", "End">> \in Seq(Chunks)
    BY DEF Chunks
  <2>5. <<"Error", "End">> \in Seq(Chunks)
    BY DEF Chunks
  <2> QED
    BY <2>1, <2>2, <2>3, <2>4, <2>5
<1>3. PhpTypes'
  BY <1>1, <1>2 DEF PhpTypes, RequestOrNone
<1>4. outTo = NoRequest /\ \A r \in Requests : r # NoRequest
  BY <1>1 DEF PhpInv, Requests, NoRequest
<1>5. PhpInv'
  BY <1>1, <1>4 DEF PhpInv, Queued
<1> QED
  BY <1>3, <1>5

(* Every step keeps PhpTypes and PhpInv. *)
LEMMA PhpStep ==
  ASSUME PhpTypes, PhpInv, [Next]_vars
  PROVE  PhpTypes' /\ PhpInv'
<1>0. \A r \in Requests : r # NoRequest
  BY DEF Requests, NoRequest
<1>1. CASE UNCHANGED <<phpVars, open, done>> /\ (sup' = sup \/ sup' = NoRequest)
  BY <1>1 DEF phpVars, PhpTypes, PhpInv, Queued, RequestOrNone
<1>2. CASE \/ WriteHead \/ Write \/ WriteEnd \/ Send
           \/ HandlerReturns /\ cur # NoRequest
  BY <1>2, PhpSendsStep
<1>3. CASE HandlerReturns /\ cur = NoRequest
  <2>1. /\ pc = "php" /\ pc' = "recv"
        /\ UNCHANGED <<api, style, tasks, cur, started, out, outTo, after,
                       open, done, sup>>
    BY <1>3 DEF HandlerReturns
  <2> QED
    BY <2>1 DEF PhpTypes, PhpInv, Queued
<1>4. CASE Recv
  <2>1. /\ pc # "sending" /\ tasks # <<>> /\ tasks' = Tail(tasks)
        /\ cur' = Head(tasks) /\ started' = FALSE /\ pc' = "php"
        /\ open' = [r \in Requests |-> open[r] /\ r # cur]
        /\ done' = [r \in Requests |-> IF r = cur THEN "dropped" ELSE done[r]]
        /\ UNCHANGED <<api, style, out, outTo, after, sup>>
    BY <1>4 DEF Recv
  <2>2. /\ Head(tasks) \in Requests /\ Queued(Head(tasks))
        /\ \A r \in Requests : Queued(r)' <=> Queued(r) /\ r # Head(tasks)
        /\ \A i, j \in 1 .. Len(tasks') : tasks'[i] = tasks'[j] => i = j
    BY <2>1, TaskTaken
  <2>3. Tail(tasks) \in Seq(Requests)
    BY <2>1 DEF PhpTypes
  <2>4. open' \in [Requests -> BOOLEAN]
    BY <2>1 DEF PhpTypes
  <2>5. PhpTypes'
    BY <2>1, <2>2, <2>3, <2>4 DEF PhpTypes, RequestOrNone
  <2>6. outTo = NoRequest /\ out = <<>>
    BY <2>1 DEF PhpInv
  <2>7. ASSUME NEW r \in Requests
        PROVE  /\ Queued(r)' => r # cur' /\ r # outTo'
               /\ done'[r] = "pending" <=> Queued(r)' \/ r = cur' \/ r = outTo'
               /\ open'[r] <=> done'[r] = "pending"
    BY <1>0, <2>1, <2>2, <2>6 DEF PhpInv
  <2>8. sup # NoRequest => done'[sup] # "none"
    BY <2>1 DEF PhpInv, PhpTypes, RequestOrNone
  <2> QED
    BY <2>1, <2>2, <2>5, <2>6, <2>7, <2>8 DEF PhpInv
<1>5. CASE Push
  <2>1. /\ pc = "sending" /\ out # <<>> /\ out' = Tail(out)
        /\ UNCHANGED <<api, style, pc, tasks, cur, started, outTo, after,
                       open, done, sup>>
    BY <1>5 DEF Push
  <2>2. out' \in Seq(Chunks)
    BY <2>1 DEF PhpTypes
  <2> QED
    BY <2>1, <2>2 DEF PhpTypes, PhpInv, Queued
<1>6. CASE CallReturns
  <2>1. /\ pc = "sending" /\ pc' = after /\ outTo' = NoRequest /\ out' = <<>>
        /\ UNCHANGED <<api, style, tasks, cur, started, after, sup>>
        /\ outTo \in Requests /\ cur \in {outTo, NoRequest}
    BY <1>6 DEF CallReturns, Pushed, PhpInv, PhpTypes, RequestOrNone
  <2>2. CASE cur = outTo
    <3>1. UNCHANGED <<open, done>>
      BY <1>6, <2>2 DEF CallReturns
    <3>2. PhpTypes'
      BY <2>1, <3>1 DEF PhpTypes, RequestOrNone
    <3>3. ASSUME NEW r \in Requests
          PROVE  /\ Queued(r)' => r # cur' /\ r # outTo'
                 /\ done'[r] = "pending"
                        <=> Queued(r)' \/ r = cur' \/ r = outTo'
                 /\ open'[r] <=> done'[r] = "pending"
      BY <1>0, <2>1, <2>2, <3>1 DEF PhpInv, PhpTypes, Queued
    <3> QED
      BY <2>1, <3>1, <3>2, <3>3 DEF PhpInv, PhpTypes
  <2>3. CASE cur # outTo
    <3>1. /\ open' = [open EXCEPT ![outTo] = FALSE]
          /\ done' = [done EXCEPT ![outTo] = "sent"]
      BY <1>6, <2>3 DEF CallReturns
    <3>2. PhpTypes'
      BY <2>1, <3>1 DEF PhpTypes, RequestOrNone
    <3>3. ASSUME NEW r \in Requests
          PROVE  /\ Queued(r)' => r # cur' /\ r # outTo'
                 /\ done'[r] = "pending"
                        <=> Queued(r)' \/ r = cur' \/ r = outTo'
                 /\ open'[r] <=> done'[r] = "pending"
      BY <1>0, <2>1, <2>3, <3>1 DEF PhpInv, PhpTypes, Queued
    <3> QED
      BY <2>1, <3>1, <3>2, <3>3 DEF PhpInv, PhpTypes, RequestOrNone
  <2> QED
    BY <2>2, <2>3
<1>7. CASE Dies
  <2>1. /\ pc = "php" /\ pc' = "gone" /\ tasks' = <<>> /\ cur' = NoRequest
        /\ open' = [r \in Requests |-> FALSE]
        /\ done' = [r \in Requests |->
                       IF done[r] = "pending" THEN "dropped" ELSE done[r]]
        /\ UNCHANGED <<api, style, started, out, outTo, after, sup>>
    BY <1>7 DEF Dies
  <2>2. \A r \in Requests : ~Queued(r)'
    BY <2>1 DEF Queued
  <2> QED
    BY <1>0, <2>1, <2>2 DEF PhpTypes, PhpInv, RequestOrNone
<1>8. ASSUME NEW r \in Requests, SupSend(r)
      PROVE  PhpTypes' /\ PhpInv'
  <2>1. /\ done[r] = "none" /\ sup' = r /\ tasks' = Append(tasks, r)
        /\ open' = [open EXCEPT ![r] = TRUE]
        /\ done' = [done EXCEPT ![r] = "pending"]
        /\ UNCHANGED <<api, style, pc, cur, started, out, outTo, after>>
    BY <1>8 DEF SupSend
  <2>2. ~Queued(r) /\ r # cur /\ r # outTo
    BY <2>1 DEF PhpInv
  <2>3. /\ \A q \in Requests : Queued(q)' <=> Queued(q) \/ q = r
        /\ \A i, j \in 1 .. Len(tasks') : tasks'[i] = tasks'[j] => i = j
    BY <2>1, <2>2, TaskAdded
  <2>4. Append(tasks, r) \in Seq(Requests)
    BY DEF PhpTypes
  <2>5. PhpTypes'
    BY <2>1, <2>4 DEF PhpTypes, RequestOrNone
  <2>6. ASSUME NEW q \in Requests
        PROVE  /\ Queued(q)' => q # cur' /\ q # outTo'
               /\ done'[q] = "pending" <=> Queued(q)' \/ q = cur' \/ q = outTo'
               /\ open'[q] <=> done'[q] = "pending"
    BY <2>1, <2>2, <2>3 DEF PhpInv, PhpTypes
  <2> QED
    BY <1>0, <2>1, <2>3, <2>5, <2>6 DEF PhpInv, PhpTypes
<1>9. CASE SupDone \/ SupTimeout \/ UNCHANGED vars
  BY <1>1, <1>9 DEF SupDone, SupTimeout, vars
<1>10. ASSUME NEW r \in Requests, Read(r) \/ ReadClosed(r) \/ Leave(r)
       PROVE  PhpTypes' /\ PhpInv'
  BY <1>1, <1>10 DEF Read, ReadClosed, Leave
<1> QED
  BY <1>2, <1>3, <1>4, <1>5, <1>6, <1>7, <1>8, <1>9, <1>10 DEF Next
-----------------------------------------------------------------------------
(* What a stream looks like. *)

Rest(r) == IF outTo = r THEN out ELSE <<>>
Full(r) == Stream(r) \o Rest(r)

(* PHP has answered r: the last chunk of it is on its way, or was sent. *)
Ended(r) == done[r] = "sent" \/ (outTo = r /\ cur # r)

Sound(r) ==
    /\ WellFormed(Full(r)) /\ Count(Full(r), "Body") = writes[r]
    /\ cur = r => /\ Unfinished(Full(r))
                  /\ HasHeaders(Full(r)) => started
    /\ Ended(r) => Ends(Full(r))

(* PHP has not seen r. *)
Untouched(r) == Queued(r) \/ done[r] = "none"

Returned(r) == caller[r] \in {"value", "http"}

(* The chunk a caller that returned a response has read last. *)
LastRead(r) ==
    /\ log[r] # <<>>
    /\ Last(log[r]) = IF style = "execute" /\ caller[r] = "value"
                      THEN "Return" ELSE "End"

(* A stream that is read is sound, and its reader has not met a chunk it
   stops at; one that is not read any more is what was read of it. *)
ReaderInv(r) ==
    /\ Listening(r) => Sound(r)
    /\ ~Listening(r) => chan[r] = <<>> /\ WellFormed(log[r])
    /\ caller[r] = "waiting" => log[r] = <<>> /\ style = "execute"
    /\ Reading(r) => \A i \in 1 .. Len(log[r]) : ~Stops(log[r][i])

UntouchedInv(r) ==
    /\ Untouched(r) => /\ log[r] = <<>> /\ chan[r] = <<>> /\ writes[r] = 0
                       /\ ~Returned(r)
    /\ done[r] = "none" => caller[r] = "none"

(* PHP is done with a request whose caller has returned a response, which is
   complete unless the worker dropped the request. *)
ReturnInv(r) ==
    /\ Returned(r) => /\ r # cur
                      /\ Count(log[r], "Body") = writes[r]
                      /\ done[r] = "dropped" \/ LastRead(r)
    /\ caller[r] = "http" => \A i \in 1 .. Len(log[r]) :
                                 log[r][i] \notin {"Return", "Error"}
    /\ caller[r] = "error" =>
           \/ log[r] # <<>> /\ Last(log[r]) = "Error"
           \/ style = "execute" /\ done[r] = "dropped"

RequestInv(r) == ReaderInv(r) /\ UntouchedInv(r) /\ ReturnInv(r)

StreamInv ==
    /\ PhpTypes /\ ChannelTypes /\ PhpInv
    /\ \A r \in Requests : RequestInv(r)

(* Concatenation is associative. *)
LEMMA Joined ==
  ASSUME NEW s \in Seq(Chunks), NEW t \in Seq(Chunks), NEW u \in Seq(Chunks)
  PROVE  /\ (s \o t) \o u = s \o (t \o u) /\ s \o t \in Seq(Chunks)
         /\ t \o u \in Seq(Chunks) /\ (s \o t) \o u \in Seq(Chunks)
OBVIOUS

(* A chunk moves from the head of t to the end of s. *)
LEMMA Moved ==
  ASSUME NEW s \in Seq(Chunks), NEW t \in Seq(Chunks), t # <<>>
  PROVE  /\ Append(s, Head(t)) \o Tail(t) = s \o t
         /\ Head(t) \in Chunks
         /\ Tail(t) \in Seq(Chunks)
         /\ Append(s, Head(t)) \in Seq(Chunks)
         /\ Append(s, Head(t)) # <<>>
<1>1. Append(s, Head(t)) \o Tail(t) = s \o t
  OBVIOUS
<1>2. Head(t) \in Chunks
  OBVIOUS
<1>3. Tail(t) \in Seq(Chunks)
  OBVIOUS
<1>4. Append(s, Head(t)) \in Seq(Chunks)
  BY <1>2
<1>5. Append(s, Head(t)) # <<>>
  BY <1>2
<1> QED
  BY <1>1, <1>2, <1>3, <1>4, <1>5

(* A chunk appended to the second half is appended to the whole. *)
LEMMA AppendedLater ==
  ASSUME NEW s \in Seq(Chunks), NEW t \in Seq(Chunks), NEW c \in Chunks
  PROVE  s \o Append(t, c) = Append(s \o t, c)
OBVIOUS

(* The parts of a stream, and the whole, are sequences of chunks. *)
LEMMA StreamTypes ==
  ASSUME PhpTypes, ChannelTypes, NEW r \in Requests
  PROVE  /\ log[r] \in Seq(Chunks) /\ chan[r] \in Seq(Chunks)
         /\ Rest(r) \in Seq(Chunks) /\ Stream(r) \in Seq(Chunks)
         /\ Full(r) \in Seq(Chunks) /\ chan[r] \o Rest(r) \in Seq(Chunks)
         /\ Full(r) = log[r] \o (chan[r] \o Rest(r))
<1>1. /\ log[r] \in Seq(Chunks) /\ chan[r] \in Seq(Chunks)
      /\ Rest(r) \in Seq(Chunks)
  BY DEF PhpTypes, ChannelTypes, Rest
<1>2. log[r] \o chan[r] \in Seq(Chunks)
  BY <1>1
<1>3. chan[r] \o Rest(r) \in Seq(Chunks)
  BY <1>1
<1>4. (log[r] \o chan[r]) \o Rest(r) = log[r] \o (chan[r] \o Rest(r))
  <2>1. PICK s \in Seq(Chunks), t \in Seq(Chunks), u \in Seq(Chunks) :
            s = log[r] /\ t = chan[r] /\ u = Rest(r)
    BY <1>1
  <2>2. (s \o t) \o u = s \o (t \o u)
    BY Joined
  <2> QED
    BY <2>1, <2>2
<1>5. (log[r] \o chan[r]) \o Rest(r) \in Seq(Chunks)
  BY <1>1, <1>2
<1> QED
  BY <1>1, <1>2, <1>3, <1>4, <1>5 DEF Stream, Full

(* What was read of a sound stream is well formed. *)
LEMMA ReadPrefix ==
  ASSUME PhpTypes, ChannelTypes, NEW r \in Requests, WellFormed(Full(r))
  PROVE  WellFormed(log[r]) /\ WellFormed(Stream(r))
<1>1. /\ log[r] \in Seq(Chunks) /\ chan[r] \o Rest(r) \in Seq(Chunks)
      /\ Stream(r) \in Seq(Chunks) /\ Rest(r) \in Seq(Chunks)
      /\ Full(r) = log[r] \o (chan[r] \o Rest(r))
      /\ Full(r) = Stream(r) \o Rest(r)
  BY StreamTypes DEF Full
<1>2. WellFormed(log[r])
  BY <1>1, WellFormedPrefix
<1>3. WellFormed(Stream(r))
  BY <1>1, WellFormedPrefix
<1> QED
  BY <1>2, <1>3

(* A step that leaves the stream of r and its reader alone keeps what is
   known of it, also when PHP takes r, drops it or ends its answer. *)
LEMMA RequestKept ==
  ASSUME PhpTypes, ChannelTypes, NEW r \in Requests, RequestInv(r),
         log'[r] = log[r], chan'[r] = chan[r], caller'[r] = caller[r],
         writes'[r] = writes[r], style' = style,
         Untouched(r)' => Untouched(r), done'[r] = "none" => done[r] = "none",
         done[r] = "dropped" => done'[r] = "dropped",
         Listening(r) => Rest(r)' = Rest(r) /\ (Ended(r)' => Ended(r)),
         cur' = r => \/ cur = r /\ started' = started
                     \/ Untouched(r) /\ outTo # r
  PROVE  RequestInv(r)'
<1>1. /\ Stream(r)' = Stream(r) /\ Listening(r)' = Listening(r)
      /\ Reading(r)' = Reading(r) /\ Returned(r)' = Returned(r)
  BY DEF Stream, Listening, Reading, Returned
<1>2. ASSUME Listening(r)
      PROVE  Sound(r)'
  <2>1. Full(r)' = Full(r) /\ Sound(r)
    BY <1>1, <1>2 DEF Full, RequestInv, ReaderInv
  <2>2. ASSUME cur' = r
        PROVE  Unfinished(Full(r)) /\ (HasHeaders(Full(r)) => started')
    <3>1. CASE cur = r /\ started' = started
      BY <2>1, <3>1 DEF Sound
    <3>2. CASE Untouched(r) /\ outTo # r
      <4>1. Full(r) = <<>>
        BY <3>2 DEF Full, Stream, Rest, RequestInv, UntouchedInv
      <4> QED
        BY <4>1, EmptyStream
    <3> QED
      BY <2>2, <3>1, <3>2
  <2> QED
    BY <1>2, <2>1, <2>2 DEF Sound
<1>3. ReaderInv(r)'
  <2>1. \A i \in 1 .. Len(log[r]) : Stops(log[r][i])' = Stops(log[r][i])
    BY DEF Stops
  <2> QED
    BY <1>1, <1>2, <2>1 DEF RequestInv, ReaderInv, Stops
<1>4. UntouchedInv(r)'
  BY <1>1 DEF RequestInv, UntouchedInv
<1>5. ReturnInv(r)'
  <2>1. Returned(r) => r # cur'
    BY DEF RequestInv, ReturnInv, UntouchedInv
  <2>2. LastRead(r)' = LastRead(r)
    BY DEF LastRead
  <2> QED
    BY <1>1, <2>1, <2>2 DEF RequestInv, ReturnInv
<1> QED
  BY <1>3, <1>4, <1>5 DEF RequestInv

(* A caller that goes, or gets an error, leaves what it has read. *)
LEMMA RequestLeft ==
  ASSUME PhpTypes, ChannelTypes, NEW r \in Requests, RequestInv(r),
         Listening(r), chan'[r] = <<>>, caller'[r] \in {"left", "error"},
         UNCHANGED <<log, writes, tasks, done, style>>,
         caller'[r] = "error" => style = "execute" /\ done[r] = "dropped"
  PROVE  RequestInv(r)'
<1>1. WellFormed(log[r])
  BY ReadPrefix DEF RequestInv, ReaderInv, Sound
<1>2. done[r] # "none"
  BY DEF RequestInv, UntouchedInv, Listening
<1>3. Untouched(r)' = Untouched(r)
  BY DEF Untouched, Queued
<1> QED
  BY <1>1, <1>2, <1>3 DEF RequestInv, ReaderInv, UntouchedInv, ReturnInv,
                          Listening, Reading, Returned

(* Appending what a call sends to the stream of an unfinished request. *)
LEMMA SoundHead ==
  ASSUME NEW s \in Seq(Chunks), WellFormed(s), Unfinished(s),
         NEW c \in {"Headers", "Body"}, c = "Headers" => ~HasHeaders(s)
  PROVE  /\ WellFormed(s \o <<c>>) /\ Unfinished(s \o <<c>>)
         /\ Count(s \o <<c>>, "Body")
                = Count(s, "Body") + (IF c = "Body" THEN 1 ELSE 0)
         /\ HasHeaders(s \o <<c>>) => HasHeaders(s) \/ c = "Headers"
<1>1. s \o <<c>> = Append(s, c) /\ c \in Chunks
  BY DEF Chunks
<1>2. WellFormed(Append(s, c))
  BY <1>1, WellFormedAppend
<1>3. Unfinished(Append(s, c))
  BY DEF Unfinished, Finals
<1>4. HasHeaders(Append(s, c)) => HasHeaders(s) \/ c = "Headers"
  BY DEF HasHeaders
<1>5. Count(Append(s, c), "Body")
          = Count(s, "Body") + (IF c = "Body" THEN 1 ELSE 0)
  BY <1>1, CountAppend
<1> QED
  BY <1>1, <1>2, <1>3, <1>4, <1>5

(* An answer ends an unfinished stream and adds no body chunk. *)
LEMMA SoundAnswer ==
  ASSUME NEW s \in Seq(Chunks), WellFormed(s), Unfinished(s),
         NEW chunks \in {<<"End">>, <<"Return", "End">>, <<"Error", "End">>}
  PROVE  /\ WellFormed(s \o chunks) /\ Ends(s \o chunks)
         /\ Count(s \o chunks, "Body") = Count(s, "Body")
<1>0. Count(s, "Body") \in Nat
  BY CountNat
<1>1. CASE chunks = <<"End">>
  <2>1. s \o chunks = Append(s, "End") /\ "End" \in Chunks
    BY <1>1 DEF Chunks
  <2>2. WellFormed(Append(s, "End"))
    BY <2>1, WellFormedAppend
  <2>3. Count(Append(s, "End"), "Body") = Count(s, "Body") + 0
    BY <2>1, CountAppend
  <2>4. Ends(Append(s, "End"))
    BY DEF Ends, Last
  <2> QED
    BY <1>0, <2>1, <2>2, <2>3, <2>4
<1>2. ASSUME NEW c \in {"Return", "Error"}, chunks = <<c, "End">>
      PROVE  /\ WellFormed(s \o chunks) /\ Ends(s \o chunks)
             /\ Count(s \o chunks, "Body") = Count(s, "Body")
  <2>1. s \o chunks = Append(Append(s, c), "End")
    BY <1>2
  <2>2. /\ "End" \in Chunks /\ c \in Chunks /\ c # "Body"
        /\ Append(s, c) \in Seq(Chunks)
    BY DEF Chunks
  <2>3. WellFormed(Append(Append(s, c), "End"))
    BY WellFormedEnd
  <2>4. Count(Append(s, c), "Body") = Count(s, "Body") + 0
    BY <2>2, CountAppend
  <2>5. Count(Append(Append(s, c), "End"), "Body")
            = Count(Append(s, c), "Body") + 0
    <3>1. PICK t \in Seq(Chunks) : t = Append(s, c)
      BY <2>2
    <3>2. Count(Append(t, "End"), "Body") = Count(t, "Body") + 0
      BY <2>2, CountAppend
    <3> QED
      BY <3>1, <3>2
  <2>6. Ends(Append(Append(s, c), "End"))
    BY <2>2 DEF Ends, Last
  <2> QED
    BY <1>0, <2>1, <2>3, <2>4, <2>5, <2>6
<1> QED
  BY <1>1, <1>2

(* PHP sends to the current request. *)
LEMMA RequestSends ==
  ASSUME PhpTypes, ChannelTypes, PhpInv, NEW r \in Requests, RequestInv(r),
         WriteHead \/ Write \/ WriteEnd \/ Send
             \/ (HandlerReturns /\ cur # NoRequest)
  PROVE  RequestInv(r)'
<1>1. /\ cur # NoRequest /\ pc = "php" /\ outTo' = cur
      /\ UNCHANGED <<style, tasks, chan, done, log, caller>>
      /\ cur' \in {cur, NoRequest}
  BY SendsTypes
<1>2. outTo = NoRequest /\ out = <<>> /\ r # NoRequest
  BY <1>1 DEF PhpInv, Requests, NoRequest
<1>3. Untouched(r)' = Untouched(r)
  BY <1>1 DEF Untouched, Queued
<1>4. CASE r # cur
  <2>1. writes'[r] = writes[r]
    BY <1>4, SendsTypes DEF WriteHead, Write, ChannelTypes
  <2>2. Rest(r)' = Rest(r) /\ (Ended(r)' => Ended(r)) /\ cur' # r
    BY <1>1, <1>2, <1>4 DEF Rest, Ended
  <2> QED
    BY <1>1, <1>3, <2>1, <2>2, RequestKept
<1>5. CASE r = cur
  <2>1. /\ ~Untouched(r) /\ done[r] = "pending" /\ ~Returned(r)
    BY <1>5 DEF PhpInv, Untouched, RequestInv, ReturnInv
  <2>2. UntouchedInv(r)' /\ ReturnInv(r)'
    BY <1>1, <1>3, <2>1
    DEF UntouchedInv, ReturnInv, RequestInv, Returned, LastRead
  <2>3. CASE ~Listening(r)
    BY <1>1, <2>2, <2>3
    DEF RequestInv, ReaderInv, Listening, Reading, WellFormed
  <2>4. CASE Listening(r)
    <3>1. /\ Full(r) = Stream(r) /\ Full(r)' = Full(r) \o out'
          /\ Full(r) \in Seq(Chunks)
      <4>1. Full(r) = Stream(r) /\ Stream(r) \in Seq(Chunks)
        <5>1. Rest(r) = <<>>
          BY <1>2 DEF Rest
        <5>2. Stream(r) \in Seq(Chunks)
          BY StreamTypes
        <5>3. Stream(r) \o <<>> = Stream(r)
          BY <5>2
        <5> QED
          BY <5>1, <5>2, <5>3 DEF Full
      <4>2. Full(r)' = Stream(r) \o out'
        BY <1>1, <1>5 DEF Full, Rest, Stream
      <4> QED
        BY <4>1, <4>2
    <3>2. /\ WellFormed(Full(r)) /\ Count(Full(r), "Body") = writes[r]
          /\ Unfinished(Full(r)) /\ (HasHeaders(Full(r)) => started)
          /\ writes[r] \in Nat
      BY <1>5, <2>4 DEF RequestInv, ReaderInv, Sound, ChannelTypes
    <3>3. Sound(r)'
      <4>1. CASE WriteHead
        <5>1. /\ ~started /\ started' = TRUE /\ out' = <<"Headers">>
              /\ cur' = r /\ writes' = writes
          BY <1>5, <4>1 DEF WriteHead, MayWriteHead, Sends
        <5>2. ~HasHeaders(Full(r))
          BY <3>2, <5>1
        <5>3. /\ WellFormed(Full(r)') /\ Unfinished(Full(r)')
              /\ Count(Full(r)', "Body") = Count(Full(r), "Body") + 0
          BY <3>1, <3>2, <5>1, <5>2, SoundHead
        <5> QED
          BY <1>1, <1>5, <2>1, <3>2, <5>1, <5>3 DEF Sound, Ended
      <4>2. CASE Write
        <5>1. /\ started' = started /\ out' = <<"Body">> /\ cur' = r
              /\ writes'[r] = writes[r] + 1
          BY <1>5, <4>2 DEF Write, Sends, ChannelTypes
        <5>2. /\ WellFormed(Full(r)') /\ Unfinished(Full(r)')
              /\ Count(Full(r)', "Body") = Count(Full(r), "Body") + 1
              /\ HasHeaders(Full(r)') => HasHeaders(Full(r))
          BY <3>1, <3>2, <5>1, SoundHead
        <5> QED
          BY <1>1, <1>5, <2>1, <3>2, <5>1, <5>2 DEF Sound, Ended
      <4>3. CASE ~WriteHead /\ ~Write
        <5>1. /\ cur' = NoRequest /\ writes' = writes
              /\ out' \in {<<"End">>, <<"Return", "End">>, <<"Error", "End">>}
          BY <4>3, SendsTypes
        <5>2. /\ WellFormed(Full(r)') /\ Ends(Full(r)')
              /\ Count(Full(r)', "Body") = Count(Full(r), "Body")
          BY <3>1, <3>2, <5>1, SoundAnswer
        <5> QED
          BY <1>2, <3>2, <5>1, <5>2 DEF Sound
      <4> QED
        BY <4>1, <4>2, <4>3
    <3> QED
      BY <1>1, <2>2, <2>4, <3>3
      DEF RequestInv, ReaderInv, Listening, Reading, Stops
  <2> QED
    BY <2>3, <2>4
<1> QED
  BY <1>4, <1>5

(* blocking_send puts a chunk into the channel, or drops it. *)
LEMMA RequestPush ==
  ASSUME PhpTypes, ChannelTypes, PhpInv, NEW r \in Requests, RequestInv(r),
         Push
  PROVE  RequestInv(r)'
<1>1. /\ out # <<>> /\ out' = Tail(out)
      /\ chan' = IF Listening(outTo)
                 THEN [chan EXCEPT ![outTo] = Append(@, Head(out))] ELSE chan
      /\ UNCHANGED <<style, tasks, cur, started, writes, outTo, done, log,
                     caller>>
  BY DEF Push
<1>2. /\ Untouched(r)' = Untouched(r) /\ Ended(r)' = Ended(r)
      /\ Listening(r)' = Listening(r)
  BY <1>1 DEF Untouched, Queued, Ended, Listening
<1>3. CASE r # outTo \/ ~Listening(r)
  <2>1. chan'[r] = chan[r]
    BY <1>1, <1>3 DEF ChannelTypes
  <2>2. Listening(r) => Rest(r)' = Rest(r)
    BY <1>1, <1>3 DEF Rest
  <2> QED
    BY <1>1, <1>2, <2>1, <2>2, RequestKept
<1>4. CASE r = outTo /\ Listening(r)
  <2>1. chan'[r] = Append(chan[r], Head(out)) /\ Rest(r) = out
    BY <1>1, <1>4 DEF ChannelTypes, Rest
  <2>2. /\ log[r] \in Seq(Chunks) /\ chan[r] \in Seq(Chunks)
        /\ out \in Seq(Chunks) /\ Stream(r) \in Seq(Chunks)
    BY StreamTypes DEF PhpTypes
  <2>3. /\ Append(Stream(r), Head(out)) \o Tail(out) = Stream(r) \o out
        /\ Head(out) \in Chunks
    BY <1>1, <2>2, Moved
  <2>4. Full(r)' = Full(r)
    <3>1. Stream(r)' = log[r] \o Append(chan[r], Head(out))
      BY <1>1, <2>1 DEF Stream
    <3>2. Stream(r)' = Append(Stream(r), Head(out))
      BY <2>2, <2>3, <3>1, AppendedLater DEF Stream
    <3>3. Rest(r)' = Tail(out)
      BY <1>1, <1>4 DEF Rest
    <3> QED
      BY <2>1, <2>3, <3>2, <3>3 DEF Full
  <2>5. ~Untouched(r)
    BY <1>4 DEF PhpInv, Untouched
  <2>6. Sound(r)'
    BY <1>1, <1>2, <1>4, <2>4 DEF RequestInv, ReaderInv, Sound
  <2> QED
    BY <1>1, <1>2, <1>4, <2>5, <2>6
    DEF RequestInv, ReaderInv, UntouchedInv, ReturnInv, Listening, Reading,
        Returned, Stops, LastRead
<1> QED
  BY <1>3, <1>4

(* The caller of r reads a chunk. *)
LEMMA RequestRead ==
  ASSUME PhpTypes, ChannelTypes, PhpInv, NEW r \in Requests, RequestInv(r),
         Read(r)
  PROVE  RequestInv(r)'
<1>0. PICK chunk, all : chunk = Head(chan[r]) /\ all = Append(log[r], chunk)
  OBVIOUS
<1>1. /\ Reading(r) /\ Listening(r) /\ chan[r] # <<>>
      /\ log' = [log EXCEPT ![r] = all]
      /\ caller' = [caller EXCEPT ![r] =
             IF ~Stops(chunk) THEN "reading"
             ELSE IF chunk = "Error" THEN "error" ELSE Collected(all)]
      /\ chan' = [chan EXCEPT ![r] =
                      IF Stops(chunk) THEN <<>> ELSE Tail(@)]
      /\ UNCHANGED <<style, tasks, cur, started, writes, out, outTo, done>>
  BY <1>0 DEF Read, Reading, Listening, phpVars
<1>2. /\ log[r] \in Seq(Chunks) /\ chan[r] \in Seq(Chunks)
      /\ Rest(r) \in Seq(Chunks)
  BY StreamTypes
<1>3. /\ log[r] \o chan[r] = all \o Tail(chan[r]) /\ all # <<>>
      /\ all \in Seq(Chunks) /\ chunk \in Chunks
      /\ Tail(chan[r]) \in Seq(Chunks)
  BY <1>0, <1>1, <1>2, Moved
<1>9. PICK more : more = Tail(chan[r]) \o Rest(r)
  OBVIOUS
<1>10. /\ more \in Seq(Chunks) /\ Full(r) = all \o more
       /\ (all \o Tail(chan[r])) \o Rest(r) = all \o more
  <2>1. Tail(chan[r]) \o Rest(r) \in Seq(Chunks)
    BY <1>2, <1>3
  <2>2. (all \o Tail(chan[r])) \o Rest(r) = all \o (Tail(chan[r]) \o Rest(r))
    <3>1. PICK rest : rest = Tail(chan[r])
      OBVIOUS
    <3>2. rest \in Seq(Chunks)
      BY <1>3, <3>1
    <3>3. (all \o rest) \o Rest(r) = all \o (rest \o Rest(r))
      BY <1>2, <1>3, <3>2, Joined
    <3> QED
      BY <3>1, <3>3
  <2> QED
    BY <1>3, <1>9, <2>1, <2>2 DEF Full, Stream
<1>4. Sound(r) /\ \A i \in 1 .. Len(log[r]) : ~Stops(log[r][i])
  BY <1>1 DEF RequestInv, ReaderInv
<1>5. log'[r] = all /\ all # <<>>
  BY <1>1, <1>3 DEF ChannelTypes
<1>6. Untouched(r)' = Untouched(r) /\ ~Untouched(r)
  BY <1>1 DEF Untouched, Queued, RequestInv, UntouchedInv
<1>7. CASE ~Stops(chunk)
  <2>1. caller'[r] = "reading" /\ chan'[r] = Tail(chan[r])
    BY <1>1, <1>7 DEF ChannelTypes
  <2>2. Full(r)' = Full(r)
    <3>1. Full(r)' = (all \o Tail(chan[r])) \o Rest(r)
      BY <1>1, <1>5, <2>1 DEF Full, Stream, Rest
    <3> QED
      BY <1>10, <3>1
  <2>3. Sound(r)'
    BY <1>1, <1>4, <2>2 DEF Sound, Ended
  <2>4. \A i \in 1 .. Len(all) : ~Stops(all[i])'
    BY <1>0, <1>1, <1>2, <1>3, <1>4, <1>7 DEF Stops
  <2> QED
    BY <1>5, <1>6, <2>1, <2>3, <2>4
    DEF RequestInv, ReaderInv, UntouchedInv, ReturnInv, Listening, Reading,
        Returned, Untouched, Stops
<1>8. CASE Stops(chunk)
  <2>1. /\ chan'[r] = <<>> /\ chunk \in Finals
        /\ caller'[r] = IF chunk = "Error" THEN "error" ELSE Collected(all)
        /\ caller'[r] \in {"error", "value", "http"}
    BY <1>1, <1>8 DEF ChannelTypes, Stops, Finals, Collected
  <2>2. WellFormed(all)
    BY <1>3, <1>4, <1>10, WellFormedPrefix DEF Sound
  <2>3. ReaderInv(r)' /\ UntouchedInv(r)'
    BY <1>5, <1>6, <2>1, <2>2
    DEF ReaderInv, UntouchedInv, Listening, Reading, Untouched
  <2>4. Last(all) = chunk
    BY <1>0, <1>2, <1>3 DEF Last
  <2>5. CASE chunk = "Error"
    BY <1>5, <2>1, <2>3, <2>4, <2>5 DEF RequestInv, ReturnInv, Returned
  <2>6. CASE chunk # "Error"
    <3>1. Count(all, "Body") = writes[r]
      <4>1. WellFormed(Append(log[r], chunk) \o more)
        BY <1>0, <1>4, <1>10 DEF Sound
      <4>2. Count(Append(log[r], chunk), "Body")
                = Count(Append(log[r], chunk) \o more, "Body")
        BY <1>2, <1>10, <2>1, <4>1, NothingAfter
      <4> QED
        BY <1>0, <1>4, <1>10, <4>2 DEF Sound
    <3>2. r # cur
      <4>1. Full(r)[Len(all)] = chunk /\ Len(all) \in 1 .. Len(Full(r))
        <5>1. all[Len(all)] = chunk /\ Len(all) > 0 /\ Len(all) \in Nat
          BY <1>0, <1>2, <1>3
        <5> QED
          BY <1>3, <1>10, <5>1
      <4> QED
        BY <1>4, <2>1, <4>1 DEF Sound, Unfinished
    <3>3. \A i \in 1 .. Len(all) : all[i] # "Error"
      BY <1>0, <1>2, <1>3, <1>4, <2>6 DEF Stops
    <3>4. caller'[r] = "http" => \A i \in 1 .. Len(all) : all[i] # "Return"
      BY <1>2, <1>3, <2>1, <2>6 DEF Collected, ToSet
    <3>5. chunk = IF style = "execute" /\ caller'[r] = "value"
                  THEN "Return" ELSE "End"
      <4>1. CASE chunk = "End" /\ style = "execute"
        <5>1. \A i \in 1 .. Len(all) : all[i] # "Return"
          BY <1>0, <1>2, <1>3, <1>4, <4>1 DEF Stops
        <5>2. caller'[r] = "http"
          BY <1>2, <1>3, <2>1, <4>1, <5>1 DEF Collected, ToSet
        <5> QED
          BY <4>1, <5>2
      <4>2. CASE chunk = "Return"
        <5>1. all[Len(all)] = "Return" /\ Len(all) \in DOMAIN all
          BY <1>0, <1>2, <1>3, <4>2
        <5>2. caller'[r] = "value"
          BY <2>1, <4>2, <5>1 DEF Collected, ToSet
        <5> QED
          BY <1>8, <4>2, <5>2 DEF Stops
      <4> QED
        BY <2>1, <2>6, <4>1, <4>2, <1>1 DEF Finals, PhpTypes
    <3>6. /\ caller'[r] # "error" /\ cur' = cur /\ writes' = writes
          /\ style' = style
      BY <1>1, <2>1, <2>6 DEF Collected
    <3>7. LastRead(r)'
      BY <1>3, <1>5, <2>4, <3>5, <3>6 DEF LastRead
    <3>8. ReturnInv(r)'
      BY <1>5, <3>1, <3>2, <3>3, <3>4, <3>6, <3>7 DEF ReturnInv, Returned
    <3> QED
      BY <2>3, <3>8 DEF RequestInv
  <2> QED
    BY <2>5, <2>6
<1> QED
  BY <1>7, <1>8

(* The stream of r is closed while its caller reads. *)
LEMMA RequestClosed ==
  ASSUME PhpTypes, ChannelTypes, PhpInv, NEW r \in Requests, RequestInv(r),
         ReadClosed(r)
  PROVE  RequestInv(r)'
<1>1. /\ Reading(r) /\ Listening(r) /\ chan[r] = <<>> /\ ~open[r]
      /\ caller' = [caller EXCEPT ![r] = Collected(log[r])]
      /\ UNCHANGED <<style, tasks, cur, writes, out, outTo, done, chan, log>>
  BY DEF ReadClosed, Reading, Listening, phpVars
<1>2. /\ done[r] # "pending" /\ r # cur /\ r # outTo /\ ~Queued(r)
  BY <1>1 DEF PhpInv
<1>3. Full(r) = log[r] /\ log[r] \in Seq(Chunks)
  <2>1. log[r] \in Seq(Chunks)
    BY DEF ChannelTypes
  <2>2. (log[r] \o <<>>) \o <<>> = log[r]
    BY <2>1
  <2> QED
    BY <1>1, <1>2, <2>1, <2>2 DEF Full, Stream, Rest
<1>4. /\ WellFormed(log[r]) /\ Count(log[r], "Body") = writes[r]
      /\ done[r] = "sent" => Ends(log[r])
      /\ \A i \in 1 .. Len(log[r]) : ~Stops(log[r][i])
  BY <1>1, <1>3 DEF RequestInv, ReaderInv, Sound, Ended
<1>5. done[r] = "dropped"
  <2>1. done[r] # "none"
    BY <1>1 DEF RequestInv, UntouchedInv, Reading
  <2>2. ~Ends(log[r])
    <3>1. ASSUME Ends(log[r])
          PROVE  FALSE
      <4>1. Len(log[r]) \in 1 .. Len(log[r]) /\ log[r][Len(log[r])] = "End"
        BY <1>3, <3>1 DEF Ends, Last
      <4> QED
        BY <1>4, <4>1 DEF Stops
    <3> QED
      BY <3>1
  <2> QED
    BY <1>2, <1>4, <2>1, <2>2 DEF PhpTypes
<1>6. caller'[r] \in {"value", "http"} /\ caller'[r] = Collected(log[r])
  BY <1>1 DEF ChannelTypes, Collected
<1>7. caller'[r] = "http" => \A i \in 1 .. Len(log[r]) :
                                 log[r][i] \notin {"Return", "Error"}
  BY <1>3, <1>4, <1>6 DEF Collected, ToSet, Stops
<1>8. ReaderInv(r)'
  BY <1>1, <1>4, <1>6 DEF ReaderInv, Listening, Reading
<1>9. UntouchedInv(r)'
  BY <1>1, <1>2, <1>5 DEF UntouchedInv, Untouched, Queued
<1>10. ReturnInv(r)'
  BY <1>1, <1>2, <1>4, <1>5, <1>6, <1>7 DEF ReturnInv, Returned
<1> QED
  BY <1>8, <1>9, <1>10 DEF RequestInv

(* The supervisor sends r to the worker. *)
LEMMA RequestSent ==
  ASSUME PhpTypes, ChannelTypes, PhpInv, NEW r \in Requests, RequestInv(r),
         SupSend(r)
  PROVE  RequestInv(r)'
<1>1. /\ done[r] = "none" /\ tasks' = Append(tasks, r)
      /\ done' = [done EXCEPT ![r] = "pending"]
      /\ caller' = [caller EXCEPT ![r] =
                        IF style = "pool" THEN "reading" ELSE "waiting"]
      /\ UNCHANGED <<style, cur, started, writes, out, outTo, chan, log>>
  BY DEF SupSend
<1>2. r # cur /\ r # outTo
  BY <1>1 DEF PhpInv
<1>3. log[r] = <<>> /\ chan[r] = <<>> /\ writes[r] = 0
  BY <1>1 DEF RequestInv, UntouchedInv, Untouched
<1>4. /\ caller'[r] = IF style = "pool" THEN "reading" ELSE "waiting"
      /\ done'[r] = "pending"
  BY <1>1 DEF ChannelTypes, PhpTypes
<1>5. Full(r)' = <<>>
  BY <1>1, <1>2, <1>3 DEF Full, Stream, Rest
<1>6. Sound(r)'
  BY <1>1, <1>2, <1>3, <1>4, <1>5, EmptyStream DEF Sound, Ended
<1>7. ReaderInv(r)'
  BY <1>1, <1>3, <1>4, <1>6 DEF ReaderInv, Listening, Reading, PhpTypes
<1> QED
  BY <1>1, <1>3, <1>4, <1>7
  DEF RequestInv, UntouchedInv, ReturnInv, Returned

(* Every step keeps the types of the channels and of their readers. *)
LEMMA ChannelStep ==
  ASSUME PhpTypes, ChannelTypes, PhpInv, [Next]_vars
  PROVE  ChannelTypes'
<1>1. CASE UNCHANGED <<writes, chan, log, caller>>
  BY <1>1 DEF ChannelTypes
<1>2. CASE Write
  <2>1. cur \in Requests
    BY <1>2 DEF Write, PhpTypes, RequestOrNone
  <2> QED
    BY <1>2, <2>1 DEF Write, Sends, ChannelTypes
<1>3. CASE Push
  <2>1. PICK c, new : c = Head(out) /\ new = Append(chan[outTo], c)
    OBVIOUS
  <2>2. /\ out # <<>> /\ UNCHANGED <<writes, log, caller>>
        /\ chan' = chan \/ chan' = [chan EXCEPT ![outTo] = new]
    BY <1>3, <2>1 DEF Push
  <2>3. c \in Chunks
    BY <2>1, <2>2 DEF PhpTypes
  <2>4. outTo \in Requests
    BY <1>3 DEF Push, PhpInv, PhpTypes, RequestOrNone
  <2>5. new \in Seq(Chunks)
    BY <2>1, <2>3, <2>4 DEF ChannelTypes
  <2>6. chan' \in [Requests -> Seq(Chunks)]
    BY <2>2, <2>5 DEF ChannelTypes
  <2> QED
    BY <2>2, <2>6 DEF ChannelTypes
<1>4. ASSUME NEW r \in Requests, SupSend(r)
      PROVE  ChannelTypes'
  BY <1>4 DEF SupSend, ChannelTypes, Callers
<1>5. ASSUME NEW r \in Requests, NEW new \in Seq(Chunks),
             NEW c \in Callers,
             UNCHANGED <<writes, log>>,
             chan' = chan \/ chan' = [chan EXCEPT ![r] = new],
             caller' = caller \/ caller' = [caller EXCEPT ![r] = c]
      PROVE  ChannelTypes'
  <2>1. chan' \in [Requests -> Seq(Chunks)]
    BY <1>5 DEF ChannelTypes
  <2>2. caller' \in [Requests -> Callers]
    BY <1>5 DEF ChannelTypes
  <2> QED
    BY <1>5, <2>1, <2>2 DEF ChannelTypes
<1>8. CASE SupDone \/ SupTimeout
  <2>1. /\ UNCHANGED <<writes, log>> /\ sup \in Requests
        /\ chan' = chan \/ chan' = [chan EXCEPT ![sup] = <<>>]
        /\ \/ caller' = caller
           \/ \E c \in {"reading", "error", "left"} :
                  caller' = [caller EXCEPT ![sup] = c]
    BY <1>8 DEF SupDone, SupTimeout, phpVars, PhpTypes, RequestOrNone
  <2>2. /\ {"reading", "error", "left"} \subseteq Callers
        /\ <<>> \in Seq(Chunks)
    BY DEF Callers
  <2> QED
    BY <1>5, <2>1, <2>2
<1>6. ASSUME NEW r \in Requests, Read(r)
      PROVE  ChannelTypes'
  <2>1. PICK chunk, all, c : /\ chunk = Head(chan[r])
                             /\ all = Append(log[r], chunk)
                             /\ c = IF ~Stops(chunk) THEN "reading"
                                    ELSE IF chunk = "Error" THEN "error"
                                    ELSE Collected(all)
    OBVIOUS
  <2>2. /\ chan[r] # <<>> /\ log' = [log EXCEPT ![r] = all]
        /\ caller' = [caller EXCEPT ![r] = c] /\ writes' = writes
        /\ \/ chan' = [chan EXCEPT ![r] = <<>>]
           \/ chan' = [chan EXCEPT ![r] = Tail(chan[r])]
    BY <1>6, <2>1 DEF Read, phpVars
  <2>3. all \in Seq(Chunks) /\ Tail(chan[r]) \in Seq(Chunks)
    <3>1. log[r] \in Seq(Chunks) /\ chan[r] \in Seq(Chunks)
      BY DEF ChannelTypes
    <3> QED
      BY <2>1, <2>2, <3>1, Moved
  <2>4. c \in Callers
    BY <2>1 DEF Callers, Collected
  <2>5. log' \in [Requests -> Seq(Chunks)]
    BY <2>2, <2>3 DEF ChannelTypes
  <2>6. caller' \in [Requests -> Callers]
    BY <2>2, <2>4 DEF ChannelTypes
  <2>7. chan' \in [Requests -> Seq(Chunks)]
    <3>1. PICK rest : /\ rest \in Seq(Chunks)
                      /\ chan' = [chan EXCEPT ![r] = rest]
      <4>1. CASE chan' = [chan EXCEPT ![r] = <<>>]
        <5>1. <<>> \in Seq(Chunks)
          OBVIOUS
        <5> QED
          BY <4>1, <5>1
      <4>2. CASE chan' = [chan EXCEPT ![r] = Tail(chan[r])]
        BY <2>3, <4>2
      <4> QED
        BY <2>2, <4>1, <4>2
    <3> QED
      BY <3>1 DEF ChannelTypes
  <2> QED
    BY <2>2, <2>5, <2>6, <2>7 DEF ChannelTypes
<1>7. ASSUME NEW r \in Requests, ReadClosed(r) \/ Leave(r)
      PROVE  ChannelTypes'
  <2>1. PICK c : c = IF Leave(r) THEN "left" ELSE Collected(log[r])
    OBVIOUS
  <2>2. c \in Callers /\ <<>> \in Seq(Chunks)
    BY <2>1 DEF Callers, Collected
  <2>3. /\ UNCHANGED <<writes, log>>
        /\ chan' = chan \/ chan' = [chan EXCEPT ![r] = <<>>]
        /\ caller' = [caller EXCEPT ![r] = c]
    BY <1>7, <2>1 DEF ReadClosed, Leave, phpVars
  <2> QED
    BY <1>5, <2>2, <2>3
<1> QED
  BY <1>1, <1>2, <1>3, <1>4, <1>6, <1>7, <1>8
  DEF Next, Recv, WriteHead, WriteEnd, Send, HandlerReturns, CallReturns, Dies,
      Answers, Sends, vars, phpVars

(* Every step keeps what is known of r. *)
LEMMA RequestStep ==
  ASSUME PhpTypes, ChannelTypes, PhpInv, NEW r \in Requests, RequestInv(r),
         [Next]_vars
  PROVE  RequestInv(r)'
<1>0. r # NoRequest
  BY DEF Requests, NoRequest
<1>1. CASE \/ WriteHead \/ Write \/ WriteEnd \/ Send
           \/ HandlerReturns /\ cur # NoRequest
  BY <1>1, RequestSends
<1>2. CASE (HandlerReturns /\ cur = NoRequest) \/ UNCHANGED vars
  <2>1. UNCHANGED <<style, tasks, cur, started, writes, out, outTo, chan, done,
                    log, caller>>
    BY <1>2 DEF HandlerReturns, vars, phpVars
  <2>2. /\ Untouched(r)' = Untouched(r) /\ Rest(r)' = Rest(r)
        /\ Ended(r)' = Ended(r)
    BY <2>1 DEF Untouched, Queued, Rest, Ended
  <2> QED
    BY <2>1, <2>2, RequestKept
<1>3. CASE Recv
  <2>1. /\ pc # "sending" /\ tasks # <<>> /\ tasks' = Tail(tasks)
        /\ cur' = Head(tasks)
        /\ done' = [q \in Requests |-> IF q = cur THEN "dropped" ELSE done[q]]
        /\ UNCHANGED <<style, writes, out, outTo, chan, log, caller>>
    BY <1>3 DEF Recv
  <2>2. /\ outTo = NoRequest /\ Queued(Head(tasks))
        /\ Queued(r)' => Queued(r)
    BY <2>1, TaskTaken DEF PhpInv
  <2>3. /\ Untouched(r)' => Untouched(r)
        /\ Ended(r)' => Ended(r)
    BY <1>0, <2>1, <2>2 DEF Untouched, Ended
  <2>4. cur' = r => Untouched(r) /\ outTo # r
    BY <1>0, <2>1, <2>2 DEF Untouched
  <2>5. /\ Rest(r)' = Rest(r)
        /\ done'[r] = "none" => done[r] = "none"
        /\ done[r] = "dropped" => done'[r] = "dropped"
    BY <2>1 DEF Rest
  <2> QED
    BY <2>1, <2>3, <2>4, <2>5, RequestKept
<1>4. CASE Push
  BY <1>4, RequestPush
<1>5. CASE CallReturns
  <2>1. /\ pc = "sending" /\ out = <<>> /\ outTo' = NoRequest /\ out' = <<>>
        /\ outTo \in Requests
        /\ UNCHANGED <<style, tasks, cur, started, writes, chan, log, caller>>
    BY <1>5 DEF CallReturns, Pushed, PhpInv, PhpTypes, RequestOrNone
  <2>2. \/ cur = outTo /\ done' = done
        \/ cur # outTo /\ done' = [done EXCEPT ![outTo] = "sent"]
    BY <1>5 DEF CallReturns
  <2>3. done[outTo] = "pending"
    BY <2>1 DEF PhpInv
  <2>4. \/ done'[r] = done[r]
        \/ done[r] = "pending" /\ done'[r] = "sent" /\ r = outTo /\ cur # r
    BY <2>1, <2>2, <2>3 DEF PhpTypes
  <2>5. Rest(r)' = Rest(r)
    BY <2>1 DEF Rest
  <2>6. Untouched(r)' => Untouched(r)
    BY <2>1, <2>4 DEF Untouched, Queued
  <2>7. Ended(r)' => Ended(r)
    BY <1>0, <2>1, <2>4 DEF Ended
  <2> QED
    BY <2>1, <2>4, <2>5, <2>6, <2>7, RequestKept
<1>6. CASE Dies
  <2>1. /\ tasks' = <<>> /\ cur' = NoRequest
        /\ done' = [q \in Requests |->
                       IF done[q] = "pending" THEN "dropped" ELSE done[q]]
        /\ pc = "php"
        /\ UNCHANGED <<style, writes, out, outTo, chan, log, caller>>
    BY <1>6 DEF Dies
  <2>2. outTo = NoRequest
    BY <2>1 DEF PhpInv
  <2>3. /\ Untouched(r)' => Untouched(r)
        /\ Ended(r)' => Ended(r)
    BY <1>0, <2>1, <2>2 DEF Untouched, Ended, Queued
  <2>4. /\ Rest(r)' = Rest(r)
        /\ done'[r] = "none" => done[r] = "none"
        /\ done[r] = "dropped" => done'[r] = "dropped"
    BY <2>1 DEF Rest
  <2> QED
    BY <1>0, <2>1, <2>3, <2>4, RequestKept
<1>7. ASSUME NEW q \in Requests, SupSend(q)
      PROVE  RequestInv(r)'
  <2>1. CASE q = r
    BY <1>7, <2>1, RequestSent
  <2>2. CASE q # r
    <3>1. /\ tasks' = Append(tasks, q) /\ done[q] = "none"
          /\ done'[r] = done[r] /\ caller'[r] = caller[r]
          /\ UNCHANGED <<style, cur, started, writes, out, outTo, chan, log>>
      BY <1>7, <2>2 DEF SupSend, PhpTypes, ChannelTypes
    <3>2. ~Queued(q)
      BY <3>1 DEF PhpInv
    <3>3. Queued(r)' <=> Queued(r)
      BY <2>2, <3>1, <3>2, TaskAdded
    <3>4. /\ Untouched(r)' = Untouched(r) /\ Rest(r)' = Rest(r)
          /\ Ended(r)' = Ended(r)
      BY <3>1, <3>3 DEF Untouched, Rest, Ended
    <3> QED
      BY <3>1, <3>4, RequestKept
  <2> QED
    BY <2>1, <2>2
<1>8. ASSUME UNCHANGED <<style, tasks, cur, started, writes, out, outTo, done>>,
             log'[r] = log[r], chan'[r] = chan[r], caller'[r] = caller[r]
      PROVE  RequestInv(r)'
  <2>1. /\ Untouched(r)' = Untouched(r) /\ Rest(r)' = Rest(r)
        /\ Ended(r)' = Ended(r)
    BY <1>8 DEF Untouched, Queued, Rest, Ended
  <2> QED
    BY <1>8, <2>1, RequestKept
<1>9. CASE SupDone
  <2>1. /\ sup \in Requests /\ done[sup] \notin {"pending", "none"}
        /\ UNCHANGED <<style, tasks, cur, started, writes, out, outTo, done,
                       log>>
    BY <1>9 DEF SupDone, phpVars, PhpInv, PhpTypes, RequestOrNone
  <2>2. CASE r # sup \/ caller[sup] # "waiting"
    <3>1. chan'[r] = chan[r] /\ caller'[r] = caller[r]
      BY <1>9, <2>1, <2>2 DEF SupDone, ChannelTypes
    <3> QED
      BY <1>8, <2>1, <3>1
  <2>3. CASE r = sup /\ caller[r] = "waiting" /\ done[r] = "sent"
    <3>1. /\ caller'[r] = "reading" /\ chan' = chan
          /\ log[r] = <<>> /\ Listening(r)
      BY <1>9, <2>3 DEF SupDone, ChannelTypes, RequestInv, ReaderInv, Listening
    <3>2. Full(r)' = Full(r) /\ Ended(r)' = Ended(r)
      BY <2>1, <3>1 DEF Full, Stream, Rest, Ended
    <3>3. Sound(r)'
      BY <2>1, <3>1, <3>2 DEF RequestInv, ReaderInv, Sound
    <3>4. ReaderInv(r)'
      BY <2>1, <3>1, <3>3 DEF ReaderInv, Listening, Reading
    <3>5. ~Untouched(r)' \/ (Untouched(r) /\ writes'[r] = writes[r])
      BY <2>1 DEF Untouched, Queued
    <3>6. UntouchedInv(r)' /\ ReturnInv(r)'
      BY <2>1, <2>3, <3>1, <3>5
      DEF RequestInv, UntouchedInv, ReturnInv, Returned
    <3> QED
      BY <3>4, <3>6 DEF RequestInv
  <2>4. CASE r = sup /\ caller[r] = "waiting" /\ done[r] # "sent"
    <3>1. /\ chan'[r] = <<>> /\ caller'[r] = "error" /\ Listening(r)
          /\ style = "execute" /\ done[r] = "dropped"
      BY <1>9, <2>1, <2>4 DEF SupDone, ChannelTypes, RequestInv, ReaderInv,
                              Listening, PhpTypes
    <3> QED
      BY <2>1, <3>1, RequestLeft
  <2> QED
    BY <2>2, <2>3, <2>4
<1>10. CASE SupTimeout
  <2>1. /\ sup \in Requests
        /\ UNCHANGED <<style, tasks, cur, started, writes, out, outTo, done,
                       log>>
    BY <1>10 DEF SupTimeout, phpVars, PhpTypes, RequestOrNone
  <2>2. CASE r # sup \/ caller[sup] # "waiting"
    <3>1. chan'[r] = chan[r] /\ caller'[r] = caller[r]
      BY <1>10, <2>1, <2>2 DEF SupTimeout, ChannelTypes
    <3> QED
      BY <1>8, <2>1, <3>1
  <2>3. CASE r = sup /\ caller[r] = "waiting"
    <3>1. chan'[r] = <<>> /\ caller'[r] = "left" /\ Listening(r)
      BY <1>10, <2>3 DEF SupTimeout, ChannelTypes, Listening
    <3> QED
      BY <2>1, <3>1, RequestLeft
  <2> QED
    BY <2>2, <2>3
<1>11. ASSUME NEW q \in Requests, Read(q) \/ ReadClosed(q) \/ Leave(q)
       PROVE  RequestInv(r)'
  <2>1. CASE q # r
    <3>1. /\ UNCHANGED <<style, tasks, cur, started, writes, out, outTo, done>>
          /\ log'[r] = log[r] /\ chan'[r] = chan[r] /\ caller'[r] = caller[r]
      BY <1>11, <2>1 DEF Read, ReadClosed, Leave, phpVars, ChannelTypes
    <3> QED
      BY <1>8, <3>1
  <2>2. CASE q = r /\ Leave(r)
    <3>1. /\ chan'[r] = <<>> /\ caller'[r] = "left" /\ Listening(r)
          /\ UNCHANGED <<log, writes, tasks, done, style>>
      BY <2>2 DEF Leave, phpVars, ChannelTypes, Reading, Listening
    <3> QED
      BY <3>1, RequestLeft
  <2> QED
    BY <1>11, <2>1, <2>2, RequestRead, RequestClosed
<1> QED
  BY <1>1, <1>2, <1>3, <1>4, <1>5, <1>6, <1>7, <1>9, <1>10, <1>11 DEF Next

(* StreamInv holds initially. *)
LEMMA StreamInit == Init => StreamInv
<1> SUFFICES ASSUME Init PROVE StreamInv
  OBVIOUS
<1>1. PhpTypes
  <2>1. pc \in {"recv", "php"} /\ after = "php"
    BY DEF Init
  <2>2. tasks \in Seq(Requests) /\ out \in Seq(Chunks)
    BY DEF Init
  <2>3. /\ started \in BOOLEAN /\ open \in [Requests -> BOOLEAN]
    BY DEF Init
  <2>4. done \in [Requests -> {"none", "pending", "sent", "dropped"}]
    BY DEF Init
  <2>5. /\ api \in {"loop", "manual"} /\ style \in {"pool", "execute"}
        /\ cur = NoRequest /\ outTo = NoRequest /\ sup = NoRequest
    BY DEF Init
  <2> QED
    BY <2>1, <2>2, <2>3, <2>4, <2>5 DEF PhpTypes, RequestOrNone
<1>2. ChannelTypes
  BY DEF Init, ChannelTypes, Callers
<1>3. PhpInv
  BY DEF Init, PhpInv, Queued, Requests, NoRequest
<1>4. ASSUME NEW r \in Requests
      PROVE  RequestInv(r)
  <2>1. /\ log[r] = <<>> /\ chan[r] = <<>> /\ writes[r] = 0
        /\ caller[r] = "none" /\ done[r] = "none"
    BY DEF Init
  <2> QED
    BY <2>1, EmptyStream
    DEF RequestInv, ReaderInv, UntouchedInv, ReturnInv, Listening, Reading,
        Returned
<1> QED
  BY <1>1, <1>2, <1>3, <1>4 DEF StreamInv

(* StreamInv always holds: whatever PHP calls in which order, what a caller has
   read, what its channel holds and what PHP is sending are one sound stream. *)
THEOREM StreamInvariant == Spec => []StreamInv
<1>1. StreamInv /\ [Next]_vars => StreamInv'
  <2> SUFFICES ASSUME StreamInv, [Next]_vars PROVE StreamInv'
    OBVIOUS
  <2>1. PhpTypes' /\ PhpInv' /\ ChannelTypes'
    BY PhpStep, ChannelStep DEF StreamInv
  <2>2. \A r \in Requests : RequestInv(r)'
    BY RequestStep DEF StreamInv
  <2> QED
    BY <2>1, <2>2 DEF StreamInv
<1> QED
  BY <1>1, StreamInit, PTL DEF Spec

(* Whatever PHP calls in which order, also across requests it did not answer
   and after it has answered, a stream is a response: headers at most once,
   nothing after End, a value or an error only right before it. *)
THEOREM WellFormedSafety == Spec => []StreamWellFormed
<1>1. StreamInv => StreamWellFormed
  <2> SUFFICES ASSUME StreamInv, NEW r \in Requests
               PROVE  WellFormed(Stream(r))
    BY DEF StreamWellFormed, WellFormed
  <2>1. RequestInv(r) /\ PhpTypes /\ ChannelTypes
    BY DEF StreamInv
  <2>2. CASE Listening(r)
    BY <2>1, <2>2, ReadPrefix DEF RequestInv, ReaderInv, Sound
  <2>3. CASE ~Listening(r)
    <3>1. log[r] \o <<>> = log[r]
      BY <2>1 DEF ChannelTypes
    <3> QED
      BY <2>1, <2>3, <3>1 DEF RequestInv, ReaderInv, Stream
  <2> QED
    BY <2>2, <2>3
<1> QED
  BY <1>1, StreamInvariant, PTL

(* done is signalled only once End is in the channel of a caller that is
   still there. *)
THEOREM DoneSafety == Spec => []DoneAfterEnd
<1>1. StreamInv => DoneAfterEnd
  <2> SUFFICES ASSUME StreamInv, NEW r \in Requests, done[r] = "sent",
                      Listening(r)
               PROVE  Stream(r) # <<>> /\ Last(Stream(r)) = "End"
    BY DEF DoneAfterEnd
  <2>1. outTo # r
    BY DEF StreamInv, PhpInv
  <2>2. Stream(r) \o <<>> = Stream(r)
    <3>1. Stream(r) \in Seq(Chunks)
      BY StreamTypes DEF StreamInv
    <3> QED
      BY <3>1
  <2>3. Full(r) = Stream(r)
    BY <2>1, <2>2 DEF Full, Rest
  <2>4. Ends(Full(r))
    BY DEF StreamInv, RequestInv, ReaderInv, Sound, Ended
  <2> QED
    BY <2>3, <2>4 DEF Ends
<1> QED
  BY <1>1, StreamInvariant, PTL

(* The caller gets what PHP answered: the error, the value, or a response of
   all the chunks written, complete if the worker finished it. *)
THEOREM DeliverySafety == Spec => []AnswerDelivered
<1>1. StreamInv => AnswerDelivered
  <2> SUFFICES ASSUME StreamInv, NEW r \in Requests
               PROVE  /\ caller[r] = "error" =>
                             \/ log[r] # <<>> /\ Last(log[r]) = "Error"
                             \/ style = "execute" /\ done[r] = "dropped"
                      /\ caller[r] = "http" =>
                             ToSet(log[r]) \cap {"Return", "Error"} = {}
                      /\ caller[r] \in {"value", "http"} =>
                             /\ Count(log[r], "Body") = writes[r]
                             /\ done[r] = "sent" => LastRead(r)
    BY DEF AnswerDelivered, LastRead
  <2>1. ReturnInv(r) /\ log[r] \in Seq(Chunks)
    BY DEF StreamInv, RequestInv, ChannelTypes
  <2>2. caller[r] = "http" => ToSet(log[r]) \cap {"Return", "Error"} = {}
    BY <2>1 DEF ReturnInv, ToSet
  <2> QED
    BY <2>1, <2>2 DEF ReturnInv, Returned
<1> QED
  BY <1>1, StreamInvariant, PTL
=============================================================================
