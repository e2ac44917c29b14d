------------------------ MODULE RequestBody_proofs ------------------------
(***************************************************************************)
(* Theorems about the request body of a worker thread, for every stream of *)
(* items and every sequence of calls, reads of any length included: no     *)
(* byte is lost, given twice, out of order, or to the wrong request or     *)
(* part, and no part is skipped.                                           *)
(*                                                                         *)
(* The bytes of a part can be followed only with the cursor: that what was *)
(* given since the last header, the buffer and the data to come are the    *)
(* part (PartInv) needs that the items not yet received are the last ones  *)
(* sent (Ending), and that buffers are empty outside a part (StateInv).    *)
(* That no part is skipped needs where the cursor is in the stream         *)
(* (CursorInv).                                                            *)
(*                                                                         *)
(* FlattenSeq is a fold over a recursive function.  What the proofs use of *)
(* it is proved with the least counterexample of a set of numbers (Least,  *)
(* UpTo): the well-foundedness of Nat is a theorem about sets and needs no *)
(* induction principle over operators.  Equations between concatenations   *)
(* are handled by two operators, Whole and Moves, and a few lemmas.        *)
(***************************************************************************)
EXTENDS RequestBody, SequenceTheorems, WellFoundedInduction, TLAPS

(* A set of natural numbers has a least element. *)
LEMMA Least ==
    ASSUME NEW U, U \subseteq Nat, U # {}
    PROVE  \E x \in U : \A y \in U : x <= y
<1>1. PICK x \in U : \A y \in U : ~(<<y, x>> \in OpToRel(<, Nat))
  BY NatLessThanWellFounded, WFMin
<1>2. \A y \in U : ~(y < x)
  BY <1>1 DEF OpToRel
<1> QED
  BY <1>2

(* Induction over 1 .. m, for a set. *)
LEMMA UpTo ==
    ASSUME NEW m \in Nat, NEW T,
           1 \in T, \A n \in 1 .. m - 1 : n \in T => n + 1 \in T
    PROVE  \A n \in 1 .. m : n \in T
<1> DEFINE U == {n \in 1 .. m : n \notin T}
<1> SUFFICES ASSUME U # {}
             PROVE  FALSE
  OBVIOUS
<1>1. PICK x \in U : \A y \in U : x <= y
  <2>1. U \subseteq Nat
    OBVIOUS
  <2> HIDE DEF U
  <2> QED
    BY <2>1, Least
<1> QED
  BY <1>1

(* What is given and what is kept of a buffer are the buffer. *)
LEMMA Split ==
    ASSUME NEW S, NEW b \in Seq(S), NEW n \in 0 .. Len(b)
    PROVE  /\ SubSeq(b, 1, n) \in Seq(S) /\ From(b, n + 1) \in Seq(S)
           /\ Len(SubSeq(b, 1, n)) = n
           /\ SubSeq(b, 1, n) \o From(b, n + 1) = b
<1>1. SubSeq(b, 1, n) \in Seq(S) /\ SubSeq(b, n + 1, Len(b)) \in Seq(S)
  OBVIOUS
<1>2. PICK x \in Seq(S), y \in Seq(S) :
          x = SubSeq(b, 1, n) /\ y = SubSeq(b, n + 1, Len(b))
  BY <1>1
<1>3. Len(x) = n /\ \A i \in 1 .. n : x[i] = b[i]
  BY <1>2
<1>4. Len(y) = Len(b) - n /\ \A i \in 1 .. Len(b) - n : y[i] = b[n + i]
  BY <1>2
<1>5. PICK z \in Seq(S) : z = x \o y
  BY ConcatProperties
<1>6. Len(z) = Len(b)
  <2>1. Len(z) = Len(x) + Len(y)
    BY <1>5
  <2>2. Len(x) = n /\ Len(y) = Len(b) - n
    BY <1>3, <1>4
  <2> QED
    BY <2>1, <2>2
<1>7. ASSUME NEW i \in 1 .. Len(b)
      PROVE  z[i] = b[i]
  <2>1. z[i] = IF i <= n THEN x[i] ELSE y[i - n]
    BY <1>3, <1>4, <1>5
  <2>2. CASE i <= n
    BY <1>3, <2>1, <2>2
  <2>3. CASE i > n
    <3>1. i - n \in 1 .. Len(b) - n /\ n + (i - n) = i
      BY <2>3
    <3> QED
      BY <1>4, <2>1, <2>3, <3>1
  <2> QED
    BY <2>2, <2>3
<1>8. z = b
  BY <1>6, <1>7, SeqEqual
<1> QED
  BY <1>2, <1>3, <1>5, <1>8 DEF From

(* The elements after position k, after an append. *)
LEMMA FromConcat ==
    ASSUME NEW S, NEW s \in Seq(S), NEW t \in Seq(S), NEW k \in 0 .. Len(s)
    PROVE  SubSeq(s \o t, k + 1, Len(s \o t)) = SubSeq(s, k + 1, Len(s)) \o t
<1>1. PICK u \in Seq(S) : u = s \o t
  BY ConcatProperties
<1>2. /\ Len(u) = Len(s) + Len(t)
      /\ \A i \in 1 .. Len(s) + Len(t) :
             u[i] = IF i <= Len(s) THEN s[i] ELSE t[i - Len(s)]
  BY <1>1, ConcatProperties
<1>3. PICK a \in Seq(S) : a = SubSeq(s, k + 1, Len(s))
  <2>1. SubSeq(s, k + 1, Len(s)) \in Seq(S)
    OBVIOUS
  <2> QED
    BY <2>1
<1>4. Len(a) = Len(s) - k /\ \A i \in 1 .. Len(s) - k : a[i] = s[k + i]
  BY <1>3
<1>5. PICK c \in Seq(S) : c = SubSeq(u, k + 1, Len(u))
  <2>1. SubSeq(u, k + 1, Len(u)) \in Seq(S)
    BY <1>2
  <2> QED
    BY <2>1
<1>6. /\ Len(c) = Len(s) + Len(t) - k
      /\ \A i \in 1 .. Len(s) + Len(t) - k : c[i] = u[k + i]
  BY <1>2, <1>5
<1>7. PICK d \in Seq(S) : d = a \o t
  BY ConcatProperties
<1>8. /\ Len(d) = Len(s) - k + Len(t)
      /\ \A i \in 1 .. Len(s) - k + Len(t) :
             d[i] = IF i <= Len(s) - k THEN a[i] ELSE t[i - (Len(s) - k)]
  <2>1. PICK n \in Nat : n = Len(s) - k
    OBVIOUS
  <2>2. /\ Len(d) = Len(a) + Len(t)
        /\ \A i \in 1 .. Len(a) + Len(t) :
              d[i] = IF i <= Len(a) THEN a[i] ELSE t[i - Len(a)]
    BY <1>7, ConcatProperties
  <2>3. Len(a) = n
    BY <1>4, <2>1
  <2> QED
    BY <2>1, <2>2, <2>3
<1>9. ASSUME NEW i \in 1 .. Len(c)
      PROVE  c[i] = d[i]
  <2>1. k + i \in 1 .. Len(s) + Len(t)
    BY <1>6
  <2>2. c[i] = IF k + i <= Len(s) THEN s[k + i] ELSE t[k + i - Len(s)]
    BY <1>2, <1>6, <2>1
  <2>3. d[i] = IF i <= Len(s) - k THEN s[k + i] ELSE t[i - (Len(s) - k)]
    BY <1>4, <1>6, <1>8
  <2>4. i - (Len(s) - k) = k + i - Len(s)
    BY <1>6
  <2> QED
    BY <2>2, <2>3, <2>4
<1>10. Len(c) = Len(d)
  BY <1>6, <1>8
<1>11. c = d
  BY <1>9, <1>10, SeqEqual
<1> QED
  BY <1>1, <1>3, <1>5, <1>7, <1>11

(* The elements between two positions are not affected by an append. *)
LEMMA SubSeqKept ==
    ASSUME NEW S, NEW s \in Seq(S), NEW t \in Seq(S),
           NEW k \in Nat, NEW j \in 0 .. Len(s)
    PROVE  SubSeq(s \o t, k + 1, j) = SubSeq(s, k + 1, j)
<1>1. CASE k + 1 > j
  BY <1>1, SubSeqEmpty
<1>2. CASE k + 1 <= j
  BY <1>2, SubSeqOfConcat1
<1> QED
  BY <1>1, <1>2

(* A sequence is a prefix of itself followed by something. *)
LEMMA PrefixOfConcat ==
    ASSUME NEW S, NEW s \in Seq(S), NEW t \in Seq(S)
    PROVE  IsPrefix(s, s \o t)
<1>1. Len(s) <= Len(s \o t)
  OBVIOUS
<1>2. SubSeq(s \o t, 0 + 1, Len(s)) = SubSeq(s, 0 + 1, Len(s))
  BY SubSeqKept
<1> QED
  BY <1>1, <1>2 DEF IsPrefix

(* Bytes given, buffered and to come are all of them; a step gives out and
   keeps the others, from the old buffer and what follows it. *)
Whole(given, buffer, rest, all) == (given \o buffer) \o rest = all
Moves(buffer, rest, out, keep, left) == buffer \o rest = (out \o keep) \o left

(* Such a step conserves them. *)
LEMMA Conserve ==
    \A S : \A g, l, c, out, keep, r \in Seq(S) : \A all :
        Whole(g, l, c, all) /\ Moves(l, c, out, keep, r) =>
            Whole(g \o out, keep, r, all)
<1> TAKE S
<1> TAKE g, l, c, out, keep, r \in Seq(S)
<1> TAKE all
<1>1. (g \o l) \o c = g \o (l \o c)
  BY SMTT(30)
<1>2. g \o ((out \o keep) \o r) = (g \o (out \o keep)) \o r
  BY SMTT(30)
<1>3. g \o (out \o keep) = (g \o out) \o keep
  BY SMTT(30)
<1> QED
  BY <1>1, <1>2, <1>3 DEF Whole, Moves

(* The moves there are: from the buffer, from the next item, everything. *)
LEMMA MoveKinds ==
    \A S : \A l, c, out, keep \in Seq(S) :
        /\ out \o keep = l => Moves(l, c, out, keep, c)
        /\ out \o keep = l => Moves(<<>>, l \o c, out, keep, c)
        /\ Moves(l, c, l \o c, <<>>, <<>>)
        /\ Moves(l, c, l, <<>>, c)
        /\ Moves(l, c, <<>>, l, c)
<1> TAKE S
<1> TAKE l, c, out, keep \in Seq(S)
<1>1. <<>> \o (l \o c) = l \o c
  OBVIOUS
<1>2. ((l \o c) \o <<>>) \o <<>> = l \o c
  OBVIOUS
<1>3. l \o <<>> = l /\ <<>> \o l = l
  OBVIOUS
<1> QED
  BY <1>1, <1>2, <1>3 DEF Moves

(* What is given is a prefix, and all if nothing else is left. *)
LEMMA WholePrefix ==
    \A S : \A g, l, c \in Seq(S) : \A all :
        Whole(g, l, c, all) =>
            IsPrefix(g, all) /\ (l = <<>> /\ c = <<>> => g = all)
<1> TAKE S
<1> TAKE g, l, c \in Seq(S)
<1> TAKE all
<1>1. (g \o l) \o c = g \o (l \o c)
  OBVIOUS
<1>2. IsPrefix(g, g \o (l \o c))
  BY PrefixOfConcat, ConcatProperties
<1>3. (g \o <<>>) \o <<>> = g
  OBVIOUS
<1> QED
  BY <1>1, <1>2, <1>3 DEF Whole

(* FlattenSeq is the last value of a function defined by recursion, and there
   is such a function. *)
LEMMA FlattenDef ==
    ASSUME NEW S, NEW s \in Seq(Seq(S)), NEW m \in Nat \ {0}, m = Len(s)
    PROVE  \E f : /\ FlattenSeq(s) = f[m]
                  /\ f[1] = s[1]
                  /\ \A i \in 1 .. m - 1 : f[i + 1] = f[i] \o s[i + 1]
<1> DEFINE P(f, n) == f = [i \in 1 .. n |->
                              IF i = 1 THEN s[i] ELSE f[i - 1] \o s[i]]
           T == {n \in Nat : \E f : P(f, n)}
<1>1. m \in T
  <2>1. 1 \in T
    <3>1. P([i \in 1 .. 1 |-> s[i]], 1)
      OBVIOUS
    <3> QED
      BY <3>1
  <2>2. ASSUME NEW n \in 1 .. m - 1, n \in T
        PROVE  n + 1 \in T
    <3>1. PICK f : P(f, n)
      BY <2>2
    <3> DEFINE g == [i \in 1 .. n + 1 |->
                       IF i = 1 THEN s[i] ELSE f[i - 1] \o s[i]]
    <3>2. ASSUME NEW i \in 1 .. n
          PROVE  g[i] = f[i]
      <4>1. g[i] = IF i = 1 THEN s[i] ELSE f[i - 1] \o s[i]
        OBVIOUS
      <4> QED
        BY <3>1, <4>1, Zenon
    <3>3. P(g, n + 1)
      <4>1. ASSUME NEW i \in 1 .. n + 1
            PROVE  g[i] = IF i = 1 THEN s[i] ELSE g[i - 1] \o s[i]
        <5>1. i # 1 => i - 1 \in 1 .. n
          OBVIOUS
        <5> QED
          BY <3>2, <5>1
      <4> QED
        BY <4>1
    <3> HIDE DEF P
    <3>4. \E f1 : P(f1, n + 1)
      BY <3>3
    <3> QED
      BY <3>4
  <2> HIDE DEF T
  <2>3. \A n \in 1 .. m : n \in T
    BY <2>1, <2>2, UpTo
  <2> QED
    BY <2>3
<1>2. FlattenSeq(s) = (CHOOSE f : P(f, m))[m]
  BY DEF FlattenSeq
<1>3. PICK f : P(f, m) /\ FlattenSeq(s) = f[m]
  BY <1>1, <1>2
<1>4. \A i \in 1 .. m : f[i] = IF i = 1 THEN s[i] ELSE f[i - 1] \o s[i]
  BY <1>3, Zenon
<1>5. f[1] = s[1]
  BY <1>4
<1>6. ASSUME NEW i \in 1 .. m - 1
      PROVE  f[i + 1] = f[i] \o s[i + 1]
  <2>1. i + 1 \in 1 .. m /\ i + 1 # 1 /\ (i + 1) - 1 = i
    OBVIOUS
  <2>2. f[i + 1] = f[(i + 1) - 1] \o s[i + 1]
    BY <1>4, <2>1
  <2> QED
    BY <2>1, <2>2
<1> QED
  BY <1>3, <1>5, <1>6

(* FlattenSeq from the front, and its type. *)
LEMMA FlattenCons ==
    ASSUME NEW S, NEW s \in Seq(Seq(S)), NEW m \in Nat \ {0}, m = Len(s)
    PROVE  /\ FlattenSeq(s) \in Seq(S)
           /\ m = 1 => FlattenSeq(s) = s[1]
           /\ m > 1 => FlattenSeq(s) = s[1] \o FlattenSeq(Tail(s))
<1>0. \A x, y, z \in Seq(S) : (x \o y) \o z = x \o (y \o z)
  BY SMTT(30)
<1>1. PICK f : /\ FlattenSeq(s) = f[m]
               /\ f[1] = s[1]
               /\ \A i \in 1 .. m - 1 : f[i + 1] = f[i] \o s[i + 1]
  BY FlattenDef
<1>2. \A i \in 1 .. m : s[i] \in Seq(S)
  OBVIOUS
<1>3. FlattenSeq(s) \in Seq(S)
  <2> DEFINE T == {i \in 1 .. m : f[i] \in Seq(S)}
  <2>1. 1 \in T
    BY <1>1, <1>2
  <2>2. ASSUME NEW i \in 1 .. m - 1, i \in T
        PROVE  i + 1 \in T
    <3>1. f[i] \in Seq(S) /\ s[i + 1] \in Seq(S) /\ i + 1 \in 1 .. m
      BY <1>2, <2>2
    <3>2. f[i + 1] = f[i] \o s[i + 1]
      BY <1>1
    <3>3. f[i + 1] \in Seq(S)
      BY <3>1, <3>2, ConcatProperties
    <3> QED
      BY <3>1, <3>3
  <2>3. m \in T
    <3> HIDE DEF T
    <3>1. \A n \in 1 .. m : n \in T
      BY <2>1, <2>2, UpTo
    <3> QED
      BY <3>1
  <2> QED
    BY <1>1, <2>3
<1>4. ASSUME m > 1
      PROVE  FlattenSeq(s) = s[1] \o FlattenSeq(Tail(s))
  <2>0. Tail(s) \in Seq(Seq(S))
    BY <1>4
  <2>1. PICK t \in Seq(Seq(S)) : t = Tail(s)
    BY <2>0
  <2>2. Len(t) = m - 1 /\ \A i \in 1 .. m - 1 : t[i] = s[i + 1]
    BY <1>4, <2>1
  <2>3. PICK g : /\ FlattenSeq(t) = g[m - 1]
                 /\ g[1] = t[1]
                 /\ \A i \in 1 .. m - 2 : g[i + 1] = g[i] \o t[i + 1]
    <3>1. m - 1 \in Nat \ {0} /\ (m - 1) - 1 = m - 2
      BY <1>4
    <3>2. PICK k \in Nat \ {0} : k = m - 1
      BY <3>1
    <3>3. k - 1 = m - 2 /\ k = Len(t)
      BY <2>2, <3>2
    <3>4. \E g : /\ FlattenSeq(t) = g[k]
                 /\ g[1] = t[1]
                 /\ \A i \in 1 .. k - 1 : g[i + 1] = g[i] \o t[i + 1]
      BY <3>3, FlattenDef
    <3> QED
      BY <3>2, <3>3, <3>4
  <2> DEFINE T == {i \in 1 .. m - 1 : /\ g[i] \in Seq(S)
                                      /\ f[i + 1] = s[1] \o g[i]}
  <2>4. 1 \in T
    <3>1. 1 \in 1 .. m - 1 /\ 1 + 1 = 2 /\ 2 \in 1 .. m
      BY <1>4
    <3>2. f[1 + 1] = f[1] \o s[2]
      BY <1>1, <3>1
    <3>3. g[1] = s[2]
      BY <2>2, <2>3, <3>1
    <3>4. g[1] \in Seq(S)
      BY <1>2, <3>1, <3>3
    <3> QED
      BY <1>1, <3>1, <3>2, <3>3, <3>4
  <2>5. ASSUME NEW i \in 1 .. m - 2, i \in T
        PROVE  i + 1 \in T
    <3>1. g[i] \in Seq(S) /\ f[i + 1] = s[1] \o g[i]
      BY <2>5
    <3>2. PICK b \in Seq(S) : b = s[i + 2]
      BY <1>2
    <3>3. t[i + 1] = b
      BY <2>2, <3>2
    <3>4. f[i + 2] = f[i + 1] \o b
      <4>1. i + 1 \in 1 .. m - 1 /\ (i + 1) + 1 = i + 2
        OBVIOUS
      <4> QED
        BY <1>1, <3>2, <4>1
    <3>5. g[i + 1] = g[i] \o b
      BY <2>3, <3>3
    <3>6. PICK a \in Seq(S) : a = s[1]
      BY <1>2
    <3>7. PICK c \in Seq(S) : c = g[i]
      BY <3>1
    <3>8. (a \o c) \o b = a \o (c \o b)
      BY <1>0
    <3>9. f[i + 2] = s[1] \o g[i + 1]
      BY <3>1, <3>4, <3>5, <3>6, <3>7, <3>8
    <3>10. g[i + 1] \in Seq(S)
      BY <3>1, <3>5, ConcatProperties
    <3>11. i + 1 \in 1 .. m - 1 /\ (i + 1) + 1 = i + 2
      OBVIOUS
    <3> QED
      BY <3>9, <3>10, <3>11
  <2>6. m - 1 \in T
    <3> HIDE DEF T
    <3>1. m - 1 \in Nat /\ (m - 1) - 1 = m - 2 /\ m - 1 \in 1 .. m - 1
      BY <1>4
    <3>2. PICK k \in Nat : k = m - 1
      BY <3>1
    <3>3. \A n \in 1 .. k : n \in T
      BY <2>4, <2>5, <3>1, <3>2, UpTo
    <3> QED
      BY <3>1, <3>2, <3>3
  <2>7. f[(m - 1) + 1] = s[1] \o g[m - 1]
    BY <2>6
  <2>8. (m - 1) + 1 = m
    OBVIOUS
  <2> QED
    BY <1>1, <2>1, <2>3, <2>7, <2>8
<1> QED
  BY <1>1, <1>3, <1>4

----------------------------------------------------------------------------
(* The bytes of a list of items. *)

(* Items with bytes of B; the bytes of request req at some positions. *)
Items(B) == [type : {"data", "start", "end"}, pos : Nat, bytes : Seq(B)]
BytesAt(req, positions) == {req} \X positions \X Nat

(* No items, no bytes. *)
LEMMA ContentEmpty == Content(<<>>) = <<>>
BY DEF Content, FlattenSeq

(* The bytes of each item, as a sequence. *)
LEMMA ByteLists ==
    ASSUME NEW B, NEW items \in Seq(Items(B))
    PROVE  \E b \in Seq(Seq(B)) :
               /\ b = [i \in 1 .. Len(items) |-> items[i].bytes]
               /\ Len(b) = Len(items)
               /\ \A i \in 1 .. Len(items) : b[i] = items[i].bytes
               /\ Content(items) = FlattenSeq(b)
<1> DEFINE b == [i \in 1 .. Len(items) |-> items[i].bytes]
<1>1. \A i \in 1 .. Len(items) : items[i] \in Items(B)
  OBVIOUS
<1>2. b \in [1 .. Len(items) -> Seq(B)] /\ Len(items) \in Nat
  BY <1>1 DEF Items
<1>3. b \in Seq(Seq(B)) /\ Len(b) = Len(items)
  <2> HIDE DEF b
  <2> QED
    BY <1>2
<1> QED
  BY <1>3 DEF Content

(* The bytes of the first item come first. *)
LEMMA ContentCons ==
    ASSUME NEW B, NEW items \in Seq(Items(B)), items # <<>>
    PROVE  /\ Content(items) \in Seq(B)
           /\ Content(Tail(items)) \in Seq(B)
           /\ Content(items) = Head(items).bytes \o Content(Tail(items))
<1>1. PICK m \in Nat \ {0} : m = Len(items)
  OBVIOUS
<1>2. PICK rest \in Seq(Items(B)) : rest = Tail(items)
  BY HeadTailProperties
<1>3. Len(rest) = m - 1 /\ \A i \in 1 .. m - 1 : rest[i] = items[i + 1]
  BY <1>1, <1>2
<1>4. PICK b \in Seq(Seq(B)) :
          /\ Len(b) = m /\ \A i \in 1 .. m : b[i] = items[i].bytes
          /\ Content(items) = FlattenSeq(b)
  BY <1>1, ByteLists
<1>5. PICK t \in Seq(Seq(B)) :
          /\ t = [i \in 1 .. Len(rest) |-> rest[i].bytes]
          /\ Len(t) = m - 1 /\ \A i \in 1 .. m - 1 : t[i] = rest[i].bytes
          /\ Content(rest) = FlattenSeq(t)
  BY <1>3, ByteLists
<1>6. Head(items).bytes = b[1]
  <2>1. Head(items) = items[1] /\ 1 \in 1 .. m
    BY <1>1
  <2> QED
    BY <1>4, <2>1
<1>7. Content(items) \in Seq(B)
  BY <1>4, FlattenCons
<1>8. CASE m = 1
  <2>1. rest = <<>>
    BY <1>3, <1>8, EmptySeq
  <2>2. b[1] \in Seq(B) /\ Content(items) = b[1]
    BY <1>4, <1>8, FlattenCons
  <2>3. Content(rest) = <<>>
    BY <2>1, ContentEmpty
  <2>4. PICK a \in Seq(B) : a = b[1]
    BY <2>2
  <2>5. a \o <<>> = a
    BY ConcatEmptySeq
  <2> QED
    BY <1>2, <1>6, <1>7, <2>2, <2>3, <2>4, <2>5, EmptySeq
<1>9. CASE m > 1
  <2>1. Tail(b) = t
    <3>1. Tail(b) \in Seq(Seq(B)) /\ Len(Tail(b)) = m - 1
      BY <1>4, <1>9
    <3>2. ASSUME NEW i \in 1 .. m - 1
          PROVE  Tail(b)[i] = t[i]
      <4>1. Tail(b)[i] = b[i + 1] /\ i + 1 \in 1 .. m
        BY <1>4, <1>9
      <4> QED
        BY <1>3, <1>4, <1>5, <4>1
    <3> QED
      BY <1>5, <3>1, <3>2, SeqEqual
  <2>2. FlattenSeq(b) = b[1] \o FlattenSeq(Tail(b))
    BY <1>4, <1>9, FlattenCons
  <2>3. Content(rest) \in Seq(B)
    <3>1. PICK k \in Nat \ {0} : k = m - 1
      BY <1>9
    <3> QED
      BY <1>5, <3>1, FlattenCons
  <2> QED
    BY <1>2, <1>4, <1>5, <1>6, <1>7, <2>1, <2>2, <2>3
<1> QED
  BY <1>8, <1>9

(* The type of the bytes of a list of items. *)
LEMMA ContentType ==
    ASSUME NEW B, NEW items \in Seq(Items(B))
    PROVE  Content(items) \in Seq(B)
<1>1. CASE items = <<>>
  BY <1>1, ContentEmpty, EmptySeq
<1> QED
  BY <1>1, ContentCons

----------------------------------------------------------------------------
(* Runs of data items. *)

(* What DataRun is. *)
LEMMA RunIs ==
    ASSUME NEW B, NEW items \in Seq(Items(B))
    PROVE  \E k \in 0 .. Len(items) :
               /\ DataRun(items) = SubSeq(items, 1, k)
               /\ \A i \in 1 .. k : items[i].type = "data"
               /\ k < Len(items) => items[k + 1].type # "data"
<1> DEFINE U == {i \in 1 .. Len(items) : NotData(items[i])}
           mark == SelectInSeq(items, NotData)
<1>1. mark = IF U # {} THEN Min(U) ELSE 0
  BY DEF SelectInSeq
<1>2. U \subseteq Nat
  OBVIOUS
<1>3. CASE U = {}
  <2>1. DataRun(items) = SubSeq(items, 1, Len(items))
    BY <1>1, <1>3 DEF DataRun
  <2>2. \A i \in 1 .. Len(items) : items[i].type = "data"
    BY <1>3 DEF NotData
  <2> QED
    BY <2>1, <2>2
<1>4. CASE U # {}
  <2>1. \E x \in U : \A y \in U : x <= y
    <3> HIDE DEF U
    <3> QED
      BY <1>2, <1>4, Least
  <2>2. Min(U) \in U /\ \A y \in U : Min(U) <= y
    <3> HIDE DEF U
    <3> QED
      BY <2>1, Zenon DEF Min
  <2>3. PICK x \in U : x = mark /\ \A y \in U : x <= y
    BY <1>1, <1>4, <2>2
  <2>4. DataRun(items) = SubSeq(items, 1, x - 1)
    BY <2>3 DEF DataRun
  <2>5. x - 1 \in 0 .. Len(items) /\ items[(x - 1) + 1].type # "data"
    BY DEF NotData
  <2>6. \A i \in 1 .. x - 1 : items[i].type = "data"
    BY <2>3 DEF NotData
  <2> QED
    BY <2>4, <2>5, <2>6
<1> QED
  BY <1>3, <1>4

(* What is left after the run. *)
LEMMA AfterRunIs ==
    ASSUME NEW B, NEW items \in Seq(Items(B)), NEW k \in 0 .. Len(items),
           DataRun(items) = SubSeq(items, 1, k)
    PROVE  /\ DataRun(items) \in Seq(Items(B))
           /\ Len(DataRun(items)) = k
           /\ AfterRun(items) \in Seq(Items(B))
           /\ Len(AfterRun(items)) = Len(items) - k
           /\ \A i \in 1 .. Len(items) - k : AfterRun(items)[i] = items[k + i]
<1>1. DataRun(items) \in Seq(Items(B)) /\ Len(DataRun(items)) = k
  OBVIOUS
<1>2. AfterRun(items) = SubSeq(items, k + 1, Len(items))
  BY <1>1 DEF AfterRun, From
<1>3. SubSeq(items, k + 1, Len(items)) \in Seq(Items(B))
  OBVIOUS
<1>4. Len(SubSeq(items, k + 1, Len(items))) = Len(items) - k
  OBVIOUS
<1>5. \A i \in 1 .. Len(items) - k :
          SubSeq(items, k + 1, Len(items))[i] = items[k + i]
  OBVIOUS
<1> QED
  BY <1>1, <1>2, <1>3, <1>4, <1>5

(* The type of a run. *)
LEMMA RunType ==
    ASSUME NEW B, NEW items \in Seq(Items(B))
    PROVE  DataRun(items) \in Seq(Items(B))
BY RunIs, AfterRunIs

(* A run that does not start is empty. *)
LEMMA RunEmpty ==
    ASSUME NEW B, NEW items \in Seq(Items(B)), ~IsNext(items, "data")
    PROVE  DataRun(items) = <<>> /\ AfterRun(items) = items
<1>1. PICK k \in 0 .. Len(items) :
          /\ DataRun(items) = SubSeq(items, 1, k)
          /\ \A i \in 1 .. k : items[i].type = "data"
  BY RunIs
<1>2. k = 0
  <2> SUFFICES ASSUME k # 0
               PROVE  FALSE
    OBVIOUS
  <2>1. items # <<>> /\ Head(items) = items[1] /\ 1 \in 1 .. k
    OBVIOUS
  <2> QED
    BY <1>1, <2>1 DEF IsNext
<1>3. DataRun(items) = <<>>
  BY <1>1, <1>2
<1>4. AfterRun(items) = SubSeq(items, 1, Len(items))
  BY <1>3 DEF AfterRun, From
<1> QED
  BY <1>3, <1>4, SubSeqFull

(* A run that starts is its first item and the run after it. *)
LEMMA RunCons ==
    ASSUME NEW B, NEW items \in Seq(Items(B)), IsNext(items, "data")
    PROVE  Content(DataRun(items)) =
               Head(items).bytes \o Content(DataRun(Tail(items)))
<1>1. PICK k \in 0 .. Len(items) :
          /\ DataRun(items) = SubSeq(items, 1, k)
          /\ \A i \in 1 .. k : items[i].type = "data"
          /\ k < Len(items) => items[k + 1].type # "data"
  BY RunIs
<1>2. items # <<>> /\ Head(items) = items[1] /\ items[1].type = "data"
  BY DEF IsNext
<1>3. PICK rest \in Seq(Items(B)) : rest = Tail(items)
  BY <1>2, HeadTailProperties
<1>4. Len(rest) = Len(items) - 1
  BY <1>2, <1>3
<1>5. \A i \in 1 .. Len(items) - 1 : rest[i] = items[i + 1]
  BY <1>2, <1>3
<1>6. PICK j \in 0 .. Len(rest) :
          /\ DataRun(rest) = SubSeq(rest, 1, j)
          /\ \A i \in 1 .. j : rest[i].type = "data"
          /\ j < Len(rest) => rest[j + 1].type # "data"
  BY RunIs
<1>7. k > 0
  BY <1>1, <1>2
<1>8. j = k - 1
  <2>1. ASSUME j < k - 1
        PROVE  FALSE
    <3>1. rest[j + 1] = items[j + 2] /\ j + 2 \in 1 .. k /\ j < Len(rest)
      BY <1>4, <1>5, <2>1
    <3> QED
      BY <1>1, <1>6, <3>1
  <2>2. ASSUME j > k - 1
        PROVE  FALSE
    <3>1. rest[k] = items[k + 1] /\ k \in 1 .. j /\ k < Len(items)
      BY <1>4, <1>5, <1>7, <2>2
    <3> QED
      BY <1>1, <1>6, <3>1
  <2> QED
    BY <2>1, <2>2
<1>9. PICK run \in Seq(Items(B)) : run = DataRun(items)
  BY <1>1, AfterRunIs
<1>10. Len(run) = k /\ run # <<>>
  BY <1>1, <1>7, <1>9
<1>11. Head(run) = items[1]
  BY <1>1, <1>7, <1>9, HeadTailOfSubSeq
<1>12. Tail(run) = DataRun(rest)
  <2>1. Tail(run) = SubSeq(items, 2, k)
    BY <1>1, <1>7, <1>9, HeadTailOfSubSeq
  <2>2. PICK x \in Seq(Items(B)) : x = SubSeq(items, 2, k)
    <3>1. SubSeq(items, 2, k) \in Seq(Items(B))
      BY <1>7
    <3> QED
      BY <3>1
  <2>3. PICK y \in Seq(Items(B)) : y = SubSeq(rest, 1, j)
    <3>1. SubSeq(rest, 1, j) \in Seq(Items(B))
      OBVIOUS
    <3> QED
      BY <3>1
  <2>4. Len(x) = k - 1 /\ Len(y) = k - 1
    BY <1>7, <1>8, <2>2, <2>3
  <2>5. ASSUME NEW i \in 1 .. k - 1
        PROVE  x[i] = y[i]
    <3>1. x[i] = items[i + 1]
      BY <1>7, <2>2
    <3>2. y[i] = rest[i]
      BY <1>8, <2>3
    <3>3. rest[i] = items[i + 1]
      BY <1>5
    <3> QED
      BY <3>1, <3>2, <3>3
  <2>6. x = y
    BY <2>4, <2>5, SeqEqual
  <2> QED
    BY <1>6, <2>1, <2>2, <2>3, <2>6
<1>13. Content(run) = Head(run).bytes \o Content(Tail(run))
  BY <1>10, ContentCons
<1> QED
  BY <1>2, <1>3, <1>9, <1>11, <1>12, <1>13

----------------------------------------------------------------------------
(* The inductive invariant. *)

(* The bytes of this request; how many items have been received. *)
Own == BytesAt(request, Nat)
Taken == Len(sent) - Len(channel)

(* items are the last ones of all. *)
Ending(items, all) ==
    /\ Len(items) <= Len(all)
    /\ \A i \in 1 .. Len(items) : items[i] = all[Len(all) - Len(items) + i]

(* The bytes of this request are named by their item; every byte anywhere is
   one of this request. *)
TypeInv ==
    /\ request \in Nat
    /\ kind \in {"none", "raw", "parts"}
    /\ partState \in {"BeforeFirst", "InPart", "PartEnded", "Done"}
    /\ sent \in Seq(Items(Own)) /\ channel \in Seq(Items(Own))
    /\ leftover \in Seq(Own) /\ got \in Seq(Own) /\ last.bytes \in Seq(Own)
    /\ headers \in Seq([pos : Nat, at : Nat])
SentInv ==
    \A p \in 1 .. Len(sent) :
        sent[p].pos = p /\ sent[p].bytes \in Seq(BytesAt(request, {p}))

(* What the kind of body and the cursor say of the rest: bytes are buffered
   only in a raw body and inside a part. *)
StateInv ==
    /\ kind # "parts" => partState \notin {"InPart", "PartEnded"}
    /\ kind # "raw" /\ partState # "InPart" => leftover = <<>>
    /\ kind = "none" => last.bytes = <<>>
    /\ kind = "raw" => headers = <<>>
    /\ kind = "parts" /\ headers = <<>> => got = <<>>
    /\ partState \in {"InPart", "PartEnded"} => headers # <<>>

(* Headers divide what PHP has been given; the last answer is its end. *)
HeadersInv ==
    \A i \in 1 .. Len(headers) :
        /\ headers[i].pos \in 1 .. Len(sent) /\ headers[i].at <= Len(got)
        /\ i < Len(headers) => headers[i].at <= headers[i + 1].at
LastInv ==
    /\ Ending(last.bytes, got)
    /\ headers # <<>> => Last(headers).at + Len(last.bytes) <= Len(got)

(* Inside a part, what was given of it, the buffer and the data to come are
   the part. *)
PartInv ==
    partState = "InPart" =>
        Whole(Given(Len(headers)), leftover, Content(DataRun(channel)),
              PartBytes(Last(headers).pos))

FlowInv == /\ TypeInv /\ SentInv /\ Ending(channel, sent) /\ StateInv
           /\ HeadersInv /\ LastInv
           /\ RawConservation /\ PartInv /\ PartsWhole

(* Where the cursor is in the stream after c items. *)
OpenAt(c) ==
    /\ Last(headers).pos \in 1 .. c
    /\ sent[Last(headers).pos].type = "start"
    /\ \A q \in Last(headers).pos + 1 .. c : sent[q].type = "data"
ClosedAt(c) == c = 0 \/ sent[c].type = "end"
CursorInv ==
    /\ partState = "BeforeFirst" =>
           headers = <<>> /\ (kind = "parts" => Taken = 0)
    /\ partState = "InPart" => OpenAt(Taken)
    /\ partState = "PartEnded" => ClosedAt(Taken)
    /\ kind = "parts" /\ WellFormed =>
           Positions = Starts(Taken) /\ (partState = "Done" => channel = <<>>)
    /\ NoPartSkipped

(* A raw body has data items only. *)
RawItems == kind = "raw" => \A p \in 1 .. Len(sent) : sent[p].type = "data"

BodyInv == FlowInv /\ CursorInv /\ RawItems /\ EmptyReadMeansEnd
----------------------------------------------------------------------------
(* Steps that give bytes to PHP. *)

(* The type of a header. *)
LEMMA HeaderType ==
    ASSUME TypeInv
    PROVE  \A i \in 1 .. Len(headers) :
               headers[i].pos \in Nat /\ headers[i].at \in Nat
<1> DEFINE H == [pos : Nat, at : Nat]
<1>1. headers \in Seq(H)
  BY DEF TypeInv
<1>2. \A i \in 1 .. Len(headers) : headers[i] \in H
  <2> HIDE DEF H
  <2> QED
    BY <1>1
<1> QED
  BY <1>2

(* What has been given since each header, and what giving b adds. *)
LEMMA GivenGrows ==
    ASSUME TypeInv, HeadersInv, NEW b \in Seq(Own),
           got' = got \o b, headers' = headers, NEW i \in 1 .. Len(headers)
    PROVE  /\ Given(i) \in Seq(Own)
           /\ Given(i)' = IF i = Len(headers) THEN Given(i) \o b ELSE Given(i)
<1>1. /\ got \in Seq(Own) /\ headers[i].at \in 0 .. Len(got)
      /\ i < Len(headers) => headers[i + 1].at \in 0 .. Len(got)
  <2>1. got \in Seq(Own) /\ headers \in Seq([pos : Nat, at : Nat])
    BY DEF TypeInv
  <2>2. \A j \in 1 .. Len(headers) : headers[j].at \in 0 .. Len(got)
    <3> SUFFICES ASSUME NEW j \in 1 .. Len(headers)
                 PROVE  headers[j].at \in 0 .. Len(got)
      OBVIOUS
    <3>1. headers[j].at \in Nat
      BY HeaderType
    <3>2. headers[j].at <= Len(got)
      BY DEF HeadersInv
    <3> QED
      BY <2>1, <3>1, <3>2
  <2>3. i < Len(headers) => i + 1 \in 1 .. Len(headers)
    BY <2>1
  <2> QED
    BY <2>1, <2>2, <2>3
<1>2. PICK k \in 0 .. Len(got) : k = headers[i].at
  BY <1>1
<1>3. CASE i = Len(headers)
  <2>1. Given(i) = SubSeq(got, k + 1, Len(got))
    BY <1>2, <1>3 DEF Given
  <2>2. Given(i)' = SubSeq(got \o b, k + 1, Len(got \o b))
    BY <1>2, <1>3 DEF Given
  <2>3. SubSeq(got, k + 1, Len(got)) \in Seq(Own)
    BY <1>1
  <2> QED
    BY <1>1, <1>3, <2>1, <2>2, <2>3, FromConcat
<1>4. CASE i < Len(headers)
  <2>1. PICK j \in 0 .. Len(got) : j = headers[i + 1].at
    BY <1>1, <1>4
  <2> i # Len(headers)
    BY <1>4 DEF TypeInv
  <2>2. Given(i) = SubSeq(got, k + 1, j)
    BY <1>2, <1>4, <2>1 DEF Given
  <2>3. Given(i)' = SubSeq(got \o b, k + 1, j)
    BY <1>2, <1>4, <2>1 DEF Given
  <2>4. SubSeq(got, k + 1, j) \in Seq(Own)
    BY <1>1
  <2> QED
    BY <1>1, <1>4, <2>2, <2>3, <2>4, SubSeqKept
<1>5. Len(headers) \in Nat
  BY DEF TypeInv
<1> QED
  BY <1>3, <1>4, <1>5

(* The bytes of a part belong to it. *)
LEMMA PartBytesType ==
    ASSUME TypeInv, SentInv, NEW h \in Nat
    PROVE  PartBytes(h) \in Seq(BytesAt(request, PartData(h)))
<1>1. CASE h + 1 > Len(sent)
  <2>1. From(sent, h + 1) = <<>>
    BY <1>1, SubSeqEmpty DEF From, TypeInv
  <2>2. From(sent, h + 1) \in Seq(Items(Own))
    BY <2>1, EmptySeq
  <2>3. DataRun(From(sent, h + 1)) = <<>>
    BY <2>1, <2>2, RunEmpty DEF IsNext
  <2> QED
    BY <2>3, ContentEmpty, EmptySeq DEF PartBytes
<1>2. CASE h + 1 <= Len(sent)
  <2>1. PICK tail \in Seq(Items(Own)) : tail = From(sent, h + 1)
    <3>1. SubSeq(sent, h + 1, Len(sent)) \in Seq(Items(Own))
      BY <1>2 DEF TypeInv
    <3> QED
      BY <3>1 DEF From
  <2>2. /\ Len(tail) = Len(sent) - h
        /\ \A i \in 1 .. Len(sent) - h : tail[i] = sent[h + i]
    BY <1>2, <2>1 DEF TypeInv, From
  <2>3. PICK k \in 0 .. Len(tail) :
            /\ DataRun(tail) = SubSeq(tail, 1, k)
            /\ \A i \in 1 .. k : tail[i].type = "data"
    BY RunIs
  <2>4. PICK run \in Seq(Items(Own)) : run = DataRun(tail)
    BY <2>3, AfterRunIs
  <2> DEFINE B == BytesAt(request, PartData(h))
  <2>5. ASSUME NEW i \in 1 .. Len(run)
        PROVE  run[i] \in Items(B)
    <3>1. Len(run) = k /\ i \in 1 .. k
      BY <2>3, <2>4, AfterRunIs
    <3>2. run[i] = tail[i]
      BY <2>3, <2>4, <3>1
    <3>3. run[i] = sent[h + i] /\ h + i \in h + 1 .. Len(sent)
      BY <2>2, <3>1, <3>2
    <3>4. h + i \in PartData(h)
      <4>1. ASSUME NEW q \in h + 1 .. h + i
            PROVE  sent[q].type = "data"
        <5>1. q - h \in 1 .. k /\ h + (q - h) = q
          BY <3>1
        <5>2. PICK j \in 1 .. k : j = q - h
          BY <5>1
        <5>3. tail[j] = sent[h + j] /\ tail[j].type = "data"
          BY <2>2, <2>3
        <5> QED
          BY <5>1, <5>2, <5>3
      <4> QED
        BY <3>3, <4>1 DEF PartData
    <3>5. sent[h + i].bytes \in Seq(BytesAt(request, {h + i}))
      BY <3>3 DEF SentInv
    <3>6. BytesAt(request, {h + i}) \subseteq B
      BY <3>4 DEF BytesAt
    <3>7. sent[h + i].bytes \in Seq(B)
      BY <3>5, <3>6, SeqMonotonic
    <3>8. run[i] \in Items(Own)
      OBVIOUS
    <3> HIDE DEF B
    <3> QED
      BY <3>3, <3>7, <3>8 DEF Items
  <2>6. run \in Seq(Items(B))
    <3> HIDE DEF B
    <3> QED
      BY <2>5
  <2>7. Content(run) \in Seq(B)
    <3> HIDE DEF B
    <3> QED
      BY <2>6, ContentType
  <2> QED
    BY <2>1, <2>4, <2>7 DEF PartBytes
<1> QED
  BY <1>1, <1>2 DEF TypeInv

(* A step that gives out and keeps the rest of what it took off the channel
   keeps the invariant. *)
LEMMA GiveKeeps ==
    ASSUME FlowInv, NEW op, NEW out \in Seq(Own), Give(op, out),
           leftover' \in Seq(Own), channel' \in Seq(Items(Own)),
           Ending(channel', sent),
           kind = "raw" => Moves(leftover, Content(channel),
                                 out, leftover', Content(channel')),
           kind # "raw" /\ partState # "InPart" =>
               out = <<>> /\ leftover' = <<>>,
           partState # "InPart" => partState' = partState,
           partState = "InPart" =>
               /\ partState' \in {"InPart", "PartEnded", "Done"}
               /\ partState' # "InPart" => leftover' = <<>>
               /\ Moves(leftover, Content(DataRun(channel)), out, leftover',
                        IF partState' = "InPart" THEN Content(DataRun(channel'))
                                                 ELSE <<>>)
    PROVE  FlowInv'
<1>0. PICK n \in Nat : n = Len(headers)
  BY DEF FlowInv, TypeInv
<1>1. /\ got' = got \o out /\ last' = [op |-> op, bytes |-> out]
      /\ UNCHANGED <<request, sent, kind, headers>> /\ Own' = Own
  BY DEF Give, Own
<1>2. /\ got \in Seq(Own) /\ leftover \in Seq(Own)
      /\ channel \in Seq(Items(Own)) /\ sent \in Seq(Items(Own))
      /\ headers \in Seq([pos : Nat, at : Nat])
  BY DEF FlowInv, TypeInv
<1>3. got' \in Seq(Own) /\ Len(got') = Len(got) + Len(out)
  BY <1>1, <1>2, ConcatProperties
<1>4. TypeInv' /\ SentInv' /\ Ending(channel, sent)'
  <2>1. TypeInv'
    BY <1>1, <1>3 DEF FlowInv, TypeInv
  <2>2. SentInv'
    BY <1>1 DEF FlowInv, SentInv
  <2> QED
    BY <1>1, <2>1, <2>2
<1>5. StateInv'
  <2>1. kind # "parts" => partState \notin {"InPart", "PartEnded"}
    BY DEF FlowInv, StateInv
  <2>2. kind = "none" => out = <<>>
    BY <2>1
  <2>3. kind = "parts" /\ headers = <<>> => out = <<>> /\ got = <<>>
    BY DEF FlowInv, StateInv
  <2>4. kind = "parts" /\ headers = <<>> => got' = <<>>
    BY <1>1, <2>3
  <2> QED
    BY <1>1, <2>1, <2>2, <2>4 DEF FlowInv, StateInv
<1>6. HeadersInv'
  <2> SUFFICES ASSUME NEW i \in 1 .. n
               PROVE  /\ headers[i].pos \in 1 .. Len(sent)
                      /\ headers[i].at <= Len(got')
                      /\ i < n => headers[i].at <= headers[i + 1].at
    BY <1>0, <1>1 DEF HeadersInv
  <2>1. headers[i].at \in Nat
    BY <1>0, HeaderType DEF FlowInv
  <2>2. headers[i].at <= Len(got)
    BY <1>0 DEF FlowInv, HeadersInv
  <2>3. headers[i].at <= Len(got')
    <3>1. PICK x \in Nat, y \in Nat : x = Len(got) /\ y = Len(out)
      BY <1>2
    <3> QED
      BY <1>3, <2>1, <2>2, <3>1
  <2> QED
    BY <1>0, <2>3 DEF FlowInv, HeadersInv
<1>7. LastInv'
  <2>1. Ending(out, got \o out)
    BY <1>2 DEF Ending
  <2>2. headers # <<>> => Last(headers).at <= Len(got)
    BY <1>2 DEF FlowInv, HeadersInv, Last
  <2>3. headers # <<>> => Last(headers).at \in Nat
    <3>1. headers # <<>> => n \in 1 .. Len(headers)
      BY <1>0, <1>2
    <3> QED
      BY <1>0, <3>1, HeaderType DEF FlowInv, Last
  <2>4. headers # <<>> => Last(headers).at + Len(out) <= Len(got')
    BY <1>2, <1>3, <2>2, <2>3
  <2> QED
    BY <1>1, <2>1, <2>4 DEF LastInv, Last
<1>8. RawConservation'
  <2>1. Content(channel) \in Seq(Own) /\ Content(channel') \in Seq(Own)
    BY <1>2, ContentType
  <2>2. kind = "raw" => Whole(got, leftover, Content(channel), Content(sent))
    BY DEF FlowInv, RawConservation, Whole
  <2>3. kind = "raw" =>
            Whole(got \o out, leftover', Content(channel'), Content(sent))
    BY <1>2, <2>1, <2>2, Conserve
  <2> QED
    BY <1>1, <2>3 DEF RawConservation, Whole
<1>9. ASSUME NEW i \in 1 .. n
      PROVE  /\ Given(i) \in Seq(Own)
             /\ Given(i)' = IF i = n THEN Given(i) \o out ELSE Given(i)
  BY <1>0, <1>1, GivenGrows DEF FlowInv
<1>10. \A h : PartBytes(h)' = PartBytes(h)
  BY <1>1 DEF PartBytes
<1>11. \A items \in Seq(Items(Own)) : Content(DataRun(items)) \in Seq(Own)
  BY RunType, ContentType
<1>12. ASSUME partState = "InPart"
       PROVE  LET r == IF partState' = "InPart" THEN Content(DataRun(channel'))
                                                ELSE <<>>
              IN /\ n \in 1 .. n /\ Given(n)' \in Seq(Own) /\ r \in Seq(Own)
                 /\ Whole(Given(n)', leftover', r, PartBytes(headers[n].pos))
  <2> DEFINE r == IF partState' = "InPart" THEN Content(DataRun(channel'))
                                           ELSE <<>>
  <2>1. headers # <<>>
    BY <1>12 DEF FlowInv, StateInv
  <2>2. n \in 1 .. n
    BY <1>0, <1>2, <2>1
  <2>3. Last(headers).pos = headers[n].pos
    BY <1>0 DEF Last
  <2>4. Whole(Given(n), leftover, Content(DataRun(channel)),
              PartBytes(headers[n].pos))
    BY <1>0, <1>12, <2>3 DEF FlowInv, PartInv
  <2>5. Given(n) \in Seq(Own) /\ Given(n)' = Given(n) \o out
    BY <1>9, <2>2
  <2>6. Content(DataRun(channel)) \in Seq(Own) /\ r \in Seq(Own)
    BY <1>2, <1>11, EmptySeq
  <2>7. Moves(leftover, Content(DataRun(channel)), out, leftover', r)
    BY <1>12
  <2> HIDE DEF r
  <2>8. Whole(Given(n) \o out, leftover', r, PartBytes(headers[n].pos))
    BY <1>2, <2>4, <2>5, <2>6, <2>7, Conserve
  <2>9. Given(n)' \in Seq(Own)
    BY <2>5, ConcatProperties
  <2> QED
    BY <2>2, <2>5, <2>6, <2>8, <2>9 DEF r
<1>13. PartInv'
  <2> SUFFICES ASSUME partState' = "InPart"
               PROVE  Whole(Given(n)', leftover', Content(DataRun(channel')),
                            PartBytes(headers[n].pos))
    BY <1>0, <1>1, <1>10 DEF PartInv, Last, Given
  <2>1. partState = "InPart"
    OBVIOUS
  <2> QED
    BY <1>12, <2>1
<1>14. ASSUME partState = "InPart"
       PROVE  /\ IsPrefix(Given(n)', PartBytes(headers[n].pos))
              /\ partState' # "InPart" => Given(n)' = PartBytes(headers[n].pos)
  <2>1. PICK g \in Seq(Own), keep \in Seq(Own), r \in Seq(Own) :
            /\ g = Given(n)' /\ keep = leftover'
            /\ partState' # "InPart" => r = <<>>
            /\ Whole(g, keep, r, PartBytes(headers[n].pos))
    BY <1>12, <1>14
  <2>2. partState' # "InPart" => keep = <<>> /\ r = <<>>
    BY <1>14, <2>1
  <2> QED
    BY <2>1, <2>2, WholePrefix
<1>15. PartsWhole'
  <2> SUFFICES ASSUME NEW i \in 1 .. n
               PROVE  /\ IsPrefix(Given(i)', PartBytes(headers[i].pos))
                      /\ (i = n /\ partState' = "PartEnded") =>
                             Given(i)' = PartBytes(headers[i].pos)
    BY <1>0, <1>1, <1>10 DEF PartsWhole
  <2>1. /\ IsPrefix(Given(i), PartBytes(headers[i].pos))
        /\ (i = n /\ partState = "PartEnded") =>
               Given(i) = PartBytes(headers[i].pos)
    BY <1>0 DEF FlowInv, PartsWhole
  <2>2. CASE i # n
    BY <1>9, <2>1, <2>2
  <2>3. CASE i = n /\ partState # "InPart"
    <3>1. kind # "raw"
      <4>1. headers # <<>>
        BY <1>0, <1>2
      <4> QED
        BY <4>1 DEF FlowInv, StateInv
    <3>2. out = <<>> /\ partState' = partState
      BY <2>3, <3>1
    <3>3. Given(i)' = Given(i)
      BY <1>9, <2>3, <3>2, ConcatEmptySeq
    <3> QED
      BY <2>1, <2>3, <3>2, <3>3
  <2>4. CASE i = n /\ partState = "InPart"
    BY <1>14, <2>4
  <2> QED
    BY <2>2, <2>3, <2>4
<1> QED
  BY <1>4, <1>5, <1>6, <1>7, <1>8, <1>13, <1>15 DEF FlowInv

----------------------------------------------------------------------------
(* Steps that take items off the channel. *)

(* What is left of the end of a sequence is its end. *)
LEMMA EndingKept ==
    ASSUME NEW B, NEW all \in Seq(Items(B)), NEW items \in Seq(Items(B)),
           Ending(items, all)
    PROVE  /\ Rest(items) \in Seq(Items(B)) /\ Ending(Rest(items), all)
           /\ AfterRun(items) \in Seq(Items(B)) /\ Ending(AfterRun(items), all)
<1>1. Rest(items) \in Seq(Items(B)) /\ Ending(Rest(items), all)
  <2>1. CASE items = <<>>
    BY <2>1, EmptySeq DEF Rest, Ending
  <2>2. CASE items # <<>>
    <3>1. PICK t \in Seq(Items(B)) : t = Rest(items)
      BY <2>2, HeadTailProperties DEF Rest
    <3>2. Len(t) = Len(items) - 1
      BY <2>2, <3>1 DEF Rest
    <3>3. \A i \in 1 .. Len(items) - 1 : t[i] = items[i + 1]
      BY <2>2, <3>1 DEF Rest
    <3>4. ASSUME NEW i \in 1 .. Len(t)
          PROVE  t[i] = all[Len(all) - Len(t) + i]
      <4>1. i + 1 \in 1 .. Len(items)
        BY <3>2
      <4>2. t[i] = all[Len(all) - Len(items) + (i + 1)]
        BY <3>2, <3>3, <4>1 DEF Ending
      <4>3. Len(all) - Len(items) + (i + 1) = Len(all) - Len(t) + i
        BY <3>2
      <4> QED
        BY <4>2, <4>3
    <3>5. Len(t) <= Len(all)
      BY <3>2 DEF Ending
    <3> QED
      BY <3>1, <3>4, <3>5 DEF Ending
  <2> QED
    BY <2>1, <2>2
<1>2. AfterRun(items) \in Seq(Items(B)) /\ Ending(AfterRun(items), all)
  <2>1. PICK k \in 0 .. Len(items) : DataRun(items) = SubSeq(items, 1, k)
    BY RunIs
  <2>2. PICK t \in Seq(Items(B)) : t = AfterRun(items)
    BY <2>1, AfterRunIs
  <2>3. /\ Len(t) = Len(items) - k
        /\ \A i \in 1 .. Len(items) - k : t[i] = items[k + i]
    BY <2>1, <2>2, AfterRunIs
  <2>4. ASSUME NEW i \in 1 .. Len(t)
        PROVE  t[i] = all[Len(all) - Len(t) + i]
    <3>1. k + i \in 1 .. Len(items)
      BY <2>3
    <3>2. t[i] = all[Len(all) - Len(items) + (k + i)]
      BY <2>3, <3>1 DEF Ending
    <3>3. Len(all) - Len(items) + (k + i) = Len(all) - Len(t) + i
      BY <2>3
    <3> QED
      BY <3>2, <3>3
  <2>5. Len(t) <= Len(all)
    BY <2>3 DEF Ending
  <2> QED
    BY <2>2, <2>4, <2>5 DEF Ending
<1> QED
  BY <1>1, <1>2

(* The first item of an end of all, and what follows it. *)
LEMMA EndingHead ==
    ASSUME NEW B, NEW all \in Seq(Items(B)), NEW items \in Seq(Items(B)),
           Ending(items, all), items # <<>>
    PROVE  LET h == Len(all) - Len(items) + 1
           IN  /\ h \in 1 .. Len(all) /\ Head(items) = all[h]
               /\ Tail(items) = From(all, h + 1)
<1>1. PICK h \in 1 .. Len(all) : h = Len(all) - Len(items) + 1
  BY DEF Ending
<1>2. Head(items) = all[h]
  BY <1>1 DEF Ending
<1>3. PICK t \in Seq(Items(B)) : t = Tail(items)
  BY HeadTailProperties
<1>4. PICK u \in Seq(Items(B)) : u = From(all, h + 1)
  <2>1. SubSeq(all, h + 1, Len(all)) \in Seq(Items(B))
    OBVIOUS
  <2> QED
    BY <2>1 DEF From
<1>5. Len(t) = Len(items) - 1 /\ Len(u) = Len(items) - 1
  <2>1. Len(t) = Len(items) - 1
    BY <1>3
  <2>2. Len(u) = Len(all) - h
    BY <1>4 DEF From
  <2> QED
    BY <1>1, <2>1, <2>2
<1>6. ASSUME NEW i \in 1 .. Len(t)
      PROVE  t[i] = u[i]
  <2>1. t[i] = items[i + 1] /\ i + 1 \in 1 .. Len(items)
    BY <1>3, <1>5
  <2>2. items[i + 1] = all[Len(all) - Len(items) + (i + 1)]
    BY <2>1 DEF Ending
  <2>3. u[i] = all[h + i]
    BY <1>1, <1>4, <1>5 DEF From
  <2>4. Len(all) - Len(items) + (i + 1) = h + i
    BY <1>1
  <2> QED
    BY <2>1, <2>2, <2>3, <2>4
<1>7. t = u
  BY <1>5, <1>6, SeqEqual
<1> QED
  BY <1>1, <1>2, <1>3, <1>4, <1>7

(* A step of next_part, which gives no byte: the parts are over, or the header
   at position h has been given and the part's data comes next. *)
LEMMA SkipKeeps ==
    ASSUME FlowInv, kind = "parts", UNCHANGED <<request, sent, kind, got>>,
           last'.bytes = <<>>, leftover' = <<>>,
           channel' \in Seq(Items(Own)), Ending(channel', sent),
           \/ partState' = "Done" /\ headers' = headers
           \/ /\ partState' = "InPart"
              /\ \E h \in 1 .. Len(sent) :
                     /\ headers' = Append(headers, [pos |-> h, at |-> Len(got)])
                     /\ channel' = From(sent, h + 1)
    PROVE  FlowInv'
<1> DEFINE H == [pos : Nat, at : Nat]
<1>0. PICK n \in Nat : n = Len(headers)
  BY DEF FlowInv, TypeInv
<1>1. /\ got \in Seq(Own) /\ Own' = Own /\ sent \in Seq(Items(Own))
      /\ headers \in Seq(H)
  BY DEF FlowInv, TypeInv, Own
<1>2. SentInv' /\ Ending(channel, sent)' /\ RawConservation'
  <2>1. SentInv'
    BY DEF FlowInv, SentInv
  <2>2. RawConservation'
    BY DEF RawConservation
  <2> QED
    BY <2>1, <2>2
<1>3. \A h : PartBytes(h)' = PartBytes(h)
  BY DEF PartBytes
<1>4. \A i \in 1 .. n :
          /\ headers[i].pos \in 1 .. Len(sent)
          /\ headers[i].at \in Nat /\ headers[i].at <= Len(got)
          /\ i < n => headers[i].at <= headers[i + 1].at
  BY <1>0, HeaderType DEF FlowInv, HeadersInv
<1>5. \A i \in 1 .. n : IsPrefix(Given(i), PartBytes(headers[i].pos))
  BY <1>0 DEF FlowInv, PartsWhole
<1>6. Ending(<<>>, got)
  BY <1>1 DEF Ending
<1>7. CASE partState' = "Done" /\ headers' = headers
  <2>1. TypeInv'
    BY <1>1, <1>7, EmptySeq DEF FlowInv, TypeInv
  <2>2. StateInv'
    BY <1>7 DEF FlowInv, StateInv
  <2>3. HeadersInv'
    BY <1>7 DEF FlowInv, HeadersInv
  <2>4. LastInv'
    <3>1. headers # <<>> => n \in 1 .. n /\ Last(headers) = headers[n]
      BY <1>0, <1>1 DEF Last
    <3>2. headers # <<>> => Last(headers).at + Len(<<>>) <= Len(got)
      BY <1>1, <1>4, <3>1
    <3> QED
      BY <1>6, <1>7, <3>2 DEF LastInv, Last
  <2>5. PartInv'
    BY <1>7 DEF PartInv
  <2>6. PartsWhole'
    <3>1. \A i \in 1 .. n : Given(i)' = Given(i)
      BY <1>7 DEF Given
    <3> QED
      BY <1>0, <1>3, <1>5, <1>7, <3>1 DEF PartsWhole
  <2> QED
    BY <1>2, <2>1, <2>2, <2>3, <2>4, <2>5, <2>6 DEF FlowInv
<1>8. ASSUME partState' = "InPart",
             NEW h \in 1 .. Len(sent),
             headers' = Append(headers, [pos |-> h, at |-> Len(got)]),
             channel' = From(sent, h + 1)
      PROVE  FlowInv'
  <2>1. PICK new \in H : new = [pos |-> h, at |-> Len(got)]
    <3>1. h \in Nat /\ Len(got) \in Nat
      BY <1>1
    <3>2. [pos |-> h, at |-> Len(got)] \in H
      BY <3>1
    <3> QED
      BY <3>2
  <2>2. new.pos = h /\ new.at = Len(got)
    BY <2>1
  <2> HIDE DEF H
  <2>3. /\ headers' \in Seq(H) /\ Len(headers') = n + 1
        /\ headers'[n + 1] = new /\ headers' # <<>>
        /\ \A i \in 1 .. n : headers'[i] = headers[i]
    BY <1>0, <1>1, <1>8, <2>1
  <2>4. Last(headers') = new
    BY <2>3 DEF Last
  <2>5. TypeInv'
    BY <1>1, <1>8, <2>3, EmptySeq DEF FlowInv, TypeInv, H
  <2>6. StateInv'
    BY <1>8, <2>3 DEF FlowInv, StateInv
  <2>7. HeadersInv'
    <3> SUFFICES ASSUME NEW i \in 1 .. n + 1
                 PROVE  /\ headers'[i].pos \in 1 .. Len(sent)
                        /\ headers'[i].at <= Len(got)
                        /\ i < n + 1 => headers'[i].at <= headers'[i + 1].at
      BY <2>3 DEF HeadersInv
    <3>1. CASE i = n + 1
      BY <1>1, <2>2, <2>3, <3>1
    <3>2. CASE i = n
      <4>1. headers'[i] = headers[n] /\ headers'[i + 1] = new /\ n \in 1 .. n
        BY <2>3, <3>2
      <4> QED
        BY <1>4, <2>2, <4>1
    <3>3. CASE i < n
      <4>1. i \in 1 .. n /\ i + 1 \in 1 .. n
        BY <3>3
      <4>2. headers'[i] = headers[i] /\ headers'[i + 1] = headers[i + 1]
        BY <2>3, <4>1
      <4> QED
        BY <1>4, <3>3, <4>1, <4>2
    <3> QED
      BY <3>1, <3>2, <3>3
  <2>8. LastInv'
    <3>1. Last(headers').at + Len(<<>>) <= Len(got)
      BY <1>1, <2>2, <2>4
    <3> QED
      BY <1>6, <3>1 DEF LastInv
  <2>9. Given(n + 1)' = <<>>
    <3>1. Given(n + 1)' = SubSeq(got, Len(got) + 1, Len(got))
      BY <2>2, <2>3 DEF Given
    <3> QED
      BY <1>1, <3>1, SubSeqEmpty
  <2>10. ASSUME NEW i \in 1 .. n
         PROVE  Given(i)' = Given(i)
    <3>1. Given(i)' = SubSeq(got, headers[i].at + 1, headers'[i + 1].at)
      <4>1. i # Len(headers') /\ headers'[i] = headers[i]
        BY <2>3
      <4> QED
        BY <4>1 DEF Given
    <3>2. CASE i = n
      BY <1>0, <2>2, <2>3, <3>1, <3>2 DEF Given
    <3>3. CASE i < n
      <4>1. headers'[i + 1] = headers[i + 1] /\ i # n
        BY <2>3, <3>3
      <4> QED
        BY <1>0, <3>1, <4>1 DEF Given
    <3> QED
      BY <3>2, <3>3
  <2>11. PICK x \in Seq(Own) :
             x = Content(DataRun(channel')) /\ x = PartBytes(h)
    <3>1. Content(DataRun(channel')) \in Seq(Own)
      BY RunType, ContentType
    <3> QED
      BY <1>8, <3>1 DEF PartBytes
  <2>12. Whole(<<>>, <<>>, x, x)
    <3>1. (<<>> \o <<>>) \o x = x
      OBVIOUS
    <3> QED
      BY <3>1 DEF Whole
  <2>13. PartInv'
    <3>1. PartInv' = (partState' = "InPart" =>
              Whole(Given(n + 1)', leftover', Content(DataRun(channel')),
                    PartBytes(new.pos)'))
      BY <2>3, <2>4 DEF PartInv, Given
    <3> QED
      BY <1>3, <2>2, <2>9, <2>11, <2>12, <3>1
  <2>14. PartsWhole'
    <3> SUFFICES ASSUME NEW i \in 1 .. n + 1
                 PROVE  IsPrefix(Given(i)', PartBytes(headers'[i].pos))
      BY <1>3, <1>8, <2>3 DEF PartsWhole
    <3>1. CASE i = n + 1
      <4>1. IsPrefix(<<>>, x)
        BY <2>12, WholePrefix, EmptySeq
      <4> QED
        BY <2>2, <2>3, <2>9, <2>11, <3>1, <4>1
    <3>2. CASE i < n + 1
      BY <1>5, <2>3, <2>10, <3>2
    <3> QED
      BY <3>1, <3>2
  <2> QED
    BY <1>2, <2>5, <2>6, <2>7, <2>8, <2>13, <2>14 DEF FlowInv
<1> QED
  BY <1>7, <1>8

----------------------------------------------------------------------------
(* The operations keep FlowInv. *)

(* Take gives a prefix of the buffer, which is not empty unless the buffer is,
   and keeps the rest. *)
LEMMA TakeStep ==
    ASSUME NEW op, NEW b \in Seq(Own), NEW n \in Nat \ {0}, Take(op, b, n)
    PROVE  \E out \in Seq(Own) :
               /\ Give(op, out) /\ leftover' \in Seq(Own)
               /\ out \o leftover' = b
               /\ b # <<>> => out # <<>>
<1>1. PICK k \in 0 .. Len(b) : k = IF n < Len(b) THEN n ELSE Len(b)
  OBVIOUS
<1>2. Give(op, SubSeq(b, 1, k)) /\ leftover' = From(b, k + 1)
  BY <1>1 DEF Take
<1>3. SubSeq(b, 1, k) \in Seq(Own) /\ From(b, k + 1) \in Seq(Own)
  BY Split
<1>4. PICK out \in Seq(Own), keep \in Seq(Own) :
          out = SubSeq(b, 1, k) /\ keep = From(b, k + 1)
  BY <1>3
<1>5. out \o keep = b
  BY <1>4, Split
<1>6. Len(out) = k
  BY <1>4, Split
<1>7. b # <<>> => out # <<>>
  <2>1. b # <<>> => Len(b) # 0
    BY EmptySeq
  <2> QED
    BY <1>1, <1>6, <2>1, EmptySeq
<1> QED
  BY <1>2, <1>4, <1>5, <1>7

(* A call that gives nothing and changes nothing else. *)
LEMMA GiveNothing ==
    ASSUME FlowInv, NEW op, Give(op, <<>>),
           UNCHANGED <<channel, leftover, partState>>
    PROVE  FlowInv'
<1>1. /\ leftover \in Seq(Own) /\ channel \in Seq(Items(Own))
      /\ Ending(channel, sent) /\ <<>> \in Seq(Own)
  BY EmptySeq DEF FlowInv, TypeInv
<1>2. Content(channel) \in Seq(Own) /\ Content(DataRun(channel)) \in Seq(Own)
  BY <1>1, RunType, ContentType
<1>3. /\ Moves(leftover, Content(channel), <<>>, leftover, Content(channel))
      /\ Moves(leftover, Content(DataRun(channel)), <<>>, leftover,
               Content(DataRun(channel)))
  BY <1>1, <1>2, MoveKinds
<1>4. kind # "raw" /\ partState # "InPart" => leftover = <<>>
  BY DEF FlowInv, StateInv
<1>5. /\ partState = "InPart" => partState' = "InPart"
      /\ leftover' = leftover /\ channel' = channel /\ partState' = partState
  OBVIOUS
<1> QED
  BY <1>1, <1>3, <1>4, <1>5, GiveKeeps

(* A call that gives bytes of the buffer. *)
LEMMA GiveBuffered ==
    ASSUME FlowInv, NEW op, NEW n \in Nat \ {0}, Take(op, leftover, n),
           leftover # <<>>, UNCHANGED <<channel, partState>>
    PROVE  FlowInv'
<1>1. /\ leftover \in Seq(Own) /\ channel \in Seq(Items(Own))
      /\ Ending(channel, sent)
  BY DEF FlowInv, TypeInv
<1>2. Content(channel) \in Seq(Own) /\ Content(DataRun(channel)) \in Seq(Own)
  BY <1>1, RunType, ContentType
<1>3. PICK out \in Seq(Own) : /\ Give(op, out) /\ leftover' \in Seq(Own)
                              /\ out \o leftover' = leftover
  BY <1>1, TakeStep
<1>4. /\ Moves(leftover, Content(channel), out, leftover', Content(channel))
      /\ Moves(leftover, Content(DataRun(channel)), out, leftover',
               Content(DataRun(channel)))
  BY <1>1, <1>2, <1>3, MoveKinds
<1>5. kind = "raw" \/ partState = "InPart"
  BY DEF FlowInv, StateInv
<1>6. channel' = channel /\ partState' = partState
  OBVIOUS
<1> QED
  BY <1>1, <1>3, <1>4, <1>5, <1>6, GiveKeeps

(* The next item of the channel. *)
LEMMA NextItem ==
    ASSUME FlowInv, channel # <<>>
    PROVE  /\ Head(channel).bytes \in Seq(Own)
           /\ Tail(channel) \in Seq(Items(Own)) /\ Ending(Tail(channel), sent)
           /\ Content(channel) = Head(channel).bytes \o Content(Tail(channel))
<1>1. /\ channel \in Seq(Items(Own)) /\ sent \in Seq(Items(Own))
      /\ Ending(channel, sent)
  BY DEF FlowInv, TypeInv
<1>2. Head(channel) \in Items(Own)
  BY <1>1, HeadTailProperties
<1>3. Head(channel).bytes \in Seq(Own)
  BY <1>2 DEF Items
<1>4. Tail(channel) \in Seq(Items(Own)) /\ Ending(Tail(channel), sent)
  BY <1>1, EndingKept DEF Rest
<1> QED
  BY <1>1, <1>3, <1>4, ContentCons

(* folk_read keeps the invariant. *)
LEMMA ReadFlow ==
    ASSUME FlowInv, NEW n \in Nat \ {0}, Read(n)
    PROVE  FlowInv'
<1>1. CASE leftover # <<>>
  BY <1>1, GiveBuffered DEF Read
<1>2. CASE leftover = <<>> /\ kind = "raw" /\ channel # <<>>
  <2>1. /\ Take("read", Head(channel).bytes, n)
        /\ channel' = Tail(channel) /\ partState' = partState
    BY <1>2 DEF Read
  <2>2. PICK b \in Seq(Own) : b = Head(channel).bytes
    BY <1>2, NextItem
  <2>3. PICK out \in Seq(Own) : /\ Give("read", out) /\ leftover' \in Seq(Own)
                                /\ out \o leftover' = b
    BY <2>1, <2>2, TakeStep
  <2>4. PICK c \in Seq(Own) : c = Content(Tail(channel))
    BY <1>2, NextItem, ContentType
  <2>5. Content(channel) = b \o c
    BY <1>2, <2>2, <2>4, NextItem
  <2>6. Moves(<<>>, b \o c, out, leftover', c)
    BY <2>3, MoveKinds
  <2>7. partState # "InPart"
    BY <1>2 DEF FlowInv, StateInv
  <2>8. channel' \in Seq(Items(Own)) /\ Ending(channel', sent)
    BY <1>2, <2>1, NextItem
  <2>9. Moves(leftover, Content(channel), out, leftover', Content(channel'))
    BY <1>2, <2>1, <2>4, <2>5, <2>6
  <2> QED
    BY <1>2, <2>1, <2>3, <2>7, <2>8, <2>9, GiveKeeps
<1>3. CASE leftover = <<>> /\ ~(kind = "raw" /\ channel # <<>>)
  BY <1>3, GiveNothing DEF Read
<1> QED
  BY <1>1, <1>2, <1>3

(* folk_read_all keeps the invariant. *)
LEMMA ReadAllFlow ==
    ASSUME FlowInv, ReadAll
    PROVE  FlowInv'
<1>1. /\ leftover \in Seq(Own) /\ channel \in Seq(Items(Own))
      /\ Ending(channel, sent) /\ <<>> \in Seq(Own)
      /\ <<>> \in Seq(Items(Own)) /\ Ending(<<>>, sent)
  BY EmptySeq DEF FlowInv, TypeInv, Ending
<1>2. Content(channel) \in Seq(Own) /\ Content(DataRun(channel)) \in Seq(Own)
  BY <1>1, RunType, ContentType
<1>3. leftover' = <<>> /\ partState' = partState
  BY DEF ReadAll
<1>4. CASE kind = "raw"
  <2>1. PICK out \in Seq(Own) : out = leftover \o Content(channel)
    BY <1>1, <1>2, ConcatProperties
  <2>2. Give("read_all", out) /\ channel' = <<>>
    BY <1>4, <2>1 DEF ReadAll
  <2>3. Moves(leftover, Content(channel), out, <<>>, <<>>)
    BY <1>1, <1>2, <2>1, MoveKinds
  <2>4. partState # "InPart"
    BY <1>4 DEF FlowInv, StateInv
  <2> QED
    BY <1>1, <1>3, <1>4, <2>2, <2>3, <2>4, ContentEmpty, GiveKeeps
<1>5. CASE kind # "raw"
  <2>1. leftover \o <<>> = leftover
    BY <1>1, ConcatEmptySeq
  <2>2. Give("read_all", leftover) /\ channel' = channel
    BY <1>5, <2>1 DEF ReadAll
  <2>3. Moves(leftover, Content(DataRun(channel)), leftover, <<>>,
              Content(DataRun(channel)))
    BY <1>1, <1>2, MoveKinds
  <2>4. partState # "InPart" => leftover = <<>>
    BY <1>5 DEF FlowInv, StateInv
  <2> QED
    BY <1>1, <1>3, <1>5, <2>2, <2>3, <2>4, GiveKeeps
<1> QED
  BY <1>4, <1>5

(* folk_part_read keeps the invariant. *)
LEMMA PartReadFlow ==
    ASSUME FlowInv, NEW n \in Nat \ {0}, PartRead(n)
    PROVE  FlowInv'
<1>1. CASE partState # "InPart"
  BY <1>1, GiveNothing DEF PartRead
<1>2. CASE partState = "InPart" /\ leftover # <<>>
  BY <1>2, GiveBuffered DEF PartRead
<1>3. CASE partState = "InPart" /\ leftover = <<>>
  <2>1. kind = "parts"
    BY <1>3 DEF FlowInv, StateInv
  <2>2. /\ leftover \in Seq(Own) /\ channel \in Seq(Items(Own))
        /\ sent \in Seq(Items(Own)) /\ Ending(channel, sent)
        /\ <<>> \in Seq(Own)
    BY EmptySeq DEF FlowInv, TypeInv
  <2>3. channel' = Rest(channel)
    BY <1>3, <2>1 DEF PartRead
  <2>4. channel' \in Seq(Items(Own)) /\ Ending(channel', sent)
    BY <2>2, <2>3, EndingKept
  <2>5. CASE IsNext(channel, "data")
    <3>1. channel # <<>> /\ channel' = Tail(channel)
      BY <2>3, <2>5 DEF IsNext, Rest
    <3>2. Take("part_read", Head(channel).bytes, n) /\ partState' = partState
      BY <1>3, <2>1, <2>5 DEF PartRead
    <3>3. PICK b \in Seq(Own) : b = Head(channel).bytes
      BY <3>1, NextItem
    <3>4. PICK out \in Seq(Own) :
              /\ Give("part_read", out) /\ leftover' \in Seq(Own)
              /\ out \o leftover' = b
      BY <3>2, <3>3, TakeStep
    <3>5. PICK c \in Seq(Own) : c = Content(DataRun(channel'))
      BY <2>4, RunType, ContentType
    <3>6. Content(DataRun(channel)) = b \o c
      BY <2>2, <2>5, <3>1, <3>3, <3>5, RunCons
    <3>7. Moves(<<>>, b \o c, out, leftover', c)
      BY <3>4, MoveKinds
    <3>8. Moves(leftover, Content(DataRun(channel)), out, leftover',
                Content(DataRun(channel')))
      BY <1>3, <3>5, <3>6, <3>7
    <3> QED
      BY <1>3, <2>1, <2>4, <3>2, <3>4, <3>8, GiveKeeps
  <2>6. CASE ~IsNext(channel, "data")
    <3>1. /\ partState' = AfterMark(channel) /\ Give("part_read", <<>>)
          /\ leftover' = <<>>
      BY <1>3, <2>1, <2>6 DEF PartRead
    <3>2. partState' \in {"PartEnded", "Done"}
      BY <3>1 DEF AfterMark
    <3>3. Content(DataRun(channel)) = <<>>
      BY <2>2, <2>6, RunEmpty, ContentEmpty
    <3>4. Moves(<<>>, <<>>, <<>>, <<>>, <<>>)
      BY <2>2, MoveKinds
    <3> QED
      BY <1>3, <2>1, <2>2, <2>4, <3>1, <3>2, <3>3, <3>4, GiveKeeps
  <2> QED
    BY <2>5, <2>6
<1> QED
  BY <1>1, <1>2, <1>3

(* folk_part_read_all keeps the invariant. *)
LEMMA PartReadAllFlow ==
    ASSUME FlowInv, PartReadAll
    PROVE  FlowInv'
<1>1. CASE partState # "InPart"
  BY <1>1, GiveNothing DEF PartReadAll
<1>2. CASE partState = "InPart"
  <2>1. kind = "parts"
    BY <1>2 DEF FlowInv, StateInv
  <2>2. /\ leftover \in Seq(Own) /\ channel \in Seq(Items(Own))
        /\ sent \in Seq(Items(Own)) /\ Ending(channel, sent)
        /\ <<>> \in Seq(Own)
    BY EmptySeq DEF FlowInv, TypeInv
  <2>3. PICK c \in Seq(Own) : c = Content(DataRun(channel))
    BY <2>2, RunType, ContentType
  <2>4. PICK out \in Seq(Own) : out = leftover \o c
    BY <2>2, ConcatProperties
  <2>5. /\ Give("part_read_all", out) /\ leftover' = <<>>
        /\ channel' = Rest(AfterRun(channel))
        /\ partState' = AfterMark(AfterRun(channel))
    BY <1>2, <2>1, <2>3, <2>4 DEF PartReadAll
  <2>6. partState' \in {"PartEnded", "Done"}
    BY <2>5 DEF AfterMark
  <2>7. AfterRun(channel) \in Seq(Items(Own)) /\ Ending(AfterRun(channel), sent)
    BY <2>2, EndingKept
  <2>8. channel' \in Seq(Items(Own)) /\ Ending(channel', sent)
    BY <2>2, <2>5, <2>7, EndingKept
  <2>9. Moves(leftover, c, out, <<>>, <<>>)
    BY <2>2, <2>4, MoveKinds
  <2> QED
    BY <1>2, <2>1, <2>2, <2>3, <2>5, <2>6, <2>8, <2>9, GiveKeeps
<1> QED
  BY <1>1, <1>2

(* Reading a header keeps the invariant. *)
LEMMA HeaderFlow ==
    ASSUME FlowInv, kind = "parts", UNCHANGED <<request, sent, kind, got>>,
           last'.bytes = <<>>,
           NEW items \in Seq(Items(Own)), Ending(items, sent), NextHeader(items)
    PROVE  FlowInv'
<1>1. sent \in Seq(Items(Own))
  BY DEF FlowInv, TypeInv
<1>2. leftover' = <<>> /\ channel' = Rest(items)
  BY DEF NextHeader
<1>3. channel' \in Seq(Items(Own)) /\ Ending(channel', sent)
  BY <1>1, <1>2, EndingKept
<1>4. CASE IsNext(items, "start")
  <2>1. items # <<>>
    BY <1>4 DEF IsNext
  <2>2. PICK h \in 1 .. Len(sent) :
            Head(items) = sent[h] /\ Tail(items) = From(sent, h + 1)
    BY <1>1, <2>1, EndingHead
  <2>3. sent[h].pos = h
    BY DEF FlowInv, SentInv
  <2>4. headers' = Append(headers, [pos |-> h, at |-> Len(got)])
    BY <1>4, <2>2, <2>3 DEF NextHeader, Header
  <2>5. channel' = From(sent, h + 1) /\ partState' = "InPart"
    BY <1>2, <1>4, <2>1, <2>2 DEF NextHeader, Rest
  <2> QED
    BY <1>2, <1>3, <2>4, <2>5, SkipKeeps
<1>5. CASE ~IsNext(items, "start")
  <2>1. partState' = "Done" /\ headers' = headers
    BY <1>5 DEF NextHeader
  <2> QED
    BY <1>2, <1>3, <2>1, SkipKeeps
<1> QED
  BY <1>4, <1>5

(* folk_next_part keeps the invariant. *)
LEMMA NextPartFlow ==
    ASSUME FlowInv, NextPart
    PROVE  FlowInv'
<1>1. /\ last' = [op |-> "next_part", bytes |-> <<>>] /\ last'.bytes = <<>>
      /\ UNCHANGED <<request, sent, kind, got>>
  BY DEF NextPart
<1>2. /\ channel \in Seq(Items(Own)) /\ sent \in Seq(Items(Own))
      /\ Ending(channel, sent) /\ got \in Seq(Own)
  BY DEF FlowInv, TypeInv
<1>3. CASE kind # "parts" \/ partState = "Done"
  <2>1. got \o <<>> = got
    BY <1>2, ConcatEmptySeq
  <2>2. UNCHANGED <<channel, leftover, partState, headers>>
    BY <1>3 DEF NextPart
  <2>3. Give("next_part", <<>>)
    BY <1>1, <2>1, <2>2 DEF Give
  <2> QED
    BY <2>2, <2>3, GiveNothing
<1>4. CASE kind = "parts" /\ partState = "InPart"
  <2>1. Drain
    BY <1>4 DEF NextPart
  <2>2. PICK rest \in Seq(Items(Own)) :
            rest = AfterRun(channel) /\ Ending(rest, sent)
    BY <1>2, EndingKept
  <2>3. Rest(rest) \in Seq(Items(Own)) /\ Ending(Rest(rest), sent)
    BY <1>2, <2>2, EndingKept
  <2>4. CASE IsNext(rest, "end")
    <3>1. NextHeader(Tail(rest)) /\ Tail(rest) = Rest(rest)
      BY <2>1, <2>2, <2>4 DEF Drain, IsNext, Rest
    <3> QED
      BY <1>1, <1>4, <2>3, <3>1, HeaderFlow
  <2>5. CASE ~IsNext(rest, "end")
    <3>1. /\ partState' = "Done" /\ leftover' = <<>> /\ headers' = headers
          /\ channel' = Rest(rest)
      BY <2>1, <2>2, <2>5 DEF Drain
    <3> QED
      BY <1>1, <1>4, <2>3, <3>1, SkipKeeps
  <2> QED
    BY <2>4, <2>5
<1>5. CASE kind = "parts" /\ partState \notin {"InPart", "Done"}
  <2>1. NextHeader(channel)
    BY <1>5 DEF NextPart
  <2> QED
    BY <1>1, <1>2, <1>5, <2>1, HeaderFlow
<1> QED
  BY <1>3, <1>4, <1>5

(* The items of a stream are numbered and their bytes named after them. *)
LEMMA StreamType ==
    ASSUME NEW req \in Nat, NEW n \in Nat, MaxChunk \in Nat,
           NEW shapes, shapes \subseteq PartShapes,
           NEW f \in Streams(req, n, shapes)
    PROVE  /\ f \in Seq(Items(BytesAt(req, Nat)))
           /\ \A p \in 1 .. Len(f) :
                  f[p].pos = p /\ f[p].bytes \in Seq(BytesAt(req, {p}))
<1>1. PICK g \in BoundedSeq(shapes, n) :
          f = [p \in 1 .. Len(g) |-> Item(req, p, g[p])]
  BY DEF Streams
<1>2. PICK m \in 0 .. n : g \in [1 .. m -> shapes]
  BY DEF BoundedSeq, SeqOf
<1>3. m \in Nat /\ Len(g) = m
  BY <1>2
<1>4. ASSUME NEW p \in 1 .. m
      PROVE  /\ f[p].pos = p /\ f[p].type \in {"data", "start", "end"}
             /\ f[p].bytes \in Seq(BytesAt(req, {p}))
             /\ f[p] = [type |-> f[p].type, pos |-> f[p].pos,
                        bytes |-> f[p].bytes]
  <2>1. f[p] = Item(req, p, g[p]) /\ g[p] \in PartShapes
    BY <1>1, <1>2, <1>3
  <2>2. g[p].type \in {"data", "start", "end"} /\ g[p].size \in Nat
    BY <2>1 DEF PartShapes, RawShapes
  <2>3. PICK k \in Nat : k = g[p].size
    BY <2>2
  <2>4. Bytes(req, p, k) \in [1 .. k -> BytesAt(req, {p})]
    BY DEF Bytes, BytesAt
  <2>5. Bytes(req, p, k) \in Seq(BytesAt(req, {p}))
    <3>1. \A X : \A b \in [1 .. k -> X] : b \in Seq(X)
      OBVIOUS
    <3> QED
      BY <2>4, <3>1
  <2> QED
    BY <2>1, <2>2, <2>3, <2>5 DEF Item
<1>5. ASSUME NEW p \in 1 .. m
      PROVE  f[p] \in Items(BytesAt(req, Nat))
  <2>1. BytesAt(req, {p}) \subseteq BytesAt(req, Nat)
    BY <1>3 DEF BytesAt
  <2>2. f[p].bytes \in Seq(BytesAt(req, Nat))
    BY <1>4, <2>1, SeqMonotonic
  <2>3. \A B : \A t \in {"data", "start", "end"}, b \in Seq(B) :
            [type |-> t, pos |-> p, bytes |-> b] \in Items(B)
    BY <1>3 DEF Items
  <2>4. [type |-> f[p].type, pos |-> p, bytes |-> f[p].bytes]
            \in Items(BytesAt(req, Nat))
    BY <1>4, <2>2, <2>3
  <2> QED
    BY <1>4, <2>4
<1>6. f \in [1 .. m -> Items(BytesAt(req, Nat))]
  BY <1>1, <1>3, <1>5
<1>7. f \in Seq(Items(BytesAt(req, Nat))) /\ Len(f) = m
  BY <1>3, <1>6
<1> QED
  BY <1>4, <1>7

(* A new request satisfies the invariant, whatever the last one left. *)
LEMMA ReceivedFlow ==
    ASSUME NEW req \in Nat, NEW stream \in Seq(Items(BytesAt(req, Nat))),
           \A p \in 1 .. Len(stream) :
               /\ stream[p].pos = p
               /\ stream[p].bytes \in Seq(BytesAt(req, {p})),
           kind' \in {"none", "raw", "parts"}, Received(req, stream)
    PROVE  FlowInv'
<1>1. /\ request' = req /\ sent' = stream /\ channel' = stream
      /\ leftover' = <<>> /\ partState' = "BeforeFirst"
      /\ got' = <<>> /\ headers' = <<>> /\ last'.bytes = <<>>
      /\ Own' = BytesAt(req, Nat)
  BY DEF Received, Own
<1>2. TypeInv'
  BY <1>1, EmptySeq DEF TypeInv
<1>3. SentInv'
  BY <1>1 DEF SentInv
<1>4. Ending(channel, sent)' /\ LastInv'
  <2>1. Ending(stream, stream)
    BY DEF Ending
  <2>2. Ending(<<>>, <<>>)
    BY DEF Ending
  <2> QED
    BY <1>1, <2>1, <2>2 DEF LastInv
<1>5. StateInv' /\ HeadersInv' /\ PartInv' /\ PartsWhole'
  BY <1>1 DEF StateInv, HeadersInv, PartInv, PartsWhole
<1>6. RawConservation'
  <2>1. PICK c \in Seq(BytesAt(req, Nat)) : c = Content(stream)
    BY ContentType
  <2>2. <<>> \o <<>> \o c = c
    OBVIOUS
  <2> QED
    BY <1>1, <2>1, <2>2 DEF RawConservation
<1> QED
  BY <1>2, <1>3, <1>4, <1>5, <1>6 DEF FlowInv

(* The head of the dispatch loop keeps the invariant. *)
LEMMA RecvFlow ==
    ASSUME BodyBounds, FlowInv, Recv
    PROVE  FlowInv'
<1>1. PICK req \in Nat : req = request + 1
  BY DEF FlowInv, TypeInv
<1>2. PICK n \in Nat : n = IF request = 0 THEN MaxItems ELSE MaxNextItems
  BY DEF BodyBounds
<1>3. /\ MaxChunk \in Nat /\ RawShapes \subseteq PartShapes
      /\ PartShapes \subseteq PartShapes
  BY DEF BodyBounds, PartShapes
<1>4. CASE kind' = "none" /\ Received(req, <<>>)
  <2>1. <<>> \in Seq(Items(BytesAt(req, Nat))) /\ 1 .. Len(<<>>) = {}
    BY EmptySeq
  <2> QED
    BY <1>4, <2>1, ReceivedFlow
<1>5. ASSUME NEW shapes, shapes \subseteq PartShapes,
             kind' \in {"none", "raw", "parts"},
             NEW f \in Streams(req, n, shapes), Received(req, f)
      PROVE  FlowInv'
  <2>1. /\ f \in Seq(Items(BytesAt(req, Nat)))
        /\ \A p \in 1 .. Len(f) :
               f[p].pos = p /\ f[p].bytes \in Seq(BytesAt(req, {p}))
    BY <1>3, <1>5, StreamType
  <2> QED
    BY <1>5, <2>1, ReceivedFlow
<1> QED
  BY <1>1, <1>2, <1>3, <1>4, <1>5 DEF Recv

(* The answer keeps the invariant. *)
LEMMA FinishFlow ==
    ASSUME FlowInv, Finish
    PROVE  FlowInv'
<1>1. /\ kind' = "none" /\ channel' = <<>> /\ leftover' = <<>>
      /\ partState' = "Done" /\ last'.bytes = <<>>
      /\ UNCHANGED <<request, sent, got, headers>> /\ Own' = Own
  BY DEF Finish, Own
<1>2. TypeInv'
  BY <1>1, EmptySeq DEF FlowInv, TypeInv
<1>3. SentInv' /\ HeadersInv'
  BY <1>1 DEF FlowInv, SentInv, HeadersInv
<1>4. Ending(channel, sent)'
  BY <1>1 DEF FlowInv, TypeInv, Ending
<1>5. LastInv'
  <2>1. Ending(<<>>, got)
    BY DEF FlowInv, TypeInv, Ending
  <2>2. headers # <<>> => /\ Last(headers).at \in Nat
                          /\ Last(headers).at <= Len(got)
    <3>1. headers # <<>> => Len(headers) \in 1 .. Len(headers)
      BY DEF FlowInv, TypeInv
    <3> QED
      BY <3>1, HeaderType DEF FlowInv, HeadersInv, Last
  <2>3. headers # <<>> => Last(headers).at + Len(<<>>) <= Len(got)
    BY <2>2
  <2> QED
    BY <1>1, <2>1, <2>3 DEF LastInv
<1>6. StateInv' /\ PartInv' /\ RawConservation'
  BY <1>1 DEF FlowInv, StateInv, PartInv, RawConservation
<1>7. PartsWhole'
  <2>1. \A i : Given(i)' = Given(i) /\ PartBytes(i)' = PartBytes(i)
    BY <1>1 DEF Given, PartBytes
  <2> QED
    BY <1>1, <2>1 DEF FlowInv, PartsWhole
<1> QED
  BY <1>2, <1>3, <1>4, <1>5, <1>6, <1>7 DEF FlowInv

----------------------------------------------------------------------------
(* The operations keep CursorInv. *)

(* Inside a part of a well-formed stream no start comes next. *)
LEMMA OpenNext ==
    ASSUME TypeInv, WellFormed, NEW c \in Nat, c < Len(sent), OpenAt(c)
    PROVE  sent[c + 1].type # "start"
<1> DEFINE before == {q \in 1 .. (c + 1) - 1 : sent[q].type # "data"}
<1>1. Len(sent) \in Nat
  BY DEF TypeInv
<1>2. PICK h \in 1 .. c : /\ h = Last(headers).pos /\ sent[h].type = "start"
                          /\ \A q \in h + 1 .. c : sent[q].type = "data"
  BY DEF OpenAt
<1>3. h \in before
  BY <1>2
<1>4. \A x \in before : x <= h
  BY <1>2
<1>5. c + 1 \in 1 .. Len(sent)
  BY <1>1
<1>6. (sent[c + 1].type = "start") #
          \E q \in before : sent[q].type = "start" /\ \A x \in before : x <= q
  BY <1>5 DEF WellFormed
<1> HIDE DEF before
<1> QED
  BY <1>2, <1>3, <1>4, <1>6

(* Outside the parts of a well-formed stream only a start comes next. *)
LEMMA ClosedNext ==
    ASSUME TypeInv, WellFormed, NEW c \in Nat, c < Len(sent), ClosedAt(c)
    PROVE  sent[c + 1].type = "start"
<1> DEFINE before == {q \in 1 .. (c + 1) - 1 : sent[q].type # "data"}
<1>1. Len(sent) \in Nat
  BY DEF TypeInv
<1>2. c + 1 \in 1 .. Len(sent)
  BY <1>1
<1>3. (sent[c + 1].type = "start") #
          \E q \in before : sent[q].type = "start" /\ \A x \in before : x <= q
  BY <1>2 DEF WellFormed
<1>4. ASSUME NEW q \in before, sent[q].type = "start",
             \A x \in before : x <= q
      PROVE  FALSE
  <2>1. c # 0 /\ q \in 1 .. c
    OBVIOUS
  <2>2. sent[c].type = "end" /\ c \in 1 .. c
    BY <2>1 DEF ClosedAt
  <2>3. c \in before
    BY <2>2
  <2>4. c = q
    BY <1>4, <2>1, <2>3
  <2> QED
    BY <1>4, <2>2, <2>4
<1> HIDE DEF before
<1> QED
  BY <1>3, <1>4

(* Starts does not grow over items that are none. *)
LEMMA StartsSame ==
    ASSUME NEW c \in Nat, NEW d \in Nat, c <= d,
           \A q \in c + 1 .. d : sent[q].type # "start"
    PROVE  Starts(d) = Starts(c)
BY DEF Starts

(* Taken is the number of items taken off the channel. *)
LEMMA TakenType ==
    ASSUME FlowInv
    PROVE  /\ Taken \in 0 .. Len(sent) /\ Len(sent) \in Nat
           /\ Len(channel) \in Nat
BY DEF FlowInv, TypeInv, Ending, Taken

(* After the data of the current part: the cursor is still in the part, and
   what comes next is no data. *)
LEMMA Drained ==
    ASSUME FlowInv, CursorInv, partState = "InPart"
    PROVE  \E rest \in Seq(Items(Own)), t \in 0 .. Len(sent) :
               /\ rest = AfterRun(channel) /\ t = Len(sent) - Len(rest)
               /\ Ending(rest, sent) /\ OpenAt(t)
               /\ WellFormed => Positions = Starts(t)
               /\ rest # <<>> => /\ Head(rest) = sent[t + 1] /\ t < Len(sent)
                                 /\ Head(rest).type # "data"
               /\ rest # <<>> /\ WellFormed => Head(rest).type = "end"
<1>1. /\ TypeInv /\ kind = "parts" /\ Ending(channel, sent)
      /\ channel \in Seq(Items(Own)) /\ sent \in Seq(Items(Own))
      /\ Len(channel) \in Nat /\ Len(sent) \in Nat
  BY DEF FlowInv, StateInv, TypeInv
<1>2. PICK k \in 0 .. Len(channel) :
          /\ DataRun(channel) = SubSeq(channel, 1, k)
          /\ \A i \in 1 .. k : channel[i].type = "data"
          /\ k < Len(channel) => channel[k + 1].type # "data"
  BY <1>1, RunIs
<1>3. PICK rest \in Seq(Items(Own)) :
          /\ rest = AfterRun(channel) /\ Ending(rest, sent)
          /\ Len(rest) = Len(channel) - k
          /\ \A i \in 1 .. Len(channel) - k : rest[i] = channel[k + i]
  BY <1>1, <1>2, EndingKept, AfterRunIs
<1>4. PICK c \in 0 .. Len(sent) : c = Taken
  BY TakenType
<1>5. PICK t \in 0 .. Len(sent) : t = Len(sent) - Len(rest)
  <2>1. Len(rest) \in Nat /\ Len(rest) <= Len(sent)
    BY <1>3 DEF Ending
  <2>2. PICK a \in Nat, b \in Nat : a = Len(sent) /\ b = Len(rest) /\ b <= a
    BY <1>1, <2>1
  <2>3. a - b \in 0 .. a
    BY <2>2
  <2> QED
    BY <2>2, <2>3
<1>6. t = c + k
  BY <1>1, <1>2, <1>3, <1>4, <1>5 DEF Taken
<1>7. \A q \in c + 1 .. t : sent[q].type = "data"
  <2> SUFFICES ASSUME NEW q \in c + 1 .. t
               PROVE  sent[q].type = "data"
    OBVIOUS
  <2>1. PICK i \in 1 .. k : i = q - c
    BY <1>6
  <2>2. i \in 1 .. Len(channel) /\ Len(sent) - Len(channel) + i = q
    BY <1>1, <1>2, <1>4, <2>1 DEF Taken
  <2>3. channel[i] = sent[q]
    BY <1>1, <2>2 DEF Ending
  <2> QED
    BY <1>2, <2>3
<1>8. OpenAt(c)
  BY <1>4 DEF CursorInv
<1>9. OpenAt(t)
  <2>1. PICK h \in 1 .. c : /\ h = Last(headers).pos /\ sent[h].type = "start"
                            /\ \A q \in h + 1 .. c : sent[q].type = "data"
    BY <1>8 DEF OpenAt
  <2>2. h \in 1 .. t /\ \A q \in h + 1 .. t : sent[q].type = "data"
    BY <1>2, <1>6, <1>7, <2>1
  <2> QED
    BY <2>1, <2>2 DEF OpenAt
<1>10. WellFormed => Positions = Starts(t)
  <2>1. Starts(t) = Starts(c)
    <3>1. /\ c \in Nat /\ t \in Nat /\ c <= t
          /\ \A q \in c + 1 .. t : sent[q].type # "start"
      BY <1>2, <1>6, <1>7
    <3> QED
      BY <3>1, StartsSame
  <2> QED
    BY <1>1, <1>4, <2>1 DEF CursorInv
<1>11. ASSUME rest # <<>>
       PROVE  /\ Head(rest) = sent[t + 1] /\ t < Len(sent)
              /\ Head(rest).type # "data"
              /\ WellFormed => Head(rest).type = "end"
  <2>1. 1 <= Len(rest) /\ Head(rest) = rest[1]
    BY <1>11, EmptySeq
  <2>2. k < Len(channel) /\ rest[1] = channel[k + 1]
    BY <1>1, <1>3, <2>1
  <2>3. rest[1] = sent[Len(sent) - Len(rest) + 1]
    BY <1>3, <2>1 DEF Ending
  <2>4. t < Len(sent)
    BY <1>1, <1>5, <2>1
  <2>5. Head(rest) = sent[t + 1] /\ Head(rest).type # "data"
    BY <1>2, <1>5, <2>1, <2>2, <2>3
  <2>6. WellFormed => Head(rest).type # "start"
    BY <1>1, <1>9, <2>4, <2>5, OpenNext
  <2>7. Head(rest) \in Items(Own)
    BY <1>11, HeadTailProperties
  <2>8. Head(rest).type \in {"data", "start", "end"}
    BY <2>7 DEF Items
  <2> QED
    BY <2>4, <2>5, <2>6, <2>8
<1> QED
  BY <1>3, <1>5, <1>9, <1>10, <1>11

(* The parts are over: nothing is left of a well-formed stream. *)
LEMMA CursorDone ==
    ASSUME FlowInv, CursorInv, UNCHANGED <<sent, kind, headers>>,
           kind = "parts", partState' = "Done",
           WellFormed => channel' = <<>> /\ Positions = Starts(Len(sent))
    PROVE  CursorInv'
<1>1. /\ WellFormed' = WellFormed /\ Positions' = Positions
      /\ \A n : Starts(n)' = Starts(n)
  BY DEF WellFormed, Positions, Starts
<1>2. WellFormed => Taken' = Len(sent)
  BY DEF Taken
<1>3. WellFormed => Positions' = Starts(Taken)'
  BY <1>1, <1>2 DEF Starts
<1>4. NoPartSkipped'
  BY <1>1 DEF CursorInv, NoPartSkipped
<1> QED
  BY <1>1, <1>3, <1>4 DEF CursorInv

(* A header is read outside the parts. *)
LEMMA CursorHeader ==
    ASSUME FlowInv, CursorInv, UNCHANGED <<sent, kind>>, kind = "parts",
           NEW items \in Seq(Items(Own)), Ending(items, sent),
           NEW c \in 0 .. Len(sent), c = Len(sent) - Len(items), ClosedAt(c),
           WellFormed => Positions = Starts(c), NextHeader(items)
    PROVE  CursorInv'
<1> DEFINE H == [pos : Nat, at : Nat]
<1>1. /\ TypeInv /\ SentInv /\ sent \in Seq(Items(Own)) /\ headers \in Seq(H)
      /\ got \in Seq(Own)
  BY DEF FlowInv, TypeInv
<1>2. Len(sent) \in Nat /\ Len(items) \in Nat
  BY <1>1
<1>3. items # <<>> => /\ c + 1 \in 1 .. Len(sent) /\ c < Len(sent)
                      /\ Head(items) = sent[c + 1]
  <2> SUFFICES ASSUME items # <<>>
               PROVE  /\ c + 1 \in 1 .. Len(sent) /\ c < Len(sent)
                      /\ Head(items) = sent[c + 1]
    OBVIOUS
  <2>1. c + 1 \in 1 .. Len(sent) /\ Head(items) = sent[c + 1]
    BY <1>1, <1>2, EndingHead
  <2> QED
    BY <1>2, <2>1
<1>4. /\ WellFormed' = WellFormed
      /\ \A n : Starts(n)' = Starts(n)
  BY DEF WellFormed, Starts
<1>5. CASE IsNext(items, "start")
  <2>1. items # <<>> /\ Head(items).type = "start"
    BY <1>5 DEF IsNext
  <2>2. /\ partState' = "InPart" /\ channel' = Tail(items)
        /\ headers' = Append(headers, Header(Head(items)))
    BY <1>5, <2>1 DEF NextHeader, Rest
  <2>3. sent[c + 1].pos = c + 1 /\ sent[c + 1].type = "start"
    BY <1>1, <1>3, <2>1 DEF SentInv
  <2>4. Header(Head(items)) \in H /\ Header(Head(items)).pos = c + 1
    BY <1>1, <1>3, <2>1, <2>3 DEF Header
  <2>5. PICK new \in H : new = Header(Head(items)) /\ new.pos = c + 1
    BY <2>4
  <2> HIDE DEF H
  <2>6. PICK n \in Nat : n = Len(headers)
    BY <1>1
  <2>7. /\ Len(headers') = n + 1 /\ headers'[n + 1] = new /\ headers' # <<>>
        /\ \A i \in 1 .. n : headers'[i] = headers[i]
    <3>1. headers' = Append(headers, new) /\ headers \in Seq(H)
      BY <1>1, <2>2, <2>5
    <3> QED
      BY <2>6, <3>1
  <2>8. Last(headers').pos = c + 1
    BY <2>5, <2>7 DEF Last
  <2>9. Positions' = Positions \cup {c + 1}
    <3>1. Positions' = {headers'[i].pos : i \in 1 .. n + 1}
      BY <2>7 DEF Positions
    <3>2. Positions = {headers[i].pos : i \in 1 .. n}
      BY <2>6 DEF Positions
    <3>3. 1 .. n + 1 = (1 .. n) \cup {n + 1}
      OBVIOUS
    <3> QED
      BY <2>5, <2>7, <3>1, <3>2, <3>3
  <2>10. Taken' = c + 1
    <3>1. Len(channel') = Len(items) - 1
      BY <2>1, <2>2
    <3> QED
      BY <1>2, <3>1 DEF Taken
  <2>11. Starts(c + 1) = Starts(c) \cup {c + 1}
    <3>1. 1 .. c + 1 = (1 .. c) \cup {c + 1}
      BY <1>2
    <3> QED
      BY <2>3, <3>1 DEF Starts
  <2>12. OpenAt(Taken)'
    BY <1>2, <2>3, <2>8, <2>10 DEF OpenAt
  <2>13. WellFormed => Positions' = Starts(c + 1)
    BY <2>9, <2>11
  <2>14. NoPartSkipped'
    BY <1>4, <2>2, <2>8, <2>13 DEF NoPartSkipped
  <2>15. WellFormed => Positions' = Starts(Taken)'
    BY <1>4, <2>10, <2>13 DEF Starts
  <2> QED
    BY <1>4, <2>2, <2>12, <2>14, <2>15 DEF CursorInv
<1>6. CASE ~IsNext(items, "start")
  <2>1. partState' = "Done" /\ headers' = headers /\ channel' = Rest(items)
    BY <1>6 DEF NextHeader
  <2>2. WellFormed => items = <<>>
    BY <1>1, <1>3, <1>6, ClosedNext DEF IsNext
  <2>3. WellFormed => c = Len(sent) /\ channel' = <<>>
    BY <1>2, <2>1, <2>2, EmptySeq DEF Rest
  <2> QED
    BY <2>1, <2>3, CursorDone
<1> QED
  BY <1>5, <1>6

(* The mark after the data of a part is read. *)
LEMMA CursorMark ==
    ASSUME FlowInv, CursorInv, UNCHANGED <<sent, kind, headers>>,
           partState = "InPart", channel' = Rest(AfterRun(channel)),
           partState' = AfterMark(AfterRun(channel))
    PROVE  CursorInv'
<1>1. PICK rest \in Seq(Items(Own)), t \in 0 .. Len(sent) :
          /\ rest = AfterRun(channel) /\ t = Len(sent) - Len(rest)
          /\ WellFormed => Positions = Starts(t)
          /\ rest # <<>> => Head(rest) = sent[t + 1]
          /\ rest # <<>> /\ WellFormed => Head(rest).type = "end"
  BY Drained
<1>2. kind = "parts" /\ Len(sent) \in Nat /\ Len(rest) \in Nat
  BY TakenType DEF FlowInv, StateInv
<1>3. /\ WellFormed' = WellFormed /\ Positions' = Positions
      /\ \A n : Starts(n)' = Starts(n)
  BY DEF WellFormed, Positions, Starts
<1>4. CASE IsNext(rest, "end")
  <2>1. /\ rest # <<>> /\ sent[t + 1].type = "end" /\ channel' = Tail(rest)
        /\ partState' = "PartEnded"
    BY <1>1, <1>4 DEF IsNext, Rest, AfterMark
  <2>2. Len(channel') = Len(rest) - 1
    BY <2>1
  <2>3. Taken' = t + 1
    BY <1>1, <1>2, <2>2 DEF Taken
  <2>4. ClosedAt(Taken)'
    BY <2>1, <2>3 DEF ClosedAt
  <2>5. Starts(t + 1) = Starts(t)
    BY <1>2, <2>1, StartsSame
  <2>6. WellFormed => Positions' = Starts(Taken)'
    BY <1>1, <1>3, <2>3, <2>5 DEF Starts
  <2>7. NoPartSkipped'
    BY <1>3, <2>1 DEF CursorInv, NoPartSkipped
  <2> QED
    BY <1>3, <2>1, <2>4, <2>6, <2>7 DEF CursorInv
<1>5. CASE ~IsNext(rest, "end")
  <2>1. partState' = "Done" /\ channel' = Rest(rest)
    BY <1>1, <1>5 DEF AfterMark
  <2>2. WellFormed => rest = <<>>
    BY <1>1, <1>5 DEF IsNext
  <2>3. WellFormed => t = Len(sent) /\ channel' = <<>>
    BY <1>1, <1>2, <2>1, <2>2, EmptySeq DEF Rest
  <2> QED
    BY <1>1, <1>2, <2>1, <2>3, CursorDone
<1> QED
  BY <1>4, <1>5

(* Data of the current part is taken. *)
LEMMA CursorData ==
    ASSUME FlowInv, CursorInv, UNCHANGED <<sent, kind, headers, partState>>,
           partState = "InPart", IsNext(channel, "data"),
           channel' = Tail(channel)
    PROVE  CursorInv'
<1>1. /\ kind = "parts" /\ channel \in Seq(Items(Own))
      /\ sent \in Seq(Items(Own)) /\ Ending(channel, sent)
  BY DEF FlowInv, StateInv, TypeInv
<1>2. PICK c \in 0 .. Len(sent) : c = Taken /\ Len(sent) \in Nat
  BY TakenType
<1>3. channel # <<>> /\ Head(channel).type = "data"
  BY DEF IsNext
<1>4. c + 1 \in 1 .. Len(sent) /\ sent[c + 1].type = "data"
  BY <1>1, <1>2, <1>3, EndingHead DEF Taken
<1>5. Taken' = c + 1
  <2>1. Len(channel') = Len(channel) - 1 /\ Len(channel) \in Nat
    BY <1>1, <1>3
  <2>2. Taken' = Len(sent) - Len(channel')
    BY DEF Taken
  <2>3. c = Len(sent) - Len(channel)
    BY <1>2 DEF Taken
  <2> QED
    BY <1>2, <2>1, <2>2, <2>3
<1>6. OpenAt(c)
  BY <1>2 DEF CursorInv
<1>7. OpenAt(Taken)'
  <2>1. PICK h \in 1 .. c : /\ h = Last(headers).pos /\ sent[h].type = "start"
                            /\ \A q \in h + 1 .. c : sent[q].type = "data"
    BY <1>6 DEF OpenAt
  <2>2. h \in 1 .. c + 1 /\ \A q \in h + 1 .. c + 1 : sent[q].type = "data"
    BY <1>2, <1>4, <2>1
  <2> QED
    BY <1>5, <2>1, <2>2 DEF OpenAt
<1>8. Starts(c + 1) = Starts(c)
  <2>1. \A q \in c + 1 .. c + 1 : sent[q].type # "start"
    BY <1>2, <1>4
  <2> QED
    BY <1>2, <2>1, StartsSame
<1>9. /\ WellFormed' = WellFormed /\ Positions' = Positions
      /\ \A n : Starts(n)' = Starts(n)
  BY DEF WellFormed, Positions, Starts
<1>10. WellFormed => Positions' = Starts(Taken)'
  <2>1. WellFormed => Positions = Starts(c)
    BY <1>1, <1>2 DEF CursorInv
  <2> QED
    BY <1>5, <1>8, <1>9, <2>1 DEF Starts
<1>11. NoPartSkipped'
  BY <1>9 DEF CursorInv, NoPartSkipped
<1> QED
  BY <1>7, <1>9, <1>10, <1>11 DEF CursorInv

(* The cursor stays where it is, or there is none. *)
LEMMA CursorStays ==
    ASSUME FlowInv, CursorInv, UNCHANGED <<sent, kind, headers, partState>>,
           channel' = channel \/ kind = "raw"
    PROVE  CursorInv'
<1>1. /\ WellFormed' = WellFormed /\ Positions' = Positions
      /\ \A n : Starts(n)' = Starts(n)
  BY DEF WellFormed, Positions, Starts
<1>2. NoPartSkipped'
  BY <1>1 DEF CursorInv, NoPartSkipped
<1>3. CASE channel' = channel
  <2>1. Taken' = Taken
    BY <1>3 DEF Taken
  <2>2. OpenAt(Taken)' = OpenAt(Taken) /\ ClosedAt(Taken)' = ClosedAt(Taken)
    BY <2>1 DEF OpenAt, ClosedAt
  <2>3. Starts(Taken)' = Starts(Taken)
    BY <2>1 DEF Starts
  <2> QED
    BY <1>1, <1>2, <1>3, <2>1, <2>2, <2>3 DEF CursorInv
<1>4. CASE kind = "raw"
  <2>1. partState \notin {"InPart", "PartEnded"} /\ headers = <<>>
    BY <1>4 DEF FlowInv, StateInv
  <2> QED
    BY <1>2, <1>4, <2>1 DEF CursorInv
<1> QED
  BY <1>3, <1>4

(* The reads of a raw body, which also give bytes of the current part, leave
   the cursor alone. *)
LEMMA ReadCursor ==
    ASSUME FlowInv, CursorInv, ReadAll \/ \E n \in Nat : Read(n)
    PROVE  CursorInv'
<1>1. /\ UNCHANGED <<sent, kind, headers, partState>>
      /\ channel' = channel \/ kind = "raw"
  BY DEF ReadAll, Read, Take, Give
<1> QED
  BY <1>1, CursorStays

(* folk_part_read moves the cursor over one item at most. *)
LEMMA PartReadCursor ==
    ASSUME FlowInv, CursorInv, NEW n \in Nat, PartRead(n)
    PROVE  CursorInv'
<1>1. UNCHANGED <<sent, kind, headers>>
  BY DEF PartRead, Take, Give
<1>2. CASE partState = "InPart" /\ leftover = <<>>
  <2>1. kind = "parts" /\ channel \in Seq(Items(Own))
    BY <1>2 DEF FlowInv, StateInv, TypeInv
  <2>2. CASE IsNext(channel, "data")
    <3>1. channel' = Tail(channel) /\ partState' = partState
      BY <1>2, <2>1, <2>2 DEF PartRead, IsNext, Rest
    <3> QED
      BY <1>1, <1>2, <2>2, <3>1, CursorData
  <2>3. CASE ~IsNext(channel, "data")
    <3>1. channel' = Rest(channel) /\ partState' = AfterMark(channel)
      BY <1>2, <2>1, <2>3 DEF PartRead
    <3>2. AfterRun(channel) = channel
      BY <2>1, <2>3, RunEmpty
    <3> QED
      BY <1>1, <1>2, <3>1, <3>2, CursorMark
  <2> QED
    BY <2>2, <2>3
<1>3. CASE ~(partState = "InPart" /\ leftover = <<>>)
  <2>1. UNCHANGED <<channel, partState>>
    BY <1>3 DEF PartRead
  <2> QED
    BY <1>1, <2>1, CursorStays
<1> QED
  BY <1>2, <1>3

(* folk_part_read_all moves the cursor over the rest of the part. *)
LEMMA PartReadAllCursor ==
    ASSUME FlowInv, CursorInv, PartReadAll
    PROVE  CursorInv'
<1>1. UNCHANGED <<sent, kind, headers>>
  BY DEF PartReadAll, Give
<1>2. CASE partState = "InPart"
  <2>1. kind = "parts"
    BY <1>2 DEF FlowInv, StateInv
  <2>2. /\ channel' = Rest(AfterRun(channel))
        /\ partState' = AfterMark(AfterRun(channel))
    BY <1>2, <2>1 DEF PartReadAll
  <2> QED
    BY <1>1, <1>2, <2>2, CursorMark
<1>3. CASE partState # "InPart"
  <2>1. UNCHANGED <<channel, partState>>
    BY <1>3 DEF PartReadAll
  <2> QED
    BY <1>1, <2>1, CursorStays
<1> QED
  BY <1>2, <1>3

(* folk_next_part moves the cursor to the next part. *)
LEMMA NextPartCursor ==
    ASSUME FlowInv, CursorInv, NextPart
    PROVE  CursorInv'
<1>1. UNCHANGED <<sent, kind>>
  BY DEF NextPart
<1>2. /\ channel \in Seq(Items(Own)) /\ sent \in Seq(Items(Own))
      /\ Ending(channel, sent)
  BY DEF FlowInv, TypeInv
<1>3. CASE kind # "parts" \/ partState = "Done"
  <2>1. UNCHANGED <<channel, partState, headers>>
    BY <1>3 DEF NextPart
  <2> QED
    BY <1>1, <2>1, CursorStays
<1>4. CASE kind = "parts" /\ partState = "InPart"
  <2>1. Drain
    BY <1>4 DEF NextPart
  <2>2. PICK rest \in Seq(Items(Own)), t \in 0 .. Len(sent) :
            /\ rest = AfterRun(channel) /\ t = Len(sent) - Len(rest)
            /\ Ending(rest, sent)
            /\ WellFormed => Positions = Starts(t)
            /\ rest # <<>> => Head(rest) = sent[t + 1] /\ t < Len(sent)
            /\ rest # <<>> /\ WellFormed => Head(rest).type = "end"
    BY <1>4, Drained
  <2>3. Len(sent) \in Nat /\ Len(rest) \in Nat
    BY TakenType
  <2>4. CASE IsNext(rest, "end")
    <3>1. rest # <<>> /\ sent[t + 1].type = "end" /\ NextHeader(Tail(rest))
      BY <2>1, <2>2, <2>4 DEF Drain, IsNext
    <3>2. PICK items \in Seq(Items(Own)) :
              items = Tail(rest) /\ Ending(items, sent)
      BY <1>2, <2>2, <3>1, EndingKept DEF Rest
    <3>3. Len(items) = Len(rest) - 1
      BY <3>1, <3>2
    <3>4. PICK c \in 0 .. Len(sent) : c = t + 1
      <4>1. t < Len(sent)
        BY <2>2, <3>1
      <4> QED
        BY <2>3, <4>1
    <3>5. c = Len(sent) - Len(items)
      BY <2>2, <2>3, <3>3, <3>4
    <3>6. ClosedAt(c)
      BY <3>1, <3>4 DEF ClosedAt
    <3>7. Starts(c) = Starts(t)
      <4>1. \A q \in t + 1 .. c : sent[q].type # "start"
        BY <2>3, <3>1, <3>4
      <4> QED
        BY <2>3, <3>4, <4>1, StartsSame
    <3> QED
      BY <1>1, <1>4, <2>2, <3>1, <3>2, <3>5, <3>6, <3>7, CursorHeader
  <2>5. CASE ~IsNext(rest, "end")
    <3>1. partState' = "Done" /\ headers' = headers /\ channel' = Rest(rest)
      BY <2>1, <2>2, <2>5 DEF Drain
    <3>2. WellFormed => rest = <<>>
      BY <2>2, <2>5 DEF IsNext
    <3>3. WellFormed => t = Len(sent) /\ channel' = <<>>
      BY <2>2, <2>3, <3>1, <3>2, EmptySeq DEF Rest
    <3> QED
      BY <1>1, <1>4, <2>2, <3>1, <3>3, CursorDone
  <2> QED
    BY <2>4, <2>5
<1>5. CASE kind = "parts" /\ partState \in {"BeforeFirst", "PartEnded"}
  <2>1. NextHeader(channel)
    BY <1>5 DEF NextPart
  <2>2. PICK c \in 0 .. Len(sent) : c = Taken
    BY TakenType
  <2>3. c = Len(sent) - Len(channel)
    BY <2>2 DEF Taken
  <2>4. ClosedAt(c)
    BY <1>5, <2>2 DEF CursorInv, ClosedAt
  <2>5. WellFormed => Positions = Starts(c)
    BY <1>5, <2>2 DEF CursorInv
  <2> QED
    BY <1>1, <1>2, <1>5, <2>1, <2>3, <2>4, <2>5, CursorHeader
<1> QED
  BY <1>3, <1>4, <1>5 DEF FlowInv, TypeInv

(* A new request starts before its first part. *)
LEMMA RecvCursor ==
    ASSUME FlowInv, CursorInv, Recv, FlowInv'
    PROVE  CursorInv'
<1>1. /\ sent' = channel' /\ partState' = "BeforeFirst" /\ headers' = <<>>
  BY DEF Recv, Received
<1>2. Len(sent') \in Nat
  BY DEF FlowInv, TypeInv
<1>3. Taken' = 0
  BY <1>1, <1>2 DEF Taken
<1>4. Positions' = {}
  BY <1>1 DEF Positions
<1>5. Starts(Taken)' = {}
  BY <1>3 DEF Starts
<1> QED
  BY <1>1, <1>3, <1>4, <1>5 DEF CursorInv, NoPartSkipped

(* The answer drops the cursor. *)
LEMMA FinishCursor ==
    ASSUME CursorInv, Finish
    PROVE  CursorInv'
<1>1. kind' = "none" /\ partState' = "Done" /\ UNCHANGED <<sent, headers>>
  BY DEF Finish
<1>2. WellFormed' = WellFormed /\ Positions' = Positions
  BY <1>1 DEF WellFormed, Positions
<1>3. Starts(Last(headers).pos)' = Starts(Last(headers).pos)
  BY <1>1 DEF Starts
<1>4. NoPartSkipped'
  BY <1>1, <1>2, <1>3 DEF CursorInv, NoPartSkipped
<1> QED
  BY <1>1, <1>4 DEF CursorInv

(* Only a new request changes the body, and the items of a raw one are data. *)
LEMMA RawItemsKept ==
    ASSUME RawItems, Next
    PROVE  RawItems'
<1>1. CASE Recv
  <2> SUFFICES ASSUME kind' = "raw", NEW p \in 1 .. Len(sent')
               PROVE  sent'[p].type = "data"
    BY DEF RawItems
  <2>0. \E n : sent' \in Streams(request + 1, n, RawShapes)
    BY <1>1 DEF Recv, Received
  <2>1. PICK n : sent' \in Streams(request + 1, n, RawShapes)
    BY <2>0
  <2>2. PICK g \in BoundedSeq(RawShapes, n) :
            sent' = [q \in 1 .. Len(g) |-> Item(request + 1, q, g[q])]
    BY <2>1 DEF Streams
  <2>3. PICK m \in Nat : g \in [1 .. m -> RawShapes]
    BY <2>2 DEF BoundedSeq, SeqOf
  <2>4. Len(g) = m
    BY <2>3
  <2>5. Len(sent') = m
    BY <2>2, <2>4
  <2>6. sent'[p] = Item(request + 1, p, g[p]) /\ g[p] \in RawShapes
    BY <2>1, <2>2, <2>3, <2>4, <2>5
  <2>7. sent'[p].type = g[p].type /\ g[p].type = "data"
    BY <2>6 DEF Item, RawShapes
  <2> QED
    BY <2>1, <2>7
<1>2. CASE Finish
  BY <1>2 DEF Finish, RawItems
<1>3. CASE ReadAll \/ PartReadAll \/ NextPart
  BY <1>3 DEF ReadAll, PartReadAll, NextPart, Give, RawItems
<1>4. ASSUME NEW n \in -1 .. MaxRead, Read(Length(n)) \/ PartRead(Length(n))
      PROVE  RawItems'
  BY <1>4 DEF Read, PartRead, Take, Give, RawItems
<1> QED
  BY <1>1, <1>2, <1>3, <1>4 DEF Next

(* A length asked for is at least one. *)
LEMMA LengthType ==
    ASSUME BodyBounds, NEW n \in -1 .. MaxRead
    PROVE  Length(n) \in Nat \ {0}
BY DEF BodyBounds, Length

(* Without empty chunks the next data item has bytes. *)
LEMMA DataHasBytes ==
    ASSUME FlowInv, IsNext(channel, "data"),
           \A p \in 1 .. Len(sent) :
               sent[p].type = "data" => sent[p].bytes # <<>>
    PROVE  Head(channel).bytes \in Seq(Own) /\ Head(channel).bytes # <<>>
<1>1. /\ channel \in Seq(Items(Own)) /\ sent \in Seq(Items(Own))
      /\ Ending(channel, sent) /\ channel # <<>>
      /\ Head(channel).type = "data"
  BY DEF FlowInv, TypeInv, IsNext
<1>2. \E h \in 1 .. Len(sent) : Head(channel) = sent[h]
  BY <1>1, EndingHead
<1> QED
  BY <1>1, <1>2, NextItem

(* An empty answer of folk_read or folk_part_read means the end. *)
LEMMA EmptyReadStep ==
    ASSUME BodyBounds, FlowInv, RawItems, Next
    PROVE  EmptyReadMeansEnd'
<1> SUFFICES ASSUME \A p \in 1 .. Len(sent') :
                        sent'[p].type = "data" => sent'[p].bytes # <<>>,
                    last'.bytes = <<>>
             PROVE  /\ last'.op = "read" /\ kind' = "raw" =>
                           got' = Content(sent')
                    /\ last'.op = "part_read" => partState' # "InPart"
  BY DEF EmptyReadMeansEnd
<1>1. leftover \in Seq(Own) /\ got \in Seq(Own) /\ channel \in Seq(Items(Own))
  BY DEF FlowInv, TypeInv
<1>2. CASE Recv \/ Finish \/ ReadAll \/ NextPart \/ PartReadAll
  <2>1. last'.op \in {"recv", "finish", "read_all", "next_part",
                      "part_read_all"}
    BY <1>2 DEF Recv, Received, Finish, ReadAll, NextPart, PartReadAll, Give
  <2> QED
    BY <2>1
<1>3. ASSUME NEW n \in Nat \ {0}, Read(n)
      PROVE  last'.op # "part_read" /\ (kind' = "raw" => got' = Content(sent'))
  <2>1. UNCHANGED <<sent, kind>> /\ last'.op = "read"
    BY <1>3 DEF Read, Take, Give
  <2> SUFFICES ASSUME kind = "raw"
               PROVE  got' = Content(sent)
    BY <2>1
  <2>2. leftover = <<>>
    <3> SUFFICES ASSUME leftover # <<>>
                 PROVE  FALSE
      OBVIOUS
    <3>1. Take("read", leftover, n)
      BY <1>3 DEF Read
    <3>2. PICK out \in Seq(Own) : Give("read", out) /\ out # <<>>
      BY <1>1, <3>1, TakeStep
    <3> QED
      BY <3>2 DEF Give
  <2>3. channel = <<>>
    <3> SUFFICES ASSUME channel # <<>>
                 PROVE  FALSE
      OBVIOUS
    <3>1. \E h \in 1 .. Len(sent) : Head(channel) = sent[h]
      BY <1>1, EndingHead DEF FlowInv, TypeInv
    <3>2. IsNext(channel, "data")
      BY <3>1 DEF RawItems, IsNext
    <3>3. Head(channel).bytes \in Seq(Own) /\ Head(channel).bytes # <<>>
      BY <2>1, <3>2, DataHasBytes
    <3>4. Take("read", Head(channel).bytes, n)
      BY <1>3, <2>2 DEF Read
    <3>5. PICK out \in Seq(Own) : Give("read", out) /\ out # <<>>
      BY <3>3, <3>4, TakeStep
    <3> QED
      BY <3>5 DEF Give
  <2>4. Give("read", <<>>)
    BY <1>3, <2>2, <2>3 DEF Read
  <2>5. got \o <<>> \o <<>> = Content(sent)
    BY <2>2, <2>3, ContentEmpty DEF FlowInv, RawConservation
  <2>6. got \o <<>> = got
    BY <1>1, ConcatEmptySeq
  <2> QED
    BY <2>4, <2>5, <2>6 DEF Give
<1>4. ASSUME NEW n \in Nat \ {0}, PartRead(n)
      PROVE  last'.op # "read" /\ partState' # "InPart"
  <2>1. sent' = sent /\ last'.op = "part_read"
    BY <1>4 DEF PartRead, Take, Give
  <2> SUFFICES ASSUME partState = "InPart", partState' = "InPart"
               PROVE  FALSE
    BY <1>4, <2>1 DEF PartRead
  <2>2. kind = "parts"
    BY DEF FlowInv, StateInv
  <2>3. CASE leftover # <<>>
    <3>1. Take("part_read", leftover, n)
      BY <1>4, <2>3 DEF PartRead
    <3>2. PICK out \in Seq(Own) : Give("part_read", out) /\ out # <<>>
      BY <1>1, <2>3, <3>1, TakeStep
    <3> QED
      BY <3>2 DEF Give
  <2>4. CASE leftover = <<>> /\ IsNext(channel, "data")
    <3>1. Take("part_read", Head(channel).bytes, n)
      BY <1>4, <2>2, <2>4 DEF PartRead
    <3>2. Head(channel).bytes \in Seq(Own) /\ Head(channel).bytes # <<>>
      BY <2>1, <2>4, DataHasBytes
    <3>3. PICK out \in Seq(Own) : Give("part_read", out) /\ out # <<>>
      BY <3>1, <3>2, TakeStep
    <3> QED
      BY <3>3 DEF Give
  <2>5. CASE leftover = <<>> /\ ~IsNext(channel, "data")
    BY <1>4, <2>2, <2>5 DEF PartRead, AfterMark
  <2> QED
    BY <2>3, <2>4, <2>5
<1> QED
  BY <1>2, <1>3, <1>4, LengthType DEF Next

----------------------------------------------------------------------------
(* The invariant holds in every state a worker thread reaches, whatever the
   bodies of its requests and the calls the script makes.  It takes the bytes
   and the cursor together: the bytes are conserved part by part only because
   the cursor knows which items are the part's. *)
THEOREM BodyInvariant == Spec => []BodyInv
<1>1. Init => BodyInv
  <2> SUFFICES ASSUME Init
               PROVE  BodyInv
    OBVIOUS
  <2> USE DEF Init
  <2>1. TypeInv
    BY EmptySeq DEF TypeInv
  <2>2. SentInv /\ StateInv /\ HeadersInv /\ PartInv /\ PartsWhole
    BY DEF SentInv, StateInv, HeadersInv, PartInv, PartsWhole
  <2>3. Ending(channel, sent) /\ LastInv /\ RawConservation
    BY DEF Ending, LastInv, RawConservation
  <2>4. CursorInv
    BY DEF CursorInv, NoPartSkipped
  <2>5. RawItems /\ EmptyReadMeansEnd
    BY DEF RawItems, EmptyReadMeansEnd
  <2> QED
    BY <2>1, <2>2, <2>3, <2>4, <2>5 DEF BodyInv, FlowInv
<1>2. BodyInv /\ [Next]_vars => BodyInv'
  <2> SUFFICES ASSUME BodyInv, [Next]_vars
               PROVE  BodyInv'
    OBVIOUS
  <2>0. FlowInv /\ CursorInv /\ RawItems /\ EmptyReadMeansEnd
    BY DEF BodyInv
  <2>1. ASSUME Next
        PROVE  BodyInv'
    <3>1. RawItems' /\ EmptyReadMeansEnd'
      BY <2>0, <2>1, RawItemsKept, EmptyReadStep, BodyBounds
    <3>2. CASE Recv
      BY <2>0, <3>1, <3>2, BodyBounds, RecvFlow, RecvCursor DEF BodyInv
    <3>3. CASE Finish
      BY <2>0, <3>1, <3>3, FinishFlow, FinishCursor DEF BodyInv
    <3>4. CASE ReadAll
      BY <2>0, <3>1, <3>4, ReadAllFlow, ReadCursor DEF BodyInv
    <3>5. CASE NextPart
      BY <2>0, <3>1, <3>5, NextPartFlow, NextPartCursor DEF BodyInv
    <3>6. CASE PartReadAll
      BY <2>0, <3>1, <3>6, PartReadAllFlow, PartReadAllCursor DEF BodyInv
    <3>7. ASSUME NEW n \in -1 .. MaxRead, Read(Length(n))
          PROVE  BodyInv'
      BY <2>0, <3>1, <3>7, BodyBounds, LengthType, ReadFlow, ReadCursor
         DEF BodyInv
    <3>8. ASSUME NEW n \in -1 .. MaxRead, PartRead(Length(n))
          PROVE  BodyInv'
      BY <2>0, <3>1, <3>8, BodyBounds, LengthType, PartReadFlow,
         PartReadCursor DEF BodyInv
    <3> QED
      BY <2>1, <3>2, <3>3, <3>4, <3>5, <3>6, <3>7, <3>8 DEF Next
  <2>2. CASE UNCHANGED vars
    <3>1. FlowInv'
      <4>1. \A i : Given(i)' = Given(i) /\ PartBytes(i)' = PartBytes(i)
        BY <2>2 DEF vars, Given, PartBytes
      <4>2. Given(Len(headers))' = Given(Len(headers))
        BY <2>2 DEF vars, Given
      <4>3. PartBytes(Last(headers).pos)' = PartBytes(Last(headers).pos)
        BY <2>2 DEF vars, PartBytes
      <4>4. PartInv' /\ PartsWhole'
        BY <2>0, <2>2, <4>1, <4>2, <4>3 DEF vars, FlowInv, PartInv, PartsWhole
      <4>5. TypeInv' /\ SentInv' /\ Ending(channel, sent)'
        BY <2>0, <2>2 DEF vars, FlowInv, TypeInv, SentInv, Own
      <4>6. StateInv' /\ HeadersInv' /\ LastInv' /\ RawConservation'
        BY <2>0, <2>2
           DEF vars, FlowInv, StateInv, HeadersInv, LastInv, RawConservation
      <4> QED
        BY <4>4, <4>5, <4>6 DEF FlowInv
    <3>2. CursorInv'
      BY <2>0, <2>2, CursorStays DEF vars
    <3>3. RawItems' /\ EmptyReadMeansEnd'
      BY <2>0, <2>2 DEF vars, RawItems, EmptyReadMeansEnd
    <3> QED
      BY <3>1, <3>2, <3>3 DEF BodyInv
  <2> QED
    BY <2>1, <2>2
<1> QED
  BY <1>1, <1>2, PTL DEF Spec

(* A raw body reaches PHP whole and in order, however it is chunked and read
   (do_read, do_read_all). *)
THEOREM RawSafety == Spec => []RawConservation
<1>1. BodyInv => RawConservation
  BY DEF BodyInv, FlowInv
<1> QED
  BY <1>1, BodyInvariant, PTL

(* No byte of an earlier request is given for a later one, and none after the
   answer (the resets of do_recv and of the dispatch loop). *)
THEOREM ForeignSafety == Spec => []NoForeignBytes
<1>1. BodyInv => NoForeignBytes
  <2> SUFFICES ASSUME BodyInv
               PROVE  NoForeignBytes
    OBVIOUS
  <2>1. got \in Seq(Own) /\ (kind = "none" => last.bytes = <<>>)
    BY DEF BodyInv, FlowInv, TypeInv, StateInv
  <2>2. \A i \in 1 .. Len(got) : got[i] \in Own
    BY <2>1
  <2>3. \A b \in Own : b[1] = request
    BY DEF Own, BytesAt
  <2> QED
    BY <2>1, <2>2, <2>3 DEF NoForeignBytes
<1> QED
  BY <1>1, BodyInvariant, PTL

(* What PHP has been given of each part is a prefix of the part, and all of it
   once do_part_read or do_part_read_all has reported its end. *)
THEOREM PartsWholeSafety == Spec => []PartsWhole
<1>1. BodyInv => PartsWhole
  BY DEF BodyInv, FlowInv
<1> QED
  BY <1>1, BodyInvariant, PTL

(* Every byte of a multipart body is given under the header of its own part,
   by whatever call. *)
THEOREM PartByteSafety == Spec => []BytesOfCurrentPart
<1>1. BodyInv => BytesOfCurrentPart
  <2> SUFFICES ASSUME BodyInv, kind = "parts", NEW i \in 1 .. Len(last.bytes)
               PROVE  /\ headers # <<>>
                      /\ last.bytes[i][2] \in PartData(Last(headers).pos)
    BY DEF BytesOfCurrentPart
  <2>1. /\ TypeInv /\ SentInv /\ StateInv /\ HeadersInv /\ LastInv
        /\ PartsWhole
    BY DEF BodyInv, FlowInv
  <2>2. PICK g \in Seq(Own), b \in Seq(Own) : g = got /\ b = last.bytes
    BY <2>1 DEF TypeInv
  <2>3. PICK j \in 1 .. Len(g) :
            j = Len(g) - Len(b) + i /\ last.bytes[i] = g[j]
    <3>1. Len(b) <= Len(g) /\ b[i] = g[Len(g) - Len(b) + i]
      BY <2>1, <2>2 DEF LastInv, Ending
    <3>2. Len(g) - Len(b) + i \in 1 .. Len(g)
      BY <2>2, <3>1
    <3> QED
      BY <2>2, <3>1, <3>2
  <2>4. headers # <<>>
    <3>1. g # <<>>
      BY <2>3
    <3> QED
      BY <2>1, <2>2, <3>1 DEF StateInv
  <2>5. PICK n \in Nat : n = Len(headers) /\ n \in 1 .. Len(headers)
    BY <2>1, <2>4 DEF TypeInv
  <2>6. PICK h \in Nat, at \in Nat : h = headers[n].pos /\ at = headers[n].at
    BY <2>1, <2>5, HeaderType
  <2>7. Last(headers) = headers[n]
    BY <2>5 DEF Last
  <2>8. at + Len(b) <= Len(g)
    BY <2>1, <2>2, <2>4, <2>6, <2>7 DEF LastInv
  <2>9. Given(n) = SubSeq(g, at + 1, Len(g))
    BY <2>2, <2>5, <2>6 DEF Given
  <2>10. PICK k \in 1 .. Len(g) - at : k = j - at
    <3>1. PICK x \in Nat, y \in Nat :
              x = Len(g) /\ y = Len(b) /\ at + y <= x /\ j = x - y + i
      BY <2>3, <2>8
    <3>2. j - at \in 1 .. x - at
      BY <2>3, <3>1
    <3> QED
      BY <3>1, <3>2
  <2>11. PICK s \in Seq(Own) : s = Given(n)
    <3>1. SubSeq(g, at + 1, Len(g)) \in Seq(Own)
      BY <2>8
    <3> QED
      BY <2>9, <3>1
  <2>12. Len(s) = Len(g) - at /\ s[k] = g[j]
    <3>1. Len(s) = Len(g) - at
      BY <2>8, <2>9, <2>11
    <3>2. s[k] = g[at + k] /\ at + k = j
      BY <2>8, <2>9, <2>10, <2>11
    <3> QED
      BY <3>1, <3>2
  <2> DEFINE B == BytesAt(request, PartData(h))
  <2>13. PICK all \in Seq(B) : all = PartBytes(h)
    BY <2>1, PartBytesType
  <2>14. IsPrefix(s, all)
    BY <2>1, <2>5, <2>6, <2>11, <2>13 DEF PartsWhole
  <2>15. \A b1 \in B : b1[2] \in PartData(h)
    BY DEF BytesAt
  <2> HIDE DEF B
  <2>16. Len(s) <= Len(all) /\ SubSeq(s, 1, Len(s)) = SubSeq(all, 1, Len(s))
    BY <2>14 DEF IsPrefix
  <2>17. k \in 1 .. Len(s) /\ k \in 1 .. Len(all)
    BY <2>10, <2>12, <2>16
  <2>18. SubSeq(s, 1, Len(s))[k] = s[k] /\ SubSeq(all, 1, Len(s))[k] = all[k]
    BY <2>16, <2>17
  <2>19. all[k] = s[k] /\ all[k] \in B
    BY <2>16, <2>17, <2>18
  <2> QED
    BY <2>3, <2>4, <2>6, <2>7, <2>12, <2>15, <2>19
<1> QED
  BY <1>1, BodyInvariant, PTL

(* do_next_part skips no part of a well-formed stream, read or unread. *)
THEOREM NoPartSkippedSafety == Spec => []NoPartSkipped
<1>1. BodyInv => NoPartSkipped
  BY DEF BodyInv, CursorInv
<1> QED
  BY <1>1, BodyInvariant, PTL

(* A script that reads until it gets "" has read everything: the length passed
   to do_read and do_part_read is never zero. *)
THEOREM EmptyReadSafety == Spec => []EmptyReadMeansEnd
<1>1. BodyInv => EmptyReadMeansEnd
  BY DEF BodyInv
<1> QED
  BY <1>1, BodyInvariant, PTL
============================================================================
