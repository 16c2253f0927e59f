------------------------- MODULE RecordWriteProofs --------------------------
(***************************************************************************)
(* Proofs about RecordWrite: whole records whatever the transport takes of *)
(* them and whoever writes in between, and no alert forgotten.             *)
(***************************************************************************)
EXTENDS RecordWrite, SequenceTheorems, TLAPS

-----------------------------------------------------------------------------
(* The invariants.                                                         *)

Buffers == {"buf", "moved", "init_buf", "alert"}
Rec == [type : Types, from : Nat, to : Nat]
Unit == [rec : Rec, i : Nat]
Write ==
  [buf : BOOLEAN, left : Seq(Unit), wpend_tot : Nat, wpend_buf : {<<>>} \cup Buffers \X Nat,
   wpend_type : Types, wpend_ret : Nat, wnum : Nat, alert_dispatch : BOOLEAN,
   send_alert : Nat, empty_fragment_done : BOOLEAN, wire : Seq(Unit), gone : BOOLEAN]
Frames == [type : {"app", "handshake"}, buf : Buffers, base : Nat, len : Nat, tot : Nat]
Retries == [buf : Buffers, len : Nat \ {0}]
Alerts == [asked : Nat, crossed : SUBSET Nat, replaced : SUBSET Nat]

\* The units that are out or under way, and the records they are of.
Flow(w) == w.wire \o w.left
Recs(s) == {s[k].rec : k \in DOMAIN s}
Under(w, t) == w.left # <<>> /\ w.wpend_type = t

Typed ==
  /\ mode \in Modes /\ hello \in {"none", "write", "read"} /\ shut \in BOOLEAN
  /\ s3 \in Write
  /\ call \in Seq(Frames) /\ Len(call) <= 2
  /\ repeat \in Seq(Retries) /\ Len(repeat) <= 1
  /\ acked \in Nat /\ digested \in Nat
  /\ alerts \in Alerts /\ alerts.crossed \cup alerts.replaced \subseteq 1 .. alerts.asked

\* What is under way has bytes, and returns as many; a waiting alert was asked for.
Sound ==
  /\ s3.left # <<>> => s3.wpend_tot > 0 /\ s3.wpend_ret = s3.wpend_tot
  /\ s3.send_alert <= alerts.asked
  /\ s3.alert_dispatch => s3.send_alert > 0

\* The alert half written is the one in the slot, unless another crossed it.
Shown(w, a) == \E r \in Recs(Flow(w)) : r.type = "alert" /\ r.from = a
Crossing ==
  Under(s3, "alert") => s3.send_alert \in alerts.crossed \/ Shown(s3, s3.send_alert)
AlertsKept ==
  \A a \in 1 .. alerts.asked \ (alerts.crossed \cup alerts.replaced) :
    Shown(s3, a) \/ (s3.alert_dispatch /\ s3.send_alert = a)

-----------------------------------------------------------------------------
Chain(s) ==
  \A k \in DOMAIN s :
    /\ s[k].i > 0 => k > 1 /\ s[k - 1] = [s[k] EXCEPT !.i = @ - 1]
    /\ s[k].i < s[k].rec.to - s[k].rec.from + 1 =>
         k < Len(s) /\ s[k + 1] = [s[k] EXCEPT !.i = @ + 1]

\* No record goes past what its writer was given.
Length == IF "long" \in mode THEN HelloLength ELSE 1
Promised == IF repeat = <<>> THEN acked ELSE acked + repeat[1].len
Announced == IF hello = "write" THEN digested + Length ELSE digested
Bounded ==
  \A r \in Recs(Flow(s3)) :
    /\ r.type = "app" => r.to <= Promised
    /\ r.type = "handshake" => r.to <= Announced
    /\ r.type = "alert" => r.to <= alerts.asked

\* The writes under way: a handshake's message, then the application's.
HelloFrame(f) == f.type = "handshake" /\ f.base = digested /\ f.len = Length
AppFrame(f) ==
  /\ repeat # <<>> /\ ~shut
  /\ f.type = "app" /\ f.base = acked /\ f.len = repeat[1].len

Calls ==
  /\ call # <<>> => s3.wnum = 0
  /\ hello = "read" => call = <<>> /\ s3.left = <<>> /\ s3.wnum = 0
  /\ hello = "none" /\ call # <<>> => Len(call) = 1 /\ AppFrame(call[1])
  /\ hello = "write" /\ call # <<>> => HelloFrame(call[1])
  /\ Len(call) = 2 => hello = "write" /\ AppFrame(call[2])

Owner ==
  /\ Under(s3, "app") => repeat # <<>>
  /\ Under(s3, "handshake") => hello = "write"

\* A handshake's message behind another's record waits for good.
Stuck == hello = "write" /\ s3.left # <<>> /\ s3.wpend_type # "handshake"

\* How far the write under way, or the one to be repeated, has come.
Done == IF call = <<>> THEN s3.wnum ELSE call[1].tot
Pending(t) == IF Under(s3, t) THEN s3.wpend_tot ELSE 0
Reached(n) == \A r \in Recs(Flow(s3)) : r.type = "app" => r.to <= n

\* A write that gave up leaves a record under way, or nothing was out of it.
Zero ==
  /\ call = <<>> /\ s3.left = <<>> /\ ~s3.gone => s3.wnum = 0 \/ (shut /\ "server" \in mode)
  /\ repeat = <<>> /\ hello = "none" => s3.wnum = 0

\* A client only sends an alert to shut down; a server that has shut down does
\* not renegotiate.
Roles ==
  /\ "server" \in mode /\ shut => hello = "none"
  /\ "server" \notin mode /\ s3.alert_dispatch =>
       shut /\ s3.left # <<>> /\ s3.wpend_type # "handshake"
  /\ "server" \notin mode /\ Under(s3, "alert") => shut /\ Done = 0

\* A handshake's message that is not stuck is where its progress says, and the
\* application's write has put nothing out since the last one it was told of.
Shake ==
  hello = "write" /\ ~Stuck =>
    /\ Done < Length /\ Done + Pending("handshake") <= Length
    /\ Len(call) = 2 => call[2].tot = 0
    /\ ~shut => Reached(acked)

\* The application's write is where its progress says.
Reach ==
  /\ hello = "read" /\ ~shut => Reached(acked)
  /\ hello = "none" /\ repeat # <<>> /\ ~shut =>
       /\ Done < repeat[1].len /\ Done + Pending("app") <= repeat[1].len
       /\ Reached(acked + Done + Pending("app"))

Inv == Typed /\ Sound
AlertInv == AlertsKept /\ Crossing
FrameInv ==
  Chain(Flow(s3)) /\ Bounded /\ Calls /\ Owner /\ Zero /\ Roles /\ Shake /\ Reach

-----------------------------------------------------------------------------
(* Sequences of units.                                                     *)

\* The records of two streams put together are those of both.
LEMMA RecsConcat ==
  ASSUME NEW s \in Seq(Unit), NEW t \in Seq(Unit)
  PROVE  /\ s \o t \in Seq(Unit)
         /\ Recs(s \o t) = Recs(s) \cup Recs(t)
  <1> DEFINE n == Len(s)
             m == Len(t)
             c == s \o t
  <1>1. /\ c \in Seq(Unit) /\ Len(c) = n + m
        /\ \A i \in 1 .. n + m : c[i] = IF i <= n THEN s[i] ELSE t[i - n]
    BY ConcatProperties, Zenon
  <1>2. n \in Nat /\ m \in Nat /\ DOMAIN s = 1 .. n /\ DOMAIN t = 1 .. m /\ DOMAIN c = 1 .. n + m
    BY <1>1
  <1> HIDE DEF c, n, m
  <1>3. ASSUME NEW i \in 1 .. n
        PROVE  i \in 1 .. n + m /\ c[i] = s[i]
    BY <1>1, <1>2
  <1>4. ASSUME NEW i \in 1 .. m
        PROVE  n + i \in 1 .. n + m /\ c[n + i] = t[i]
    <2> DEFINE k == n + i
    <2>1. k \in 1 .. n + m /\ ~(k <= n) /\ k - n = i
      BY <1>2
    <2> HIDE DEF k
    <2>2. c[k] = t[i]
      BY <1>1, <2>1
    <2> QED
      BY <2>1, <2>2 DEF k
  <1>5. ASSUME NEW i \in 1 .. n + m
        PROVE  c[i].rec \in Recs(s) \cup Recs(t)
    <2>1. CASE i <= n
      <3>1. i \in 1 .. n
        BY <1>2, <2>1
      <3> QED
        BY <1>2, <1>3, <3>1 DEF Recs
    <2>2. CASE ~(i <= n)
      <3>1. i - n \in 1 .. m /\ c[i] = t[i - n]
        BY <1>1, <1>2, <2>2
      <3> QED
        BY <1>2, <3>1 DEF Recs
    <2> QED
      BY <2>1, <2>2
  <1>6. Recs(c) \subseteq Recs(s) \cup Recs(t)
    BY <1>2, <1>5 DEF Recs
  <1>7. Recs(s) \cup Recs(t) \subseteq Recs(c)
    BY <1>2, <1>3, <1>4 DEF Recs
  <1>8. c \in Seq(Unit)
    BY <1>1
  <1> QED
    BY <1>6, <1>7, <1>8 DEF c

\* Two streams of whole records are one.
LEMMA ChainConcat ==
  ASSUME NEW s \in Seq(Unit), NEW t \in Seq(Unit), Chain(s), Chain(t)
  PROVE  Chain(s \o t)
  <1> DEFINE n == Len(s)
             m == Len(t)
             c == s \o t
  <1>1. /\ c \in Seq(Unit) /\ Len(c) = n + m
        /\ \A i \in 1 .. n + m : c[i] = IF i <= n THEN s[i] ELSE t[i - n]
    BY ConcatProperties, Zenon
  <1>2. n \in Nat /\ m \in Nat /\ DOMAIN s = 1 .. n /\ DOMAIN t = 1 .. m /\ DOMAIN c = 1 .. n + m
    BY <1>1
  <1> SUFFICES ASSUME NEW k \in 1 .. n + m
               PROVE  /\ c[k].i > 0 => k > 1 /\ c[k - 1] = [c[k] EXCEPT !.i = @ - 1]
                      /\ c[k].i < c[k].rec.to - c[k].rec.from + 1 =>
                           k < n + m /\ c[k + 1] = [c[k] EXCEPT !.i = @ + 1]
    BY <1>1, <1>2 DEF Chain
  <1> HIDE DEF c
  <1>3. CASE k <= n
    <2>1. c[k] = s[k] /\ k \in DOMAIN s
      BY <1>1, <1>2, <1>3
    <2>2. ASSUME c[k].i > 0
          PROVE  k > 1 /\ c[k - 1] = [c[k] EXCEPT !.i = @ - 1]
      <3>1. k > 1 /\ s[k - 1] = [c[k] EXCEPT !.i = @ - 1]
        BY <2>1, <2>2 DEF Chain
      <3>2. c[k - 1] = s[k - 1]
        BY <1>1, <1>2, <1>3, <3>1
      <3> QED
        BY <3>1, <3>2
    <2>3. ASSUME c[k].i < c[k].rec.to - c[k].rec.from + 1
          PROVE  k < n + m /\ c[k + 1] = [c[k] EXCEPT !.i = @ + 1]
      <3>1. k < n /\ s[k + 1] = [c[k] EXCEPT !.i = @ + 1]
        BY <2>1, <2>3 DEF Chain
      <3>2. c[k + 1] = s[k + 1] /\ k < n + m
        BY <1>1, <1>2, <1>3, <3>1
      <3> QED
        BY <3>1, <3>2
    <2> QED
      BY <2>2, <2>3
  <1>4. CASE ~(k <= n)
    <2> DEFINE j == k - n
    <2>1. c[k] = t[j] /\ j \in 1 .. m /\ k = j + n
      BY <1>1, <1>2, <1>4
    <2>2. j \in DOMAIN t
      BY <1>2, <2>1
    <2> HIDE DEF j
    <2>3. ASSUME c[k].i > 0
          PROVE  k > 1 /\ c[k - 1] = [c[k] EXCEPT !.i = @ - 1]
      <3>1. j > 1 /\ t[j - 1] = [c[k] EXCEPT !.i = @ - 1]
        BY <2>1, <2>2, <2>3 DEF Chain
      <3>2. k > 1 /\ k - 1 \in 1 .. n + m /\ ~(k - 1 <= n) /\ k - 1 - n = j - 1
        BY <1>2, <2>1, <3>1
      <3>3. c[k - 1] = t[j - 1]
        BY <1>1, <3>2
      <3> QED
        BY <3>1, <3>2, <3>3
    <2>4. ASSUME c[k].i < c[k].rec.to - c[k].rec.from + 1
          PROVE  k < n + m /\ c[k + 1] = [c[k] EXCEPT !.i = @ + 1]
      <3>1. j < m /\ t[j + 1] = [c[k] EXCEPT !.i = @ + 1]
        BY <2>1, <2>2, <2>4 DEF Chain
      <3>2. k < n + m /\ k + 1 \in 1 .. n + m /\ ~(k + 1 <= n) /\ k + 1 - n = j + 1
        BY <1>2, <2>1, <3>1
      <3>3. c[k + 1] = t[j + 1]
        BY <1>1, <3>2
      <3> QED
        BY <3>1, <3>2, <3>3
    <2> QED
      BY <2>3, <2>4
  <1> QED
    BY <1>3, <1>4

\* The units of a record are whole and are its own; an empty fragment has one.
LEMMA UnitsFacts ==
  ASSUME NEW r \in Rec, r.to >= r.from - 1
  PROVE  Units(r) \in Seq(Unit) /\ Units(r) # <<>> /\ Chain(Units(r)) /\ Recs(Units(r)) = {r}
  <1> DEFINE n == r.to - r.from + 2
             u == Units(r)
  <1>1. n \in Nat /\ n >= 1
    BY DEF Rec
  <1>2. u = [k \in 1 .. n |-> [rec |-> r, i |-> k - 1]]
    BY DEF Units
  <1> HIDE DEF u
  <1>3. \A k \in 1 .. n : u[k] = [rec |-> r, i |-> k - 1] /\ u[k] \in Unit
    BY <1>2 DEF Unit
  <1>4. u \in [1 .. n -> Unit]
    BY <1>2, <1>3
  <1>5. u \in Seq(Unit)
    BY <1>1, <1>4, SeqDef, Zenon
  <1>6. Len(u) = n /\ DOMAIN u = 1 .. n
    BY <1>1, <1>2, <1>5
  <1>7. u # <<>>
    BY <1>1, <1>6
  <1>8. Recs(u) = {r}
    <2>1. 1 \in 1 .. n
      BY <1>1
    <2> QED
      BY <1>3, <1>6, <2>1 DEF Recs
  <1>9. Chain(u)
    <2> SUFFICES ASSUME NEW k \in 1 .. n
                 PROVE  /\ u[k].i > 0 => k > 1 /\ u[k - 1] = [u[k] EXCEPT !.i = @ - 1]
                        /\ u[k].i < u[k].rec.to - u[k].rec.from + 1 =>
                             k < n /\ u[k + 1] = [u[k] EXCEPT !.i = @ + 1]
      BY <1>6 DEF Chain
    <2>1. u[k] = [rec |-> r, i |-> k - 1] /\ u[k].i = k - 1 /\ u[k].rec = r
      BY <1>3
    <2>2. ASSUME u[k].i > 0
          PROVE  k > 1 /\ u[k - 1] = [u[k] EXCEPT !.i = @ - 1]
      <3>1. k - 1 \in 1 .. n /\ k > 1
        BY <1>1, <2>1, <2>2
      <3>2. u[k - 1] = [rec |-> r, i |-> (k - 1) - 1]
        BY <1>3, <3>1
      <3> QED
        BY <2>1, <3>1, <3>2
    <2>3. ASSUME u[k].i < u[k].rec.to - u[k].rec.from + 1
          PROVE  k < n /\ u[k + 1] = [u[k] EXCEPT !.i = @ + 1]
      <3>1. r.to \in Nat /\ r.from \in Nat
        BY DEF Rec
      <3>2. k + 1 \in 1 .. n /\ k < n
        BY <2>1, <2>3, <3>1
      <3>3. u[k + 1] = [rec |-> r, i |-> (k + 1) - 1]
        BY <1>3, <3>2
      <3> QED
        BY <2>1, <3>2, <3>3
    <2> QED
      BY <2>2, <2>3
  <1> QED
    BY <1>5, <1>7, <1>8, <1>9 DEF u

LEMMA UnitsAssociate ==
  \A s, a, b \in Seq(Unit) : (s \o a) \o b = s \o (a \o b)
  <1> SUFFICES \A S : \A s, a, b \in Seq(S) : (s \o a) \o b = s \o (a \o b)
    OBVIOUS
  <1> QED
    BY ConcatAssociative

\* Taking units from the front leaves the stream as it is.
LEMMA SplitFacts ==
  ASSUME NEW s \in Seq(Unit), NEW t \in Seq(Unit), NEW k \in 0 .. Len(t)
  PROVE  /\ SubSeq(t, 1, k) \in Seq(Unit) /\ SubSeq(t, k + 1, Len(t)) \in Seq(Unit)
         /\ SubSeq(t, k + 1, Len(t)) = <<>> <=> k = Len(t)
         /\ (s \o SubSeq(t, 1, k)) \o SubSeq(t, k + 1, Len(t)) = s \o t
  <1> DEFINE a == SubSeq(t, 1, k)
             b == SubSeq(t, k + 1, Len(t))
             m == Len(t)
  <1>1. m \in Nat /\ k \in Nat /\ k <= m
    OBVIOUS
  <1>2. a \in Seq(Unit) /\ Len(a) = k /\ \A i \in 1 .. k : a[i] = t[i]
    BY <1>1
  <1>3. b \in Seq(Unit) /\ Len(b) = m - k /\ \A i \in 1 .. m - k : b[i] = t[k + i]
    BY <1>1
  <1> HIDE DEF a, b
  <1>4. (b = <<>> <=> k = m) /\ a \in Seq(Unit) /\ b \in Seq(Unit)
    BY <1>1, <1>2, <1>3
  <1>5. a \o b = t
    <2>1. a \o b \in Seq(Unit) /\ Len(a \o b) = k + (m - k)
          /\ \A i \in 1 .. k + (m - k) : (a \o b)[i] = IF i <= k THEN a[i] ELSE b[i - k]
      <3>1. /\ a \o b \in Seq(Unit) /\ Len(a \o b) = Len(a) + Len(b)
            /\ \A i \in 1 .. Len(a) + Len(b) : (a \o b)[i] = IF i <= Len(a) THEN a[i] ELSE b[i - Len(a)]
        BY <1>4, ConcatProperties, Zenon
      <3> QED
        BY <1>2, <1>3, <3>1
    <2>2. k + (m - k) = m
      BY <1>1
    <2>3. ASSUME NEW i \in 1 .. m
          PROVE  (a \o b)[i] = t[i]
      <3>1. CASE i <= k
        BY <1>1, <1>2, <2>1, <2>2, <3>1
      <3>2. CASE ~(i <= k)
        <4> DEFINE j == i - k
        <4>1. j \in 1 .. m - k /\ k + j = i
          BY <1>1, <3>2
        <4> HIDE DEF j
        <4>2. b[j] = t[i]
          BY <1>3, <4>1
        <4>3. (a \o b)[i] = b[j]
          BY <2>1, <2>2, <3>2 DEF j
        <4> QED
          BY <4>2, <4>3
      <3> QED
        BY <3>1, <3>2
    <2> QED
      BY <2>1, <2>2, <2>3, SeqEqual, Zenon
  <1>6. (s \o a) \o b = s \o (a \o b)
    BY <1>4, UnitsAssociate, Zenon
  <1> QED
    BY <1>2, <1>3, <1>4, <1>5, <1>6 DEF a, b

-----------------------------------------------------------------------------
(* What the writing functions leave behind and return.                     *)

Keys == {<<>>} \cup Buffers \X Nat
Outcomes == [s3 : Write, ret : Int]

\* What is under way returns the bytes it has.
Ready(w) == w.left # <<>> => w.wpend_tot > 0 /\ w.wpend_ret = w.wpend_tot

\* Progress is not touched, a kept buffer stays, what was put out stays as it was.
Grows(w, v) ==
  /\ v.wnum = w.wnum
  /\ w.buf /\ "release" \notin mode => v.buf
  /\ Ready(v)
  /\ Chain(Flow(w)) => Chain(Flow(v))
  /\ Recs(Flow(w)) \subseteq Recs(Flow(v))

\* The alert in the slot is not touched either.
Steady(w, v) == Grows(w, v) /\ v.send_alert = w.send_alert

\* The record under way is the same, or it is out.
SameUnder(w, v) == v.left # <<>> /\ v.wpend_type = w.wpend_type /\ v.wpend_tot = w.wpend_tot
NoneUnder(v) == v.left = <<>>

LEMMA FlowFacts ==
  ASSUME NEW w \in Write
  PROVE  /\ Flow(w) \in Seq(Unit)
         /\ w.left = <<>> => Flow(w) = w.wire
         /\ Recs(Flow(w)) = Recs(w.wire) \cup Recs(w.left)
  <1>1. w.wire \in Seq(Unit) /\ w.left \in Seq(Unit)
    BY DEF Write
  <1>2. w.wire \o <<>> = w.wire
    BY <1>1, ConcatEmptySeq, Zenon
  <1> QED
    BY <1>1, <1>2, RecsConcat DEF Flow

\* The rest of the record under way: it goes out whole, or it stays under way.
LEMMA PendingFacts ==
  ASSUME NEW w \in Write, w.left # <<>>, Ready(w), NEW t, NEW b, NEW n \in Nat,
         NEW o \in ssl3_write_pending(w, t, b, n)
  PROVE  /\ o \in Outcomes /\ Steady(w, o.s3) /\ Flow(o.s3) = Flow(w)
         /\ o.s3.alert_dispatch = w.alert_dispatch /\ o.s3.gone = w.gone
         /\ \/ SameUnder(w, o.s3) /\ o.ret = -1
            \/ NoneUnder(o.s3) /\ o.ret = w.wpend_tot /\ w.wpend_type = t /\ w.wpend_tot <= n
  <1>1. CASE BadRetry(w, t, b, n)
    <2>1. o = Outcome(w, -1)
      BY <1>1 DEF ssl3_write_pending
    <2>2. o.s3 = w /\ o.ret = -1 /\ o \in Outcomes
      BY <2>1 DEF Outcome, Outcomes
    <2> QED
      BY <2>2 DEF Steady, Grows, SameUnder
  <1>2. CASE ~BadRetry(w, t, b, n)
    <2>1. PICK k \in 0 .. Len(w.left) :
            o = Outcome(Taken(w, k), IF k = Len(w.left) THEN w.wpend_ret ELSE -1)
      BY <1>2 DEF ssl3_write_pending
    <2> DEFINE v == Taken(w, k)
    <2>2. o.s3 = v /\ o.ret = (IF k = Len(w.left) THEN w.wpend_ret ELSE -1)
          /\ o = [s3 |-> v, ret |-> o.ret]
      BY <2>1 DEF Outcome
    <2>3. w.wire \in Seq(Unit) /\ w.left \in Seq(Unit)
      BY DEF Write
    <2>4. /\ SubSeq(w.left, 1, k) \in Seq(Unit) /\ SubSeq(w.left, k + 1, Len(w.left)) \in Seq(Unit)
          /\ SubSeq(w.left, k + 1, Len(w.left)) = <<>> <=> k = Len(w.left)
          /\ (w.wire \o SubSeq(w.left, 1, k)) \o SubSeq(w.left, k + 1, Len(w.left)) = w.wire \o w.left
      BY <2>3, SplitFacts
    <2>5. w.wire \o SubSeq(w.left, 1, k) \in Seq(Unit)
      BY <2>3, <2>4, RecsConcat
    <2>6. v = [w EXCEPT !.wire = w.wire \o SubSeq(w.left, 1, k),
                        !.left = SubSeq(w.left, k + 1, Len(w.left)),
                        !.buf = k < Len(w.left) \/ "release" \notin mode]
      BY DEF Taken, Write
    <2> DEFINE x == w.wire \o SubSeq(w.left, 1, k)
               y == SubSeq(w.left, k + 1, Len(w.left))
    <2>7. x \in Seq(Unit) /\ y \in Seq(Unit) /\ x \o y = Flow(w) /\ (y = <<>> <=> k = Len(w.left))
      BY <2>4, <2>5 DEF Flow
    <2>8. v = [w EXCEPT !.wire = x, !.left = y, !.buf = k < Len(w.left) \/ "release" \notin mode]
      BY <2>6
    <2> HIDE DEF v, x, y
    <2>9. /\ v \in Write /\ v.wire = x /\ v.left = y
          /\ v.wpend_tot = w.wpend_tot /\ v.wpend_type = w.wpend_type /\ v.wpend_ret = w.wpend_ret
          /\ v.wnum = w.wnum /\ v.send_alert = w.send_alert
          /\ v.alert_dispatch = w.alert_dispatch /\ v.gone = w.gone
          /\ "release" \notin mode => v.buf
      BY <2>7, <2>8 DEF Write
    <2>10. w.wpend_tot \in Nat /\ w.wpend_ret = w.wpend_tot /\ w.wpend_tot > 0
      BY DEF Write, Ready
    <2>11. o.ret \in Int /\ (k = Len(w.left) => o.ret = w.wpend_tot) /\ (k # Len(w.left) => o.ret = -1)
      BY <2>2, <2>10
    <2>12. o \in Outcomes
      BY <2>2, <2>9, <2>11 DEF Outcomes
    <2>13. Flow(v) = Flow(w)
      BY <2>7, <2>9 DEF Flow
    <2>14. w.wpend_type = t /\ w.wpend_tot <= n
      BY <1>2, <2>10 DEF BadRetry
    <2>15. Ready(v)
      BY <2>9, <2>10 DEF Ready
    <2>16. Steady(w, v)
      BY <2>9, <2>13, <2>15 DEF Steady, Grows
    <2>17. \/ SameUnder(w, v) /\ o.ret = -1
           \/ NoneUnder(v) /\ o.ret = w.wpend_tot
      BY <2>7, <2>9, <2>11 DEF SameUnder, NoneUnder
    <2> QED
      BY <2>2, <2>9, <2>12, <2>13, <2>14, <2>16, <2>17
  <1> QED
    BY <1>1, <1>2

\* What a record built with n bytes from a on adds to the stream.
Added(w, v, t, a, n) ==
  /\ Recs(Flow(v)) \subseteq Recs(Flow(w)) \cup {Record(t, a, a - 1), Record(t, a, a + n - 1)}
  /\ Record(t, a, a + n - 1) \in Recs(Flow(v))

\* A record under way with n bytes of type t, or out.
Begun(v, ret, t, n) == v.left # <<>> /\ v.wpend_type = t /\ v.wpend_tot = n /\ ret = -1
Out(v, ret, n) == v.left = <<>> /\ ret = n

\* A new record: nothing to write, nowhere to build it, or begun, or out.
LEMMA BuiltFacts ==
  ASSUME NEW w \in Write, w.left = <<>>, NEW t \in Types, NEW b \in Keys,
         NEW a \in Nat \ {0}, NEW n \in Nat, NEW o \in Built(w, t, b, a, n)
  PROVE  /\ o \in Outcomes /\ Steady(w, o.s3) /\ o.s3.alert_dispatch = w.alert_dispatch
         /\ \/ n = 0 /\ o.ret = 0 /\ o.s3 = w
            \/ /\ n > 0 /\ ~w.buf /\ o.ret = -1 /\ o.s3.gone /\ NoneUnder(o.s3)
               /\ Recs(Flow(o.s3)) = Recs(Flow(w))
            \/ /\ n > 0 /\ w.buf /\ o.s3.gone = w.gone /\ Added(w, o.s3, t, a, n)
               /\ Begun(o.s3, o.ret, t, n) \/ Out(o.s3, o.ret, n)
  <1>0. w.wire \in Seq(Unit) /\ w.buf \in BOOLEAN /\ Ready(w)
    BY DEF Write, Ready
  <1>1. CASE n = 0
    <2>1. o.s3 = w /\ o.ret = 0 /\ o \in Outcomes
      BY <1>1 DEF Built, Outcome, Outcomes
    <2> QED
      BY <1>0, <1>1, <2>1 DEF Steady, Grows
  <1>2. CASE n # 0 /\ ~w.buf
    <2> DEFINE v == [w EXCEPT !.gone = TRUE]
    <2>1. o.s3 = v /\ o.ret = -1 /\ o = [s3 |-> v, ret |-> -1]
      BY <1>2 DEF Built, Outcome
    <2>2. /\ v \in Write /\ v.gone /\ v.left = w.left /\ v.wire = w.wire /\ v.wnum = w.wnum
          /\ v.send_alert = w.send_alert /\ v.alert_dispatch = w.alert_dispatch
      BY DEF Write
    <2> HIDE DEF v
    <2>3. Flow(v) = Flow(w) /\ Ready(v) /\ o \in Outcomes
      BY <2>1, <2>2 DEF Flow, Ready, Outcomes
    <2>4. Steady(w, v)
      BY <1>2, <2>2, <2>3 DEF Steady, Grows
    <2>5. NoneUnder(v) /\ n > 0
      BY <1>2, <2>2 DEF NoneUnder
    <2> QED
      BY <1>2, <2>1, <2>2, <2>3, <2>4, <2>5
  <1>3. CASE n # 0 /\ w.buf
    <2> DEFINE r == Record(t, a, a + n - 1)
               p == Record(t, a, a - 1)
               q == Prefix(w, t, a)
               l == q \o Units(r)
               v == [w EXCEPT !.left = l, !.wpend_tot = n, !.wpend_buf = b, !.wpend_type = t,
                              !.wpend_ret = n, !.empty_fragment_done = TRUE]
    <2>1. o \in ssl3_write_pending(v, t, b, n)
      BY <1>3 DEF Built
    <2>2. r \in Rec /\ p \in Rec /\ r.to = a + n - 1 /\ r.from = a /\ p.to = a - 1 /\ p.from = a
      BY DEF Record, Rec
    <2>3. r.to >= r.from - 1 /\ p.to >= p.from - 1
      BY <2>2
    <2>4. Units(r) \in Seq(Unit) /\ Units(r) # <<>> /\ Chain(Units(r)) /\ Recs(Units(r)) = {r}
      BY <2>2, <2>3, UnitsFacts
    <2>5. Units(p) \in Seq(Unit) /\ Chain(Units(p)) /\ Recs(Units(p)) = {p}
      BY <2>2, <2>3, UnitsFacts
    <2>6. <<>> \in Seq(Unit) /\ Chain(<<>>) /\ Recs(<<>>) = {}
      BY DEF Chain, Recs
    <2>7. q = Units(p) \/ q = <<>>
      BY DEF Prefix
    <2> HIDE DEF r, p, q
    <2>8. q \in Seq(Unit) /\ Chain(q) /\ Recs(q) \subseteq {p}
      BY <2>5, <2>6, <2>7
    <2>9. l \in Seq(Unit) /\ Recs(l) = Recs(q) \cup {r} /\ Chain(l)
      BY <2>4, <2>8, RecsConcat, ChainConcat
    <2>10. l # <<>>
      BY <2>4, <2>8, ConcatSimplifications
    <2> HIDE DEF l
    <2>11. /\ v \in Write /\ v.left = l /\ v.wpend_tot = n /\ v.wpend_ret = n /\ v.wpend_type = t
           /\ v.wnum = w.wnum /\ v.send_alert = w.send_alert /\ v.buf = w.buf
           /\ v.alert_dispatch = w.alert_dispatch /\ v.gone = w.gone /\ v.wire = w.wire
      BY <2>9 DEF Write, Keys
    <2> HIDE DEF v
    <2>12. Flow(v) = w.wire \o l /\ Flow(w) = w.wire
      BY <2>11, FlowFacts DEF Flow
    <2>13. Recs(Flow(v)) = Recs(Flow(w)) \cup Recs(q) \cup {r}
      BY <1>0, <2>9, <2>12, RecsConcat
    <2>14. Chain(Flow(w)) => Chain(Flow(v))
      BY <1>0, <2>9, <2>12, ChainConcat
    <2>15. Ready(v) /\ n > 0
      BY <1>3, <2>11 DEF Ready
    <2>16. /\ o \in Outcomes /\ Steady(v, o.s3) /\ Flow(o.s3) = Flow(v)
           /\ o.s3.alert_dispatch = v.alert_dispatch /\ o.s3.gone = v.gone
           /\ \/ SameUnder(v, o.s3) /\ o.ret = -1
              \/ NoneUnder(o.s3) /\ o.ret = v.wpend_tot /\ v.wpend_type = t /\ v.wpend_tot <= n
      BY <2>1, <2>10, <2>11, <2>15, PendingFacts
    <2>17. Steady(w, o.s3)
      BY <1>3, <2>11, <2>13, <2>14, <2>16 DEF Steady, Grows
    <2>18. Added(w, o.s3, t, a, n)
      BY <2>8, <2>13, <2>16 DEF Added, r, p
    <2>19. Begun(o.s3, o.ret, t, n) \/ Out(o.s3, o.ret, n)
      BY <2>11, <2>16 DEF SameUnder, NoneUnder, Begun, Out
    <2> QED
      BY <1>3, <2>11, <2>15, <2>16, <2>17, <2>18, <2>19
  <1> QED
    BY <1>1, <1>2, <1>3

\* The records an alert may add, and the one it surely does.
AlertRecord(w) == Record("alert", w.send_alert, w.send_alert)
AlertRecs(w) == {AlertRecord(w), Record("alert", w.send_alert, w.send_alert - 1)}

\* An attempt at the alert that waits: it goes out and the mark goes, or a record
\* stays under way and the mark stays.
LEMMA AlertFacts ==
  ASSUME NEW w \in Write, Ready(w), w.send_alert > 0, NEW o \in ssl3_dispatch_alert(w)
  PROVE  /\ o \in Outcomes /\ Steady(w, o.s3) /\ o.s3.gone = w.gone
         /\ o.s3.alert_dispatch = (o.ret <= 0)
         /\ "release" \notin mode => o.s3.buf
         /\ w.left # <<>> =>
              /\ Recs(Flow(o.s3)) = Recs(Flow(w))
              /\ \/ SameUnder(w, o.s3) /\ o.ret = -1
                 \/ NoneUnder(o.s3) /\ o.ret > 0 /\ w.wpend_type = "alert"
         /\ w.left = <<>> =>
              /\ Recs(Flow(o.s3)) \subseteq Recs(Flow(w)) \cup AlertRecs(w)
              /\ AlertRecord(w) \in Recs(Flow(o.s3))
              /\ Begun(o.s3, o.ret, "alert", 1) \/ Out(o.s3, o.ret, 1)
  <1> DEFINE x == [w EXCEPT !.alert_dispatch = FALSE]
             y == [x EXCEPT !.buf = TRUE]
             s == w.send_alert
             key == <<"alert", 0>>
  <1>1. PICK q \in WriteAlert(x) : o = [q EXCEPT !.s3.alert_dispatch = q.ret <= 0]
    BY DEF ssl3_dispatch_alert
  <1>2. /\ x \in Write /\ x.left = w.left /\ x.send_alert = w.send_alert
        /\ y \in Write /\ y.left = w.left /\ y.wire = w.wire /\ y.buf /\ y.gone = w.gone
        /\ y.wpend_tot = w.wpend_tot /\ y.wpend_ret = w.wpend_ret /\ y.wpend_type = w.wpend_type
        /\ y.wnum = w.wnum /\ y.send_alert = w.send_alert
    BY DEF Write
  <1>3. /\ w.left # <<>> => q \in ssl3_write_pending(y, "alert", key, 1)
        /\ w.left = <<>> => q \in Built(y, "alert", key, s, 1)
    BY <1>2 DEF WriteAlert
  <1>4. key \in Keys /\ s \in Nat \ {0} /\ "alert" \in Types /\ 1 \in Nat
    BY DEF Keys, Buffers, Types, Write
  <1> HIDE DEF x, y, s, key
  <1>5. Ready(y) /\ Flow(y) = Flow(w)
    BY <1>2 DEF Ready, Flow
  <1>6. ASSUME q \in Outcomes, Steady(y, q.s3), q.s3.gone = y.gone
        PROVE  /\ o \in Outcomes /\ Steady(w, o.s3) /\ o.s3.gone = w.gone
               /\ o.s3.alert_dispatch = (o.ret <= 0) /\ o.ret = q.ret
               /\ "release" \notin mode => o.s3.buf
               /\ Flow(o.s3) = Flow(q.s3) /\ o.s3.left = q.s3.left
               /\ o.s3.wpend_type = q.s3.wpend_type /\ o.s3.wpend_tot = q.s3.wpend_tot
    <2> DEFINE v == q.s3
               d == (q.ret <= 0)
               z == [v EXCEPT !.alert_dispatch = d]
    <2>1. v \in Write /\ q.ret \in Int /\ q = [s3 |-> v, ret |-> q.ret]
      BY <1>6 DEF Outcomes
    <2>2. o = [s3 |-> z, ret |-> q.ret]
      BY <1>1, <2>1
    <2>3. d \in BOOLEAN
      OBVIOUS
    <2> HIDE DEF d
    <2>4. /\ z \in Write /\ z.alert_dispatch = d /\ z.left = v.left /\ z.wire = v.wire
          /\ z.wnum = v.wnum /\ z.send_alert = v.send_alert /\ z.buf = v.buf /\ z.gone = v.gone
          /\ z.wpend_tot = v.wpend_tot /\ z.wpend_ret = v.wpend_ret /\ z.wpend_type = v.wpend_type
      BY <2>1, <2>3 DEF Write
    <2> HIDE DEF v, z
    <2>5. o \in Outcomes /\ o.s3 = z /\ o.ret = q.ret
      BY <2>1, <2>2, <2>4 DEF Outcomes
    <2>6. Flow(z) = Flow(v)
      BY <2>4 DEF Flow
    <2>7. Steady(y, v)
      BY <1>6 DEF v
    <2>8. Ready(z)
      BY <2>4, <2>7 DEF Ready, Steady, Grows
    <2>9. Steady(w, z)
      BY <1>2, <1>5, <2>4, <2>6, <2>7, <2>8 DEF Steady, Grows
    <2>10. "release" \notin mode => z.buf
      BY <1>2, <2>4, <2>7 DEF Steady, Grows
    <2> QED
      BY <1>2, <1>6, <2>4, <2>5, <2>6, <2>9, <2>10 DEF v, d
  <1>7. CASE w.left # <<>>
    <2>1. /\ q \in Outcomes /\ Steady(y, q.s3) /\ Flow(q.s3) = Flow(y) /\ q.s3.gone = y.gone
          /\ \/ SameUnder(y, q.s3) /\ q.ret = -1
             \/ NoneUnder(q.s3) /\ q.ret = y.wpend_tot /\ y.wpend_type = "alert" /\ y.wpend_tot <= 1
      BY <1>2, <1>3, <1>4, <1>5, <1>7, PendingFacts
    <2>2. y.wpend_tot > 0
      BY <1>2, <1>5, <1>7 DEF Ready
    <2>3. Recs(Flow(o.s3)) = Recs(Flow(w))
      BY <1>5, <1>6, <2>1
    <2>4. \/ SameUnder(w, o.s3) /\ o.ret = -1
          \/ NoneUnder(o.s3) /\ o.ret > 0 /\ w.wpend_type = "alert"
      BY <1>2, <1>6, <2>1, <2>2 DEF SameUnder, NoneUnder
    <2> QED
      BY <1>6, <1>7, <2>1, <2>3, <2>4
  <1>8. CASE w.left = <<>>
    <2>1. /\ q \in Outcomes /\ Steady(y, q.s3)
          /\ q.s3.gone = y.gone /\ Added(y, q.s3, "alert", s, 1)
          /\ Begun(q.s3, q.ret, "alert", 1) \/ Out(q.s3, q.ret, 1)
      BY <1>2, <1>3, <1>4, <1>8, BuiltFacts
    <2>2. s + 1 - 1 = s
      BY <1>4
    <2>3. /\ Recs(Flow(o.s3)) \subseteq Recs(Flow(w)) \cup AlertRecs(w)
          /\ AlertRecord(w) \in Recs(Flow(o.s3))
      BY <1>5, <1>6, <2>1, <2>2 DEF Added, AlertRecs, AlertRecord, s
    <2>4. Begun(o.s3, o.ret, "alert", 1) \/ Out(o.s3, o.ret, 1)
      BY <1>6, <2>1 DEF Begun, Out
    <2> QED
      BY <1>6, <1>8, <2>1, <2>3, <2>4
  <1> QED
    BY <1>7, <1>8

\* A round with a record under way: it stays, or the writer that began it ends it.
Resumed(w, o, t, n) ==
  /\ w.left # <<>> /\ Recs(Flow(o.s3)) = Recs(Flow(w))
  /\ o.s3.alert_dispatch = w.alert_dispatch /\ o.s3.gone = w.gone
  /\ \/ SameUnder(w, o.s3) /\ o.ret = -1
     \/ NoneUnder(o.s3) /\ o.ret = w.wpend_tot /\ w.wpend_type = t /\ w.wpend_tot <= n

\* A round that does not get past the alert that waits.
Barred(w, o) ==
  /\ w.left = <<>> /\ w.alert_dispatch /\ o.s3.alert_dispatch /\ o.s3.gone = w.gone
  /\ Recs(Flow(o.s3)) \subseteq Recs(Flow(w)) \cup AlertRecs(w)
  /\ AlertRecord(w) \in Recs(Flow(o.s3))
  /\ Begun(o.s3, o.ret, "alert", 1)

\* A round that comes to the record itself, after the alert if one waits.
Alerted(w) == IF w.alert_dispatch THEN AlertRecs(w) ELSE {}
Begins(w, o, t, a, n) ==
  /\ w.left = <<>> /\ ~o.s3.alert_dispatch
  /\ w.alert_dispatch => AlertRecord(w) \in Recs(Flow(o.s3))
  /\ \/ /\ NoneUnder(o.s3) /\ o.ret <= 0 /\ (n = 0 \/ o.s3.gone)
        /\ Recs(Flow(o.s3)) \subseteq Recs(Flow(w)) \cup Alerted(w)
     \/ /\ n > 0 /\ o.s3.gone = w.gone
        /\ Recs(Flow(o.s3)) \subseteq
             Recs(Flow(w)) \cup Alerted(w) \cup {Record(t, a, a - 1), Record(t, a, a + n - 1)}
        /\ Begun(o.s3, o.ret, t, n) \/ Out(o.s3, o.ret, n)

LEMMA WriteFacts ==
  ASSUME NEW w \in Write, Ready(w), w.alert_dispatch => w.send_alert > 0, NEW t \in Types,
         NEW b \in Keys, NEW a \in Nat \ {0}, NEW n \in Nat, NEW o \in do_ssl3_write(w, t, b, a, n)
  PROVE  /\ o \in Outcomes /\ Steady(w, o.s3)
         /\ "release" \notin mode => o.s3.gone = w.gone
         /\ Resumed(w, o, t, n) \/ Barred(w, o) \/ Begins(w, o, t, a, n)
  <1> DEFINE v == [w EXCEPT !.buf = TRUE]
  <1>1. /\ v \in Write /\ v.left = w.left /\ v.wire = w.wire /\ v.buf /\ v.gone = w.gone
        /\ v.wpend_tot = w.wpend_tot /\ v.wpend_ret = w.wpend_ret /\ v.wpend_type = w.wpend_type
        /\ v.wnum = w.wnum /\ v.send_alert = w.send_alert /\ v.alert_dispatch = w.alert_dispatch
    BY DEF Write
  <1>2. /\ v.left # <<>> => o \in ssl3_write_pending(v, t, b, n)
        /\ v.left = <<>> /\ v.alert_dispatch =>
             \E p \in ssl3_dispatch_alert(v) :
               (p.ret <= 0 /\ o = p) \/ (~(p.ret <= 0) /\ o \in Built(p.s3, t, b, a, n))
        /\ v.left = <<>> /\ ~v.alert_dispatch => o \in Built(v, t, b, a, n)
    <2> DEFINE S(p) == IF p.ret <= 0 THEN {p} ELSE Built(p.s3, t, b, a, n)
    <2>1. o \in (IF v.left # <<>> THEN ssl3_write_pending(v, t, b, n)
                 ELSE IF v.alert_dispatch THEN UNION {S(p) : p \in ssl3_dispatch_alert(v)}
                 ELSE Built(v, t, b, a, n))
      BY DEF do_ssl3_write
    <2> HIDE DEF v
    <2>2. ASSUME v.left = <<>>, v.alert_dispatch
          PROVE  \E p \in ssl3_dispatch_alert(v) :
                   (p.ret <= 0 /\ o = p) \/ (~(p.ret <= 0) /\ o \in Built(p.s3, t, b, a, n))
      <3>1. PICK p \in ssl3_dispatch_alert(v) : o \in S(p)
        BY <2>1, <2>2
      <3> QED
        BY <3>1
    <2> QED
      BY <2>1, <2>2
  <1> HIDE DEF v
  <1>3. Ready(v) /\ Flow(v) = Flow(w) /\ AlertRecord(v) = AlertRecord(w) /\ AlertRecs(v) = AlertRecs(w)
    BY <1>1 DEF Ready, Flow, AlertRecord, AlertRecs
  <1>4. ASSUME Steady(v, o.s3)
        PROVE  Steady(w, o.s3)
    BY <1>1, <1>3, <1>4 DEF Steady, Grows
  <1>5. CASE w.left # <<>>
    <2>1. /\ o \in Outcomes /\ Steady(v, o.s3) /\ Flow(o.s3) = Flow(v)
          /\ o.s3.alert_dispatch = v.alert_dispatch /\ o.s3.gone = v.gone
          /\ \/ SameUnder(v, o.s3) /\ o.ret = -1
             \/ NoneUnder(o.s3) /\ o.ret = v.wpend_tot /\ v.wpend_type = t /\ v.wpend_tot <= n
      BY <1>1, <1>2, <1>3, <1>5, PendingFacts
    <2>2. Resumed(w, o, t, n)
      BY <1>1, <1>3, <1>5, <2>1 DEF Resumed, SameUnder
    <2> QED
      BY <1>1, <1>4, <2>1, <2>2
  <1>6. CASE w.left = <<>> /\ ~w.alert_dispatch
    <2>1. /\ o \in Outcomes /\ Steady(v, o.s3) /\ o.s3.alert_dispatch = v.alert_dispatch
          /\ \/ n = 0 /\ o.ret = 0 /\ o.s3 = v
             \/ /\ n > 0 /\ v.buf /\ o.s3.gone = v.gone /\ Added(v, o.s3, t, a, n)
                /\ Begun(o.s3, o.ret, t, n) \/ Out(o.s3, o.ret, n)
      BY <1>1, <1>2, <1>6, BuiltFacts
    <2>2. Begins(w, o, t, a, n)
      BY <1>1, <1>3, <1>6, <2>1 DEF Begins, Added, NoneUnder
    <2>3. o.s3.gone = w.gone
      BY <1>1, <2>1
    <2> QED
      BY <1>4, <2>1, <2>2, <2>3
  <1>7. CASE w.left = <<>> /\ w.alert_dispatch
    <2>1. PICK p \in ssl3_dispatch_alert(v) :
            (p.ret <= 0 /\ o = p) \/ (~(p.ret <= 0) /\ o \in Built(p.s3, t, b, a, n))
      BY <1>1, <1>2, <1>7
    <2>2. /\ p \in Outcomes /\ Steady(v, p.s3) /\ p.s3.gone = v.gone
          /\ p.s3.alert_dispatch = (p.ret <= 0)
          /\ "release" \notin mode => p.s3.buf
          /\ Recs(Flow(p.s3)) \subseteq Recs(Flow(v)) \cup AlertRecs(v)
          /\ AlertRecord(v) \in Recs(Flow(p.s3))
          /\ Begun(p.s3, p.ret, "alert", 1) \/ Out(p.s3, p.ret, 1)
      BY <1>1, <1>3, <1>7, AlertFacts
    <2>3. CASE p.ret <= 0 /\ o = p
      <3>1. Begun(o.s3, o.ret, "alert", 1)
        BY <2>2, <2>3 DEF Out
      <3>2. Barred(w, o)
        BY <1>1, <1>3, <1>7, <2>2, <2>3, <3>1 DEF Barred
      <3> QED
        BY <1>1, <1>4, <2>2, <2>3, <3>2
    <2>4. CASE ~(p.ret <= 0) /\ o \in Built(p.s3, t, b, a, n)
      <3>1. p.s3 \in Write /\ p.s3.left = <<>> /\ ~p.s3.alert_dispatch
        <4>1. ~Begun(p.s3, p.ret, "alert", 1)
          BY <2>4 DEF Begun
        <4>2. p.s3.left = <<>> /\ p.s3 \in Write
          BY <2>2, <4>1 DEF Out, Outcomes
        <4>3. ~p.s3.alert_dispatch
          BY <2>2, <2>4
        <4> QED
          BY <4>2, <4>3
      <3>2. /\ o \in Outcomes /\ Steady(p.s3, o.s3) /\ o.s3.alert_dispatch = p.s3.alert_dispatch
            /\ \/ n = 0 /\ o.ret = 0 /\ o.s3 = p.s3
               \/ /\ n > 0 /\ ~p.s3.buf /\ o.ret = -1 /\ o.s3.gone /\ NoneUnder(o.s3)
                  /\ Recs(Flow(o.s3)) = Recs(Flow(p.s3))
               \/ /\ n > 0 /\ p.s3.buf /\ o.s3.gone = p.s3.gone /\ Added(p.s3, o.s3, t, a, n)
                  /\ Begun(o.s3, o.ret, t, n) \/ Out(o.s3, o.ret, n)
        BY <2>4, <3>1, BuiltFacts
      <3>3. Steady(v, o.s3)
        BY <2>2, <3>2 DEF Steady, Grows
      <3>4. AlertRecord(w) \in Recs(Flow(o.s3))
        BY <1>3, <2>2, <3>2 DEF Steady, Grows
      <3>5. Recs(Flow(p.s3)) \subseteq Recs(Flow(w)) \cup Alerted(w)
        BY <1>3, <1>7, <2>2 DEF Alerted
      <3>6. CASE n = 0 /\ o.ret = 0 /\ o.s3 = p.s3
        <4>1. Begins(w, o, t, a, n)
          BY <1>7, <3>1, <3>4, <3>5, <3>6 DEF Begins, NoneUnder
        <4> QED
          BY <1>1, <1>4, <2>2, <3>2, <3>3, <3>6, <4>1
      <3>7. CASE /\ n > 0 /\ ~p.s3.buf /\ o.ret = -1 /\ o.s3.gone /\ NoneUnder(o.s3)
                 /\ Recs(Flow(o.s3)) = Recs(Flow(p.s3))
        <4>1. Recs(Flow(o.s3)) \subseteq Recs(Flow(w)) \cup Alerted(w)
          BY <3>5, <3>7
        <4>2. ~o.s3.alert_dispatch /\ o.ret <= 0
          BY <3>1, <3>2, <3>7
        <4>3. Begins(w, o, t, a, n)
          BY <1>7, <3>4, <3>7, <4>1, <4>2 DEF Begins
        <4>4. "release" \in mode
          BY <2>2, <3>7
        <4> QED
          BY <1>4, <3>2, <3>3, <4>3, <4>4
      <3>8. CASE /\ n > 0 /\ p.s3.buf /\ o.s3.gone = p.s3.gone /\ Added(p.s3, o.s3, t, a, n)
                 /\ Begun(o.s3, o.ret, t, n) \/ Out(o.s3, o.ret, n)
        <4>1. Begins(w, o, t, a, n)
          BY <1>1, <1>7, <2>2, <3>1, <3>2, <3>4, <3>5, <3>8 DEF Begins, Added
        <4> QED
          BY <1>1, <1>4, <2>2, <3>2, <3>3, <3>8, <4>1
      <3> QED
        BY <3>2, <3>6, <3>7, <3>8
    <2> QED
      BY <2>1, <2>3, <2>4
  <1> QED
    BY <1>5, <1>6, <1>7

-----------------------------------------------------------------------------
(* The steps.                                                              *)

\* Nothing but wnum, or the mark of the empty fragment, differs.
Like(w, v) ==
  /\ v.left = w.left /\ v.wire = w.wire /\ v.wpend_tot = w.wpend_tot
  /\ v.wpend_ret = w.wpend_ret /\ v.wpend_type = w.wpend_type /\ v.buf = w.buf
  /\ v.alert_dispatch = w.alert_dispatch /\ v.send_alert = w.send_alert /\ v.gone = w.gone

LEMMA LikeFacts ==
  ASSUME NEW w \in Write, NEW v, Like(w, v), Ready(w)
  PROVE  /\ Flow(v) = Flow(w) /\ Ready(v) /\ \A t : Under(v, t) <=> Under(w, t)
  BY DEF Like, Flow, Ready, Under

LEMMA ProgressFacts ==
  ASSUME NEW w \in Write, NEW n \in Nat, NEW v, v = [w EXCEPT !.wnum = n]
  PROVE  v \in Write /\ Like(w, v) /\ v.wnum = n
  BY DEF Write, Like

LEMMA DoneFacts ==
  ASSUME NEW w \in Write, NEW v, v = [w EXCEPT !.empty_fragment_done = FALSE]
  PROVE  v \in Write /\ Like(w, v) /\ v.wnum = w.wnum
  BY DEF Write, Like

LEMMA MinFacts ==
  ASSUME NEW a \in Int, NEW b \in Int
  PROVE  Min({a, b}) \in {a, b} /\ Min({a, b}) <= a /\ Min({a, b}) <= b
  <1>1. \E m \in {a, b} : \A y \in {a, b} : m =< y
    <2>1. CASE a <= b
      BY <2>1
    <2>2. CASE ~(a <= b)
      BY <2>2
    <2> QED
      BY <2>1, <2>2
  <1>2. Min({a, b}) \in {a, b} /\ \A y \in {a, b} : Min({a, b}) =< y
    BY <1>1 DEF Min
  <1> QED
    BY <1>2

\* A write that has not gone past its end puts out some of what is left.
LEMMA FragmentFacts ==
  ASSUME NEW f \in Frames
  PROVE  /\ Fragment(f) \in Nat
         /\ f.tot <= f.len => Fragment(f) <= f.len - f.tot
         /\ f.tot < f.len => Fragment(f) > 0
  <1>1. f.tot \in Nat /\ f.len \in Nat /\ MaxFragment \in Nat \ {0}
    BY ConstantAssumption DEF Frames
  <1> DEFINE d == f.len - f.tot
             m == Min({d, MaxFragment})
  <1>2. d \in Int /\ MaxFragment \in Int
    BY <1>1
  <1>3. m \in {d, MaxFragment} /\ m <= d /\ m <= MaxFragment
    BY <1>2, MinFacts
  <1>4. Fragment(f) = IF f.tot > f.len THEN MaxFragment ELSE m
    BY DEF Fragment
  <1> HIDE DEF m
  <1> QED
    BY <1>1, <1>3, <1>4

LEMMA MessageFacts ==
  ASSUME Typed
  PROVE  /\ Message \in Frames /\ Message.len > 0 /\ Message.tot = 0 /\ Message.type = "handshake"
         /\ Message.base = digested
         /\ "long" \notin mode => Message.len = 1
  <1>1. HelloLength \in Nat \ {0} /\ digested \in Nat
    BY ConstantAssumption DEF Typed
  <1> QED
    BY <1>1 DEF Message, Frame, Frames, Types, Buffers

\* One round of ssl3_write_bytes: what do_ssl3_write did, and what becomes of the call.
Round(o) ==
  LET f == call[1]
      n == Fragment(f)
      a == f.base + f.tot + 1 IN
  /\ call # <<>> /\ ~s3.gone /\ f \in Frames /\ a \in Nat \ {0} /\ n \in Nat
  /\ o \in do_ssl3_write(s3, f.type, <<f.buf, f.tot>>, a, n)
  /\ o \in Outcomes /\ Steady(s3, o.s3)
  /\ "release" \notin mode => ~o.s3.gone
  /\ Resumed(s3, o, f.type, n) \/ Barred(s3, o) \/ Begins(s3, o, f.type, a, n)
  /\ \/ o.ret <= 0 /\ GivesUp(f, o.s3)
     \/ o.ret > 0 /\ Whole(f, o.ret) /\ Returns(f, o.s3, f.tot + o.ret)
     \/ /\ o.ret > 0 /\ ~Whole(f, o.ret)
        /\ s3' = o.s3 /\ call' = [call EXCEPT ![1].tot = @ + o.ret]
        /\ UNCHANGED <<repeat, acked, hello, digested>>
  /\ UNCHANGED <<mode, shut, alerts>>

LEMMA RoundFacts ==
  ASSUME Typed, Sound, ssl3_write_bytes
  PROVE  \E o : Round(o)
  <1> DEFINE f == call[1]
             n == Fragment(f)
             a == f.base + f.tot + 1
             b == <<f.buf, f.tot>>
  <1>1. PICK o \in do_ssl3_write(s3, f.type, b, a, n) :
          \/ o.ret <= 0 /\ GivesUp(f, o.s3)
          \/ o.ret > 0 /\ Whole(f, o.ret) /\ Returns(f, o.s3, f.tot + o.ret)
          \/ /\ o.ret > 0 /\ ~Whole(f, o.ret)
             /\ s3' = o.s3 /\ call' = [call EXCEPT ![1].tot = @ + o.ret]
             /\ UNCHANGED <<repeat, acked, hello, digested>>
    BY DEF ssl3_write_bytes
  <1>2. call \in Seq(Frames) /\ call # <<>> /\ ~s3.gone /\ s3 \in Write
    BY DEF Typed, ssl3_write_bytes
  <1>3. f \in Frames
    BY <1>2
  <1>4. n \in Nat
    BY <1>3, FragmentFacts
  <1>5. f.type \in Types /\ a \in Nat \ {0} /\ b \in Keys
    BY <1>3 DEF Frames, Keys, Types
  <1>6. Ready(s3) /\ (s3.alert_dispatch => s3.send_alert > 0)
    BY DEF Sound, Ready
  <1> HIDE DEF f, n, a, b
  <1>7. /\ o \in Outcomes /\ Steady(s3, o.s3)
        /\ "release" \notin mode => o.s3.gone = s3.gone
        /\ Resumed(s3, o, f.type, n) \/ Barred(s3, o) \/ Begins(s3, o, f.type, a, n)
    BY <1>2, <1>4, <1>5, <1>6, WriteFacts
  <1>8. UNCHANGED <<mode, shut, alerts>>
    BY DEF ssl3_write_bytes
  <1>9. Round(o)
    BY <1>1, <1>2, <1>3, <1>4, <1>5, <1>7, <1>8 DEF Round, f, n, a, b
  <1> QED
    BY <1>9

\* An alert asked for: it is put out if nothing is under way, and marked if not.
Asks ==
  LET a == alerts.asked + 1 IN
  /\ s3' \in Write /\ Grows(s3, s3') /\ s3'.gone = s3.gone /\ s3'.send_alert = a
  /\ alerts' \in Alerts /\ alerts'.asked = a
  /\ alerts'.crossed = IF Under(s3, "alert") THEN alerts.crossed \cup {a} ELSE alerts.crossed
  /\ alerts'.replaced =
       IF s3.alert_dispatch THEN alerts.replaced \cup {s3.send_alert} ELSE alerts.replaced
  /\ s3.left # <<>> =>
       SameUnder(s3, s3') /\ s3'.alert_dispatch /\ Recs(Flow(s3')) = Recs(Flow(s3))
  /\ s3.left = <<>> =>
       /\ Recs(Flow(s3')) \subseteq Recs(Flow(s3)) \cup {Record("alert", a, a), Record("alert", a, a - 1)}
       /\ Record("alert", a, a) \in Recs(Flow(s3'))
       /\ \/ Under(s3', "alert") /\ s3'.alert_dispatch
          \/ NoneUnder(s3') /\ ~s3'.alert_dispatch

LEMMA AskFacts ==
  ASSUME Typed, Sound, ssl3_send_alert
  PROVE  Asks
  <1> DEFINE a == alerts.asked + 1
             w == [s3 EXCEPT !.alert_dispatch = TRUE, !.send_alert = a]
             c == IF s3.left # <<>> /\ s3.wpend_type = "alert"
                  THEN alerts.crossed \cup {a} ELSE alerts.crossed
             p == IF s3.alert_dispatch
                  THEN alerts.replaced \cup {s3.send_alert} ELSE alerts.replaced
  <1>1. s3 \in Write /\ alerts \in Alerts /\ alerts.asked \in Nat
    BY DEF Typed, Alerts
  <1>2. a \in Nat /\ a > 0
    BY <1>1
  <1>3. /\ alerts' = [asked |-> a, crossed |-> c, replaced |-> p]
        /\ s3.left # <<>> => s3' = w
        /\ s3.left = <<>> => \E o \in ssl3_dispatch_alert(w) : s3' = o.s3
    BY DEF ssl3_send_alert
  <1> HIDE DEF a
  <1>4. /\ w \in Write /\ w.left = s3.left /\ w.wire = s3.wire /\ w.buf = s3.buf /\ w.gone = s3.gone
        /\ w.wpend_tot = s3.wpend_tot /\ w.wpend_ret = s3.wpend_ret /\ w.wpend_type = s3.wpend_type
        /\ w.wnum = s3.wnum /\ w.send_alert = a /\ w.alert_dispatch
    BY <1>1, <1>2 DEF Write
  <1>5. c \in SUBSET Nat /\ p \in SUBSET Nat
    <2>1. alerts.crossed \in SUBSET Nat /\ alerts.replaced \in SUBSET Nat /\ s3.send_alert \in Nat
      BY <1>1 DEF Alerts, Write
    <2> QED
      BY <1>2, <2>1
  <1>6. c = IF Under(s3, "alert") THEN alerts.crossed \cup {a} ELSE alerts.crossed
    BY DEF Under
  <1> HIDE DEF w, c
  <1>7. alerts' \in Alerts /\ alerts'.asked = a /\ alerts'.crossed = c /\ alerts'.replaced = p
    BY <1>2, <1>3, <1>5 DEF Alerts
  <1> HIDE DEF p
  <1>8. Ready(w) /\ Flow(w) = Flow(s3)
    BY <1>4 DEF Ready, Flow, Sound
  <1>9. CASE s3.left # <<>>
    <2>1. s3' = w
      BY <1>3, <1>9
    <2>2. Grows(s3, s3')
      BY <1>4, <1>8, <2>1 DEF Grows
    <2>3. SameUnder(s3, s3') /\ s3'.alert_dispatch /\ Recs(Flow(s3')) = Recs(Flow(s3))
      BY <1>4, <1>8, <1>9, <2>1 DEF SameUnder
    <2> QED
      BY <1>4, <1>6, <1>7, <1>9, <2>1, <2>2, <2>3 DEF Asks, a, p
  <1>10. CASE s3.left = <<>>
    <2>1. PICK o \in ssl3_dispatch_alert(w) : s3' = o.s3
      BY <1>3, <1>10
    <2>2. w.left = <<>> /\ w.send_alert > 0
      BY <1>2, <1>4, <1>10
    <2>3. /\ o \in Outcomes /\ Steady(w, o.s3) /\ o.s3.gone = w.gone
          /\ o.s3.alert_dispatch = (o.ret <= 0)
          /\ Recs(Flow(o.s3)) \subseteq Recs(Flow(w)) \cup AlertRecs(w)
          /\ AlertRecord(w) \in Recs(Flow(o.s3))
          /\ Begun(o.s3, o.ret, "alert", 1) \/ Out(o.s3, o.ret, 1)
      BY <1>4, <1>8, <2>2, AlertFacts
    <2>4. s3' \in Write /\ s3'.gone = s3.gone
      BY <1>4, <2>1, <2>3 DEF Outcomes
    <2>5. Grows(s3, s3') /\ s3'.send_alert = a
      BY <1>4, <1>8, <2>1, <2>3 DEF Steady, Grows
    <2>6. /\ Recs(Flow(s3')) \subseteq Recs(Flow(s3)) \cup {Record("alert", a, a), Record("alert", a, a - 1)}
          /\ Record("alert", a, a) \in Recs(Flow(s3'))
      BY <1>4, <1>8, <2>1, <2>3 DEF AlertRecs, AlertRecord
    <2>7. CASE Begun(o.s3, o.ret, "alert", 1)
      <3>1. o.ret <= 0 /\ Under(s3', "alert")
        BY <2>1, <2>7 DEF Begun, Under
      <3>2. s3'.alert_dispatch
        BY <2>1, <2>3, <3>1
      <3> QED
        BY <1>6, <1>7, <1>10, <2>4, <2>5, <2>6, <3>1, <3>2 DEF Asks, a, p
    <2>8. CASE Out(o.s3, o.ret, 1)
      <3>1. ~(o.ret <= 0) /\ NoneUnder(s3')
        BY <2>1, <2>8 DEF Out, NoneUnder
      <3>2. ~s3'.alert_dispatch
        BY <2>1, <2>3, <3>1
      <3> QED
        BY <1>6, <1>7, <1>10, <2>4, <2>5, <2>6, <3>1, <3>2 DEF Asks, a, p
    <2> QED
      BY <2>3, <2>7, <2>8
  <1> QED
    BY <1>9, <1>10

\* SSL_shutdown called again goes on with the alert that waits.
Again ==
  /\ s3.alert_dispatch /\ shut /\ s3' \in Write /\ Steady(s3, s3') /\ s3'.gone = s3.gone
  /\ s3.left # <<>> =>
       /\ Recs(Flow(s3')) = Recs(Flow(s3))
       /\ \/ SameUnder(s3, s3') /\ s3'.alert_dispatch
          \/ NoneUnder(s3') /\ ~s3'.alert_dispatch /\ s3.wpend_type = "alert"
  /\ s3.left = <<>> =>
       /\ Recs(Flow(s3')) \subseteq Recs(Flow(s3)) \cup AlertRecs(s3)
       /\ AlertRecord(s3) \in Recs(Flow(s3'))
       /\ \/ Under(s3', "alert") /\ s3'.alert_dispatch
          \/ NoneUnder(s3') /\ ~s3'.alert_dispatch

LEMMA AgainFacts ==
  ASSUME Typed, Sound, s3.alert_dispatch, shut, NEW o \in ssl3_dispatch_alert(s3), s3' = o.s3
  PROVE  Again
  <1>1. s3 \in Write /\ Ready(s3) /\ s3.send_alert > 0
    BY DEF Typed, Sound, Ready
  <1>2. /\ o \in Outcomes /\ Steady(s3, s3') /\ s3'.gone = s3.gone
        /\ s3'.alert_dispatch = (o.ret <= 0)
        /\ s3.left # <<>> =>
             /\ Recs(Flow(s3')) = Recs(Flow(s3))
             /\ \/ SameUnder(s3, s3') /\ o.ret = -1
                \/ NoneUnder(s3') /\ o.ret > 0 /\ s3.wpend_type = "alert"
        /\ s3.left = <<>> =>
             /\ Recs(Flow(s3')) \subseteq Recs(Flow(s3)) \cup AlertRecs(s3)
             /\ AlertRecord(s3) \in Recs(Flow(s3'))
             /\ Begun(s3', o.ret, "alert", 1) \/ Out(s3', o.ret, 1)
    BY <1>1, AlertFacts
  <1>3. s3' \in Write
    BY <1>2 DEF Outcomes
  <1>4. (o.ret = -1 => o.ret <= 0) /\ (o.ret > 0 => ~(o.ret <= 0)) /\ (o.ret = 1 => ~(o.ret <= 0))
    BY <1>2 DEF Outcomes
  <1>5. s3'.alert_dispatch <=> o.ret <= 0
    BY <1>2
  <1> QED
    BY <1>2, <1>3, <1>4, <1>5 DEF Again, Begun, Out, Under, NoneUnder

\* The reading side or SSL_shutdown ask for an alert, or SSL_shutdown goes on with it.
Asking ==
  /\ ssl3_send_alert /\ Asks /\ Idle /\ hello = "none"
  /\ ("server" \in mode /\ shut' = shut) \/ (~shut /\ shut')
  /\ UNCHANGED <<mode, call, repeat, acked, hello, digested>>
GoingOn ==
  /\ Again /\ Idle /\ hello = "none"
  /\ \E o \in ssl3_dispatch_alert(s3) : s3' = o.s3
  /\ UNCHANGED <<mode, call, repeat, acked, hello, digested, shut, alerts>>

LEMMA NextFacts ==
  ASSUME Typed, Sound, [Next]_vars
  PROVE  \/ \E b \in {"buf", "moved"}, len \in 1 .. MaxData : SSL_write(b, len)
         \/ handshake_func
         \/ \E o : Round(o)
         \/ Asking
         \/ GoingOn
         \/ renegotiate
         \/ handshake_done
         \/ UNCHANGED vars
  <1>1. CASE Application
    BY <1>1 DEF Application
  <1>2. CASE ssl3_write_bytes
    BY <1>2, RoundFacts
  <1>3. CASE refuse_renegotiation
    <2>1. ssl3_send_alert
      BY <1>3 DEF refuse_renegotiation
    <2>2. Asks
      BY <2>1, AskFacts
    <2> QED
      BY <1>3, <2>2 DEF refuse_renegotiation, Asking
  <1>4. CASE SSL_shutdown
    <2>1. CASE ~shut /\ shut' = TRUE /\ ssl3_send_alert
      <3>1. Asks
        BY <2>1, AskFacts
      <3> QED
        BY <1>4, <2>1, <3>1 DEF SSL_shutdown, Asking
    <2>2. CASE /\ shut /\ s3.alert_dispatch
               /\ \E o \in ssl3_dispatch_alert(s3) : s3' = o.s3
               /\ UNCHANGED <<shut, alerts>>
      <3>1. Again
        BY <2>2, AgainFacts
      <3> QED
        BY <1>4, <2>2, <3>1 DEF SSL_shutdown, GoingOn
    <2> QED
      BY <1>4, <2>1, <2>2 DEF SSL_shutdown
  <1> QED
    BY <1>1, <1>2, <1>3, <1>4 DEF Next

-----------------------------------------------------------------------------
(* Types.                                                                  *)

LEMMA InitInv ==
  ASSUME Init
  PROVE  Inv
  <1>1. s3 = Fresh /\ alerts = [asked |-> 0, crossed |-> {}, replaced |-> {}]
    BY DEF Init
  <1>2. <<>> \in Seq(Unit) /\ <<>> \in Seq(Frames) /\ <<>> \in Seq(Retries) /\ Len(<<>>) = 0
    BY EmptySeq
  <1>3. s3 \in Write /\ s3.left = <<>> /\ s3.send_alert = 0 /\ ~s3.alert_dispatch
    BY <1>1, <1>2 DEF Fresh, Write, Types
  <1>4. alerts \in Alerts /\ alerts.asked = 0 /\ alerts.crossed = {} /\ alerts.replaced = {}
    BY <1>1 DEF Alerts
  <1>5. Typed
    <2>1. /\ mode \in Modes /\ hello = "none" /\ shut = FALSE
          /\ call = <<>> /\ repeat = <<>> /\ acked = 0 /\ digested = 0
      BY DEF Init
    <2>2. call \in Seq(Frames) /\ Len(call) <= 2 /\ repeat \in Seq(Retries) /\ Len(repeat) <= 1
      BY <1>2, <2>1
    <2> QED
      BY <1>3, <1>4, <2>1, <2>2 DEF Typed
  <1>6. Sound
    BY <1>3, <1>4 DEF Sound
  <1> QED
    BY <1>5, <1>6 DEF Inv

\* The frames a call of SSL_write begins with.
LEMMA BeginFacts ==
  ASSUME Typed, NEW b \in {"buf", "moved"}, NEW len \in Nat
  PROVE  LET f == Frame("app", b, acked, len, s3.wnum) IN
         /\ f \in Frames /\ Begin(b, len) \in Seq(Frames) /\ Len(Begin(b, len)) <= 2
         /\ hello = "none" => Begin(b, len) = <<f>>
         /\ hello = "write" => Begin(b, len) = <<Message, f>>
         /\ hello = "read" => Begin(b, len) = <<>>
  <1> DEFINE f == Frame("app", b, acked, len, s3.wnum)
  <1>1. acked \in Nat /\ s3.wnum \in Nat /\ hello \in {"none", "write", "read"}
    BY DEF Typed, Write
  <1>2. f \in Frames
    BY <1>1 DEF Frame, Frames, Types, Buffers
  <1>3. Message \in Frames
    BY MessageFacts
  <1>4. /\ hello = "none" => Begin(b, len) = <<f>>
        /\ hello = "write" => Begin(b, len) = <<Message, f>>
        /\ hello = "read" => Begin(b, len) = <<>>
    BY <1>1 DEF Begin
  <1> HIDE DEF f
  <1>5. /\ <<f>> \in Seq(Frames) /\ Len(<<f>>) = 1
        /\ <<Message, f>> \in Seq(Frames) /\ Len(<<Message, f>>) = 2
        /\ <<>> \in Seq(Frames) /\ Len(<<>>) = 0
    BY <1>2, <1>3
  <1>6. Begin(b, len) \in Seq(Frames) /\ Len(Begin(b, len)) <= 2
    <2>1. CASE hello = "none"
      <3>1. Begin(b, len) = <<f>>
        BY <1>4, <2>1
      <3>2. 1 <= 2
        OBVIOUS
      <3> QED
        BY <1>5, <3>1, <3>2, Zenon
    <2>2. CASE hello = "write"
      <3>1. Begin(b, len) = <<Message, f>>
        BY <1>4, <2>2
      <3>2. 2 <= 2
        OBVIOUS
      <3> QED
        BY <1>5, <3>1, <3>2, Zenon
    <2>3. CASE hello = "read"
      BY <1>4, <1>5, <2>3
    <2> QED
      BY <1>1, <2>1, <2>2, <2>3
  <1> QED
    BY <1>2, <1>4, <1>6 DEF f

LEMMA SSL_write_Inv ==
  ASSUME Inv, NEW b \in {"buf", "moved"}, NEW len \in 1 .. MaxData, SSL_write(b, len)
  PROVE  Inv'
  <1>1. Typed /\ Sound /\ len \in Nat \ {0}
    BY ConstantAssumption DEF Inv
  <1>2. /\ s3' = [s3 EXCEPT !.wnum = 0] /\ repeat' = <<[buf |-> b, len |-> len]>>
        /\ call' = Begin(b, len)
        /\ UNCHANGED <<mode, acked, hello, digested, shut, alerts>>
    BY DEF SSL_write
  <1>3. s3 \in Write /\ Ready(s3)
    BY <1>1 DEF Typed, Sound, Ready
  <1>4. s3' \in Write /\ Like(s3, s3')
    BY <1>2, <1>3, ProgressFacts
  <1>5. call' \in Seq(Frames) /\ Len(call') <= 2
    BY <1>1, <1>2, BeginFacts
  <1>6. repeat' \in Seq(Retries) /\ Len(repeat') <= 1
    <2>1. [buf |-> b, len |-> len] \in Retries
      BY <1>1 DEF Retries, Buffers
    <2> QED
      BY <1>2, <2>1
  <1>7. Typed'
    BY <1>1, <1>2, <1>4, <1>5, <1>6 DEF Typed
  <1>8. Sound'
    BY <1>1, <1>2, <1>4 DEF Sound, Like
  <1> QED
    BY <1>7, <1>8 DEF Inv

LEMMA handshake_func_Inv ==
  ASSUME Inv, handshake_func
  PROVE  Inv'
  <1>1. Typed /\ Sound
    BY DEF Inv
  <1>2. /\ s3' = [s3 EXCEPT !.wnum = 0] /\ call' = <<[Message EXCEPT !.tot = s3.wnum]>>
        /\ UNCHANGED <<mode, repeat, acked, hello, digested, shut, alerts>>
    BY DEF handshake_func
  <1>3. s3 \in Write /\ Ready(s3) /\ s3.wnum \in Nat
    BY <1>1 DEF Typed, Sound, Ready, Write
  <1>4. s3' \in Write /\ Like(s3, s3')
    BY <1>2, <1>3, ProgressFacts
  <1>5. call' \in Seq(Frames) /\ Len(call') <= 2
    <2>1. Message \in Frames
      BY <1>1, MessageFacts
    <2>2. [Message EXCEPT !.tot = s3.wnum] \in Frames
      BY <1>3, <2>1 DEF Frames
    <2> QED
      BY <1>2, <2>2
  <1>6. Typed'
    BY <1>1, <1>2, <1>4, <1>5 DEF Typed
  <1>7. Sound'
    BY <1>1, <1>2, <1>4 DEF Sound, Like
  <1> QED
    BY <1>6, <1>7 DEF Inv

\* What a round leaves in s3 is what do_ssl3_write left, but for wnum or the
\* empty fragment's mark.
LEMMA RoundLike ==
  ASSUME Typed, NEW o, Round(o)
  PROVE  s3' \in Write /\ Like(o.s3, s3') /\ o.ret \in Int /\ o.s3 \in Write
  <1> DEFINE f == call[1]
  <1>1. o.s3 \in Write /\ o.ret \in Int
    BY DEF Round, Outcomes
  <1>2. f.tot \in Nat
    BY DEF Round, Frames
  <1>3. CASE GivesUp(f, o.s3)
    BY <1>1, <1>2, <1>3, ProgressFacts DEF GivesUp
  <1>4. CASE Returns(f, o.s3, f.tot + o.ret)
    BY <1>1, <1>4, DoneFacts DEF Returns
  <1>5. CASE s3' = o.s3
    BY <1>1, <1>5 DEF Like
  <1> QED
    BY <1>1, <1>3, <1>4, <1>5 DEF Round

LEMMA Round_Inv ==
  ASSUME Inv, NEW o, Round(o)
  PROVE  Inv'
  <1> DEFINE f == call[1]
  <1>1. Typed /\ Sound
    BY DEF Inv
  <1>2. /\ call # <<>> /\ f \in Frames
        /\ o \in Outcomes /\ Steady(s3, o.s3)
        /\ Resumed(s3, o, f.type, Fragment(f)) \/ Barred(s3, o)
           \/ Begins(s3, o, f.type, f.base + f.tot + 1, Fragment(f))
        /\ \/ o.ret <= 0 /\ GivesUp(f, o.s3)
           \/ o.ret > 0 /\ Whole(f, o.ret) /\ Returns(f, o.s3, f.tot + o.ret)
           \/ /\ o.ret > 0 /\ ~Whole(f, o.ret)
              /\ s3' = o.s3 /\ call' = [call EXCEPT ![1].tot = @ + o.ret]
              /\ UNCHANGED <<repeat, acked, hello, digested>>
        /\ UNCHANGED <<mode, shut, alerts>>
    BY DEF Round
  <1>3. s3' \in Write /\ Like(o.s3, s3') /\ o.ret \in Int
    BY <1>1, RoundLike
  <1>4. f.tot \in Nat /\ call \in Seq(Frames) /\ Len(call) \in 1 .. 2 /\ acked \in Nat /\ digested \in Nat
    <2>1. call \in Seq(Frames) /\ Len(call) <= 2 /\ acked \in Nat /\ digested \in Nat
      BY <1>1 DEF Typed
    <2>2. Len(call) \in Nat \ {0}
      BY <1>2, <2>1, EmptySeq
    <2>3. Len(call) \in 1 .. 2
      <3> DEFINE n == Len(call)
      <3>1. n \in Nat \ {0} /\ n <= 2
        BY <2>1, <2>2, Zenon
      <3> HIDE DEF n
      <3>2. n \in 1 .. 2
        BY <3>1
      <3> QED
        BY <3>2 DEF n
    <2>4. f.tot \in Nat
      BY <1>2 DEF Frames
    <2> QED
      BY <2>1, <2>3, <2>4, Zenon
  <1>5. Sound'
    <2>1. Ready(o.s3) /\ o.s3.send_alert = s3.send_alert
      BY <1>2 DEF Steady, Grows
    <2>2. o.s3.alert_dispatch => s3.alert_dispatch
      BY <1>2 DEF Resumed, Barred, Begins
    <2> QED
      BY <1>1, <1>2, <1>3, <2>1, <2>2 DEF Sound, Ready, Like
  <1>6. CASE o.ret <= 0 /\ GivesUp(f, o.s3)
    <2>1. call' = <<>> /\ UNCHANGED <<repeat, acked, hello, digested>>
      BY <1>6 DEF GivesUp
    <2>2. Typed'
      BY <1>1, <1>2, <1>3, <2>1 DEF Typed
    <2> QED
      BY <1>5, <2>2 DEF Inv
  <1>7. CASE o.ret > 0 /\ Whole(f, o.ret) /\ Returns(f, o.s3, f.tot + o.ret)
    <2> DEFINE r == f.tot + o.ret
    <2>1. r \in Nat
      BY <1>3, <1>4, <1>7
    <2> HIDE DEF r
    <2>2. Returns(f, o.s3, r)
      BY <1>7 DEF r
    <2>3. acked + r \in Nat /\ digested + r \in Nat
      BY <1>4, <2>1
    <2>4. acked' \in Nat /\ digested' \in Nat /\ hello' \in {"none", "write", "read"}
          /\ repeat' \in Seq(Retries) /\ Len(repeat') <= 1
      <3>1. hello \in {"none", "write", "read"} /\ repeat \in Seq(Retries) /\ Len(repeat) <= 1
        BY <1>1 DEF Typed
      <3>2. <<>> \in Seq(Retries) /\ Len(<<>>) = 0
        BY EmptySeq
      <3>3. CASE f.type = "app"
        <4>1. acked' = acked + r /\ repeat' = <<>> /\ hello' = hello /\ digested' = digested
          BY <2>2, <3>3 DEF Returns
        <4> QED
          BY <1>4, <2>3, <3>1, <3>2, <4>1
      <3>4. CASE f.type # "app"
        <4>1. acked' = acked /\ repeat' = repeat /\ hello' \in {"read", "none"} /\ digested' = digested + r
          BY <2>2, <3>4 DEF Returns
        <4> QED
          BY <1>4, <2>3, <3>1, <4>1
      <3> QED
        BY <3>3, <3>4
    <2>5. call' = <<>> \/ call' = Tail(call)
      BY <2>2 DEF Returns
    <2>6. call' \in Seq(Frames) /\ Len(call') <= 2
      <3>1. CASE call' = <<>>
        BY <3>1, EmptySeq
      <3>2. CASE call' = Tail(call)
        <4>1. Tail(call) \in Seq(Frames) /\ Len(Tail(call)) = Len(call) - 1
          BY <1>2, <1>4, HeadTailProperties
        <4> QED
          BY <1>4, <3>2, <4>1
      <3> QED
        BY <2>5, <3>1, <3>2
    <2>7. Typed'
      BY <1>1, <1>2, <1>3, <2>4, <2>6 DEF Typed
    <2> QED
      BY <1>5, <2>7 DEF Inv
  <1>8. CASE /\ o.ret > 0 /\ ~Whole(f, o.ret)
             /\ s3' = o.s3 /\ call' = [call EXCEPT ![1].tot = @ + o.ret]
             /\ UNCHANGED <<repeat, acked, hello, digested>>
    <2> DEFINE r == f.tot + o.ret
               g == [f EXCEPT !.tot = r]
    <2>1. r \in Nat
      BY <1>3, <1>4, <1>8
    <2>2. call' = [call EXCEPT ![1] = g]
      BY <1>4, <1>8
    <2> HIDE DEF r
    <2>3. g \in Frames
      BY <1>2, <2>1 DEF Frames
    <2> HIDE DEF g
    <2>4. 1 \in 1 .. Len(call)
      BY <1>4
    <2>5. call' \in Seq(Frames) /\ Len(call') = Len(call)
      BY <1>4, <2>2, <2>3, <2>4, ExceptSeq
    <2>6. Typed'
      BY <1>1, <1>2, <1>3, <1>8, <2>5 DEF Typed
    <2> QED
      BY <1>5, <2>6 DEF Inv
  <1> QED
    BY <1>2, <1>6, <1>7, <1>8

LEMMA Asking_Inv ==
  ASSUME Inv, Asking
  PROVE  Inv'
  <1> DEFINE a == alerts.asked + 1
  <1>1. Typed /\ Sound /\ alerts.asked \in Nat
    BY DEF Inv, Typed, Alerts
  <1>2. /\ s3' \in Write /\ Ready(s3') /\ s3'.send_alert = a
        /\ alerts' \in Alerts /\ alerts'.asked = a
        /\ alerts'.crossed \subseteq alerts.crossed \cup {a}
        /\ alerts'.replaced \subseteq alerts.replaced \cup (IF s3.alert_dispatch THEN {s3.send_alert} ELSE {})
        /\ UNCHANGED <<mode, call, repeat, acked, hello, digested>> /\ shut' \in BOOLEAN
    BY <1>1 DEF Asking, Asks, Grows, Typed
  <1>3. alerts'.crossed \cup alerts'.replaced \subseteq 1 .. a
    <2>1. s3.alert_dispatch => s3.send_alert \in 1 .. alerts.asked
      BY <1>1 DEF Sound, Typed, Write
    <2>2. alerts.crossed \cup alerts.replaced \subseteq 1 .. alerts.asked
      BY <1>1 DEF Typed
    <2>3. a \in 1 .. a /\ 1 .. alerts.asked \subseteq 1 .. a
      BY <1>1
    <2> QED
      BY <1>2, <2>1, <2>2, <2>3
  <1>4. Typed'
    BY <1>1, <1>2, <1>3 DEF Typed
  <1>5. Sound'
    <2>1. a <= a /\ a > 0
      BY <1>1
    <2> QED
      BY <1>2, <2>1 DEF Sound, Ready
  <1> QED
    BY <1>4, <1>5 DEF Inv

LEMMA GoingOn_Inv ==
  ASSUME Inv, GoingOn
  PROVE  Inv'
  <1>1. Typed /\ Sound
    BY DEF Inv
  <1>2. /\ s3' \in Write /\ Ready(s3') /\ s3'.send_alert = s3.send_alert /\ s3.alert_dispatch
        /\ UNCHANGED <<mode, call, repeat, acked, hello, digested, shut, alerts>>
    BY DEF GoingOn, Again, Steady, Grows
  <1>3. Typed'
    BY <1>1, <1>2 DEF Typed
  <1>4. Sound'
    BY <1>1, <1>2 DEF Sound, Ready
  <1> QED
    BY <1>3, <1>4 DEF Inv

LEMMA NextInv ==
  ASSUME Inv, [Next]_vars
  PROVE  Inv'
  <1>1. Typed /\ Sound
    BY DEF Inv
  <1>2. CASE renegotiate
    BY <1>2 DEF Inv, Typed, Sound, renegotiate
  <1>3. CASE handshake_done
    BY <1>3 DEF Inv, Typed, Sound, handshake_done
  <1>4. CASE UNCHANGED vars
    BY <1>4 DEF Inv, Typed, Sound, vars
  <1> QED
    BY <1>1, <1>2, <1>3, <1>4, NextFacts, SSL_write_Inv, handshake_func_Inv, Round_Inv,
       Asking_Inv, GoingOn_Inv

LEMMA InvTypeOK ==
  ASSUME Inv
  PROVE  TypeOK
  <1>1. Typed /\ Sound /\ s3 \in Write
    BY DEF Inv, Typed
  <1>2. Sent \in Seq(Unit)
    BY <1>1, FlowFacts DEF Sent, Flow
  <1>3. ASSUME NEW k \in DOMAIN Sent
        PROVE  Sent[k].rec.type \in Types /\ {Sent[k].rec.from, Sent[k].rec.to, Sent[k].i} \subseteq Nat
    <2>1. Sent[k] \in Unit
      BY <1>2, <1>3
    <2> QED
      BY <2>1 DEF Unit, Rec
  <1>4. ASSUME NEW k \in DOMAIN call
        PROVE  call[k].type \in Types /\ call[k].tot \in Nat
    <2>1. call[k] \in Frames
      BY <1>1, <1>4 DEF Typed
    <2> QED
      BY <2>1 DEF Frames, Types
  <1>5. /\ {s3.buf, s3.alert_dispatch, s3.empty_fragment_done, s3.gone, shut} \subseteq BOOLEAN
        /\ {s3.wpend_tot, s3.wpend_ret, s3.wnum, s3.send_alert, acked, digested, alerts.asked}
             \subseteq Nat
        /\ s3.wpend_type \in Types
    BY <1>1 DEF Typed, Write, Alerts
  <1> QED
    BY <1>1, <1>3, <1>4, <1>5 DEF TypeOK, Typed

\* Every field has its type, the records put out are of a type and of numbered
\* bytes, and an alert that was crossed or replaced was asked for: ssl/s3_pkt.c keeps
\* its progress, its pending record and its alert in range whatever the transport takes.
THEOREM TypeCorrect == Spec => []TypeOK
  <1>1. Init => Inv
    BY InitInv
  <1>2. Inv /\ [Next]_vars => Inv'
    BY NextInv
  <1>3. Inv => TypeOK
    BY InvTypeOK
  <1> QED
    BY <1>1, <1>2, <1>3, PTL DEF Spec

-----------------------------------------------------------------------------
(* Buffers that stay.                                                      *)

\* Without SSL_MODE_RELEASE_BUFFERS there is always a buffer to build a record in:
\* the write in ssl/s3_pkt.c that finds none needs that mode.
THEOREM Buffered ==
  ASSUME \A m \in Modes : "release" \notin m
  PROVE  Spec => []BufferHeld
  <1> DEFINE J == Inv /\ ~s3.gone
  <1>1. Init => J
    <2>1. Init => ~s3.gone
      BY DEF Init, Fresh
    <2> QED
      BY <2>1, InitInv
  <1>2. J /\ [Next]_vars => J'
    <2> SUFFICES ASSUME J, [Next]_vars
                 PROVE  ~s3'.gone
      BY NextInv
    <2>1. Typed /\ Sound /\ "release" \notin mode /\ s3 \in Write
      BY DEF Inv, Typed
    <2>2. ASSUME NEW n \in Nat, s3' = [s3 EXCEPT !.wnum = n]
          PROVE  ~s3'.gone
      BY <2>1, <2>2, ProgressFacts DEF Like
    <2>3. CASE \E b \in {"buf", "moved"}, len \in 1 .. MaxData : SSL_write(b, len)
      BY <2>2, <2>3 DEF SSL_write
    <2>4. CASE handshake_func
      BY <2>2, <2>4 DEF handshake_func
    <2>5. ASSUME NEW o, Round(o)
          PROVE  ~s3'.gone
      <3>1. ~o.s3.gone
        BY <2>1, <2>5 DEF Round
      <3> QED
        BY <2>1, <2>5, <3>1, RoundLike DEF Like
    <2>6. CASE Asking \/ GoingOn
      BY <2>6 DEF Asking, Asks, GoingOn, Again
    <2>7. CASE renegotiate \/ handshake_done \/ UNCHANGED vars
      BY <2>7 DEF renegotiate, handshake_done, vars
    <2> QED
      BY <2>1, <2>3, <2>4, <2>5, <2>6, <2>7, NextFacts
  <1>3. J => BufferHeld
    BY DEF BufferHeld
  <1> QED
    BY <1>1, <1>2, <1>3, PTL DEF Spec

-----------------------------------------------------------------------------
(* Alerts.                                                                 *)

LEMMA ShownFacts ==
  ASSUME NEW w, NEW v, NEW a
  PROVE  /\ Recs(Flow(w)) \subseteq Recs(Flow(v)) /\ Shown(w, a) => Shown(v, a)
         /\ Record("alert", a, a) \in Recs(Flow(v)) => Shown(v, a)
  BY DEF Shown, Record

\* A step that asks for no alert: the mark goes only from an alert that is out or
\* was crossed, and an alert gets under way only from the slot.
LEMMA AlertStep ==
  ASSUME AlertInv, alerts' = alerts, s3'.send_alert = s3.send_alert,
         Recs(Flow(s3)) \subseteq Recs(Flow(s3')),
         s3.alert_dispatch =>
           \/ s3'.alert_dispatch
           \/ Shown(s3', s3.send_alert)
           \/ s3.send_alert \in alerts.crossed,
         Under(s3', "alert") => Under(s3, "alert") \/ Shown(s3', s3.send_alert)
  PROVE  AlertInv'
  <1>1. ASSUME NEW a, Shown(s3, a)
        PROVE  Shown(s3', a)
    BY <1>1, ShownFacts
  <1>2. AlertsKept'
    <2> SUFFICES ASSUME NEW a \in 1 .. alerts.asked \ (alerts.crossed \cup alerts.replaced)
                 PROVE  Shown(s3', a) \/ (s3'.alert_dispatch /\ s3'.send_alert = a)
      BY DEF AlertsKept
    <2> QED
      BY <1>1 DEF AlertInv, AlertsKept
  <1>3. Crossing'
    <2> SUFFICES ASSUME Under(s3', "alert")
                 PROVE  s3'.send_alert \in alerts.crossed \/ Shown(s3', s3'.send_alert)
      BY DEF Crossing
    <2> QED
      BY <1>1 DEF AlertInv, Crossing
  <1> QED
    BY <1>2, <1>3 DEF AlertInv

LEMMA LikeAlerts ==
  ASSUME Inv, AlertInv, alerts' = alerts, Like(s3, s3')
  PROVE  AlertInv'
  <1>1. s3 \in Write /\ Ready(s3)
    BY DEF Inv, Typed, Sound, Ready
  <1>2. Flow(s3') = Flow(s3) /\ (Under(s3', "alert") => Under(s3, "alert"))
    BY <1>1, LikeFacts
  <1> QED
    BY <1>2, AlertStep DEF Like

LEMMA Round_Alerts ==
  ASSUME Inv, AlertInv, NEW o, Round(o)
  PROVE  AlertInv'
  <1> DEFINE f == call[1]
             n == Fragment(f)
             a == f.base + f.tot + 1
  <1>1. Typed /\ Like(o.s3, s3') /\ o.s3 \in Write
    BY RoundLike DEF Inv
  <1>2. /\ f.type # "alert" /\ Steady(s3, o.s3) /\ alerts' = alerts
        /\ Resumed(s3, o, f.type, n) \/ Barred(s3, o) \/ Begins(s3, o, f.type, a, n)
    BY DEF Round, Frames
  <1> HIDE DEF f, n, a
  <1>3. Ready(o.s3) /\ o.s3.send_alert = s3.send_alert /\ Recs(Flow(s3)) \subseteq Recs(Flow(o.s3))
    BY <1>2 DEF Steady, Grows
  <1>4. Flow(s3') = Flow(o.s3) /\ (Under(s3', "alert") <=> Under(o.s3, "alert"))
        /\ s3'.alert_dispatch = o.s3.alert_dispatch /\ s3'.send_alert = s3.send_alert
    BY <1>1, <1>3, LikeFacts DEF Like
  <1>5. AlertRecord(s3) \in Recs(Flow(o.s3)) => Shown(s3', s3.send_alert)
    BY <1>4, ShownFacts DEF AlertRecord
  <1>6. CASE Resumed(s3, o, f.type, n)
    <2>1. Under(o.s3, "alert") => Under(s3, "alert")
      BY <1>6 DEF Resumed, SameUnder, NoneUnder, Under
    <2>2. s3.alert_dispatch => s3'.alert_dispatch
      BY <1>4, <1>6 DEF Resumed
    <2> QED
      BY <1>2, <1>3, <1>4, <2>1, <2>2, AlertStep
  <1>7. CASE Barred(s3, o)
    <2>1. s3'.alert_dispatch /\ Shown(s3', s3.send_alert)
      BY <1>4, <1>5, <1>7 DEF Barred
    <2> QED
      BY <1>2, <1>3, <1>4, <2>1, AlertStep
  <1>8. CASE Begins(s3, o, f.type, a, n)
    <2>1. s3.alert_dispatch => Shown(s3', s3.send_alert)
      BY <1>5, <1>8 DEF Begins
    <2>2. ~Under(s3', "alert")
      BY <1>2, <1>4, <1>8 DEF Begins, NoneUnder, Begun, Out, Under
    <2> QED
      BY <1>2, <1>3, <1>4, <2>1, <2>2, AlertStep
  <1> QED
    BY <1>2, <1>6, <1>7, <1>8

LEMMA Asking_Alerts ==
  ASSUME Inv, AlertInv, Asking
  PROVE  AlertInv'
  <1> DEFINE a == alerts.asked + 1
  <1>1. /\ Recs(Flow(s3)) \subseteq Recs(Flow(s3')) /\ s3'.send_alert = a /\ alerts'.asked = a
        /\ alerts'.crossed = IF Under(s3, "alert") THEN alerts.crossed \cup {a} ELSE alerts.crossed
        /\ alerts'.replaced =
             IF s3.alert_dispatch THEN alerts.replaced \cup {s3.send_alert} ELSE alerts.replaced
    BY DEF Asking, Asks, Grows
  <1>2. /\ s3.left # <<>> => SameUnder(s3, s3') /\ s3'.alert_dispatch
        /\ s3.left = <<>> => Record("alert", a, a) \in Recs(Flow(s3'))
    BY DEF Asking, Asks
  <1>3. alerts.asked \in Nat
    BY DEF Inv, Typed, Alerts
  <1>4. 1 .. a \subseteq 1 .. alerts.asked \cup {a}
    BY <1>3
  <1> HIDE DEF a
  <1>5. s3.left = <<>> => Shown(s3', a)
    BY <1>2, ShownFacts
  <1>6. AlertsKept'
    <2> SUFFICES ASSUME NEW b \in 1 .. a \ (alerts'.crossed \cup alerts'.replaced)
                 PROVE  Shown(s3', b) \/ (s3'.alert_dispatch /\ s3'.send_alert = b)
      BY <1>1 DEF AlertsKept
    <2>1. CASE b = a
      BY <1>1, <1>2, <1>5, <2>1
    <2>2. CASE b # a
      <3>1. b \in 1 .. alerts.asked \ (alerts.crossed \cup alerts.replaced)
        BY <1>1, <1>4, <2>2
      <3>2. Shown(s3, b) \/ (s3.alert_dispatch /\ s3.send_alert = b)
        BY <3>1 DEF AlertInv, AlertsKept
      <3>3. ~(s3.alert_dispatch /\ s3.send_alert = b)
        BY <1>1
      <3> QED
        BY <1>1, <3>2, <3>3, ShownFacts
    <2> QED
      BY <2>1, <2>2
  <1>7. Crossing'
    <2>1. CASE s3.left # <<>>
      <3>1. Under(s3', "alert") => Under(s3, "alert")
        BY <1>2, <2>1 DEF SameUnder, Under
      <3> QED
        BY <1>1, <3>1 DEF Crossing
    <2>2. CASE s3.left = <<>>
      BY <1>1, <1>5, <2>2 DEF Crossing
    <2> QED
      BY <2>1, <2>2
  <1> QED
    BY <1>6, <1>7 DEF AlertInv

LEMMA GoingOn_Alerts ==
  ASSUME Inv, AlertInv, GoingOn
  PROVE  AlertInv'
  <1>1. /\ Recs(Flow(s3)) \subseteq Recs(Flow(s3')) /\ s3'.send_alert = s3.send_alert
        /\ alerts' = alerts
    BY DEF GoingOn, Again, Steady, Grows
  <1>2. CASE s3.left # <<>>
    <2>1. \/ SameUnder(s3, s3') /\ s3'.alert_dispatch
          \/ NoneUnder(s3') /\ Under(s3, "alert")
      BY <1>2 DEF GoingOn, Again, Under
    <2>2. CASE SameUnder(s3, s3') /\ s3'.alert_dispatch
      <3>1. Under(s3', "alert") => Under(s3, "alert")
        BY <1>2, <2>2 DEF SameUnder, Under
      <3> QED
        BY <1>1, <2>2, <3>1, AlertStep
    <2>3. CASE NoneUnder(s3') /\ Under(s3, "alert")
      <3>1. s3.send_alert \in alerts.crossed \/ Shown(s3, s3.send_alert)
        BY <2>3 DEF AlertInv, Crossing
      <3>2. s3.send_alert \in alerts.crossed \/ Shown(s3', s3.send_alert)
        BY <1>1, <3>1, ShownFacts
      <3> QED
        BY <1>1, <2>3, <3>2, AlertStep
    <2> QED
      BY <2>1, <2>2, <2>3
  <1>3. CASE s3.left = <<>>
    <2>1. Shown(s3', s3.send_alert)
      BY <1>3, ShownFacts DEF GoingOn, Again, AlertRecord
    <2> QED
      BY <1>1, <2>1, AlertStep
  <1> QED
    BY <1>2, <1>3

LEMMA NextAlerts ==
  ASSUME Inv, AlertInv, [Next]_vars
  PROVE  AlertInv'
  <1>1. Typed /\ Sound /\ s3 \in Write /\ s3.wnum \in Nat
    BY DEF Inv, Typed, Write
  <1>2. CASE \E b \in {"buf", "moved"}, len \in 1 .. MaxData : SSL_write(b, len)
    <2>1. alerts' = alerts /\ Like(s3, s3')
      BY <1>1, <1>2, ProgressFacts DEF SSL_write
    <2> QED
      BY <2>1, LikeAlerts
  <1>3. CASE handshake_func
    <2>1. alerts' = alerts /\ Like(s3, s3')
      BY <1>1, <1>3, ProgressFacts DEF handshake_func
    <2> QED
      BY <2>1, LikeAlerts
  <1>4. CASE renegotiate \/ handshake_done \/ UNCHANGED vars
    <2>1. alerts' = alerts /\ s3' = s3
      BY <1>4 DEF renegotiate, handshake_done, vars
    <2>2. Like(s3, s3')
      BY <2>1 DEF Like
    <2> QED
      BY <2>1, <2>2, LikeAlerts
  <1> QED
    BY <1>1, <1>2, <1>3, <1>4, NextFacts, Round_Alerts, Asking_Alerts, GoingOn_Alerts

\* An alert asked for is out, on its way or still marked, unless it was asked for
\* while another was half written or replaced while it waited: ssl3_send_alert and
\* ssl3_dispatch_alert lose none otherwise, however the transport takes the records.
THEOREM AlertsStay == Spec => []AlertKept
  <1>1. Init => Inv /\ AlertInv
    <2> SUFFICES ASSUME Init
                 PROVE  AlertInv
      BY InitInv
    <2>1. alerts.asked = 0 /\ s3.left = <<>>
      BY DEF Init, Fresh
    <2> QED
      BY <2>1 DEF AlertInv, AlertsKept, Crossing, Under
  <1>2. Inv /\ AlertInv /\ [Next]_vars => (Inv /\ AlertInv)'
    BY NextInv, NextAlerts
  <1>3. Inv /\ AlertInv => AlertKept
    <2> SUFFICES ASSUME AlertInv,
                        NEW a \in 1 .. alerts.asked \ (alerts.crossed \cup alerts.replaced)
                 PROVE  \/ \E k \in DOMAIN Sent : Sent[k].rec.type = "alert" /\ Sent[k].rec.from = a
                        \/ s3.alert_dispatch /\ s3.send_alert = a
      BY DEF AlertKept
    <2>1. Shown(s3, a) \/ (s3.alert_dispatch /\ s3.send_alert = a)
      BY DEF AlertInv, AlertsKept
    <2>2. CASE Shown(s3, a)
      <3>1. PICK k \in DOMAIN Sent : Sent[k].rec.type = "alert" /\ Sent[k].rec.from = a
        BY <2>2 DEF Shown, Recs, Flow, Sent
      <3> QED
        BY <3>1
    <2> QED
      BY <2>1, <2>2
  <1> QED
    BY <1>1, <1>2, <1>3, PTL DEF Spec

-----------------------------------------------------------------------------
(* Framing.                                                                *)

LEMMA RecsTyped ==
  ASSUME NEW w \in Write
  PROVE  Recs(Flow(w)) \subseteq Rec
  <1>1. Flow(w) \in Seq(Unit)
    BY FlowFacts
  <1>2. ASSUME NEW k \in DOMAIN Flow(w)
        PROVE  Flow(w)[k].rec \in Rec
    <2>1. Flow(w)[k] \in Unit
      BY <1>1, <1>2
    <2> QED
      BY <2>1 DEF Unit
  <1> QED
    BY <1>2 DEF Recs

LEMMA TypedFacts ==
  ASSUME Inv
  PROVE  /\ s3 \in Write /\ Ready(s3) /\ s3.wnum \in Nat /\ s3.wpend_tot \in Nat
         /\ acked \in Nat /\ digested \in Nat /\ Length \in Nat \ {0} /\ alerts.asked \in Nat
         /\ s3.send_alert \in Nat /\ s3.send_alert <= alerts.asked
         /\ hello \in {"none", "write", "read"} /\ s3.wpend_type \in Types
         /\ repeat # <<>> => repeat[1].len \in Nat \ {0}
         /\ call \in Seq(Frames) /\ Len(call) <= 2
         /\ \A t : Pending(t) \in Nat
         /\ Done \in Nat
         /\ Recs(Flow(s3)) \subseteq Rec
  <1>1. Typed /\ Sound /\ s3 \in Write
    BY DEF Inv, Typed
  <1>2. /\ Ready(s3) /\ s3.wnum \in Nat /\ s3.wpend_tot \in Nat /\ s3.send_alert \in Nat
        /\ s3.wpend_type \in Types /\ s3.send_alert <= alerts.asked
    BY <1>1 DEF Sound, Ready, Write
  <1>3. /\ acked \in Nat /\ digested \in Nat /\ hello \in {"none", "write", "read"}
        /\ call \in Seq(Frames) /\ Len(call) <= 2 /\ alerts.asked \in Nat
    BY <1>1 DEF Typed, Alerts
  <1>4. Length \in Nat \ {0}
    BY ConstantAssumption DEF Length
  <1>5. ASSUME repeat # <<>>
        PROVE  repeat[1].len \in Nat \ {0}
    <2>1. repeat \in Seq(Retries)
      BY <1>1 DEF Typed
    <2>2. repeat[1] \in Retries
      BY <1>5, <2>1
    <2> QED
      BY <2>2 DEF Retries
  <1>6. \A t : Pending(t) \in Nat
    BY <1>2 DEF Pending
  <1>7. Done \in Nat
    <2>1. call # <<>> => call[1] \in Frames
      BY <1>3
    <2> QED
      BY <1>2, <2>1 DEF Done, Frames
  <1>8. Recs(Flow(s3)) \subseteq Rec
    BY <1>1, RecsTyped
  <1> QED
    BY <1>1, <1>2, <1>3, <1>4, <1>5, <1>6, <1>7, <1>8

\* What is under way of a type, in the record layer v.
Held(v, t) == IF Under(v, t) THEN v.wpend_tot ELSE 0

\* A round of a write that has bytes left: k of them go out or under way, or an
\* alert does, or another's record stays where it is.
Wrote(v, ret, f, k) ==
  /\ k \in Nat /\ Pending(f.type) <= k /\ f.tot + k <= f.len
  /\ \A r \in Recs(Flow(v)) :
       \/ r \in Recs(Flow(s3))
       \/ r.type = f.type /\ r.to <= f.base + f.tot + k
       \/ r.type = "alert" /\ r.to <= alerts.asked
  /\ v.alert_dispatch => s3.alert_dispatch
  /\ \/ ret > 0 /\ ret = k /\ NoneUnder(v)
     \/ ret <= 0 /\ v.gone /\ NoneUnder(v) /\ k = 0
     \/ /\ ret <= 0 /\ v.left # <<>> /\ k = Held(v, f.type)
        /\ \/ v.wpend_type = f.type
           \/ v.wpend_type = "alert" /\ s3.left = <<>> /\ s3.alert_dispatch
           \/ s3.left # <<>> /\ v.wpend_type = s3.wpend_type

LEMMA WroteFacts ==
  ASSUME Inv, NEW o, Round(o), call[1].tot < call[1].len,
         call[1].tot + Pending(call[1].type) <= call[1].len
  PROVE  \E k : Wrote(o.s3, o.ret, call[1], k)
  <1> DEFINE f == call[1]
             n == Fragment(f)
             a == f.base + f.tot + 1
             p == Pending(f.type)
             v == o.s3
  <1>1. /\ f \in Frames /\ o \in Outcomes
        /\ Resumed(s3, o, f.type, n) \/ Barred(s3, o) \/ Begins(s3, o, f.type, a, n)
    BY DEF Round
  <1>2. n \in Nat /\ n > 0 /\ n <= f.len - f.tot
    BY <1>1, FragmentFacts DEF Frames
  <1>3. f.tot \in Nat /\ f.len \in Nat /\ f.base \in Nat /\ f.type \in {"app", "handshake"}
    BY <1>1 DEF Frames
  <1>4. /\ p \in Nat /\ s3.send_alert \in Nat /\ s3.send_alert <= alerts.asked /\ Ready(s3)
        /\ s3.wpend_tot \in Nat /\ alerts.asked \in Nat /\ f.tot + p <= f.len
    BY TypedFacts
  <1>5. p = IF Under(s3, f.type) THEN s3.wpend_tot ELSE 0
    BY DEF Pending
  <1> HIDE DEF f, n, p
  <1>6. \A r \in AlertRecs(s3) : r.type = "alert" /\ r.to <= alerts.asked
    BY <1>4 DEF AlertRecs, AlertRecord, Record
  <1>7. CASE Resumed(s3, o, f.type, n)
    <2>1. s3.left # <<>> /\ Recs(Flow(v)) = Recs(Flow(s3)) /\ v.alert_dispatch = s3.alert_dispatch
      BY <1>7 DEF Resumed
    <2>2. CASE SameUnder(s3, v) /\ o.ret = -1
      <3>1. Held(v, f.type) = p /\ v.left # <<>> /\ v.wpend_type = s3.wpend_type /\ o.ret <= 0
        BY <1>5, <2>1, <2>2 DEF SameUnder, Held, Under
      <3>2. p <= p
        BY <1>4
      <3>3. Wrote(v, o.ret, f, p)
        BY <1>4, <2>1, <3>1, <3>2 DEF Wrote, p
      <3> QED
        BY <3>3 DEF f
    <2>3. CASE NoneUnder(v) /\ o.ret = s3.wpend_tot /\ s3.wpend_type = f.type /\ s3.wpend_tot <= n
      <3>1. p = o.ret /\ o.ret > 0 /\ p <= p
        BY <1>4, <1>5, <2>1, <2>3 DEF Under, Ready
      <3>2. Wrote(v, o.ret, f, p)
        BY <1>4, <2>1, <2>3, <3>1 DEF Wrote, p
      <3> QED
        BY <3>2 DEF f
    <2> QED
      BY <1>7, <2>2, <2>3 DEF Resumed
  <1>8. CASE Barred(s3, o)
    <2>1. /\ s3.left = <<>> /\ s3.alert_dispatch /\ v.left # <<>> /\ v.wpend_type = "alert"
          /\ Recs(Flow(v)) \subseteq Recs(Flow(s3)) \cup AlertRecs(s3) /\ o.ret <= 0
      BY <1>8 DEF Barred, Begun
    <2>2. p = 0 /\ Held(v, f.type) = 0
      BY <1>3, <1>5, <2>1 DEF Under, Held
    <2>3. \A r \in Recs(Flow(v)) :
            r \in Recs(Flow(s3)) \/ (r.type = "alert" /\ r.to <= alerts.asked)
      BY <1>6, <2>1
    <2>4. 0 \in Nat /\ p <= 0 /\ f.tot + 0 <= f.len
      BY <1>4, <2>2
    <2>5. Wrote(v, o.ret, f, 0)
      BY <2>1, <2>2, <2>3, <2>4 DEF Wrote, p
    <2> QED
      BY <2>5 DEF f
  <1>9. CASE Begins(s3, o, f.type, a, n)
    <2>1. s3.left = <<>> /\ ~v.alert_dispatch /\ p = 0
      BY <1>5, <1>9 DEF Begins, Under
    <2>2. Alerted(s3) \subseteq AlertRecs(s3)
      BY DEF Alerted
    <2>3. CASE /\ NoneUnder(v) /\ o.ret <= 0 /\ (n = 0 \/ v.gone)
               /\ Recs(Flow(v)) \subseteq Recs(Flow(s3)) \cup Alerted(s3)
      <3>1. v.gone
        BY <1>2, <2>3
      <3>2. \A r \in Recs(Flow(v)) :
              r \in Recs(Flow(s3)) \/ (r.type = "alert" /\ r.to <= alerts.asked)
        BY <1>6, <2>2, <2>3
      <3>3. 0 \in Nat /\ p <= 0 /\ f.tot + 0 <= f.len
        BY <1>4, <2>1
      <3>4. Wrote(v, o.ret, f, 0)
        BY <2>1, <2>3, <3>1, <3>2, <3>3 DEF Wrote, p
      <3> QED
        BY <3>4 DEF f
    <2>4. CASE /\ n > 0 /\ v.gone = s3.gone
               /\ Recs(Flow(v)) \subseteq
                    Recs(Flow(s3)) \cup Alerted(s3)
                      \cup {Record(f.type, a, a - 1), Record(f.type, a, a + n - 1)}
               /\ Begun(v, o.ret, f.type, n) \/ Out(v, o.ret, n)
      <3>1. a - 1 <= f.base + f.tot + n /\ a + n - 1 <= f.base + f.tot + n
        BY <1>2, <1>3
      <3> HIDE DEF a
      <3>2. \A r \in {Record(f.type, a, a - 1), Record(f.type, a, a + n - 1)} :
              r.type = f.type /\ r.to <= f.base + f.tot + n
        BY <3>1 DEF Record
      <3>3. \A r \in Recs(Flow(v)) :
              \/ r \in Recs(Flow(s3))
              \/ r.type = f.type /\ r.to <= f.base + f.tot + n
              \/ r.type = "alert" /\ r.to <= alerts.asked
        BY <1>6, <2>2, <2>4, <3>2
      <3>4. n \in Nat /\ p <= n /\ f.tot + n <= f.len
        BY <1>2, <1>3, <2>1
      <3>5. \/ o.ret > 0 /\ o.ret = n /\ NoneUnder(v)
            \/ o.ret <= 0 /\ v.left # <<>> /\ n = Held(v, f.type) /\ v.wpend_type = f.type
        BY <1>2, <2>4 DEF Begun, Out, Held, Under, NoneUnder
      <3>6. Wrote(v, o.ret, f, n)
        BY <2>1, <3>3, <3>4, <3>5 DEF Wrote, p
      <3> QED
        BY <3>6 DEF f
    <2> QED
      BY <1>9, <2>3, <2>4 DEF Begins
  <1> QED
    BY <1>1, <1>7, <1>8, <1>9

\* A step that only touches progress keeps the stream and what is under way.
LEMMA LikeStep ==
  ASSUME Inv, Like(s3, s3')
  PROVE  /\ Flow(s3') = Flow(s3) /\ \A t : Under(s3', t) <=> Under(s3, t)
         /\ \A t : Pending(t)' = Pending(t)
         /\ s3'.left = s3.left /\ s3'.wpend_type = s3.wpend_type /\ s3'.gone = s3.gone
         /\ s3'.alert_dispatch = s3.alert_dispatch
         /\ Chain(Flow(s3)) => Chain(Flow(s3'))
  <1>1. s3 \in Write /\ Ready(s3)
    BY TypedFacts
  <1>2. Flow(s3') = Flow(s3) /\ \A t : Under(s3', t) <=> Under(s3, t)
    BY <1>1, LikeFacts
  <1>3. \A t : Pending(t)' = Pending(t)
    BY <1>2 DEF Pending, Like
  <1> QED
    BY <1>2, <1>3 DEF Like

LEMMA SSL_write_Frame ==
  ASSUME Inv, FrameInv, ~({"long", "through"} \subseteq mode),
         NEW b \in {"buf", "moved"}, NEW len \in 1 .. MaxData, SSL_write(b, len)
  PROVE  FrameInv'
  <1> DEFINE f == Frame("app", b, acked, len, s3.wnum)
  <1>1. /\ call = <<>> /\ ~s3.gone /\ ~shut /\ (hello = "write" => "through" \in mode)
        /\ Repeats(b, len) /\ s3' = [s3 EXCEPT !.wnum = 0]
        /\ repeat' = <<[buf |-> b, len |-> len]>> /\ call' = Begin(b, len)
        /\ UNCHANGED <<mode, acked, hello, digested, shut, alerts>>
    BY DEF SSL_write, Idle
  <1>2. /\ s3 \in Write /\ s3.wnum \in Nat /\ acked \in Nat /\ Length \in Nat \ {0}
        /\ hello \in {"none", "write", "read"} /\ len \in Nat \ {0}
        /\ repeat # <<>> => repeat[1].len \in Nat \ {0}
        /\ \A t : Pending(t) \in Nat
        /\ Recs(Flow(s3)) \subseteq Rec
    BY TypedFacts, ConstantAssumption
  <1>3. Like(s3, s3') /\ s3'.wnum = 0
    BY <1>1, <1>2, ProgressFacts
  <1>4. /\ Flow(s3') = Flow(s3) /\ \A t : Under(s3', t) <=> Under(s3, t)
        /\ \A t : Pending(t)' = Pending(t)
        /\ s3'.left = s3.left /\ s3'.wpend_type = s3.wpend_type /\ s3'.gone = s3.gone
        /\ s3'.alert_dispatch = s3.alert_dispatch
    BY <1>3, LikeStep
  <1>5. Chain(Flow(s3)) /\ Bounded /\ Calls /\ Owner /\ Zero /\ Roles /\ Shake /\ Reach
    BY DEF FrameInv
  <1>6. /\ f.type = "app" /\ f.base = acked /\ f.len = len /\ f.tot = s3.wnum
        /\ Message.type = "handshake" /\ Message.base = digested /\ Message.len = Length
        /\ Message.tot = 0
    BY DEF Frame, Message, Length
  <1>7. Typed
    BY DEF Inv
  <1>8. /\ hello = "none" => call' = <<f>>
        /\ hello = "write" => call' = <<Message, f>>
        /\ hello = "read" => call' = <<>>
    BY <1>1, <1>2, <1>7, BeginFacts
  <1> HIDE DEF f
  <1>9. /\ hello = "none" => call' # <<>> /\ Len(call') = 1 /\ call'[1] = f
        /\ hello = "write" => call' # <<>> /\ Len(call') = 2 /\ call'[1] = Message /\ call'[2] = f
        /\ hello = "read" => call' = <<>> /\ Len(call') = 0
    BY <1>8
  <1>10. repeat' # <<>> /\ repeat'[1].len = len /\ Length' = Length
    BY <1>1 DEF Length
  <1>11. Done = s3.wnum /\ (hello = "none" => Done' = Done) /\ (hello # "none" => Done' = 0)
    BY <1>1, <1>2, <1>3, <1>6, <1>9 DEF Done
  <1>12. repeat # <<>> => repeat[1].len <= len
    BY <1>1, <1>2 DEF Repeats
  <1>13. Promised <= Promised' /\ Promised \in Nat /\ Promised' \in Nat /\ Announced' = Announced
    BY <1>1, <1>2, <1>10, <1>12 DEF Promised, Announced
  <1>14. Bounded'
    <2> SUFFICES ASSUME NEW r \in Recs(Flow(s3))
                 PROVE  /\ r.type = "app" => r.to <= Promised'
                        /\ r.type = "handshake" => r.to <= Announced'
                        /\ r.type = "alert" => r.to <= alerts'.asked
      BY <1>4 DEF Bounded
    <2>1. r.to \in Nat
      BY <1>2 DEF Rec
    <2>2. /\ r.type = "app" => r.to <= Promised
          /\ r.type = "handshake" => r.to <= Announced
          /\ r.type = "alert" => r.to <= alerts.asked
      BY <1>5 DEF Bounded
    <2> QED
      BY <1>1, <1>13, <2>1, <2>2
  <1>15. Calls'
    <2>1. f.type = "app" /\ f.base = acked' /\ f.len = repeat'[1].len /\ ~shut'
      BY <1>1, <1>6, <1>10
    <2>2. hello = "none" => AppFrame(call[1])'
      BY <1>9, <1>10, <2>1 DEF AppFrame
    <2>3. hello = "write" => AppFrame(call[2])' /\ HelloFrame(call[1])'
      BY <1>1, <1>6, <1>9, <1>10, <2>1 DEF AppFrame, HelloFrame
    <2>4. hello = "read" => s3.left = <<>>
      BY <1>5 DEF Calls
    <2>5. hello' = hello /\ s3'.left = s3.left /\ s3'.wnum = 0
      BY <1>1, <1>3, <1>4
    <2>6. CASE hello = "none"
      BY <1>9, <2>2, <2>5, <2>6 DEF Calls
    <2>7. CASE hello = "write"
      BY <1>9, <2>3, <2>5, <2>7 DEF Calls
    <2>8. CASE hello = "read"
      BY <1>9, <2>4, <2>5, <2>8 DEF Calls
    <2> QED
      BY <1>2, <2>6, <2>7, <2>8
  <1>16. Owner'
    BY <1>1, <1>4, <1>5, <1>10 DEF Owner
  <1>17. Zero' /\ Roles'
    BY <1>1, <1>3, <1>4, <1>5 DEF Zero, Roles
  <1>18. Shake'
    <2> SUFFICES ASSUME hello = "write", ~Stuck
                 PROVE  /\ Done' < Length /\ Done' + Pending("handshake") <= Length
                        /\ call'[2].tot = 0
                        /\ Reached(acked)
      BY <1>1, <1>4, <1>10 DEF Shake, Stuck, Reached
    <2>1. Done < Length /\ Done + Pending("handshake") <= Length /\ Reached(acked)
      BY <1>1, <1>5 DEF Shake
    <2>2. Length = 1
      BY <1>1 DEF Length
    <2>3. Done = 0 /\ Done' = 0
      BY <1>2, <1>11, <2>1, <2>2
    <2>4. call'[2].tot = 0
      BY <1>6, <1>9, <1>11, <2>3
    <2> QED
      BY <2>1, <2>3, <2>4
  <1>19. Reach'
    <2>1. ASSUME hello = "read", ~shut
          PROVE  Reached(acked)
      BY <1>5, <2>1 DEF Reach
    <2>2. ASSUME hello = "none"
          PROVE  /\ Done < len /\ Done + Pending("app") <= len
                 /\ Reached(acked + Done + Pending("app"))
      <3>1. CASE repeat # <<>>
        <4>1. /\ Done < repeat[1].len /\ Done + Pending("app") <= repeat[1].len
              /\ Reached(acked + Done + Pending("app"))
          BY <1>1, <1>5, <2>2, <3>1 DEF Reach
        <4> QED
          BY <1>2, <1>11, <1>12, <3>1, <4>1
      <3>2. CASE repeat = <<>>
        <4>1. Done = 0 /\ Pending("app") = 0
          BY <1>5, <1>11, <2>2, <3>2 DEF Zero, Owner, Pending
        <4>2. Reached(acked)
          BY <1>5, <3>2 DEF Bounded, Promised, Reached
        <4> QED
          BY <1>2, <4>1, <4>2
      <3> QED
        BY <3>1, <3>2
    <2>3. ASSUME NEW n, Reached(n)
          PROVE  \A r \in Recs(Flow(s3')) : r.type = "app" => r.to <= n
      BY <1>4, <2>3 DEF Reached
    <2> QED
      BY <1>1, <1>4, <1>10, <1>11, <2>1, <2>2, <2>3 DEF Reach, Reached
  <1> QED
    BY <1>4, <1>5, <1>14, <1>15, <1>16, <1>17, <1>18, <1>19 DEF FrameInv

LEMMA handshake_func_Frame ==
  ASSUME Inv, FrameInv, handshake_func
  PROVE  FrameInv'
  <1> DEFINE f == [Message EXCEPT !.tot = s3.wnum]
  <1>1. /\ call = <<>> /\ ~s3.gone /\ hello = "write"
        /\ s3' = [s3 EXCEPT !.wnum = 0] /\ call' = <<f>>
        /\ UNCHANGED <<mode, repeat, acked, hello, digested, shut, alerts>>
    BY DEF handshake_func, Idle
  <1>2. s3 \in Write
    BY TypedFacts
  <1>3. Like(s3, s3') /\ s3'.wnum = 0
    BY <1>1, <1>2, ProgressFacts
  <1>4. /\ Flow(s3') = Flow(s3) /\ \A t : Under(s3', t) <=> Under(s3, t)
        /\ \A t : Pending(t)' = Pending(t)
        /\ s3'.left = s3.left /\ s3'.wpend_type = s3.wpend_type /\ s3'.gone = s3.gone
        /\ s3'.alert_dispatch = s3.alert_dispatch
    BY <1>3, LikeStep
  <1>5. Chain(Flow(s3)) /\ Bounded /\ Calls /\ Owner /\ Zero /\ Roles /\ Shake /\ Reach
    BY DEF FrameInv
  <1>6. f.type = "handshake" /\ f.base = digested /\ f.len = Length /\ f.tot = s3.wnum
    BY DEF Frame, Message, Length
  <1> HIDE DEF f
  <1>7. call' # <<>> /\ Len(call') = 1 /\ call'[1] = f
    BY <1>1
  <1>8. Done' = Done /\ Length' = Length /\ Promised' = Promised /\ Announced' = Announced
    BY <1>1, <1>6, <1>7 DEF Done, Length, Promised, Announced
  <1>9. Bounded'
    BY <1>1, <1>4, <1>5, <1>8 DEF Bounded
  <1>10. Calls'
    BY <1>1, <1>3, <1>6, <1>7, <1>8 DEF Calls, HelloFrame
  <1>11. Owner' /\ Zero' /\ Roles'
    BY <1>1, <1>4, <1>5, <1>7, <1>8 DEF Owner, Zero, Roles
  <1>12. Shake'
    BY <1>1, <1>4, <1>5, <1>7, <1>8 DEF Shake, Stuck, Reached
  <1>13. Reach'
    BY <1>1 DEF Reach
  <1> QED
    BY <1>4, <1>5, <1>9, <1>10, <1>11, <1>12, <1>13 DEF FrameInv

\* The ways a round ends: it gives up, it goes on with the next record, or it returns.
Gave(f) ==
  /\ call' = <<>> /\ s3'.wnum = f.tot
  /\ UNCHANGED <<repeat, acked, hello, digested>>
WentOn(f, ret) ==
  /\ ~Whole(f, ret) /\ call' # <<>> /\ Len(call') = Len(call) /\ s3'.wnum = 0
  /\ call'[1].type = f.type /\ call'[1].base = f.base /\ call'[1].len = f.len
  /\ call'[1].tot = f.tot + ret
  /\ Len(call) = 2 => call'[2] = call[2]
  /\ UNCHANGED <<repeat, acked, hello, digested>>
Returned(f, ret) ==
  /\ Whole(f, ret) /\ s3'.wnum = 0
  /\ \/ /\ f.type = "app" /\ call' = <<>> /\ repeat' = <<>> /\ acked' = acked + f.tot + ret
        /\ UNCHANGED <<hello, digested>>
     \/ /\ f.type # "app"
        /\ \/ call' = <<>> /\ hello' = "read"
           \/ call' = Tail(call) /\ hello' = "none"
        /\ digested' = digested + f.tot + ret
        /\ UNCHANGED <<repeat, acked>>

LEMMA RoundEnds ==
  ASSUME Inv, FrameInv, NEW o, Round(o)
  PROVE  LET f == call[1]
             v == o.s3 IN
         /\ call # <<>> /\ f \in Frames /\ o.ret \in Int
         /\ s3'.left = v.left /\ s3'.wpend_type = v.wpend_type /\ s3'.gone = v.gone
         /\ s3'.alert_dispatch = v.alert_dispatch
         /\ Flow(s3') = Flow(v) /\ Chain(Flow(s3'))
         /\ \A t : Under(s3', t) <=> Under(v, t)
         /\ \A t : Pending(t)' = Held(v, t)
         /\ UNCHANGED <<mode, shut, alerts>> /\ Length' = Length
         /\ \/ o.ret <= 0 /\ Gave(f)
            \/ o.ret > 0 /\ WentOn(f, o.ret)
            \/ o.ret > 0 /\ Returned(f, o.ret)
  <1> DEFINE f == call[1]
             v == o.s3
  <1>1. /\ call # <<>> /\ f \in Frames /\ Steady(s3, v)
        /\ UNCHANGED <<mode, shut, alerts>>
        /\ \/ o.ret <= 0 /\ GivesUp(f, v)
           \/ o.ret > 0 /\ Whole(f, o.ret) /\ Returns(f, v, f.tot + o.ret)
           \/ /\ o.ret > 0 /\ ~Whole(f, o.ret)
              /\ s3' = v /\ call' = [call EXCEPT ![1].tot = @ + o.ret]
              /\ UNCHANGED <<repeat, acked, hello, digested>>
    BY DEF Round
  <1>2. s3' \in Write /\ Like(v, s3') /\ o.ret \in Int /\ v \in Write
    BY RoundLike DEF Inv
  <1>3. Ready(v) /\ v.wnum = 0 /\ Chain(Flow(v))
    BY <1>1 DEF Steady, Grows, FrameInv, Calls
  <1>4. Flow(s3') = Flow(v) /\ \A t : Under(s3', t) <=> Under(v, t)
    BY <1>2, <1>3, LikeFacts
  <1>5. \A t : Pending(t)' = Held(v, t)
    BY <1>2, <1>4 DEF Pending, Held, Like
  <1>6. Length' = Length
    BY <1>1 DEF Length
  <1>7. call \in Seq(Frames) /\ f.tot \in Nat /\ acked \in Nat /\ digested \in Nat
    BY <1>1, TypedFacts DEF Frames
  <1>8. ASSUME GivesUp(f, v)
        PROVE  Gave(f)
    BY <1>2, <1>7, <1>8, ProgressFacts DEF GivesUp, Gave
  <1>9. ASSUME Whole(f, o.ret), Returns(f, v, f.tot + o.ret)
        PROVE  Returned(f, o.ret)
    <2>1. s3'.wnum = 0
      BY <1>2, <1>3, <1>9, DoneFacts DEF Returns
    <2>2. acked + (f.tot + o.ret) = acked + f.tot + o.ret
          /\ digested + (f.tot + o.ret) = digested + f.tot + o.ret
      BY <1>2, <1>7
    <2> QED
      BY <1>9, <2>1, <2>2 DEF Returns, Returned
  <1>10. ASSUME ~Whole(f, o.ret), s3' = v, call' = [call EXCEPT ![1].tot = @ + o.ret],
                UNCHANGED <<repeat, acked, hello, digested>>
         PROVE  WentOn(f, o.ret)
    <2> DEFINE g == [f EXCEPT !.tot = f.tot + o.ret]
    <2>1. Len(call) \in Nat \ {0}
      BY <1>1, <1>7, EmptySeq
    <2>2. call' = [call EXCEPT ![1] = g]
      BY <1>10
    <2>3. g.type = f.type /\ g.base = f.base /\ g.len = f.len /\ g.tot = f.tot + o.ret
      BY <1>1 DEF Frames
    <2> HIDE DEF g
    <2>4. Len(call') = Len(call) /\ call'[1] = g /\ (Len(call) = 2 => call'[2] = call[2])
      BY <1>7, <2>1, <2>2
    <2>5. call' # <<>>
      BY <2>1, <2>4
    <2> QED
      BY <1>3, <1>10, <2>3, <2>4, <2>5 DEF WentOn
  <1>11. /\ s3'.left = v.left /\ s3'.wpend_type = v.wpend_type /\ s3'.gone = v.gone
         /\ s3'.alert_dispatch = v.alert_dispatch
    BY <1>2 DEF Like
  <1> HIDE DEF f, v
  <1>12. \/ o.ret <= 0 /\ Gave(f)
         \/ o.ret > 0 /\ WentOn(f, o.ret)
         \/ o.ret > 0 /\ Returned(f, o.ret)
    BY <1>1, <1>8, <1>9, <1>10
  <1>13. Chain(Flow(s3'))
    BY <1>3, <1>4
  <1> QED
    BY <1>1, <1>2, <1>4, <1>5, <1>6, <1>11, <1>12, <1>13 DEF f, v

\* A handshake's message behind another's record gives up and changes nothing.
LEMMA Stuck_Frame ==
  ASSUME Inv, FrameInv, NEW o, Round(o), Stuck
  PROVE  FrameInv'
  <1> DEFINE f == call[1]
             v == o.s3
  <1>1. /\ call # <<>> /\ f \in Frames /\ o.ret \in Int
        /\ s3'.left = v.left /\ s3'.wpend_type = v.wpend_type /\ s3'.gone = v.gone
        /\ s3'.alert_dispatch = v.alert_dispatch
        /\ Flow(s3') = Flow(v) /\ Chain(Flow(s3'))
        /\ \A t : Under(s3', t) <=> Under(v, t)
        /\ UNCHANGED <<mode, shut, alerts>> /\ Length' = Length
        /\ \/ o.ret <= 0 /\ Gave(f)
           \/ o.ret > 0 /\ WentOn(f, o.ret)
           \/ o.ret > 0 /\ Returned(f, o.ret)
    BY RoundEnds
  <1>2. Chain(Flow(s3)) /\ Bounded /\ Calls /\ Owner /\ Zero /\ Roles /\ Shake /\ Reach
    BY DEF FrameInv
  <1>3. hello = "write" /\ s3.left # <<>> /\ s3.wpend_type # "handshake" /\ f.type = "handshake"
    BY <1>1, <1>2 DEF Stuck, Calls, HelloFrame
  <1>4. /\ SameUnder(s3, v) /\ o.ret = -1 /\ Recs(Flow(v)) = Recs(Flow(s3))
        /\ v.alert_dispatch = s3.alert_dispatch
    BY <1>3 DEF Round, Resumed, Barred, Begins
  <1>5. Gave(f)
    BY <1>4, <1>1
  <1>6. /\ call' = <<>> /\ s3'.wnum = f.tot /\ Done' = Done
        /\ UNCHANGED <<repeat, acked, hello, digested>>
    BY <1>1, <1>5 DEF Gave, Done
  <1> HIDE DEF f, v
  <1>7. /\ s3'.left # <<>> /\ s3'.wpend_type = s3.wpend_type
        /\ \A t : Under(s3', t) <=> Under(s3, t)
    BY <1>1, <1>3, <1>4 DEF SameUnder, Under
  <1>8. Promised' = Promised /\ Announced' = Announced
    BY <1>1, <1>6 DEF Promised, Announced
  <1>9. Bounded'
    BY <1>1, <1>2, <1>4, <1>8 DEF Bounded
  <1>10. Calls'
    <2>1. Len(call') = 0 /\ hello' = "write"
      BY <1>3, <1>6
    <2> QED
      BY <1>6, <2>1 DEF Calls
  <1>11. Owner' /\ Zero'
    BY <1>2, <1>3, <1>6, <1>7 DEF Owner, Zero
  <1>12. Roles'
    BY <1>1, <1>2, <1>3, <1>4, <1>6, <1>7 DEF Roles
  <1>13. Shake' /\ Reach'
    BY <1>3, <1>6, <1>7 DEF Shake, Reach, Stuck
  <1> QED
    BY <1>1, <1>9, <1>10, <1>11, <1>12, <1>13 DEF FrameInv

\* A round of the application's write.
LEMMA App_Frame ==
  ASSUME Inv, FrameInv, NEW o, Round(o), hello = "none"
  PROVE  FrameInv'
  <1> DEFINE f == call[1]
             v == o.s3
  <1>1. /\ call # <<>> /\ f \in Frames /\ o.ret \in Int
        /\ s3'.left = v.left /\ s3'.wpend_type = v.wpend_type /\ s3'.gone = v.gone
        /\ s3'.alert_dispatch = v.alert_dispatch
        /\ Flow(s3') = Flow(v) /\ Chain(Flow(s3'))
        /\ \A t : Under(s3', t) <=> Under(v, t)
        /\ \A t : Pending(t)' = Held(v, t)
        /\ UNCHANGED <<mode, shut, alerts>>
        /\ \/ o.ret <= 0 /\ Gave(f)
           \/ o.ret > 0 /\ WentOn(f, o.ret)
           \/ o.ret > 0 /\ Returned(f, o.ret)
    BY RoundEnds
  <1>2. Bounded /\ Calls /\ Owner /\ Zero /\ Roles /\ Shake /\ Reach
    BY DEF FrameInv
  <1>3. /\ repeat # <<>> /\ ~shut /\ Len(call) = 1
        /\ f.type = "app" /\ f.base = acked /\ f.len = repeat[1].len
    BY <1>1, <1>2 DEF Calls, AppFrame
  <1>4. f.tot \in Nat /\ f.len \in Nat /\ acked \in Nat /\ digested \in Nat
        /\ \A t : Pending(t) \in Nat
        /\ Recs(Flow(s3)) \subseteq Rec
    BY <1>1, TypedFacts DEF Frames
  <1>5. f.tot < f.len /\ f.tot + Pending("app") <= f.len /\ Reached(acked + f.tot + Pending("app"))
    BY <1>1, <1>2, <1>3 DEF Reach, Done
  <1>6. PICK k : Wrote(v, o.ret, f, k)
    BY <1>3, <1>5, WroteFacts
  <1> HIDE DEF f, v
  <1>7. /\ k \in Nat /\ Pending("app") <= k /\ f.tot + k <= f.len
        /\ \A r \in Recs(Flow(v)) :
             \/ r \in Recs(Flow(s3))
             \/ r.type = "app" /\ r.to <= acked + f.tot + k
             \/ r.type = "alert" /\ r.to <= alerts.asked
        /\ v.alert_dispatch => s3.alert_dispatch
        /\ \/ o.ret > 0 /\ o.ret = k /\ NoneUnder(v)
           \/ o.ret <= 0 /\ v.gone /\ NoneUnder(v) /\ k = 0
           \/ /\ o.ret <= 0 /\ v.left # <<>> /\ k = Held(v, "app")
              /\ \/ v.wpend_type = "app"
                 \/ v.wpend_type = "alert" /\ s3.left = <<>> /\ s3.alert_dispatch
                 \/ s3.left # <<>> /\ v.wpend_type = s3.wpend_type
    BY <1>3, <1>6 DEF Wrote
  <1>8. ASSUME NEW r \in Recs(Flow(s3'))
        PROVE  /\ r.type = "app" => r.to <= acked + f.tot + k
               /\ r.type = "handshake" => r.to <= Announced
               /\ r.type = "alert" => r.to <= alerts.asked
    <2>1. CASE r \in Recs(Flow(s3))
      <3>1. /\ r.type = "app" => r.to <= acked + f.tot + Pending("app")
            /\ r.type = "handshake" => r.to <= Announced
            /\ r.type = "alert" => r.to <= alerts.asked
        BY <1>2, <1>5, <2>1 DEF Bounded, Reached
      <3>2. r.to \in Nat
        BY <1>4, <2>1 DEF Rec
      <3> QED
        BY <1>4, <1>7, <3>1, <3>2
    <2>2. CASE ~(r \in Recs(Flow(s3)))
      BY <1>1, <1>7, <2>2
    <2> QED
      BY <2>1, <2>2
  <1>9. ASSUME NEW r \in Recs(Flow(s3')), r.type = "app"
        PROVE  r.to <= acked + f.len
    <2>1. r.to <= acked + f.tot + k
      BY <1>8, <1>9
    <2>2. CASE r \in Recs(Flow(s3))
      <3>1. r.to \in Nat
        BY <1>4, <2>2 DEF Rec
      <3> QED
        BY <1>4, <1>7, <2>1, <3>1
    <2>3. CASE ~(r \in Recs(Flow(s3)))
      <3>1. s3' \in Write
        BY RoundLike DEF Inv
      <3>3. Recs(Flow(s3')) \subseteq Rec
        BY <3>1, RecsTyped
      <3>4. r.to \in Nat
        BY <3>3 DEF Rec
      <3> QED
        BY <1>4, <1>7, <2>1, <3>4
    <2> QED
      BY <2>2, <2>3
  <1>10. Roles'
    <2>1. "server" \notin mode => ~s3'.alert_dispatch /\ ~Under(s3', "alert")
      <3>1. "server" \notin mode => ~s3.alert_dispatch /\ ~Under(s3, "alert")
        BY <1>2, <1>3 DEF Roles
      <3> QED
        BY <1>1, <1>7, <3>1 DEF Under, NoneUnder
    <2> QED
      BY <1>1, <1>3, <2>1 DEF Roles
  <1>11. CASE o.ret <= 0 /\ Gave(f)
    <2>1. /\ call' = <<>> /\ s3'.wnum = f.tot /\ Done' = f.tot
          /\ UNCHANGED <<repeat, acked, hello, digested>>
      BY <1>11 DEF Gave, Done
    <2>2. \/ s3'.gone /\ s3'.left = <<>> /\ k = 0 /\ Held(v, "app") = 0
          \/ s3'.left # <<>> /\ k = Held(v, "app")
      BY <1>1, <1>7, <1>11 DEF NoneUnder, Held, Under
    <2>3. Promised' = acked + f.len /\ Announced' = Announced
      BY <1>1, <1>3, <2>1 DEF Promised, Announced, Length
    <2>4. Bounded'
      BY <1>1, <1>8, <1>9, <2>3 DEF Bounded
    <2>5. Calls'
      <3>1. Len(call') = 0
        BY <2>1
      <3> QED
        BY <2>1, <3>1 DEF Calls
    <2>6. Owner'
      <3>1. ~Under(s3', "handshake")
        BY <1>1, <1>2, <1>7 DEF Under, NoneUnder, Owner
      <3> QED
        BY <1>3, <2>1, <3>1 DEF Owner
    <2>7. Zero'
      BY <1>3, <2>1, <2>2 DEF Zero
    <2>8. Shake'
      BY <2>1 DEF Shake
    <2>9. Reach'
      <3>1. k = Pending("app")' /\ repeat' = repeat /\ acked' = acked /\ Done' = f.tot /\ hello' = "none"
        BY <1>1, <2>1, <2>2
      <3>2. \A r \in Recs(Flow(s3')) : r.type = "app" => r.to <= acked + f.tot + k
        BY <1>8
      <3> QED
        BY <1>3, <1>5, <1>7, <3>1, <3>2 DEF Reach, Reached
    <2> QED
      BY <1>1, <1>10, <2>4, <2>5, <2>6, <2>7, <2>8, <2>9 DEF FrameInv
  <1>12. ASSUME o.ret > 0
         PROVE  /\ o.ret = k /\ s3'.left = <<>> /\ \A t : ~Under(s3', t)
                /\ Pending("app")' = 0
    BY <1>1, <1>7, <1>12 DEF NoneUnder, Held, Under
  <1>13. CASE o.ret > 0 /\ WentOn(f, o.ret)
    <2>1. /\ call' # <<>> /\ Len(call') = 1 /\ s3'.wnum = 0 /\ Done' = f.tot + k
          /\ call'[1].type = "app" /\ call'[1].base = acked /\ call'[1].len = f.len
          /\ f.tot + k # f.len
          /\ UNCHANGED <<repeat, acked, hello, digested>>
      BY <1>3, <1>12, <1>13 DEF WentOn, Done, Whole
    <2>2. Promised' = acked + f.len /\ Announced' = Announced
      BY <1>1, <1>3, <2>1 DEF Promised, Announced, Length
    <2>3. Bounded'
      BY <1>1, <1>8, <1>9, <2>2 DEF Bounded
    <2>4. Calls'
      BY <1>1, <1>3, <2>1 DEF Calls, AppFrame
    <2>5. Owner' /\ Zero' /\ Shake'
      BY <1>3, <1>12, <1>13, <2>1 DEF Owner, Zero, Shake
    <2>6. Reach'
      <3>1. \A r \in Recs(Flow(s3')) : r.type = "app" => r.to <= acked + f.tot + k
        BY <1>8
      <3>2. acked + (f.tot + k) + 0 = acked + f.tot + k /\ f.tot + k < f.len /\ f.tot + k + 0 <= f.len
        BY <1>4, <1>7, <2>1
      <3>3. Pending("app")' = 0
        BY <1>12, <1>13
      <3> QED
        BY <1>3, <2>1, <3>1, <3>2, <3>3 DEF Reach, Reached
    <2> QED
      BY <1>1, <1>10, <2>3, <2>4, <2>5, <2>6 DEF FrameInv
  <1>14. CASE o.ret > 0 /\ Returned(f, o.ret)
    <2>1. /\ call' = <<>> /\ repeat' = <<>> /\ acked' = acked + f.tot + k /\ s3'.wnum = 0
          /\ UNCHANGED <<hello, digested>>
      BY <1>3, <1>12, <1>14 DEF Returned
    <2>2. Promised' = acked + f.tot + k /\ Announced' = Announced
      BY <1>1, <2>1 DEF Promised, Announced, Length
    <2>3. Bounded'
      BY <1>1, <1>8, <2>2 DEF Bounded
    <2>4. Calls'
      <3>1. Len(call') = 0
        BY <2>1
      <3> QED
        BY <2>1, <3>1 DEF Calls
    <2>5. Owner' /\ Zero' /\ Shake' /\ Reach'
      BY <1>12, <1>14, <2>1 DEF Owner, Zero, Shake, Reach
    <2> QED
      BY <1>1, <1>10, <2>3, <2>4, <2>5 DEF FrameInv
  <1> QED
    BY <1>1, <1>11, <1>13, <1>14

\* A round of a handshake's message that is not stuck.
LEMMA Hello_Frame ==
  ASSUME Inv, FrameInv, NEW o, Round(o), hello = "write", ~Stuck
  PROVE  FrameInv'
  <1> DEFINE f == call[1]
             v == o.s3
  <1>1. /\ call # <<>> /\ f \in Frames /\ o.ret \in Int
        /\ s3'.left = v.left /\ s3'.wpend_type = v.wpend_type /\ s3'.gone = v.gone
        /\ s3'.alert_dispatch = v.alert_dispatch
        /\ Flow(s3') = Flow(v) /\ Chain(Flow(s3'))
        /\ \A t : Under(s3', t) <=> Under(v, t)
        /\ \A t : Pending(t)' = Held(v, t)
        /\ UNCHANGED <<mode, shut, alerts>> /\ Length' = Length
        /\ \/ o.ret <= 0 /\ Gave(f)
           \/ o.ret > 0 /\ WentOn(f, o.ret)
           \/ o.ret > 0 /\ Returned(f, o.ret)
    BY RoundEnds
  <1>2. Bounded /\ Calls /\ Owner /\ Zero /\ Roles /\ Shake /\ Reach
    BY DEF FrameInv
  <1>3. /\ f.type = "handshake" /\ f.base = digested /\ f.len = Length
        /\ Len(call) = 2 => AppFrame(call[2])
    BY <1>1, <1>2 DEF Calls, HelloFrame
  <1>4. /\ f.tot \in Nat /\ f.len \in Nat /\ acked \in Nat /\ digested \in Nat
        /\ \A t : Pending(t) \in Nat
        /\ call \in Seq(Frames) /\ Len(call) <= 2
        /\ repeat # <<>> => repeat[1].len \in Nat \ {0}
    BY <1>1, TypedFacts DEF Frames
  <1>5. /\ f.tot < f.len /\ f.tot + Pending("handshake") <= f.len /\ (~shut => Reached(acked))
        /\ Len(call) = 2 => call[2].tot = 0
    BY <1>1, <1>2, <1>3 DEF Shake, Done
  <1>6. PICK k : Wrote(v, o.ret, f, k)
    BY <1>3, <1>5, WroteFacts
  <1> HIDE DEF f, v
  <1>7. /\ k \in Nat /\ f.tot + k <= f.len
        /\ \A r \in Recs(Flow(v)) :
             \/ r \in Recs(Flow(s3))
             \/ r.type = "handshake" /\ r.to <= digested + f.tot + k
             \/ r.type = "alert" /\ r.to <= alerts.asked
        /\ v.alert_dispatch => s3.alert_dispatch
        /\ \/ o.ret > 0 /\ o.ret = k /\ NoneUnder(v)
           \/ o.ret <= 0 /\ v.gone /\ NoneUnder(v) /\ k = 0
           \/ /\ o.ret <= 0 /\ v.left # <<>> /\ k = Held(v, "handshake")
              /\ \/ v.wpend_type = "handshake"
                 \/ v.wpend_type = "alert" /\ s3.left = <<>> /\ s3.alert_dispatch
                 \/ s3.left # <<>> /\ v.wpend_type = s3.wpend_type
    BY <1>3, <1>6 DEF Wrote
  <1>8. ASSUME NEW r \in Recs(Flow(s3'))
        PROVE  /\ r.type = "app" => r \in Recs(Flow(s3)) /\ r.to <= Promised
               /\ r.type = "handshake" => r.to <= digested + Length
               /\ r.type = "alert" => r.to <= alerts.asked
    <2>1. CASE r \in Recs(Flow(s3))
      BY <1>2, <2>1 DEF Bounded, Announced
    <2>2. CASE ~(r \in Recs(Flow(s3)))
      <3>1. s3' \in Write
        BY RoundLike DEF Inv
      <3>2. r.to \in Nat
        BY <3>1, RecsTyped DEF Rec
      <3>3. \/ r.type = "handshake" /\ r.to <= digested + f.tot + k
            \/ r.type = "alert" /\ r.to <= alerts.asked
        BY <1>1, <1>7, <2>2
      <3>4. digested + f.tot + k <= digested + Length
        BY <1>3, <1>4, <1>7
      <3>5. r.type = "handshake" => r.to <= digested + Length
        BY <1>3, <1>4, <1>7, <3>2, <3>3, <3>4
      <3> QED
        BY <2>2, <3>3, <3>5
    <2> QED
      BY <2>1, <2>2
  <1>9. ~shut => \A r \in Recs(Flow(s3')) : r.type = "app" => r.to <= acked
    BY <1>5, <1>8 DEF Reached
  <1>10. ~Under(s3, "app") /\ ~Under(s3, "alert")
    BY DEF Stuck, Under
  <1>11. Roles'
    <2>1. "server" \in mode => ~shut
      BY <1>2 DEF Roles
    <2>2. "server" \notin mode => ~s3.alert_dispatch
      BY <1>2 DEF Roles, Stuck
    <2>3. "server" \notin mode => ~s3'.alert_dispatch
      BY <1>1, <1>7, <2>2
    <2>4. "server" \notin mode => ~Under(s3', "alert")
      BY <1>1, <1>7, <1>10, <2>2 DEF Under, NoneUnder
    <2> QED
      BY <1>1, <2>1, <2>3, <2>4 DEF Roles
  <1>12. ~Under(s3', "app")
    BY <1>1, <1>7, <1>10 DEF Under, NoneUnder
  <1>13. CASE o.ret <= 0 /\ Gave(f)
    <2>1. /\ call' = <<>> /\ s3'.wnum = f.tot /\ Done' = f.tot
          /\ UNCHANGED <<repeat, acked, hello, digested>>
      BY <1>13 DEF Gave, Done
    <2>2. Promised' = Promised /\ Announced' = digested + Length
      BY <1>1, <2>1 DEF Promised, Announced
    <2>3. Bounded'
      BY <1>1, <1>8, <2>2 DEF Bounded
    <2>4. Calls' /\ Len(call') = 0
      <3>1. Len(call') = 0
        BY <2>1
      <3> QED
        BY <2>1, <3>1 DEF Calls
    <2>5. Zero'
      <3>1. s3'.left = <<>> => s3'.gone
        BY <1>1, <1>7, <1>13
      <3> QED
        BY <2>1, <3>1 DEF Zero
    <2>6. Shake'
      <3>1. CASE s3'.left # <<>> /\ s3'.wpend_type # "handshake"
        BY <2>1, <3>1 DEF Shake, Stuck
      <3>2. CASE ~(s3'.left # <<>> /\ s3'.wpend_type # "handshake")
        <4>1. Pending("handshake")' = k
          BY <1>1, <1>7, <1>13, <3>2 DEF Held, Under, NoneUnder
        <4> QED
          BY <1>1, <1>3, <1>5, <1>7, <1>9, <2>1, <2>4, <4>1 DEF Shake, Reached
      <3> QED
        BY <3>1, <3>2
    <2>7. Reach' /\ Owner'
      BY <1>12, <2>1 DEF Reach, Owner
    <2> QED
      BY <1>1, <1>11, <2>3, <2>4, <2>5, <2>6, <2>7 DEF FrameInv
  <1>14. ASSUME o.ret > 0
         PROVE  /\ o.ret = k /\ s3'.left = <<>> /\ \A t : ~Under(s3', t)
                /\ \A t : Pending(t)' = 0
    BY <1>1, <1>7, <1>14 DEF NoneUnder, Held, Under
  <1>15. CASE o.ret > 0 /\ WentOn(f, o.ret)
    <2>1. /\ call' # <<>> /\ Len(call') = Len(call) /\ s3'.wnum = 0 /\ Done' = f.tot + k
          /\ call'[1].type = "handshake" /\ call'[1].base = digested /\ call'[1].len = Length
          /\ f.tot + k # f.len
          /\ Len(call) = 2 => call'[2] = call[2]
          /\ UNCHANGED <<repeat, acked, hello, digested>>
      BY <1>3, <1>14, <1>15 DEF WentOn, Done, Whole
    <2>2. Promised' = Promised /\ Announced' = digested + Length
      BY <1>1, <2>1 DEF Promised, Announced
    <2>3. Bounded'
      BY <1>1, <1>8, <2>2 DEF Bounded
    <2>4. Calls'
      <3>1. HelloFrame(call[1])'
        BY <1>1, <2>1 DEF HelloFrame
      <3>2. Len(call') = 2 => AppFrame(call[2])'
        BY <1>1, <1>3, <2>1 DEF AppFrame
      <3> QED
        BY <2>1, <3>1, <3>2 DEF Calls
    <2>5. Zero' /\ Reach' /\ Owner'
      BY <1>12, <2>1 DEF Zero, Reach, Owner
    <2>6. Shake'
      <3>1. f.tot + k < Length /\ f.tot + k + 0 <= Length
        BY <1>3, <1>4, <1>7, <2>1
      <3>2. Pending("handshake")' = 0
        BY <1>14, <1>15
      <3> QED
        BY <1>1, <1>5, <1>9, <2>1, <3>1, <3>2 DEF Shake, Reached
    <2> QED
      BY <1>1, <1>11, <2>3, <2>4, <2>5, <2>6 DEF FrameInv
  <1>16. CASE o.ret > 0 /\ Returned(f, o.ret)
    <2>1. /\ s3'.wnum = 0 /\ f.tot + k = f.len
          /\ \/ call' = <<>> /\ hello' = "read"
             \/ call' = Tail(call) /\ hello' = "none"
          /\ digested' = digested + f.tot + k
          /\ UNCHANGED <<repeat, acked>>
      BY <1>3, <1>14, <1>16 DEF Returned, Whole
    <2>2. Promised' = Promised /\ Announced' = digested + Length
      BY <1>1, <1>3, <1>4, <1>7, <2>1 DEF Promised, Announced
    <2>3. Bounded'
      BY <1>1, <1>8, <2>2 DEF Bounded
    <2>4. s3'.left = <<>>
      BY <1>14, <1>16
    <2>5. \/ call' = <<>> /\ Len(call') = 0
          \/ call' # <<>> /\ Len(call') = 1 /\ call'[1] = call[2] /\ Len(call) = 2 /\ hello' = "none"
      <3>1. Len(call) \in Nat \ {0}
        BY <1>1, <1>4, EmptySeq
      <3>2. CASE call' = <<>>
        BY <3>2
      <3>3. CASE call' = Tail(call) /\ hello' = "none"
        <4>1. Len(Tail(call)) = Len(call) - 1 /\ (Len(call) = 2 => Tail(call)[1] = call[2])
          BY <1>1, <1>4, <3>1
        <4>2. Len(call) = 1 \/ Len(call) = 2
          <5> DEFINE m == Len(call)
          <5>1. m \in Nat \ {0} /\ m <= 2
            BY <1>4, <3>1, Zenon
          <5> HIDE DEF m
          <5>2. m = 1 \/ m = 2
            BY <5>1
          <5> QED
            BY <5>2 DEF m
        <4>3. CASE Len(call) = 1
          <5>1. call' \in Seq(Frames) /\ Len(call') = 0
            BY <1>1, <1>4, <3>3, <4>1, <4>3
          <5> QED
            BY <5>1
        <4>4. CASE Len(call) = 2
          <5>1. Len(call') = 1
            BY <3>3, <4>1, <4>4
          <5>2. call' # <<>>
            BY <5>1
          <5> QED
            BY <3>3, <4>1, <4>4, <5>1, <5>2
        <4> QED
          BY <4>2, <4>3, <4>4
      <3> QED
        BY <2>1, <3>2, <3>3
    <2>6. Calls'
      <3>1. call' # <<>> => AppFrame(call[1])'
        BY <1>1, <1>3, <2>1, <2>5 DEF AppFrame
      <3>2. CASE call' = <<>> /\ Len(call') = 0
        BY <2>1, <2>4, <3>2 DEF Calls
      <3>3. CASE call' # <<>> /\ Len(call') = 1 /\ hello' = "none"
        BY <2>1, <3>1, <3>3 DEF Calls
      <3> QED
        BY <2>5, <3>2, <3>3
    <2>7. Zero' /\ Shake' /\ Owner'
      BY <2>1, <2>4 DEF Zero, Shake, Owner, Under
    <2>8. Done' = 0 /\ Pending("app")' = 0
      BY <1>5, <1>14, <1>16, <2>1, <2>5 DEF Done
    <2>9. Reach'
      <3>1. acked + 0 + 0 = acked
        BY <1>4
      <3>2. repeat # <<>> => 0 < repeat[1].len /\ 0 + 0 <= repeat[1].len
        BY <1>4
      <3> QED
        BY <1>1, <1>9, <2>1, <2>8, <3>1, <3>2 DEF Reach, Reached
    <2> QED
      BY <1>1, <1>11, <2>3, <2>6, <2>7, <2>9 DEF FrameInv
  <1> QED
    BY <1>1, <1>13, <1>15, <1>16

LEMMA Asking_Frame ==
  ASSUME Inv, FrameInv, Asking
  PROVE  FrameInv'
  <1> DEFINE a == alerts.asked + 1
  <1>1. /\ call = <<>> /\ ~s3.gone /\ hello = "none"
        /\ ("server" \in mode /\ shut' = shut) \/ (~shut /\ shut')
        /\ UNCHANGED <<mode, call, repeat, acked, hello, digested>>
        /\ s3'.wnum = s3.wnum /\ s3'.gone = s3.gone /\ alerts'.asked = a
        /\ Chain(Flow(s3)) => Chain(Flow(s3'))
        /\ s3.left # <<>> =>
             SameUnder(s3, s3') /\ s3'.alert_dispatch /\ Recs(Flow(s3')) = Recs(Flow(s3))
        /\ s3.left = <<>> =>
             /\ Recs(Flow(s3')) \subseteq
                  Recs(Flow(s3)) \cup {Record("alert", a, a), Record("alert", a, a - 1)}
             /\ \/ Under(s3', "alert") /\ s3'.alert_dispatch
                \/ NoneUnder(s3') /\ ~s3'.alert_dispatch
    BY DEF Asking, Asks, Idle, Grows
  <1>2. Chain(Flow(s3)) /\ Bounded /\ Calls /\ Owner /\ Zero /\ Roles /\ Shake /\ Reach
    BY DEF FrameInv
  <1>3. alerts.asked \in Nat /\ Recs(Flow(s3)) \subseteq Rec
    BY TypedFacts
  <1>4. a - 1 <= a /\ a <= a /\ alerts.asked <= a /\ a \in Nat
    BY <1>3
  <1> HIDE DEF a
  <1>5. ASSUME NEW r \in Recs(Flow(s3'))
        PROVE  r \in Recs(Flow(s3)) \/ (r.type = "alert" /\ r.to <= a)
    BY <1>1, <1>4, <1>5 DEF Record
  <1>6. Promised' = Promised /\ Announced' = Announced /\ Done' = Done /\ Done = s3.wnum
    BY <1>1 DEF Promised, Announced, Length, Done
  <1>7. Bounded'
    <2> SUFFICES ASSUME NEW r \in Recs(Flow(s3'))
                 PROVE  /\ r.type = "app" => r.to <= Promised
                        /\ r.type = "handshake" => r.to <= Announced
                        /\ r.type = "alert" => r.to <= a
      BY <1>1, <1>6 DEF Bounded
    <2>1. CASE r \in Recs(Flow(s3))
      <3>1. r.to \in Nat
        BY <1>3, <2>1 DEF Rec
      <3>2. r.type = "alert" => r.to <= alerts.asked
        BY <1>2, <2>1 DEF Bounded
      <3>3. r.type = "alert" => r.to <= a
        BY <1>3, <1>4, <3>1, <3>2
      <3> QED
        BY <1>2, <2>1, <3>3 DEF Bounded
    <2>2. CASE ~(r \in Recs(Flow(s3)))
      BY <1>5, <2>2
    <2> QED
      BY <2>1, <2>2
  <1>8. \A t : t # "alert" => (Under(s3', t) <=> Under(s3, t)) /\ Pending(t)' = Pending(t)
    <2>1. CASE s3.left # <<>>
      BY <1>1, <2>1 DEF SameUnder, Under, Pending
    <2>2. CASE s3.left = <<>>
      BY <1>1, <2>2 DEF NoneUnder, Under, Pending
    <2> QED
      BY <2>1, <2>2
  <1>9. Calls'
    <2>1. Len(call') = 0
      BY <1>1
    <2> QED
      BY <1>1, <2>1 DEF Calls
  <1>10. Owner'
    BY <1>1, <1>2, <1>8 DEF Owner
  <1>11. Zero'
    <2>1. s3'.left = <<>> => s3.left = <<>>
      BY <1>1 DEF SameUnder
    <2> QED
      BY <1>1, <1>2, <2>1 DEF Zero
  <1>12. Roles'
    <2>1. ASSUME "server" \notin mode
          PROVE  /\ shut'
                 /\ s3'.alert_dispatch => s3'.left # <<>> /\ s3'.wpend_type # "handshake"
                 /\ Under(s3', "alert") => s3.wnum = 0
      <3>1. shut'
        BY <1>1, <2>1
      <3>2. CASE s3.left # <<>>
        <4>1. /\ s3'.left # <<>> /\ s3'.wpend_type = s3.wpend_type
              /\ Under(s3', "alert") => Under(s3, "alert")
          BY <1>1, <3>2 DEF SameUnder, Under
        <4>2. s3.wpend_type # "handshake"
          BY <1>1, <1>2, <3>2 DEF Owner, Under
        <4>3. Under(s3, "alert") => s3.wnum = 0
          BY <1>2, <1>6, <2>1 DEF Roles
        <4> QED
          BY <3>1, <4>1, <4>2, <4>3
      <3>3. CASE s3.left = <<>>
        <4>1. s3.wnum = 0
          BY <1>1, <1>2, <2>1, <3>3 DEF Zero
        <4>2. s3'.alert_dispatch => Under(s3', "alert")
          BY <1>1, <3>3
        <4> QED
          BY <3>1, <4>1, <4>2 DEF Under
      <3> QED
        BY <3>2, <3>3
    <2> QED
      BY <1>1, <1>6, <2>1 DEF Roles
  <1>13. Shake'
    BY <1>1 DEF Shake
  <1>14. Reach'
    <2> SUFFICES ASSUME repeat # <<>>, ~shut'
                 PROVE  /\ Done < repeat[1].len /\ Done + Pending("app") <= repeat[1].len
                        /\ Reached(acked + Done + Pending("app"))'
      BY <1>1, <1>6, <1>8 DEF Reach
    <2>1. ~shut
      BY <1>1
    <2>2. /\ Done < repeat[1].len /\ Done + Pending("app") <= repeat[1].len
          /\ Reached(acked + Done + Pending("app"))
      BY <1>1, <1>2, <2>1 DEF Reach
    <2> QED
      BY <1>1, <1>5, <1>6, <1>8, <2>2 DEF Reached
  <1> QED
    BY <1>1, <1>2, <1>7, <1>9, <1>10, <1>11, <1>12, <1>13, <1>14 DEF FrameInv

LEMMA GoingOn_Frame ==
  ASSUME Inv, FrameInv, GoingOn
  PROVE  FrameInv'
  <1>1. /\ call = <<>> /\ ~s3.gone /\ hello = "none" /\ shut /\ s3.alert_dispatch
        /\ UNCHANGED <<mode, call, repeat, acked, hello, digested, shut, alerts>>
        /\ s3'.wnum = s3.wnum /\ s3'.gone = s3.gone
        /\ Chain(Flow(s3)) => Chain(Flow(s3'))
        /\ s3.left # <<>> =>
             /\ Recs(Flow(s3')) = Recs(Flow(s3))
             /\ \/ SameUnder(s3, s3') /\ s3'.alert_dispatch
                \/ NoneUnder(s3') /\ ~s3'.alert_dispatch /\ s3.wpend_type = "alert"
        /\ s3.left = <<>> =>
             /\ Recs(Flow(s3')) \subseteq Recs(Flow(s3)) \cup AlertRecs(s3)
             /\ \/ Under(s3', "alert") /\ s3'.alert_dispatch
                \/ NoneUnder(s3') /\ ~s3'.alert_dispatch
    BY DEF GoingOn, Again, Idle, Steady, Grows
  <1>2. Chain(Flow(s3)) /\ Bounded /\ Calls /\ Owner /\ Zero /\ Roles /\ Shake /\ Reach
    BY DEF FrameInv
  <1>3. alerts.asked \in Nat /\ s3.send_alert \in Nat /\ s3.send_alert <= alerts.asked
    BY TypedFacts
  <1>4. \A r \in AlertRecs(s3) : r.type = "alert" /\ r.to <= alerts.asked
    BY <1>3 DEF AlertRecs, AlertRecord, Record
  <1>5. Promised' = Promised /\ Announced' = Announced /\ Done' = Done /\ Done = s3.wnum
    BY <1>1 DEF Promised, Announced, Length, Done
  <1>6. Bounded'
    <2> SUFFICES ASSUME NEW r \in Recs(Flow(s3'))
                 PROVE  /\ r.type = "app" => r.to <= Promised
                        /\ r.type = "handshake" => r.to <= Announced
                        /\ r.type = "alert" => r.to <= alerts.asked
      BY <1>1, <1>5 DEF Bounded
    <2>1. r \in Recs(Flow(s3)) \/ r \in AlertRecs(s3)
      BY <1>1
    <2> QED
      BY <1>2, <1>4, <2>1 DEF Bounded
  <1>7. Calls'
    <2>1. Len(call') = 0
      BY <1>1
    <2> QED
      BY <1>1, <2>1 DEF Calls
  <1>8. Owner'
    BY <1>1, <1>2 DEF Owner, SameUnder, NoneUnder, Under
  <1>9. Zero'
    <2>1. s3'.left = <<>> => s3.left = <<>> \/ Under(s3, "alert")
      BY <1>1 DEF SameUnder, Under
    <2>2. Under(s3, "alert") => s3.wnum = 0 \/ (shut /\ "server" \in mode)
      BY <1>1, <1>2, <1>5 DEF Roles
    <2> QED
      BY <1>1, <1>2, <2>1, <2>2 DEF Zero
  <1>10. Roles'
    <2>1. ASSUME "server" \notin mode
          PROVE  /\ s3'.alert_dispatch => s3'.left # <<>> /\ s3'.wpend_type # "handshake"
                 /\ Under(s3', "alert") => s3.wnum = 0
      <3>1. s3.left # <<>> /\ s3.wpend_type # "handshake" /\ (Under(s3, "alert") => s3.wnum = 0)
        BY <1>1, <1>2, <1>5, <2>1 DEF Roles
      <3>2. CASE SameUnder(s3, s3') /\ s3'.alert_dispatch
        BY <3>1, <3>2 DEF SameUnder, Under
      <3>3. CASE NoneUnder(s3') /\ ~s3'.alert_dispatch
        BY <3>3 DEF NoneUnder, Under
      <3> QED
        BY <1>1, <3>1, <3>2, <3>3
    <2> QED
      BY <1>1, <1>5, <2>1 DEF Roles
  <1>11. Shake' /\ Reach'
    BY <1>1 DEF Shake, Reach
  <1> QED
    BY <1>1, <1>2, <1>6, <1>7, <1>8, <1>9, <1>10, <1>11 DEF FrameInv

LEMMA renegotiate_Frame ==
  ASSUME Inv, FrameInv, renegotiate
  PROVE  FrameInv'
  <1>1. /\ call = <<>> /\ ~s3.gone /\ hello = "none" /\ hello' = "write"
        /\ "server" \in mode => ~shut
        /\ "server" \notin mode => s3.left = <<>>
        /\ UNCHANGED <<mode, s3, call, repeat, acked, digested, shut, alerts>>
    BY DEF renegotiate, Idle
  <1>2. Chain(Flow(s3)) /\ Bounded /\ Calls /\ Owner /\ Zero /\ Roles /\ Shake /\ Reach
    BY DEF FrameInv
  <1>3. /\ acked \in Nat /\ digested \in Nat /\ Length \in Nat \ {0}
        /\ Recs(Flow(s3)) \subseteq Rec
    BY TypedFacts
  <1>4. Promised' = Promised /\ Announced = digested /\ Announced' = digested + Length
        /\ Length' = Length /\ Done' = Done /\ Done = s3.wnum
    BY <1>1 DEF Promised, Announced, Length, Done
  <1>5. Bounded'
    <2> SUFFICES ASSUME NEW r \in Recs(Flow(s3))
                 PROVE  /\ r.type = "app" => r.to <= Promised
                        /\ r.type = "handshake" => r.to <= digested + Length
                        /\ r.type = "alert" => r.to <= alerts.asked
      BY <1>1, <1>4 DEF Bounded
    <2>1. r.to \in Nat
      BY <1>3 DEF Rec
    <2>2. /\ r.type = "app" => r.to <= Promised
          /\ r.type = "handshake" => r.to <= digested
          /\ r.type = "alert" => r.to <= alerts.asked
      BY <1>2, <1>4 DEF Bounded
    <2> QED
      BY <1>3, <2>1, <2>2
  <1>6. Calls'
    <2>1. Len(call') = 0
      BY <1>1
    <2> QED
      BY <1>1, <2>1 DEF Calls
  <1>7. Owner' /\ Zero'
    BY <1>1, <1>2 DEF Owner, Zero, Under
  <1>8. Roles'
    BY <1>1, <1>2, <1>4 DEF Roles, Under
  <1>9. Shake'
    <2> SUFFICES ASSUME ~(s3.left # <<>> /\ s3.wpend_type # "handshake")
                 PROVE  /\ Done < Length /\ Done + Pending("handshake") <= Length
                        /\ ~(Len(call) = 2)
                        /\ ~shut => Reached(acked)
      BY <1>1, <1>4 DEF Shake, Stuck, Pending, Under, Reached
    <2>1. s3.left = <<>>
      BY <1>1, <1>2 DEF Owner, Under
    <2>2. Done = 0 /\ \A t : Pending(t) = 0
      BY <1>1, <1>2, <1>4, <2>1 DEF Zero, Pending, Under
    <2>3. ASSUME ~shut
          PROVE  Reached(acked)
      <3>1. CASE repeat = <<>>
        BY <1>2, <3>1 DEF Bounded, Promised, Reached
      <3>2. CASE repeat # <<>>
        <4>1. Reached(acked + 0 + 0)
          BY <1>1, <1>2, <2>2, <2>3, <3>2 DEF Reach
        <4>2. acked + 0 + 0 = acked
          BY <1>3
        <4> QED
          BY <4>1, <4>2
      <3> QED
        BY <3>1, <3>2
    <2>4. ~(Len(call) = 2)
      BY <1>1
    <2> QED
      BY <1>3, <2>2, <2>3, <2>4
  <1>10. Reach'
    BY <1>1 DEF Reach
  <1> QED
    BY <1>1, <1>2, <1>5, <1>6, <1>7, <1>8, <1>9, <1>10 DEF FrameInv

LEMMA handshake_done_Frame ==
  ASSUME Inv, FrameInv, handshake_done
  PROVE  FrameInv'
  <1>1. /\ call = <<>> /\ hello = "read" /\ hello' = "none"
        /\ UNCHANGED <<mode, s3, call, repeat, acked, digested, shut, alerts>>
    BY DEF handshake_done, Idle
  <1>2. Chain(Flow(s3)) /\ Bounded /\ Calls /\ Owner /\ Zero /\ Roles /\ Shake /\ Reach
    BY DEF FrameInv
  <1>3. acked \in Nat /\ (repeat # <<>> => repeat[1].len \in Nat \ {0})
    BY TypedFacts
  <1>4. s3.left = <<>> /\ s3.wnum = 0 /\ Done = 0 /\ \A t : Pending(t) = 0
    BY <1>1, <1>2 DEF Calls, Done, Pending, Under
  <1>5. Promised' = Promised /\ Announced' = Announced /\ Done' = 0 /\ Pending("app")' = 0
    BY <1>1, <1>4 DEF Promised, Announced, Length, Done, Pending, Under
  <1>6. Bounded' /\ Owner' /\ Zero' /\ Roles' /\ Shake'
    BY <1>1, <1>2, <1>4, <1>5 DEF Bounded, Owner, Zero, Roles, Shake, Under
  <1>7. Calls'
    <2>1. Len(call') = 0
      BY <1>1
    <2> QED
      BY <1>1, <2>1 DEF Calls
  <1>8. Reach'
    <2>1. ~shut => Reached(acked)
      BY <1>1, <1>2 DEF Reach
    <2>2. acked + 0 + 0 = acked
      BY <1>3
    <2>3. repeat # <<>> => 0 < repeat[1].len /\ 0 + 0 <= repeat[1].len
      BY <1>3
    <2> QED
      BY <1>1, <1>5, <2>1, <2>2, <2>3 DEF Reach, Reached
  <1> QED
    BY <1>1, <1>2, <1>6, <1>7, <1>8 DEF FrameInv

LEMMA InitFrame ==
  ASSUME Init
  PROVE  FrameInv
  <1>1. /\ s3.left = <<>> /\ s3.wire = <<>> /\ s3.wnum = 0 /\ ~s3.alert_dispatch
        /\ call = <<>> /\ repeat = <<>> /\ hello = "none" /\ shut = FALSE
    BY DEF Init, Fresh
  <1>2. Flow(s3) = <<>> /\ Len(call) = 0
    BY <1>1, ConcatEmptySeq DEF Flow
  <1>3. Recs(Flow(s3)) = {} /\ Chain(Flow(s3))
    BY <1>2 DEF Recs, Chain
  <1>4. Bounded /\ Calls /\ Owner /\ Zero /\ Roles /\ Shake /\ Reach
    BY <1>1, <1>2, <1>3 DEF Bounded, Calls, Owner, Zero, Roles, Shake, Reach, Under
  <1> QED
    BY <1>3, <1>4 DEF FrameInv

LEMMA NextFrame ==
  ASSUME Inv, FrameInv, ~({"long", "through"} \subseteq mode), [Next]_vars
  PROVE  FrameInv'
  <1>1. Typed /\ Sound
    BY DEF Inv
  <1>2. ASSUME NEW o, Round(o)
        PROVE  FrameInv'
    <2>1. hello = "none" \/ hello = "write"
      BY <1>2, TypedFacts DEF Round, FrameInv, Calls
    <2>2. CASE Stuck
      BY <1>2, <2>2, Stuck_Frame
    <2>3. CASE hello = "none"
      BY <1>2, <2>3, App_Frame
    <2>4. CASE hello = "write" /\ ~Stuck
      BY <1>2, <2>4, Hello_Frame
    <2> QED
      BY <2>1, <2>2, <2>3, <2>4
  <1>3. CASE UNCHANGED vars
    <2>1. UNCHANGED <<mode, s3, call, repeat, acked, hello, digested, shut, alerts>>
      BY <1>3 DEF vars
    <2>2. /\ Promised' = Promised /\ Announced' = Announced /\ Length' = Length /\ Done' = Done
          /\ \A t : Pending(t)' = Pending(t)
      BY <2>1 DEF Promised, Announced, Length, Done, Pending, Under
    <2>3. (Bounded /\ Calls /\ Owner)'
      BY <2>1, <2>2 DEF FrameInv, Bounded, Calls, Owner, AppFrame, HelloFrame, Under
    <2>4. (Zero /\ Roles)'
      BY <2>1, <2>2 DEF FrameInv, Zero, Roles, Under
    <2>5. (Shake /\ Reach)'
      BY <2>1, <2>2 DEF FrameInv, Shake, Reach, Stuck, Reached
    <2> QED
      BY <2>1, <2>3, <2>4, <2>5 DEF FrameInv
  <1> QED
    BY <1>1, <1>2, <1>3, NextFacts, SSL_write_Frame, handshake_func_Frame, Asking_Frame,
       GoingOn_Frame, renegotiate_Frame, handshake_done_Frame

\* Whole records that stay within what was announced read as Framing asks.
LEMMA InvFraming ==
  ASSUME Inv, FrameInv
  PROVE  Framing
  <1>1. s3 \in Write /\ Chain(Flow(s3)) /\ Bounded
    BY TypedFacts DEF FrameInv
  <1>2. Sent = Flow(s3) /\ Flow(s3) \in Seq(Unit)
    BY <1>1, FlowFacts DEF Sent, Flow
  <1>3. /\ Given["app"] = acked + IF repeat = <<>> THEN 0 ELSE repeat[1].len
        /\ Given["handshake"] = digested + IF hello = "write" THEN Message.len ELSE 0
        /\ Given["alert"] = alerts.asked
    BY DEF Given
  <1>4. Message.len = Length
    BY DEF Message, Frame, Length
  <1>5. acked + 0 = acked /\ digested + 0 = digested
    BY TypedFacts
  <1>6. Given["app"] = Promised /\ Given["handshake"] = Announced
    <2>1. Given["app"] = Promised
      BY <1>3, <1>5 DEF Promised
    <2>2. Given["handshake"] = Announced
      BY <1>3, <1>4, <1>5 DEF Announced
    <2> QED
      BY <2>1, <2>2
  <1> SUFFICES ASSUME NEW k \in DOMAIN Sent
               PROVE  /\ Sent[k].rec.to <= Given[Sent[k].rec.type]
                      /\ Sent[k].i > 0 => k > 1 /\ Sent[k - 1] = [Sent[k] EXCEPT !.i = @ - 1]
                      /\ Sent[k].i < Sent[k].rec.to - Sent[k].rec.from + 1 =>
                           k < Len(Sent) /\ Sent[k + 1] = [Sent[k] EXCEPT !.i = @ + 1]
    BY DEF Framing
  <1> DEFINE r == Sent[k].rec
  <1>7. r \in Recs(Flow(s3))
    BY <1>2 DEF Recs
  <1>8. r.type \in Types
    <2>1. r \in Rec
      BY <1>7, TypedFacts
    <2> QED
      BY <2>1 DEF Rec
  <1>9. /\ r.type = "app" => r.to <= Promised
        /\ r.type = "handshake" => r.to <= Announced
        /\ r.type = "alert" => r.to <= alerts.asked
    BY <1>1, <1>7 DEF Bounded
  <1>10. r.to <= Given[r.type]
    BY <1>3, <1>6, <1>8, <1>9 DEF Types
  <1>11. /\ Sent[k].i > 0 => k > 1 /\ Sent[k - 1] = [Sent[k] EXCEPT !.i = @ - 1]
         /\ Sent[k].i < Sent[k].rec.to - Sent[k].rec.from + 1 =>
              k < Len(Sent) /\ Sent[k + 1] = [Sent[k] EXCEPT !.i = @ + 1]
    BY <1>1, <1>2 DEF Chain
  <1> QED
    BY <1>10, <1>11

\* What the record layer of ssl/s3_pkt.c puts out reads as whole records, one after
\* the other, that stay within the bytes their writers were given, unless SSL_write
\* gets on with handshake messages that are longer than a record: it drops the
\* progress of such a message, which the application's write then takes for its own.
THEOREM Framed ==
  ASSUME \A m \in Modes : ~({"long", "through"} \subseteq m)
  PROVE  Spec => []Framing
  <1>1. Init => Inv /\ FrameInv
    BY InitInv, InitFrame
  <1>2. Inv /\ FrameInv /\ [Next]_vars => (Inv /\ FrameInv)'
    <2> SUFFICES ASSUME Inv, FrameInv, [Next]_vars
                 PROVE  (Inv /\ FrameInv)'
      OBVIOUS
    <2>1. ~({"long", "through"} \subseteq mode)
      BY DEF Inv, Typed
    <2> QED
      BY <2>1, NextInv, NextFrame
  <1>3. Inv /\ FrameInv => Framing
    BY InvFraming
  <1> QED
    BY <1>1, <1>2, <1>3, PTL DEF Spec

-----------------------------------------------------------------------------
(* Empty fragments.                                                        *)

\* The header of the record after the application's first c bytes, and what may
\* come before it: the header of an empty fragment, or the end of an alert.
First(u, c) == u.rec.type = "app" /\ u.rec.from = c + 1 /\ u.rec.to >= u.rec.from /\ u.i = 0
Lead(u) == u.rec.type = "alert" \/ (u.rec.type = "app" /\ u.rec.to < u.rec.from)
Led(s, c) == \A k \in DOMAIN s : First(s[k], c) => k > 1 /\ Lead(s[k - 1])
Ends(s, t) == s # <<>> /\ s[Len(s)].rec.type = t

\* The stream is led, and the record under way is the last of it.
Leading(w, c) ==
  /\ "empty" \in mode => Led(Flow(w), c)
  /\ w.left # <<>> => Ends(Flow(w), w.wpend_type)

\* The mark of the empty fragment is only set with an alert at the end, a record
\* under way, or an application's write beyond its first record.
Flag ==
  s3.empty_fragment_done /\ ~s3.gone =>
    Ends(Flow(s3), "alert") \/ s3.left # <<>> \/ (call # <<>> /\ Done > 0)

EmptyInv == Leading(s3, acked) /\ Flag

\* A record put behind a stream ends it, and leaves it led if it is not the first
\* of the application's bytes or comes behind what may lead it.
LEMMA PutFacts ==
  ASSUME NEW s \in Seq(Unit), NEW r \in Rec, r.to >= r.from - 1, NEW c
  PROVE  LET e == s \o Units(r) IN
         /\ e \in Seq(Unit) /\ e # <<>> /\ e[Len(e)].rec = r
         /\ /\ Led(s, c)
            /\ r.type = "app" /\ r.from = c + 1 /\ r.to >= r.from => s # <<>> /\ Lead(s[Len(s)])
            => Led(e, c)
  <1> DEFINE u == Units(r)
             e == s \o u
             n == Len(s)
             m == r.to - r.from + 2
  <1>1. u \in Seq(Unit)
    BY UnitsFacts
  <1>2. m \in Nat /\ m >= 1 /\ u = [k \in 1 .. m |-> [rec |-> r, i |-> k - 1]]
    BY DEF Rec, Units
  <1>3. Len(u) = m
    BY <1>1, <1>2
  <1>4. \A k \in 1 .. m : u[k].rec = r /\ u[k].i = k - 1
    BY <1>2
  <1> HIDE DEF u, m
  <1>5. /\ e \in Seq(Unit) /\ Len(e) = n + m
        /\ \A i \in 1 .. n + m : e[i] = IF i <= n THEN s[i] ELSE u[i - n]
    <2>1. /\ e \in Seq(Unit) /\ Len(e) = Len(s) + Len(u)
          /\ \A i \in 1 .. Len(s) + Len(u) : e[i] = IF i <= Len(s) THEN s[i] ELSE u[i - Len(s)]
      BY <1>1, ConcatProperties, Zenon
    <2> QED
      BY <1>3, <2>1
  <1>6. n \in Nat /\ DOMAIN s = 1 .. n /\ DOMAIN e = 1 .. n + m
    BY <1>5
  <1>7. \A j \in 1 .. m : e[n + j] = u[j]
    <2> TAKE j \in 1 .. m
    <2>1. n + j \in 1 .. n + m /\ ~(n + j <= n) /\ n + j - n = j
      BY <1>2, <1>6
    <2> QED
      BY <1>5, <2>1
  <1> HIDE DEF e
  <1>8. e # <<>> /\ e[Len(e)].rec = r
    <2>1. m \in 1 .. m /\ n + m > 0
      BY <1>2, <1>6
    <2>2. e[n + m] = u[m]
      BY <1>7, <2>1
    <2>3. u[m].rec = r
      BY <1>4, <2>1
    <2> QED
      BY <1>5, <2>1, <2>2, <2>3
  <1>9. ASSUME Led(s, c),
               r.type = "app" /\ r.from = c + 1 /\ r.to >= r.from => s # <<>> /\ Lead(s[Len(s)]),
               NEW k \in 1 .. n + m, First(e[k], c)
        PROVE  k > 1 /\ Lead(e[k - 1])
    <2>1. CASE k <= n
      <3>1. e[k] = s[k] /\ k \in DOMAIN s
        BY <1>5, <1>6, <2>1
      <3>2. k > 1 /\ Lead(s[k - 1])
        BY <1>9, <3>1 DEF Led
      <3>3. k - 1 \in 1 .. n + m /\ k - 1 <= n
        BY <1>2, <1>6, <2>1, <3>2
      <3>4. e[k - 1] = s[k - 1]
        BY <1>5, <3>3
      <3> QED
        BY <3>2, <3>4
    <2>2. CASE ~(k <= n)
      <3> DEFINE j == k - n
      <3>1. j \in 1 .. m /\ k = n + j
        BY <1>2, <1>6, <2>2
      <3> HIDE DEF j
      <3>2. e[k] = u[j] /\ u[j].rec = r /\ u[j].i = j - 1
        BY <1>4, <1>7, <3>1
      <3>3. j = 1 /\ r.type = "app" /\ r.from = c + 1 /\ r.to >= r.from
        BY <1>9, <3>1, <3>2 DEF First
      <3>4. s # <<>> /\ Lead(s[n])
        BY <1>9, <3>3
      <3>5. n \in 1 .. n + m /\ k - 1 = n /\ k > 1
        BY <1>2, <1>6, <3>1, <3>3, <3>4
      <3>6. e[k - 1] = s[n]
        BY <1>5, <3>5
      <3> QED
        BY <3>4, <3>5, <3>6
    <2> QED
      BY <2>1, <2>2
  <1>10. /\ Led(s, c)
         /\ r.type = "app" /\ r.from = c + 1 /\ r.to >= r.from => s # <<>> /\ Lead(s[Len(s)])
         => Led(e, c)
    <2> HAVE /\ Led(s, c)
             /\ r.type = "app" /\ r.from = c + 1 /\ r.to >= r.from => s # <<>> /\ Lead(s[Len(s)])
    <2>1. ASSUME NEW k \in DOMAIN e, First(e[k], c)
          PROVE  k > 1 /\ Lead(e[k - 1])
      BY <1>6, <1>9, <2>1
    <2> QED
      BY <2>1 DEF Led
  <1> QED
    BY <1>5, <1>8, <1>10 DEF e, u

\* The rest of the record under way changes neither.
LEMMA PendingLead ==
  ASSUME NEW w \in Write, w.left # <<>>, Ready(w), NEW t, NEW b, NEW n \in Nat,
         NEW o \in ssl3_write_pending(w, t, b, n), NEW c, Leading(w, c)
  PROVE  Leading(o.s3, c) /\ Flow(o.s3) = Flow(w)
  <1>1. /\ Flow(o.s3) = Flow(w)
        /\ SameUnder(w, o.s3) \/ NoneUnder(o.s3)
    BY PendingFacts
  <1> QED
    BY <1>1 DEF Leading, SameUnder, NoneUnder

\* A new record comes behind an empty fragment unless the mark says that one was sent.
LEMMA BuiltLead ==
  ASSUME NEW w \in Write, w.left = <<>>, NEW t \in Types, NEW b \in Keys,
         NEW a \in Nat \ {0}, NEW n \in Nat, NEW o \in Built(w, t, b, a, n),
         NEW c, Leading(w, c),
         t = "app" /\ a = c + 1 /\ w.empty_fragment_done => Ends(Flow(w), "alert")
  PROVE  /\ Leading(o.s3, c)
         /\ n > 0 /\ w.buf => Ends(Flow(o.s3), t)
  <1>1. CASE n = 0
    <2>1. o.s3 = w
      BY <1>1 DEF Built, Outcome
    <2> QED
      BY <1>1, <2>1
  <1>2. CASE n # 0 /\ ~w.buf
    <2>1. o.s3 = [w EXCEPT !.gone = TRUE]
      BY <1>2 DEF Built, Outcome
    <2>2. o.s3.left = w.left /\ o.s3.wire = w.wire /\ o.s3.wpend_type = w.wpend_type
      BY <2>1 DEF Write
    <2> QED
      BY <1>2, <2>2 DEF Leading, Flow
  <1>3. CASE n # 0 /\ w.buf
    <2> DEFINE r == Record(t, a, a + n - 1)
               p == Record(t, a, a - 1)
               q == Prefix(w, t, a)
               l == q \o Units(r)
               v == [w EXCEPT !.left = l, !.wpend_tot = n, !.wpend_buf = b, !.wpend_type = t,
                              !.wpend_ret = n, !.empty_fragment_done = TRUE]
    <2>1. o \in ssl3_write_pending(v, t, b, n)
      BY <1>3 DEF Built
    <2>2. /\ r \in Rec /\ r.to = a + n - 1 /\ r.from = a /\ r.type = t
          /\ p \in Rec /\ p.to = a - 1 /\ p.from = a /\ p.type = t
      BY DEF Record, Rec
    <2>3. r.to >= r.from - 1 /\ p.to >= p.from - 1 /\ ~(p.to >= p.from) /\ p.to < p.from
      BY <2>2
    <2>4. q = IF t = "app" /\ "empty" \in mode /\ ~w.empty_fragment_done THEN Units(p) ELSE <<>>
      BY DEF Prefix
    <2> HIDE DEF r, p, q
    <2>5. /\ Units(r) \in Seq(Unit) /\ Units(r) # <<>>
          /\ Units(p) \in Seq(Unit) /\ <<>> \in Seq(Unit)
      BY <2>2, <2>3, UnitsFacts
    <2>6. q \in Seq(Unit) /\ w.wire \in Seq(Unit)
      BY <2>4, <2>5 DEF Write
    <2>7. l \in Seq(Unit)
      BY <2>5, <2>6, ConcatProperties, Zenon
    <2>8. l # <<>>
      BY <2>5, <2>6, ConcatSimplifications
    <2>9. Flow(w) = w.wire /\ Flow(w) \in Seq(Unit)
      BY FlowFacts
    <2>10. w.wire \o l = (Flow(w) \o q) \o Units(r)
      <3>1. w.wire \in Seq(Unit) /\ q \in Seq(Unit) /\ Units(r) \in Seq(Unit)
        BY <2>5, <2>6
      <3>2. (w.wire \o q) \o Units(r) = w.wire \o (q \o Units(r))
        BY <3>1, UnitsAssociate, Zenon
      <3> QED
        BY <2>9, <3>2
    <2> HIDE DEF l
    <2>11. /\ v \in Write /\ v.left = l /\ v.wpend_tot = n /\ v.wpend_ret = n /\ v.wpend_type = t
           /\ v.wire = w.wire
      BY <2>7 DEF Write, Keys
    <2> HIDE DEF v
    <2> DEFINE x == Flow(w) \o q
    <2>12. Flow(v) = x \o Units(r)
      BY <2>10, <2>11 DEF Flow
    <2>13. /\ x \in Seq(Unit)
           /\ "empty" \in mode => Led(x, c)
           /\ "empty" \in mode /\ t = "app" /\ a = c + 1 => x # <<>> /\ Lead(x[Len(x)])
      <3>1. CASE t = "app" /\ "empty" \in mode /\ ~w.empty_fragment_done
        <4>1. x = Flow(w) \o Units(p)
          BY <2>4, <3>1
        <4>2. x \in Seq(Unit) /\ x # <<>> /\ x[Len(x)].rec = p /\ (Led(Flow(w), c) => Led(x, c))
          BY <2>2, <2>3, <2>9, <4>1, PutFacts
        <4>3. Lead(x[Len(x)])
          BY <2>2, <2>3, <3>1, <4>2 DEF Lead
        <4> QED
          BY <3>1, <4>2, <4>3 DEF Leading
      <3>2. CASE ~(t = "app" /\ "empty" \in mode /\ ~w.empty_fragment_done)
        <4>1. x = Flow(w)
          <5>1. q = <<>>
            BY <2>4, <3>2
          <5> QED
            BY <2>9, <5>1, ConcatEmptySeq, Zenon
        <4>2. ASSUME "empty" \in mode, t = "app", a = c + 1
              PROVE  x # <<>> /\ Lead(x[Len(x)])
          <5>1. Ends(x, "alert")
            BY <3>2, <4>1, <4>2
          <5> QED
            BY <5>1 DEF Ends, Lead
        <4> QED
          BY <2>9, <4>1, <4>2 DEF Leading
      <3> QED
        BY <3>1, <3>2
    <2> HIDE DEF x
    <2>14. /\ Flow(v) # <<>> /\ Flow(v)[Len(Flow(v))].rec = r
           /\ "empty" \in mode => Led(Flow(v), c)
      <3>1. LET e == x \o Units(r) IN
            /\ e \in Seq(Unit) /\ e # <<>> /\ e[Len(e)].rec = r
            /\ /\ Led(x, c)
               /\ r.type = "app" /\ r.from = c + 1 /\ r.to >= r.from => x # <<>> /\ Lead(x[Len(x)])
               => Led(e, c)
        BY <2>2, <2>3, <2>13, PutFacts
      <3> QED
        BY <2>2, <2>12, <2>13, <3>1
    <2>15. Leading(v, c) /\ Ends(Flow(v), t)
      BY <2>2, <2>11, <2>14 DEF Leading, Ends
    <2>16. Ready(v)
      BY <1>3, <2>11 DEF Ready
    <2>17. Leading(o.s3, c) /\ Flow(o.s3) = Flow(v)
      BY <2>1, <2>8, <2>11, <2>15, <2>16, PendingLead
    <2> QED
      BY <2>15, <2>17
  <1> QED
    BY <1>1, <1>2, <1>3

\* An alert never comes before the application's bytes without leading them.
LEMMA AlertLead ==
  ASSUME NEW w \in Write, Ready(w), w.send_alert > 0, NEW o \in ssl3_dispatch_alert(w),
         NEW c, Leading(w, c)
  PROVE  /\ Leading(o.s3, c)
         /\ w.left # <<>> => Flow(o.s3) = Flow(w)
         /\ w.left = <<>> => Ends(Flow(o.s3), "alert")
  <1> DEFINE x == [w EXCEPT !.alert_dispatch = FALSE]
             y == [x EXCEPT !.buf = TRUE]
             s == w.send_alert
             key == <<"alert", 0>>
  <1>1. PICK q \in WriteAlert(x) : o = [q EXCEPT !.s3.alert_dispatch = q.ret <= 0]
    BY DEF ssl3_dispatch_alert
  <1>2. /\ x \in Write /\ x.left = w.left /\ x.send_alert = w.send_alert
        /\ y \in Write /\ y.left = w.left /\ y.wire = w.wire /\ y.buf
        /\ y.wpend_tot = w.wpend_tot /\ y.wpend_ret = w.wpend_ret /\ y.wpend_type = w.wpend_type
    BY DEF Write
  <1>3. /\ w.left # <<>> => q \in ssl3_write_pending(y, "alert", key, 1)
        /\ w.left = <<>> => q \in Built(y, "alert", key, s, 1)
    BY <1>2 DEF WriteAlert
  <1>4. key \in Keys /\ s \in Nat \ {0} /\ "alert" \in Types /\ 1 \in Nat
    BY DEF Keys, Buffers, Types, Write
  <1> HIDE DEF x, y, s, key
  <1>5. Ready(y) /\ Flow(y) = Flow(w) /\ Leading(y, c)
    BY <1>2 DEF Ready, Flow, Leading
  <1>6. q \in Outcomes
    BY <1>2, <1>3, <1>4, <1>5, PendingFacts, BuiltFacts
  <1>7. /\ Flow(o.s3) = Flow(q.s3) /\ o.s3.left = q.s3.left /\ o.s3.wpend_type = q.s3.wpend_type
    BY <1>1, <1>6 DEF Outcomes, Write, Flow
  <1>8. CASE w.left # <<>>
    <2>1. Leading(q.s3, c) /\ Flow(q.s3) = Flow(y)
      BY <1>2, <1>3, <1>4, <1>5, <1>8, PendingLead
    <2> QED
      BY <1>5, <1>7, <1>8, <2>1 DEF Leading
  <1>9. CASE w.left = <<>>
    <2>1. Leading(q.s3, c) /\ Ends(Flow(q.s3), "alert")
      BY <1>2, <1>3, <1>4, <1>5, <1>9, BuiltLead
    <2> QED
      BY <1>7, <1>9, <2>1 DEF Leading
  <1> QED
    BY <1>8, <1>9

\* No writer puts the application's next bytes out without what leads them, if the
\* mark is only set with an alert at the end.
LEMMA WriteLead ==
  ASSUME NEW w \in Write, Ready(w), w.alert_dispatch => w.send_alert > 0, NEW t \in Types,
         NEW b \in Keys, NEW a \in Nat \ {0}, NEW n \in Nat, NEW o \in do_ssl3_write(w, t, b, a, n),
         NEW c, Leading(w, c),
         w.left = <<>> /\ t = "app" /\ a = c + 1 /\ w.empty_fragment_done => Ends(Flow(w), "alert")
  PROVE  Leading(o.s3, c)
  <1> DEFINE v == [w EXCEPT !.buf = TRUE]
  <1>1. /\ v \in Write /\ v.left = w.left /\ v.wire = w.wire /\ v.buf
        /\ v.wpend_tot = w.wpend_tot /\ v.wpend_ret = w.wpend_ret /\ v.wpend_type = w.wpend_type
        /\ v.send_alert = w.send_alert /\ v.alert_dispatch = w.alert_dispatch
        /\ v.empty_fragment_done = w.empty_fragment_done
    BY DEF Write
  <1>2. /\ v.left # <<>> => o \in ssl3_write_pending(v, t, b, n)
        /\ v.left = <<>> /\ v.alert_dispatch =>
             \E p \in ssl3_dispatch_alert(v) :
               (p.ret <= 0 /\ o = p) \/ (~(p.ret <= 0) /\ o \in Built(p.s3, t, b, a, n))
        /\ v.left = <<>> /\ ~v.alert_dispatch => o \in Built(v, t, b, a, n)
    <2> DEFINE S(p) == IF p.ret <= 0 THEN {p} ELSE Built(p.s3, t, b, a, n)
    <2>1. o \in (IF v.left # <<>> THEN ssl3_write_pending(v, t, b, n)
                 ELSE IF v.alert_dispatch THEN UNION {S(p) : p \in ssl3_dispatch_alert(v)}
                 ELSE Built(v, t, b, a, n))
      BY DEF do_ssl3_write
    <2> HIDE DEF v
    <2>2. ASSUME v.left = <<>>, v.alert_dispatch
          PROVE  \E p \in ssl3_dispatch_alert(v) :
                   (p.ret <= 0 /\ o = p) \/ (~(p.ret <= 0) /\ o \in Built(p.s3, t, b, a, n))
      <3>1. PICK p \in ssl3_dispatch_alert(v) : o \in S(p)
        BY <2>1, <2>2
      <3> QED
        BY <3>1
    <2> QED
      BY <2>1, <2>2
  <1> HIDE DEF v
  <1>3. Ready(v) /\ Flow(v) = Flow(w) /\ Leading(v, c)
    BY <1>1 DEF Ready, Flow, Leading
  <1>4. CASE w.left # <<>>
    BY <1>1, <1>2, <1>3, <1>4, PendingLead
  <1>5. CASE w.left = <<>> /\ ~w.alert_dispatch
    BY <1>1, <1>2, <1>3, <1>5, BuiltLead
  <1>6. CASE w.left = <<>> /\ w.alert_dispatch
    <2>1. PICK p \in ssl3_dispatch_alert(v) :
            (p.ret <= 0 /\ o = p) \/ (~(p.ret <= 0) /\ o \in Built(p.s3, t, b, a, n))
      BY <1>1, <1>2, <1>6
    <2>2. /\ p \in Outcomes
          /\ Begun(p.s3, p.ret, "alert", 1) \/ Out(p.s3, p.ret, 1)
      BY <1>1, <1>3, <1>6, AlertFacts
    <2>3. Leading(p.s3, c) /\ Ends(Flow(p.s3), "alert")
      BY <1>1, <1>3, <1>6, AlertLead
    <2>4. CASE o = p
      BY <2>3, <2>4
    <2>5. CASE ~(p.ret <= 0) /\ o \in Built(p.s3, t, b, a, n)
      <3>1. ~Begun(p.s3, p.ret, "alert", 1)
        BY <2>5 DEF Begun
      <3>2. p.s3.left = <<>> /\ p.s3 \in Write
        BY <2>2, <3>1 DEF Out, Outcomes
      <3> QED
        BY <2>3, <2>5, <3>2, BuiltLead
    <2> QED
      BY <2>1, <2>4, <2>5
  <1> QED
    BY <1>4, <1>5, <1>6

\* A step that only touches progress keeps the stream led.
LEMMA LikeLead ==
  ASSUME NEW w, NEW v, Like(w, v), NEW c, Leading(w, c)
  PROVE  Leading(v, c)
  BY DEF Like, Leading, Flow

\* A round keeps the stream led: the application's first record follows the mark.
LEMMA Round_Lead ==
  ASSUME Inv, FrameInv, EmptyInv, NEW o, Round(o)
  PROVE  Leading(s3', acked)
  <1> DEFINE f == call[1]
             n == Fragment(f)
             a == f.base + f.tot + 1
             b == <<f.buf, f.tot>>
  <1>1. /\ s3 \in Write /\ Ready(s3) /\ (s3.alert_dispatch => s3.send_alert > 0)
        /\ acked \in Nat
    BY TypedFacts DEF Inv, Sound
  <1>2. /\ call # <<>> /\ ~s3.gone /\ f \in Frames /\ a \in Nat \ {0} /\ n \in Nat
        /\ o \in do_ssl3_write(s3, f.type, b, a, n)
    BY DEF Round
  <1>3. f.type \in Types /\ b \in Keys /\ f.tot \in Nat
    BY <1>2 DEF Frames, Keys, Types
  <1>4. ASSUME s3.left = <<>>, f.type = "app", a = acked + 1, s3.empty_fragment_done
        PROVE  Ends(Flow(s3), "alert")
    <2>1. hello = "none"
      <3>1. hello \in {"none", "write", "read"} /\ Calls
        BY TypedFacts DEF FrameInv
      <3> QED
        BY <1>2, <1>4, <3>1 DEF Calls, HelloFrame
    <2>2. f.base = acked
      BY <1>2, <2>1 DEF FrameInv, Calls, AppFrame
    <2>3. f.tot = 0
      BY <1>1, <1>3, <1>4, <2>2
    <2>4. ~(Done > 0)
      BY <1>2, <2>3 DEF Done
    <2> QED
      BY <1>2, <1>4, <2>4 DEF EmptyInv, Flag
  <1>5. Leading(s3, acked)
    BY DEF EmptyInv
  <1> HIDE DEF f, n, a, b
  <1>6. Leading(o.s3, acked)
    BY <1>1, <1>2, <1>3, <1>4, <1>5, WriteLead
  <1>7. Like(o.s3, s3')
    BY RoundLike DEF Inv
  <1> QED
    BY <1>6, <1>7, LikeLead

\* After the last record of a write the next bytes are not put out yet.
LEMMA Round_Empty ==
  ASSUME Inv, Inv', FrameInv, FrameInv', EmptyInv, NEW o, Round(o)
  PROVE  EmptyInv'
  <1> DEFINE f == call[1]
             v == o.s3
  <1>1. /\ call # <<>> /\ f \in Frames /\ o.ret \in Int
        /\ s3'.left = v.left /\ s3'.gone = v.gone /\ mode' = mode
        /\ \/ o.ret <= 0 /\ Gave(f)
           \/ o.ret > 0 /\ WentOn(f, o.ret)
           \/ o.ret > 0 /\ Returned(f, o.ret)
    BY RoundEnds
  <1>2. Leading(s3', acked)
    BY Round_Lead
  <1>3. Leading(s3, acked)'
    <2>1. CASE acked' = acked
      BY <1>1, <1>2, <2>1 DEF Leading
    <2>2. CASE acked' # acked
      <3>1. repeat' = <<>>
        BY <1>1, <2>2 DEF Gave, WentOn, Returned
      <3>2. acked' \in Nat /\ s3' \in Write /\ \A r \in Recs(Flow(s3')) : r.type = "app" => r.to <= acked'
        <4>1. Bounded' /\ Promised' = acked'
          BY <3>1 DEF FrameInv, Promised
        <4>2. Typed'
          BY DEF Inv
        <4> QED
          BY <4>1, <4>2 DEF Bounded, Typed
      <3>3. Recs(Flow(s3')) \subseteq Rec
        BY <3>2, RecsTyped
      <3>4. ASSUME NEW k \in DOMAIN Flow(s3')
            PROVE  ~First(Flow(s3')[k], acked')
        <4> DEFINE r == Flow(s3')[k].rec
        <4>1. r \in Recs(Flow(s3'))
          BY <3>4 DEF Recs
        <4>2. r.from \in Nat /\ r.to \in Nat /\ (r.type = "app" => r.to <= acked')
          BY <3>2, <3>3, <4>1 DEF Rec
        <4> QED
          BY <3>2, <4>2 DEF First
      <3>5. Led(Flow(s3'), acked')
        BY <3>4 DEF Led
      <3> QED
        BY <1>2, <3>5 DEF Leading
    <2> QED
      BY <2>1, <2>2
  <1>4. Flag'
    <2>1. CASE o.ret > 0 /\ Returned(f, o.ret)
      <3>1. s3' = [v EXCEPT !.empty_fragment_done = FALSE] /\ v \in Write
        BY <2>1, <1>1 DEF Round, Returns, GivesUp, Outcomes, Returned
      <3>2. ~s3'.empty_fragment_done
        BY <3>1 DEF Write
      <3> QED
        BY <3>2 DEF Flag
    <2>2. CASE o.ret > 0 /\ WentOn(f, o.ret)
      <3>1. call' # <<>> /\ call'[1].tot = f.tot + o.ret /\ f.tot \in Nat
        BY <1>1, <2>2 DEF WentOn, Frames
      <3>2. Done' > 0
        BY <1>1, <2>2, <3>1 DEF Done
      <3> QED
        BY <3>1, <3>2 DEF Flag
    <2>3. CASE o.ret <= 0 /\ Gave(f)
      <3>1. v.left # <<>> \/ v.gone
        <4>1. hello \in {"none", "write", "read"} /\ Calls /\ Reach /\ Shake
          BY TypedFacts DEF FrameInv
        <4>2. CASE Stuck
          <5>1. Resumed(s3, o, f.type, Fragment(f))
            BY <4>2 DEF Stuck, Round, Barred, Begins
          <5>2. s3.wpend_tot > 0
            <6>1. Ready(s3)
              BY TypedFacts
            <6> QED
              BY <4>2, <6>1 DEF Stuck, Ready
          <5>3. ~(o.ret = s3.wpend_tot)
            <6>1. s3.wpend_tot \in Nat
              BY TypedFacts
            <6> QED
              BY <1>1, <2>3, <5>2, <6>1
          <5> QED
            BY <5>1, <5>3 DEF Resumed, SameUnder
        <4>3. CASE ~Stuck
          <5>1. f.tot < f.len /\ f.tot + Pending(f.type) <= f.len
            <6>1. CASE hello = "none"
              <7>1. /\ repeat # <<>> /\ ~shut /\ f.type = "app" /\ f.len = repeat[1].len
                BY <1>1, <4>1, <6>1 DEF Calls, AppFrame
              <7> QED
                BY <1>1, <4>1, <6>1, <7>1 DEF Reach, Done
            <6>2. CASE hello = "write"
              <7>1. f.type = "handshake" /\ f.len = Length
                BY <1>1, <4>1, <6>2 DEF Calls, HelloFrame
              <7> QED
                BY <1>1, <4>1, <4>3, <6>2, <7>1 DEF Shake, Done
            <6> QED
              BY <1>1, <4>1, <6>1, <6>2 DEF Calls
          <5>2. PICK k : Wrote(v, o.ret, f, k)
            BY <5>1, WroteFacts
          <5>3. ~(o.ret > 0)
            BY <1>1, <2>3
          <5> QED
            BY <5>2, <5>3 DEF Wrote
        <4> QED
          BY <4>2, <4>3
      <3> QED
        BY <1>1, <3>1 DEF Flag
    <2> QED
      BY <1>1, <2>1, <2>2, <2>3
  <1> QED
    BY <1>3, <1>4 DEF EmptyInv

LEMMA Asking_Empty ==
  ASSUME Inv, EmptyInv, Asking
  PROVE  EmptyInv' /\ Leading(s3', acked)
  <1> DEFINE a == alerts.asked + 1
             w == [s3 EXCEPT !.alert_dispatch = TRUE, !.send_alert = a]
  <1>1. s3 \in Write /\ a \in Nat /\ a > 0 /\ Ready(s3)
    BY TypedFacts
  <1>2. /\ s3.left # <<>> => s3' = w
        /\ s3.left = <<>> => \E o \in ssl3_dispatch_alert(w) : s3' = o.s3
    BY DEF Asking, ssl3_send_alert
  <1> HIDE DEF a
  <1>3. /\ w \in Write /\ w.left = s3.left /\ w.wire = s3.wire /\ w.send_alert = a
        /\ w.wpend_tot = s3.wpend_tot /\ w.wpend_ret = s3.wpend_ret /\ w.wpend_type = s3.wpend_type
    BY <1>1 DEF Write
  <1> HIDE DEF w
  <1>4. Ready(w) /\ Leading(w, acked)
    BY <1>1, <1>3 DEF EmptyInv, Leading, Flow, Ready
  <1>5. Leading(s3', acked) /\ (s3'.left # <<>> \/ Ends(Flow(s3'), "alert"))
    <2>1. CASE s3.left # <<>>
      BY <1>2, <1>3, <1>4, <2>1
    <2>2. CASE s3.left = <<>>
      <3>1. PICK o \in ssl3_dispatch_alert(w) : s3' = o.s3
        BY <1>2, <2>2
      <3>2. Leading(o.s3, acked) /\ Ends(Flow(o.s3), "alert")
        BY <1>1, <1>3, <1>4, <2>2, AlertLead
      <3> QED
        BY <3>1, <3>2
    <2> QED
      BY <2>1, <2>2
  <1>6. acked' = acked /\ mode' = mode
    BY DEF Asking
  <1> QED
    BY <1>5, <1>6 DEF EmptyInv, Flag, Leading

LEMMA GoingOn_Empty ==
  ASSUME Inv, EmptyInv, GoingOn
  PROVE  EmptyInv' /\ Leading(s3', acked)
  <1>1. PICK o \in ssl3_dispatch_alert(s3) : s3' = o.s3
    BY DEF GoingOn
  <1>2. s3 \in Write /\ Ready(s3) /\ s3.send_alert > 0 /\ Leading(s3, acked)
    BY TypedFacts DEF Inv, Sound, GoingOn, Again, EmptyInv
  <1>3. /\ Leading(s3', acked)
        /\ s3.left # <<>> => Flow(s3') = Flow(s3)
        /\ s3.left = <<>> => Ends(Flow(s3'), "alert")
    BY <1>1, <1>2, AlertLead
  <1>4. s3'.left # <<>> \/ Ends(Flow(s3'), "alert")
    <2>1. CASE s3.left = <<>>
      BY <1>3, <2>1
    <2>2. CASE s3.left # <<>>
      <3>1. SameUnder(s3, s3') \/ s3.wpend_type = "alert"
        BY <2>2 DEF GoingOn, Again
      <3>2. Ends(Flow(s3'), s3.wpend_type)
        BY <1>2, <1>3, <2>2 DEF Leading
      <3> QED
        BY <3>1, <3>2 DEF SameUnder
    <2> QED
      BY <2>1, <2>2
  <1>5. acked' = acked /\ mode' = mode
    BY DEF GoingOn
  <1> QED
    BY <1>3, <1>4, <1>5 DEF EmptyInv, Flag, Leading

\* A call begins, or a renegotiation: nothing is put out and the mark stays.
LEMMA Call_Empty ==
  ASSUME Inv, EmptyInv, Like(s3, s3'), s3'.empty_fragment_done = s3.empty_fragment_done,
         UNCHANGED <<mode, acked>>, call = <<>> \/ UNCHANGED <<call, s3>>
  PROVE  EmptyInv' /\ Leading(s3', acked)
  <1>1. Leading(s3', acked)
    BY LikeLead DEF EmptyInv
  <1>2. Leading(s3, acked)'
    BY <1>1 DEF Leading
  <1>3. Flow(s3') = Flow(s3) /\ s3'.left = s3.left /\ s3'.gone = s3.gone
    BY DEF Like, Flow
  <1>4. Flag'
    <2>1. CASE call = <<>>
      BY <1>3, <2>1 DEF EmptyInv, Flag
    <2>2. CASE UNCHANGED <<call, s3>>
      BY <1>3, <2>2 DEF EmptyInv, Flag, Done
    <2> QED
      BY <2>1, <2>2
  <1> QED
    BY <1>1, <1>2, <1>4 DEF EmptyInv

LEMMA NextEmpty ==
  ASSUME Inv, Inv', FrameInv, FrameInv', EmptyInv, [Next]_vars
  PROVE  EmptyInv' /\ mode' = mode /\ Leading(s3', acked)
  <1>1. Typed /\ Sound /\ s3 \in Write
    BY TypedFacts DEF Inv
  <1>2. ASSUME s3' = [s3 EXCEPT !.wnum = 0]
        PROVE  Like(s3, s3') /\ s3'.empty_fragment_done = s3.empty_fragment_done
    <2>1. 0 \in Nat
      OBVIOUS
    <2>2. Like(s3, s3')
      BY <1>1, <1>2, <2>1, ProgressFacts
    <2> QED
      BY <1>1, <1>2, <2>2 DEF Write
  <1>3. Like(s3, s3)
    BY DEF Like
  <1>4. ASSUME NEW b \in {"buf", "moved"}, NEW len \in 1 .. MaxData, SSL_write(b, len)
        PROVE  EmptyInv' /\ mode' = mode /\ Leading(s3', acked)
    <2>1. s3' = [s3 EXCEPT !.wnum = 0] /\ UNCHANGED <<mode, acked>> /\ call = <<>>
      BY <1>4 DEF SSL_write, Idle
    <2> QED
      BY <1>2, <2>1, Call_Empty
  <1>5. CASE handshake_func
    <2>1. s3' = [s3 EXCEPT !.wnum = 0] /\ UNCHANGED <<mode, acked>> /\ call = <<>>
      BY <1>5 DEF handshake_func, Idle
    <2> QED
      BY <1>2, <2>1, Call_Empty
  <1>6. ASSUME NEW o, Round(o)
        PROVE  EmptyInv' /\ mode' = mode /\ Leading(s3', acked)
    <2>1. mode' = mode
      BY <1>6 DEF Round
    <2> QED
      BY <1>6, <2>1, Round_Empty, Round_Lead
  <1>7. CASE Asking
    <2>1. mode' = mode
      BY <1>7 DEF Asking
    <2> QED
      BY <1>7, <2>1, Asking_Empty
  <1>8. CASE GoingOn
    <2>1. mode' = mode
      BY <1>8 DEF GoingOn
    <2> QED
      BY <1>8, <2>1, GoingOn_Empty
  <1>9. CASE renegotiate \/ handshake_done \/ UNCHANGED vars
    <2>1. UNCHANGED <<mode, acked>> /\ UNCHANGED <<call, s3>>
      BY <1>9 DEF renegotiate, handshake_done, vars
    <2>2. Like(s3, s3') /\ s3'.empty_fragment_done = s3.empty_fragment_done
      BY <1>3, <2>1
    <2> QED
      BY <2>1, <2>2, Call_Empty
  <1>10. \/ \E b \in {"buf", "moved"}, len \in 1 .. MaxData : SSL_write(b, len)
         \/ handshake_func
         \/ \E o : Round(o)
         \/ Asking
         \/ GoingOn
         \/ renegotiate
         \/ handshake_done
         \/ UNCHANGED vars
    BY <1>1, NextFacts
  <1> QED
    BY <1>4, <1>5, <1>6, <1>7, <1>8, <1>9, <1>10

LEMMA FrontFacts ==
  ASSUME NEW s \in Seq(Unit), NEW t \in Seq(Unit), NEW k \in DOMAIN s
  PROVE  k \in DOMAIN (s \o t) /\ (s \o t)[k] = s[k]
  <1>1. /\ s \o t \in Seq(Unit) /\ Len(s \o t) = Len(s) + Len(t)
        /\ \A i \in 1 .. Len(s) + Len(t) : (s \o t)[i] = IF i <= Len(s) THEN s[i] ELSE t[i - Len(s)]
    BY ConcatProperties, Zenon
  <1>2. k \in 1 .. Len(s) + Len(t) /\ k <= Len(s)
    OBVIOUS
  <1> QED
    BY <1>1, <1>2

\* With need_empty_fragments the first record of what an SSL_write reports follows an
\* empty fragment or an alert, whatever else do_ssl3_write had to send before: the mark
\* empty_fragment_done is cleared only by the writer that has put out all its bytes.
\* The settings left out are those of Framed.
THEOREM Emptied ==
  ASSUME \A m \in Modes : ~({"long", "through"} \subseteq m)
  PROVE  Spec => EmptyFirst
  <1> DEFINE Good ==
               \A k \in DOMAIN s3'.wire :
                 LET r == s3'.wire[k].rec IN
                 "empty" \in mode /\ acked' # acked /\ r.type = "app" /\ r.from = acked + 1
                   /\ r.to >= r.from /\ s3'.wire[k].i = 0
                 => /\ k > 1
                    /\ LET p == s3'.wire[k - 1].rec IN
                       p.type = "alert" \/ (p.type = "app" /\ p.to < p.from)
  <1>1. Init => Inv /\ FrameInv /\ EmptyInv
    <2> SUFFICES ASSUME Init
                 PROVE  EmptyInv
      BY InitInv, InitFrame
    <2>1. s3.wire = <<>> /\ s3.left = <<>> /\ ~s3.empty_fragment_done /\ s3 \in Write
      BY InitInv, TypedFacts DEF Init, Fresh
    <2>2. Flow(s3) = <<>>
      BY <2>1, FlowFacts
    <2> QED
      BY <2>1, <2>2 DEF EmptyInv, Leading, Led, Flag
  <1>2. Inv /\ FrameInv /\ EmptyInv /\ [Next]_vars => (Inv /\ FrameInv /\ EmptyInv)'
    <2> SUFFICES ASSUME Inv, FrameInv, EmptyInv, [Next]_vars
                 PROVE  (Inv /\ FrameInv /\ EmptyInv)'
      OBVIOUS
    <2>1. ~({"long", "through"} \subseteq mode)
      BY DEF Inv, Typed
    <2>2. Inv' /\ FrameInv'
      BY <2>1, NextInv, NextFrame
    <2> QED
      BY <2>2, NextEmpty
  <1>3. Inv /\ FrameInv /\ EmptyInv /\ (Inv /\ FrameInv /\ EmptyInv)' /\ [Next]_vars => [Good]_vars
    <2> SUFFICES ASSUME Inv, FrameInv, EmptyInv, Inv', FrameInv', [Next]_vars,
                        NEW k \in DOMAIN s3'.wire, "empty" \in mode, First(s3'.wire[k], acked)
                 PROVE  k > 1 /\ Lead(s3'.wire[k - 1])
      BY DEF First, Lead
    <2>1. Led(Flow(s3'), acked)
      BY NextEmpty DEF Leading
    <2>2. s3'.wire \in Seq(Unit) /\ s3'.left \in Seq(Unit)
      BY DEF Inv, Typed, Write
    <2>3. k - 1 \in 1 .. Len(s3'.wire) <=> k > 1
      BY <2>2
    <2>4. \A i \in DOMAIN s3'.wire : i \in DOMAIN Flow(s3') /\ Flow(s3')[i] = s3'.wire[i]
      BY <2>2, FrontFacts DEF Flow
    <2>5. k > 1 /\ Lead(Flow(s3')[k - 1])
      BY <2>1, <2>4 DEF Led
    <2>6. k - 1 \in DOMAIN s3'.wire
      BY <2>2, <2>3, <2>5
    <2> QED
      BY <2>4, <2>5, <2>6
  <1> QED
    BY <1>1, <1>2, <1>3, PTL DEF Spec, EmptyFirst
=============================================================================
