------------------------ MODULE DTLSHandshakeProofs -------------------------
(***************************************************************************)
(* Proofs about DTLSHandshake, for handshakes of every setting, messages   *)
(* cut in any way, any number of losses and timeouts and any window.       *)
(***************************************************************************)
EXTENDS DTLSHandshake, FiniteSetTheorems, SequenceTheorems, TLAPS

Kinds == Messages \cup {"CCS"}
Turns == [do : {"send", "get"}, msg : Kinds, timer : {"start", "stop", "keep"}]
Record == [msg : Kinds, epoch : Nat, seq : Nat, part : SUBSET Whole, md : Seq(Messages)]
State ==
  [at : Nat, w_epoch : Nat, r_epoch : Nat, read_seq : Nat, write_seq : Nat,
   change_cipher_spec : BOOLEAN, peer_finish_md : Seq(Messages), timer : BOOLEAN,
   num_alerts : Nat, sent : Seq(Record), buffered : SUBSET Record, unprocessed : Seq(Record),
   finish_mac : Seq(Messages), said : Seq(Messages), told : Seq(Messages), failed : BOOLEAN]

\* A record that carries a message of those said, under that message's number.
Fits(d, r) ==
  /\ r \in Record
  /\ r.msg # "CCS" => r.seq < Len(d) /\ d[r.seq + 1] = r.msg

\* One that may wait to be read: no ChangeCipherSpec does.
Waits(d, r) == Fits(d, r) /\ r.msg # "CCS"

\* How many turns an end has.
Length(e) == Len(Script(e))

\* What holds of the state s of an end with n turns when its peer has said d.
Sound(n, d, s) ==
  /\ s \in State /\ s.at > 0
  /\ \A h \in s.buffered : Waits(d, h)
  /\ \A k \in 1..Len(s.unprocessed) : Waits(d, s.unprocessed[k])
  /\ \A k \in 1..Len(s.sent) : Fits(s.said, s.sent[k])
  /\ s.at <= n => s.read_seq = Len(s.told) /\ s.write_seq = Len(s.said)

\* The inductive invariant: both ends, and all that is under way to them.
Inv ==
  /\ conf \in Settings /\ ssl \in [End -> State] /\ DOMAIN wire = End
  /\ \A e \in End : /\ Sound(Length(e), ssl[Peer(e)].said, ssl[e])
                    /\ \A r \in BagToSet(wire[e]) : Fits(ssl[Peer(e)].said, r)

\* A step of one end as its peer sees it: it takes the next of the messages d, or none.
Heard(d, s, t) ==
  /\ t.said = s.said
  /\ \/ t.told = s.told
     \/ Len(s.told) < Len(d) /\ t.told = Append(s.told, d[Len(s.told) + 1])

-----------------------------------------------------------------------------
(* The scripts, sequences and bags.                                        *)

LEMMA Peers == \A e \in End : Peer(e) \in End /\ Peer(e) # e /\ Peer(Peer(e)) = e
                              /\ \A f \in End : f = e \/ f = Peer(e)
  BY DEF End, Peer

-----------------------------------------------------------------------------
(* What the two scripts have in common: one talk.                          *)

\* The messages of both ends in the order they are sent, without the two
\* ChangeCipherSpecs, which have no number.
Says(e, m) == [from |-> e, msg |-> m]
FromClient(m) == Says("client", m)
FromServer(m) == Says("server", m)
Lines == [from : End, msg : Messages]

Hello(c) ==
  <<FromClient("CH")>> \o If(c.cookie, <<FromServer("HVR"), FromClient("CH")>>) \o <<FromServer("SH")>>

Keys(c) ==
  <<FromServer("CERT")>> \o If(c.ske, <<FromServer("SKE")>>) \o If(c.auth, <<FromServer("CR")>>)
  \o <<FromServer("SHD")>> \o If(c.auth, <<FromClient("CCERT")>>) \o <<FromClient("CKE")>>
  \o If(c.auth, <<FromClient("CV")>>)

Ticket(c) == If(c.ticket, <<FromServer("NST")>>)

Talk(c) ==
  Hello(c) \o IF c.hit
              THEN <<FromServer("FIN"), FromClient("FIN")>>
              ELSE Keys(c) \o <<FromClient("FIN")>> \o Ticket(c) \o <<FromServer("FIN")>>

\* Where in the talk the Finished of e is; in its script, the ChangeCipherSpec is there.
Close(c, e) ==
  Len(Hello(c)) + IF c.hit THEN (IF e = "server" THEN 1 ELSE 2)
                  ELSE Len(Keys(c)) + IF e = "client" THEN 1 ELSE Len(Ticket(c)) + 2

\* Where the ClientHello is with which the Finished MAC starts for good.
Start(c) == IF c.cookie THEN 3 ELSE 1

\* The MAC of the first n messages of the talk.
Mac(c, n) == SubSeq([k \in 1..Len(Talk(c)) |-> Talk(c)[k].msg], Start(c), n)

\* How many of them p sends.
By(c, p, n) == {k \in 1..n : Talk(c)[k].from = p}
Count(c, p, n) == Cardinality(By(c, p, n))

-----------------------------------------------------------------------------
(* The scripts follow the talk.                                            *)

\* A turn of e has the next line.
Follows(e, t, l) == t.msg = l.msg /\ (t.do = "send" <=> l.from = e)

\* Turns of e that follow lines one by one.
Aligned(e, s, t) ==
  /\ s \in Seq(Turns) /\ t \in Seq(Lines) /\ Len(s) = Len(t)
  /\ \A k \in 1..Len(s) : Follows(e, s[k], t[k])

\* Turns of e that follow lines, with the ChangeCipherSpec put in at n.
AlignedAt(e, s, t, n) ==
  /\ s \in Seq(Turns) /\ t \in Seq(Lines) /\ Len(s) = Len(t) + 1
  /\ n \in 1..Len(t) /\ s[n].msg = "CCS" /\ s[n].do = "send"
  /\ \A k \in 1..Len(s) : /\ k < n => Follows(e, s[k], t[k])
                          /\ k > n => Follows(e, s[k], t[k - 1])

LEMMA Concat ==
  ASSUME NEW S, NEW a \in Seq(S), NEW b \in Seq(S)
  PROVE  /\ a \o b \in Seq(S) /\ Len(a) \in Nat /\ Len(b) \in Nat /\ Len(a \o b) = Len(a) + Len(b)
         /\ \A k \in 1..Len(a) : (a \o b)[k] = a[k]
         /\ \A k \in 1..Len(b) : (a \o b)[Len(a) + k] = b[k]
  <1>1. /\ a \o b \in Seq(S) /\ Len(a \o b) = Len(a) + Len(b) /\ Len(a) \in Nat /\ Len(b) \in Nat
        /\ \A k \in 1..Len(a) + Len(b) : (a \o b)[k] = IF k <= Len(a) THEN a[k] ELSE b[k - Len(a)]
    BY ConcatProperties, LenProperties
  <1> DEFINE m == Len(a)
             n == Len(b)
             u == a \o b
  <1>2. m \in Nat /\ n \in Nat /\ \A k \in 1..m + n : u[k] = IF k <= m THEN a[k] ELSE b[k - m]
    BY <1>1
  <1> HIDE DEF m, n, u
  <1>3. \A k \in 1..m : u[k] = a[k]
    BY <1>2
  <1>4. ASSUME NEW k \in 1..n
        PROVE  u[m + k] = b[k]
    <2>1. m + k \in 1..m + n /\ ~(m + k <= m) /\ m + k - m = k
      BY <1>2
    <2> QED
      BY <1>2, <2>1
  <1> QED
    BY <1>1, <1>3, <1>4 DEF m, n, u

LEMMA AlignedConcat ==
  ASSUME NEW e, NEW a, NEW b, NEW t, NEW u, Aligned(e, a, t), Aligned(e, b, u)
  PROVE  Aligned(e, a \o b, t \o u)
  <1> DEFINE m == Len(a)
             n == Len(b)
             x == a \o b
             y == t \o u
  <1>1. /\ x \in Seq(Turns) /\ Len(x) = m + n /\ m \in Nat /\ n \in Nat
        /\ \A k \in 1..m : x[k] = a[k]
        /\ \A k \in 1..n : x[m + k] = b[k]
    <2>1. a \in Seq(Turns) /\ b \in Seq(Turns)
      BY DEF Aligned
    <2> QED
      BY <2>1, Concat
  <1>2. /\ y \in Seq(Lines) /\ Len(y) = m + n
        /\ \A k \in 1..m : y[k] = t[k]
        /\ \A k \in 1..n : y[m + k] = u[k]
    BY Concat DEF Aligned
  <1>3. (\A k \in 1..m : Follows(e, a[k], t[k])) /\ (\A k \in 1..n : Follows(e, b[k], u[k]))
    BY DEF Aligned
  <1> HIDE DEF m, n, x, y
  <1>4. ASSUME NEW k \in 1..Len(x)
        PROVE  Follows(e, x[k], y[k])
    <2>1. CASE k <= m
      BY <1>1, <1>2, <1>3, <2>1
    <2>2. CASE k > m
      <3>1. k - m \in 1..n /\ m + (k - m) = k
        BY <1>1, <2>2
      <3> QED
        BY <1>1, <1>2, <1>3, <3>1
    <2> QED
      BY <1>1, <2>1, <2>2
  <1>5. Aligned(e, x, y)
    BY <1>1, <1>2, <1>4 DEF Aligned
  <1> QED
    BY <1>5 DEF x, y

\* Turns before those with the ChangeCipherSpec, and after them.
LEMMA AlignedBefore ==
  ASSUME NEW e, NEW a, NEW b, NEW t, NEW u, NEW c, Aligned(e, a, t), AlignedAt(e, b, u, c)
  PROVE  AlignedAt(e, a \o b, t \o u, Len(t) + c)
  <1> DEFINE m == Len(a)
             n == Len(u)
             x == a \o b
             y == t \o u
             p == m + c
  <1>1. /\ x \in Seq(Turns) /\ Len(x) = m + n + 1 /\ m \in Nat /\ n \in Nat /\ c \in 1..n
        /\ \A k \in 1..m : x[k] = a[k]
        /\ \A k \in 1..n+1 : x[m + k] = b[k]
    <2>1. u \in Seq(Lines) /\ Len(b) = n + 1 /\ c \in 1..n
      BY DEF Aligned, AlignedAt
    <2>4. a \in Seq(Turns) /\ b \in Seq(Turns)
      BY DEF Aligned, AlignedAt
    <2>2. /\ x \in Seq(Turns) /\ Len(x) = m + Len(b) /\ m \in Nat
          /\ \A k \in 1..m : x[k] = a[k]
          /\ \A k \in 1..Len(b) : x[m + k] = b[k]
      BY <2>4, Concat
    <2>3. n \in Nat
      BY <2>1, LenProperties
    <2> HIDE DEF m, n, x
    <2> QED
      BY <2>1, <2>2, <2>3
  <1>2. /\ y \in Seq(Lines) /\ Len(y) = m + n /\ Len(t) = m
        /\ \A k \in 1..m : y[k] = t[k]
        /\ \A k \in 1..n : y[m + k] = u[k]
    BY Concat DEF Aligned, AlignedAt
  <1>3. /\ \A k \in 1..m : Follows(e, a[k], t[k])
        /\ b[c].msg = "CCS" /\ b[c].do = "send"
        /\ \A k \in 1..n+1 : /\ k < c => Follows(e, b[k], u[k])
                             /\ k > c => Follows(e, b[k], u[k - 1])
    BY <1>1 DEF Aligned, AlignedAt
  <1> HIDE DEF m, n, x, y
  <1>4. ASSUME NEW k \in 1..Len(x)
        PROVE  (k < p => Follows(e, x[k], y[k])) /\ (k > p => Follows(e, x[k], y[k - 1]))
    <2>1. CASE k <= m
      BY <1>1, <1>2, <1>3, <2>1
    <2>2. CASE k > m
      <3> DEFINE j == k - m
      <3>1. j \in 1..n+1 /\ m + j = k /\ (k < p <=> j < c) /\ (k > p <=> j > c)
        BY <1>1, <2>2
      <3>2. x[k] = b[j]
        BY <1>1, <3>1
      <3>3. j < c => y[k] = u[j]
        BY <1>1, <1>2, <3>1
      <3>4. j > c => y[k - 1] = u[j - 1]
        <4> SUFFICES ASSUME j > c PROVE y[k - 1] = u[j - 1]
          OBVIOUS
        <4>1. j - 1 \in 1..n /\ m + (j - 1) = k - 1
          BY <1>1, <3>1
        <4> QED
          BY <1>2, <4>1
      <3> HIDE DEF j
      <3> QED
        BY <1>3, <3>1, <3>2, <3>3, <3>4
    <2> QED
      BY <1>1, <2>1, <2>2
  <1>5. p \in 1..Len(y) /\ x[p].msg = "CCS" /\ x[p].do = "send"
    <2>1. x[p] = b[c]
      BY <1>1
    <2> QED
      BY <1>1, <1>2, <1>3, <2>1
  <1>6. AlignedAt(e, x, y, p)
    <2> HIDE DEF p
    <2> QED
      BY <1>1, <1>2, <1>4, <1>5 DEF AlignedAt
  <1> QED
    BY <1>2, <1>6 DEF x, y, p

LEMMA AlignedAfter ==
  ASSUME NEW e, NEW a, NEW b, NEW t, NEW u, NEW c, AlignedAt(e, a, t, c), Aligned(e, b, u)
  PROVE  AlignedAt(e, a \o b, t \o u, c)
  <1> DEFINE m == Len(t)
             n == Len(b)
             x == a \o b
             y == t \o u
  <1>1. /\ x \in Seq(Turns) /\ Len(x) = m + 1 + n /\ m \in Nat /\ n \in Nat /\ c \in 1..m
        /\ \A k \in 1..m+1 : x[k] = a[k]
        /\ \A k \in 1..n : x[m + 1 + k] = b[k]
    <2>1. t \in Seq(Lines) /\ Len(a) = m + 1 /\ c \in 1..m
      BY DEF Aligned, AlignedAt
    <2>4. a \in Seq(Turns) /\ b \in Seq(Turns)
      BY DEF Aligned, AlignedAt
    <2>2. /\ x \in Seq(Turns) /\ Len(x) = Len(a) + n /\ n \in Nat
          /\ \A k \in 1..Len(a) : x[k] = a[k]
          /\ \A k \in 1..n : x[Len(a) + k] = b[k]
      BY <2>4, Concat
    <2>3. m \in Nat
      BY <2>1, LenProperties
    <2> HIDE DEF m, n, x
    <2> QED
      BY <2>1, <2>2, <2>3
  <1>2. /\ y \in Seq(Lines) /\ Len(y) = m + n
        /\ \A k \in 1..m : y[k] = t[k]
        /\ \A k \in 1..n : y[m + k] = u[k]
    BY Concat DEF Aligned, AlignedAt
  <1>3. /\ \A k \in 1..n : Follows(e, b[k], u[k])
        /\ a[c].msg = "CCS" /\ a[c].do = "send"
        /\ \A k \in 1..m+1 : /\ k < c => Follows(e, a[k], t[k])
                             /\ k > c => Follows(e, a[k], t[k - 1])
    BY <1>1 DEF Aligned, AlignedAt
  <1> HIDE DEF m, n, x, y
  <1>4. ASSUME NEW k \in 1..Len(x)
        PROVE  (k < c => Follows(e, x[k], y[k])) /\ (k > c => Follows(e, x[k], y[k - 1]))
    <2>1. CASE k <= m + 1
      <3>1. x[k] = a[k] /\ (k < c => y[k] = t[k])
        BY <1>1, <1>2, <2>1
      <3>2. k > c => y[k - 1] = t[k - 1]
        <4> SUFFICES ASSUME k > c PROVE y[k - 1] = t[k - 1]
          OBVIOUS
        <4>1. k - 1 \in 1..m
          BY <1>1, <2>1
        <4> QED
          BY <1>2, <4>1
      <3> QED
        BY <1>1, <1>3, <2>1, <3>1, <3>2
    <2>2. CASE k > m + 1
      <3> DEFINE j == k - m - 1
      <3>1. j \in 1..n /\ m + 1 + j = k /\ m + j = k - 1 /\ k > c /\ ~(k < c)
        BY <1>1, <2>2
      <3>2. x[k] = b[j] /\ y[k - 1] = u[j]
        BY <1>1, <1>2, <3>1
      <3> QED
        BY <1>3, <3>1, <3>2
    <2> QED
      BY <1>1, <2>1, <2>2
  <1>5. c \in 1..Len(y) /\ x[c].msg = "CCS" /\ x[c].do = "send"
    <2>1. x[c] = a[c]
      BY <1>1
    <2> QED
      BY <1>1, <1>2, <1>3, <2>1
  <1>6. AlignedAt(e, x, y, c)
    BY <1>1, <1>2, <1>4, <1>5 DEF AlignedAt
  <1> QED
    BY <1>6 DEF x, y

LEMMA Pair == ASSUME NEW x, NEW y PROVE <<x, y>> = <<x>> \o <<y>>
  <1> DEFINE S == {x, y}
             a == <<x>>
             b == <<y>>
             t == <<x, y>>
             u == a \o b
  <1>1. a \in Seq(S) /\ b \in Seq(S) /\ t \in Seq(S)
    OBVIOUS
  <1>2. Len(a) = 1 /\ Len(b) = 1 /\ a[1] = x /\ b[1] = y
    OBVIOUS
  <1>3. Len(t) = 2 /\ t[1] = x /\ t[2] = y
    OBVIOUS
  <1> HIDE DEF S, a, b, t
  <1>4. /\ u \in Seq(S) /\ Len(u) = 2
        /\ \A k \in 1..2 : u[k] = IF k <= 1 THEN a[k] ELSE b[k - 1]
    <2>1. /\ u \in Seq(S) /\ Len(u) = Len(a) + Len(b)
          /\ \A k \in 1..Len(a) + Len(b) : u[k] = IF k <= Len(a) THEN a[k] ELSE b[k - Len(a)]
      BY <1>1, ConcatProperties
    <2> QED
      BY <1>2, <2>1
  <1> HIDE DEF u
  <1>5. Len(u) = Len(t) /\ \A k \in 1..Len(u) : u[k] = t[k]
    BY <1>2, <1>3, <1>4
  <1>6. u = t
    BY <1>1, <1>4, <1>5, SeqEqual
  <1> QED
    BY <1>6 DEF a, b, t, u

\* One turn, sent or got.
LEMMA AlignedOne ==
  ASSUME NEW e \in End, NEW m \in Messages
  PROVE  /\ Aligned(e, <<Send(m)>>, <<Says(e, m)>>)
         /\ Aligned(e, <<Keep(Send(m))>>, <<Says(e, m)>>)
         /\ Aligned(e, <<Get(m)>>, <<Says(Peer(e), m)>>)
         /\ Aligned(e, <<Keep(Get(m))>>, <<Says(Peer(e), m)>>)
  <1>1. ASSUME NEW x \in Turns, NEW l \in Lines, Follows(e, x, l)
        PROVE  Aligned(e, <<x>>, <<l>>)
    BY <1>1 DEF Aligned
  <1>2. /\ Send(m) \in Turns /\ Keep(Send(m)) \in Turns /\ Get(m) \in Turns /\ Keep(Get(m)) \in Turns
        /\ Says(e, m) \in Lines /\ Says(Peer(e), m) \in Lines
    BY Peers DEF Send, Get, Keep, Turns, Kinds, Says, Lines
  <1>3. /\ Follows(e, Send(m), Says(e, m)) /\ Follows(e, Keep(Send(m)), Says(e, m))
        /\ Follows(e, Get(m), Says(Peer(e), m)) /\ Follows(e, Keep(Get(m)), Says(Peer(e), m))
    BY Peers DEF Send, Get, Keep, Says, Follows
  <1> QED
    BY <1>1, <1>2, <1>3

\* Turns there may be.
LEMMA AlignedIf ==
  ASSUME NEW e, NEW a, NEW t, Aligned(e, a, t), NEW b \in BOOLEAN
  PROVE  Aligned(e, If(b, a), If(b, t))
  <1>1. Aligned(e, <<>>, <<>>)
    BY EmptySeq DEF Aligned
  <1> QED
    BY <1>1 DEF If

\* The turns of a Finished: a ChangeCipherSpec goes before it.
LEMMA AlignedFinished ==
  ASSUME NEW e \in End
  PROVE  /\ AlignedAt(e, <<Send("CCS"), Send("FIN")>>, <<Says(e, "FIN")>>, 1)
         /\ AlignedAt(e, <<Keep(Send("CCS")), Keep(Send("FIN"))>>, <<Says(e, "FIN")>>, 1)
         /\ AlignedAt(e, <<Keep(Send("CCS")), Keep(Send("FIN")), Get("FIN")>>,
                      <<Says(e, "FIN"), Says(Peer(e), "FIN")>>, 1)
         /\ AlignedAt(e, <<Get("FIN"), Send("CCS"), Send("FIN")>>,
                      <<Says(Peer(e), "FIN"), Says(e, "FIN")>>, 2)
  <1> DEFINE c == Send("CCS")
             k == Keep(Send("CCS"))
             f == Send("FIN")
             j == Keep(Send("FIN"))
             g == Get("FIN")
             x == Says(e, "FIN")
             y == Says(Peer(e), "FIN")
  <1>1. {c, k, f, j, g} \subseteq Turns
    BY DEF Send, Get, Keep, Turns, Kinds, Messages
  <1>2. {x, y} \subseteq Lines
    BY Peers DEF Says, Lines, Messages
  <1>3. c.msg = "CCS" /\ c.do = "send" /\ k.msg = "CCS" /\ k.do = "send"
    BY DEF Send, Keep
  <1>4. Follows(e, f, x) /\ Follows(e, j, x) /\ Follows(e, g, y)
    BY Peers DEF Send, Get, Keep, Says, Follows
  <1> HIDE DEF c, k, f, j, g, x, y
  <1>5. ASSUME NEW a \in {c, k}, NEW d \in {f, j}
        PROVE  AlignedAt(e, <<a, d>>, <<x>>, 1)
    <2>1. <<a, d>> \in Seq(Turns) /\ <<x>> \in Seq(Lines)
      BY <1>1, <1>2
    <2> QED
      BY <1>3, <1>4, <2>1 DEF AlignedAt
  <1>6. AlignedAt(e, <<k, j, g>>, <<x, y>>, 1)
    <2>1. <<k, j, g>> \in Seq(Turns) /\ <<x, y>> \in Seq(Lines)
      BY <1>1, <1>2
    <2> QED
      BY <1>3, <1>4, <2>1 DEF AlignedAt
  <1>7. AlignedAt(e, <<g, c, f>>, <<y, x>>, 2)
    <2>1. <<g, c, f>> \in Seq(Turns) /\ <<y, x>> \in Seq(Lines)
      BY <1>1, <1>2
    <2> QED
      BY <1>3, <1>4, <2>1 DEF AlignedAt
  <1> QED
    BY <1>5, <1>6, <1>7 DEF c, k, f, j, g, x, y

\* Each end's script is the talk, with its ChangeCipherSpec before its Finished.
LEMMA ScriptFacts ==
  ASSUME NEW c \in Settings
  PROVE  /\ AlignedAt("client", dtls1_connect(c), Talk(c), Close(c, "client"))
         /\ AlignedAt("server", dtls1_accept(c), Talk(c), Close(c, "server"))
  <1>1. {c.hit, c.cookie, c.ske, c.auth, c.ticket} \subseteq BOOLEAN
    BY ConstantAssumption
  <1>2. "client" \in End /\ "server" \in End /\ Peer("client") = "server" /\ Peer("server") = "client"
    BY DEF End, Peer
  <1>3. {"CH", "HVR", "SH", "CERT", "SKE", "CR", "SHD", "CCERT", "CKE", "CV", "NST", "FIN"}
          \subseteq Messages
    BY DEF Messages
  <1>4. ASSUME NEW m \in Messages
        PROVE  /\ Aligned("client", <<Send(m)>>, <<FromClient(m)>>)
               /\ Aligned("client", <<Get(m)>>, <<FromServer(m)>>)
               /\ Aligned("client", <<Keep(Get(m))>>, <<FromServer(m)>>)
               /\ Aligned("server", <<Send(m)>>, <<FromServer(m)>>)
               /\ Aligned("server", <<Keep(Send(m))>>, <<FromServer(m)>>)
               /\ Aligned("server", <<Get(m)>>, <<FromClient(m)>>)
    BY <1>2, AlignedOne DEF FromClient, FromServer
  <1>5. /\ Aligned("client", <<Get("HVR"), Send("CH")>>, <<FromServer("HVR"), FromClient("CH")>>)
        /\ Aligned("server", <<Send("HVR"), Get("CH")>>, <<FromServer("HVR"), FromClient("CH")>>)
    <2>1. \A x, y : <<x, y>> = <<x>> \o <<y>>
      BY Pair
    <2>2. \A e : Aligned(e, <<Get("HVR")>>, <<FromServer("HVR")>>) /\ Aligned(e, <<Send("CH")>>, <<FromClient("CH")>>)
                 => Aligned(e, <<Get("HVR")>> \o <<Send("CH")>>, <<FromServer("HVR")>> \o <<FromClient("CH")>>)
      BY AlignedConcat
    <2>3. \A e : Aligned(e, <<Send("HVR")>>, <<FromServer("HVR")>>) /\ Aligned(e, <<Get("CH")>>, <<FromClient("CH")>>)
                 => Aligned(e, <<Send("HVR")>> \o <<Get("CH")>>, <<FromServer("HVR")>> \o <<FromClient("CH")>>)
      BY AlignedConcat
    <2> QED
      BY <1>3, <1>4, <2>1, <2>2, <2>3
  <1> DEFINE HC == <<Send("CH")>> \o If(c.cookie, <<Get("HVR"), Send("CH")>>) \o <<Get("SH")>>
             HS == <<Get("CH")>> \o If(c.cookie, <<Send("HVR"), Get("CH")>>) \o <<Send("SH")>>
             KC == <<Get("CERT")>> \o If(c.ske, <<Keep(Get("SKE"))>>) \o If(c.auth, <<Keep(Get("CR"))>>)
                   \o <<Keep(Get("SHD"))>> \o If(c.auth, <<Send("CCERT")>>) \o <<Send("CKE")>>
                   \o If(c.auth, <<Send("CV")>>)
             KS == <<Send("CERT")>> \o If(c.ske, <<Send("SKE")>>) \o If(c.auth, <<Send("CR")>>)
                   \o <<Send("SHD")>> \o If(c.auth, <<Get("CCERT")>>) \o <<Get("CKE")>>
                   \o If(c.auth, <<Get("CV")>>)
  <1>6. \A e, a, b, t, u : Aligned(e, a, t) /\ Aligned(e, b, u) => Aligned(e, a \o b, t \o u)
    BY AlignedConcat
  <1>7. \A e, a, t : \A b \in BOOLEAN : Aligned(e, a, t) => Aligned(e, If(b, a), If(b, t))
    BY AlignedIf
  <1>8. Aligned("client", HC, Hello(c)) /\ Aligned("server", HS, Hello(c))
    <2>1. /\ Aligned("client", If(c.cookie, <<Get("HVR"), Send("CH")>>),
                               If(c.cookie, <<FromServer("HVR"), FromClient("CH")>>))
          /\ Aligned("server", If(c.cookie, <<Send("HVR"), Get("CH")>>),
                               If(c.cookie, <<FromServer("HVR"), FromClient("CH")>>))
      BY <1>1, <1>5, <1>7
    <2> QED
      BY <1>3, <1>4, <1>6, <2>1 DEF Hello
  <1>9. Aligned("client", KC, Keys(c)) /\ Aligned("server", KS, Keys(c))
    <2>1. /\ Aligned("client", If(c.ske, <<Keep(Get("SKE"))>>), If(c.ske, <<FromServer("SKE")>>))
          /\ Aligned("client", If(c.auth, <<Keep(Get("CR"))>>), If(c.auth, <<FromServer("CR")>>))
          /\ Aligned("client", If(c.auth, <<Send("CCERT")>>), If(c.auth, <<FromClient("CCERT")>>))
          /\ Aligned("client", If(c.auth, <<Send("CV")>>), If(c.auth, <<FromClient("CV")>>))
      BY <1>1, <1>3, <1>4, <1>7
    <2>2. /\ Aligned("server", If(c.ske, <<Send("SKE")>>), If(c.ske, <<FromServer("SKE")>>))
          /\ Aligned("server", If(c.auth, <<Send("CR")>>), If(c.auth, <<FromServer("CR")>>))
          /\ Aligned("server", If(c.auth, <<Get("CCERT")>>), If(c.auth, <<FromClient("CCERT")>>))
          /\ Aligned("server", If(c.auth, <<Get("CV")>>), If(c.auth, <<FromClient("CV")>>))
      BY <1>1, <1>3, <1>4, <1>7
    <2>3. Aligned("client", KC, Keys(c))
      BY <1>3, <1>4, <1>6, <2>1 DEF Keys
    <2>4. Aligned("server", KS, Keys(c))
      BY <1>3, <1>4, <1>6, <2>2 DEF Keys
    <2> QED
      BY <2>3, <2>4
  <1>10. /\ Aligned("client", If(c.ticket, <<Keep(Get("NST"))>>), Ticket(c))
         /\ Aligned("server", If(c.ticket, <<Keep(Send("NST"))>>), Ticket(c))
    BY <1>1, <1>3, <1>4, <1>7 DEF Ticket
  <1>11. /\ AlignedAt("client", <<Send("CCS"), Send("FIN")>>, <<FromClient("FIN")>>, 1)
         /\ AlignedAt("server", <<Keep(Send("CCS")), Keep(Send("FIN"))>>, <<FromServer("FIN")>>, 1)
         /\ AlignedAt("client", <<Get("FIN"), Send("CCS"), Send("FIN")>>,
                                <<FromServer("FIN"), FromClient("FIN")>>, 2)
         /\ AlignedAt("server", <<Keep(Send("CCS")), Keep(Send("FIN")), Get("FIN")>>,
                                <<FromServer("FIN"), FromClient("FIN")>>, 1)
    BY <1>2, AlignedFinished DEF FromClient, FromServer
  <1>12. \A e, a, b, t, u, n : Aligned(e, a, t) /\ AlignedAt(e, b, u, n) => AlignedAt(e, a \o b, t \o u, Len(t) + n)
    BY AlignedBefore
  <1>13. \A e, a, b, t, u, n : AlignedAt(e, a, t, n) /\ Aligned(e, b, u) => AlignedAt(e, a \o b, t \o u, n)
    BY AlignedAfter
  <1>14. Len(Hello(c)) \in Nat /\ Len(Keys(c)) \in Nat /\ Len(Ticket(c)) \in Nat
    BY <1>8, <1>9, <1>10, LenProperties DEF Aligned
  <1> HIDE DEF HC, HS, KC, KS
  <1>15. CASE c.hit
    <2>1. /\ AlignedAt("client", HC \o <<Get("FIN"), Send("CCS"), Send("FIN")>>,
                       Hello(c) \o <<FromServer("FIN"), FromClient("FIN")>>, Len(Hello(c)) + 2)
          /\ AlignedAt("server", HS \o <<Keep(Send("CCS")), Keep(Send("FIN")), Get("FIN")>>,
                       Hello(c) \o <<FromServer("FIN"), FromClient("FIN")>>, Len(Hello(c)) + 1)
      BY <1>8, <1>11, <1>12
    <2>2. Close(c, "client") = Len(Hello(c)) + 2 /\ Close(c, "server") = Len(Hello(c)) + 1
      BY <1>15 DEF Close
    <2>3. Talk(c) = Hello(c) \o <<FromServer("FIN"), FromClient("FIN")>>
      BY <1>15 DEF Talk
    <2>4. dtls1_connect(c) = HC \o <<Get("FIN"), Send("CCS"), Send("FIN")>>
      BY <1>15 DEF dtls1_connect, HC
    <2>5. dtls1_accept(c) = HS \o <<Keep(Send("CCS")), Keep(Send("FIN")), Get("FIN")>>
      BY <1>15 DEF dtls1_accept, HS
    <2> QED
      BY <2>1, <2>2, <2>3, <2>4, <2>5
  <1>16. CASE ~c.hit
    <2> DEFINE RC == KC \o <<Send("CCS"), Send("FIN")>> \o If(c.ticket, <<Keep(Get("NST"))>>) \o <<Get("FIN")>>
               AS == KS \o <<Get("FIN")>> \o If(c.ticket, <<Keep(Send("NST"))>>)
               RS == AS \o <<Keep(Send("CCS")), Keep(Send("FIN"))>>
               RT == Keys(c) \o <<FromClient("FIN")>> \o Ticket(c) \o <<FromServer("FIN")>>
               AT == Keys(c) \o <<FromClient("FIN")>> \o Ticket(c)
    <2>1. AlignedAt("client", RC, RT, Len(Keys(c)) + 1)
      <3>1. AlignedAt("client", KC \o <<Send("CCS"), Send("FIN")>>, Keys(c) \o <<FromClient("FIN")>>,
                      Len(Keys(c)) + 1)
        BY <1>9, <1>11, <1>12
      <3>2. AlignedAt("client", KC \o <<Send("CCS"), Send("FIN")>> \o If(c.ticket, <<Keep(Get("NST"))>>),
                      AT, Len(Keys(c)) + 1)
        BY <1>10, <1>13, <3>1
      <3>3. Aligned("client", <<Get("FIN")>>, <<FromServer("FIN")>>)
        BY <1>3, <1>4
      <3> QED
        BY <1>13, <3>2, <3>3
    <2>2. Aligned("server", AS, AT)
      <3>1. Aligned("server", <<Get("FIN")>>, <<FromClient("FIN")>>)
        BY <1>3, <1>4
      <3>2. Aligned("server", KS \o <<Get("FIN")>>, Keys(c) \o <<FromClient("FIN")>>)
        BY <1>6, <1>9, <3>1
      <3> QED
        BY <1>6, <1>10, <3>2
    <2>3. AlignedAt("server", RS, RT, Len(AT) + 1)
      BY <1>11, <1>12, <2>2
    <2>4. Len(AT) = Len(Keys(c)) + 1 + Len(Ticket(c))
      <3>1. Keys(c) \in Seq(Lines) /\ Ticket(c) \in Seq(Lines) /\ <<FromClient("FIN")>> \in Seq(Lines)
        BY <1>9, <1>10, <1>11 DEF Aligned, AlignedAt
      <3>2. /\ Keys(c) \o <<FromClient("FIN")>> \in Seq(Lines)
            /\ Len(Keys(c) \o <<FromClient("FIN")>>) = Len(Keys(c)) + 1
        BY <3>1, Concat
      <3> QED
        BY <3>1, <3>2, Concat
    <2> HIDE DEF RC, AS, RS, RT, AT
    <2>5. /\ AlignedAt("client", HC \o RC, Hello(c) \o RT, Len(Hello(c)) + (Len(Keys(c)) + 1))
          /\ AlignedAt("server", HS \o RS, Hello(c) \o RT, Len(Hello(c)) + (Len(AT) + 1))
      BY <1>8, <1>12, <2>1, <2>3
    <2>6. /\ Close(c, "client") = Len(Hello(c)) + (Len(Keys(c)) + 1)
          /\ Close(c, "server") = Len(Hello(c)) + (Len(AT) + 1)
      BY <1>14, <1>16, <2>4 DEF Close
    <2>7. Talk(c) = Hello(c) \o RT
      BY <1>16 DEF Talk, RT
    <2>8. dtls1_connect(c) = HC \o RC
      BY <1>16 DEF dtls1_connect, HC, RC, KC
    <2>9. dtls1_accept(c) = HS \o RS
      BY <1>16 DEF dtls1_accept, HS, RS, AS, KS
    <2> QED
      BY <2>5, <2>6, <2>7, <2>8, <2>9
  <1> QED
    BY <1>1, <1>15, <1>16

\* The script of e, and how long it is.
LEMMA ScriptType ==
  ASSUME conf \in Settings, NEW e \in End
  PROVE  /\ AlignedAt(e, Script(e), Talk(conf), Close(conf, e))
         /\ Script(e) \in Seq(Turns) /\ Length(e) = Len(Talk(conf)) + 1
  <1>1. AlignedAt(e, Script(e), Talk(conf), Close(conf, e))
    BY ScriptFacts DEF Script, End
  <1> QED
    BY <1>1 DEF AlignedAt, Length

\* Lines that are neither a hello nor a Finished.
Middle == {l \in Lines : l.msg \notin {"CH", "HVR", "FIN"}}

\* How the talk starts and ends: a hello counts once, and each end's Finished
\* is the last that it says.
LEMMA TalkFacts ==
  ASSUME NEW c \in Settings
  PROVE  /\ Talk(c) \in Seq(Lines) /\ Len(Talk(c)) \in Nat
         /\ \A k \in 1..Len(Talk(c)) : Talk(c)[k] \in Lines
         /\ \A e \in End : /\ Close(c, e) \in 1..Len(Talk(c)) /\ Start(c) < Close(c, e)
                           /\ Talk(c)[Close(c, e)] = Says(e, "FIN")
         /\ \A e \in End, k \in 1..Len(Talk(c)) :
              Talk(c)[k].from = e /\ (Talk(c)[k].msg = "FIN" \/ k >= Close(c, e)) => k = Close(c, e)
         /\ Start(c) \in 1..Len(Talk(c)) /\ Talk(c)[Start(c)] = FromClient("CH")
         /\ c.cookie => Talk(c)[2] = FromServer("HVR")
         /\ \A k \in 1..Len(Talk(c)) : k > Start(c) => Talk(c)[k].msg \notin {"CH", "HVR"}
  <1> DEFINE T == Talk(c)
             H == Hello(c)
             h == Len(H)
             L(m) == FromClient(m)
             M(m) == FromServer(m)
  <1>1. {c.hit, c.cookie, c.ske, c.auth, c.ticket} \subseteq BOOLEAN
    BY ConstantAssumption
  <1>2. /\ \A m \in Messages : L(m) \in Lines /\ M(m) \in Lines
        /\ \A m : L(m).msg = m /\ L(m).from = "client" /\ M(m).msg = m /\ M(m).from = "server"
        /\ "client" \in End /\ "server" \in End /\ \A e \in End : e = "client" \/ e = "server"
    BY DEF FromClient, FromServer, Says, Lines, End
  <1>3. {"CH", "HVR", "SH", "CERT", "SKE", "CR", "SHD", "CCERT", "CKE", "CV", "NST", "FIN"}
          \subseteq Messages
    BY DEF Messages
  <1>4. /\ H \in Seq(Lines) /\ h = (IF c.cookie THEN 4 ELSE 2)
        /\ ~c.cookie => H[1] = L("CH") /\ H[2] = M("SH")
        /\ c.cookie => H[1] = L("CH") /\ H[2] = M("HVR") /\ H[3] = L("CH") /\ H[4] = M("SH")
    <2> DEFINE a == <<L("CH")>>
               b == If(c.cookie, <<M("HVR"), L("CH")>>)
               d == <<M("SH")>>
               u == a \o b
    <2>1. /\ a \in Seq(Lines) /\ Len(a) = 1 /\ a[1] = L("CH")
          /\ d \in Seq(Lines) /\ Len(d) = 1 /\ d[1] = M("SH")
      BY <1>2, <1>3
    <2>2. CASE c.cookie
      <3>1. b \in Seq(Lines) /\ Len(b) = 2 /\ b[1] = M("HVR") /\ b[2] = L("CH")
        BY <1>2, <1>3, <2>2 DEF If
      <3> HIDE DEF a, b, d
      <3>2. /\ u \in Seq(Lines) /\ Len(u) = 3
            /\ \A k \in 1..3 : u[k] = IF k <= 1 THEN a[k] ELSE b[k - 1]
        <4>1. a \in Seq(Lines) /\ b \in Seq(Lines)
          BY <2>1, <3>1
        <4>2. /\ u \in Seq(Lines) /\ Len(u) = Len(a) + Len(b)
              /\ \A k \in 1..Len(a) + Len(b) : (u)[k] = IF k <= Len(a) THEN a[k] ELSE b[k - Len(a)]
          BY <4>1, ConcatProperties
        <4> QED
          BY <2>1, <3>1, <4>2
      <3>3. u[1] = L("CH") /\ u[2] = M("HVR") /\ u[3] = L("CH")
        BY <2>1, <3>1, <3>2
      <3> HIDE DEF u
      <3>4. /\ u \o d \in Seq(Lines) /\ Len(u \o d) = 4
            /\ \A k \in 1..4 : (u \o d)[k] = IF k <= 3 THEN u[k] ELSE d[k - 3]
        <4>1. u \in Seq(Lines) /\ d \in Seq(Lines)
          BY <2>1, <3>2
        <4>2. /\ u \o d \in Seq(Lines) /\ Len(u \o d) = Len(u) + Len(d)
              /\ \A k \in 1..Len(u) + Len(d) : (u \o d)[k] = IF k <= Len(u) THEN u[k] ELSE d[k - Len(u)]
          BY <4>1, ConcatProperties
        <4> QED
          BY <2>1, <3>2, <4>2
      <3>5. H = u \o d
        BY DEF Hello, u, a, b, d
      <3> QED
        BY <2>1, <2>2, <3>3, <3>4, <3>5
    <2>3. CASE ~c.cookie
      <3>1. b \in Seq(Lines) /\ Len(b) = 0
        BY <2>3, EmptySeq DEF If
      <3> HIDE DEF a, b, d
      <3>2. /\ u \in Seq(Lines) /\ Len(u) = 1
            /\ \A k \in 1..1 : u[k] = IF k <= 1 THEN a[k] ELSE b[k - 1]
        <4>1. a \in Seq(Lines) /\ b \in Seq(Lines)
          BY <2>1, <3>1
        <4>2. /\ u \in Seq(Lines) /\ Len(u) = Len(a) + Len(b)
              /\ \A k \in 1..Len(a) + Len(b) : u[k] = IF k <= Len(a) THEN a[k] ELSE b[k - Len(a)]
          BY <4>1, ConcatProperties
        <4> QED
          BY <2>1, <3>1, <4>2
      <3>3. u[1] = L("CH")
        BY <2>1, <3>1, <3>2
      <3> HIDE DEF u
      <3>4. /\ u \o d \in Seq(Lines) /\ Len(u \o d) = 2
            /\ \A k \in 1..2 : (u \o d)[k] = IF k <= 1 THEN u[k] ELSE d[k - 1]
        <4>1. u \in Seq(Lines) /\ d \in Seq(Lines)
          BY <2>1, <3>2
        <4>2. /\ u \o d \in Seq(Lines) /\ Len(u \o d) = Len(u) + Len(d)
              /\ \A k \in 1..Len(u) + Len(d) : (u \o d)[k] = IF k <= Len(u) THEN u[k] ELSE d[k - Len(u)]
          BY <4>1, ConcatProperties
        <4> QED
          BY <2>1, <3>2, <4>2
      <3>5. H = u \o d
        BY DEF Hello, u, a, b, d
      <3> QED
        BY <2>1, <2>3, <3>3, <3>4, <3>5
    <2> QED
      BY <2>2, <2>3
  <1> DEFINE K == Keys(c)
             q == Len(K)
             W == Ticket(c)
             w == Len(W)
             S == {l \in Middle : l.from = "server"}
  <1>5. K \in Seq(Middle) /\ q \in Nat
    <2>1. \A a, b \in Seq(Middle) : a \o b \in Seq(Middle)
      BY ConcatProperties
    <2>2. /\ \A m \in {"CERT", "SKE", "CR", "SHD"} : <<M(m)>> \in Seq(Middle)
          /\ \A m \in {"CCERT", "CKE", "CV"} : <<L(m)>> \in Seq(Middle)
      BY <1>2, <1>3 DEF Middle
    <2>3. \A b \in BOOLEAN, a \in Seq(Middle) : If(b, a) \in Seq(Middle)
      BY EmptySeq DEF If
    <2>4. K \in Seq(Middle)
      BY <1>1, <2>1, <2>2, <2>3 DEF Keys
    <2> QED
      BY <2>4, LenProperties
  <1>6. W \in Seq(S) /\ w \in Nat
    <2>1. <<M("NST")>> \in Seq(S)
      BY <1>2, <1>3 DEF Middle
    <2>2. W \in Seq(S)
      BY <2>1, EmptySeq DEF Ticket, If
    <2> QED
      BY <2>2, LenProperties
  <1>7. Start(c) = (IF c.cookie THEN 3 ELSE 1)
    BY DEF Start
  <1> DEFINE e1 == <<L("FIN")>>
             e2 == <<M("FIN")>>
  <1>8. /\ e1 \in Seq(Lines) /\ Len(e1) = 1 /\ e1[1] = L("FIN")
        /\ e2 \in Seq(Lines) /\ Len(e2) = 1 /\ e2[1] = M("FIN")
    BY <1>2, <1>3
  <1>9. \E R \in Seq(Lines), x, y \in Nat :
          /\ T = H \o R /\ Close(c, "client") = h + x /\ Close(c, "server") = h + y
          /\ x \in 1..Len(R) /\ y \in 1..Len(R) /\ R[x] = L("FIN") /\ R[y] = M("FIN")
          /\ \A k \in 1..Len(R) : /\ k # x /\ k # y => R[k] \in Middle
                                  /\ k > x => R[k].from = "server"
                                  /\ k > y => R[k].from = "client"
    <2>1. CASE c.hit
      <3> DEFINE R == <<M("FIN"), L("FIN")>>
      <3>1. R \in Seq(Lines) /\ Len(R) = 2 /\ R[1] = M("FIN") /\ R[2] = L("FIN")
        BY <1>2, <1>3
      <3>2. T = H \o R /\ Close(c, "client") = h + 2 /\ Close(c, "server") = h + 1
        BY <2>1 DEF Talk, Close
      <3> HIDE DEF R, T, H, h, L, M
      <3>3. /\ 1 \in 1..Len(R) /\ 2 \in 1..Len(R)
            /\ \A k \in 1..Len(R) : /\ k # 2 /\ k # 1 => R[k] \in Middle
                                    /\ k > 2 => R[k].from = "server"
                                    /\ k > 1 => R[k].from = "client"
        BY <1>2, <3>1
      <3> QED
        BY <3>1, <3>2, <3>3
    <2>2. CASE ~c.hit
      <3> DEFINE A == K \o e1
                 B == A \o W
                 R == B \o e2
                 x == q + 1
                 y == q + w + 2
      <3>1. K \in Seq(Lines) /\ W \in Seq(Lines)
        BY <1>5, <1>6, SeqMonotonic DEF Middle
      <3>2. T = H \o R /\ Close(c, "client") = h + x /\ Close(c, "server") = h + y
        <4>1. /\ Close(c, "client") = h + (q + 1) /\ Close(c, "server") = h + (q + (w + 2))
          BY <2>2 DEF Close
        <4>2. T = H \o R
          BY <2>2 DEF Talk
        <4> HIDE DEF T, H, h, R, q, w
        <4> QED
          BY <1>5, <1>6, <4>1, <4>2
      <3>3. \A k \in 1..q : K[k] \in Middle
        BY <1>5, ElementOfSeq
      <3>4. \A k \in 1..w : W[k] \in Middle /\ W[k].from = "server"
        <4>1. \A k \in 1..w : W[k] \in S
          BY <1>6, ElementOfSeq
        <4> QED
          BY <4>1
      <3> HIDE DEF K, W, e1, e2, T, H, h, L, M, S
      <3>5. /\ A \in Seq(Lines) /\ Len(A) = q + 1
            /\ \A k \in 1..q + 1 : A[k] = IF k <= q THEN K[k] ELSE e1[k - q]
        <4>1. K \in Seq(Lines) /\ e1 \in Seq(Lines)
          BY <1>8, <3>1
        <4>2. /\ A \in Seq(Lines) /\ Len(A) = Len(K) + Len(e1)
              /\ \A k \in 1..Len(K) + Len(e1) : (A)[k] = IF k <= Len(K) THEN K[k] ELSE e1[k - Len(K)]
          BY <4>1, ConcatProperties
        <4> QED
          BY <1>5, <1>8, <4>2
      <3> HIDE DEF A
      <3>6. /\ B \in Seq(Lines) /\ Len(B) = q + 1 + w
            /\ \A k \in 1..q + 1 + w : B[k] = IF k <= q + 1 THEN A[k] ELSE W[k - (q + 1)]
        <4>1. A \in Seq(Lines) /\ W \in Seq(Lines)
          BY <3>1, <3>5
        <4>2. /\ B \in Seq(Lines) /\ Len(B) = Len(A) + Len(W)
              /\ \A k \in 1..Len(A) + Len(W) : (B)[k] = IF k <= Len(A) THEN A[k] ELSE W[k - Len(A)]
          BY <4>1, ConcatProperties
        <4> QED
          BY <1>5, <1>6, <3>5, <4>2
      <3> HIDE DEF B
      <3>7. /\ R \in Seq(Lines) /\ Len(R) = q + 1 + w + 1
            /\ \A k \in 1..q + 1 + w + 1 : R[k] = IF k <= q + 1 + w THEN B[k] ELSE e2[k - (q + 1 + w)]
        <4>1. B \in Seq(Lines) /\ e2 \in Seq(Lines)
          BY <1>8, <3>6
        <4>2. /\ R \in Seq(Lines) /\ Len(R) = Len(B) + Len(e2)
              /\ \A k \in 1..Len(B) + Len(e2) : (R)[k] = IF k <= Len(B) THEN B[k] ELSE e2[k - Len(B)]
          BY <4>1, ConcatProperties
        <4> QED
          BY <1>5, <1>6, <1>8, <3>6, <4>2
      <3> HIDE DEF R, q, w
      <3>8. /\ \A k \in 1..q : R[k] = K[k]
            /\ R[q + 1] = L("FIN")
            /\ R[q + w + 2] = M("FIN")
        <4>1. q + 1 - q = 1 /\ q + w + 2 - (q + 1 + w) = 1 /\ ~(q + w + 2 <= q + 1 + w)
          BY <1>5, <1>6
        <4>2. R[q + 1] = A[q + 1] /\ A[q + 1] = e1[q + 1 - q]
          BY <1>5, <1>6, <3>5, <3>6, <3>7
        <4>3. R[q + w + 2] = e2[1]
          <5> DEFINE v == q + w + 2
          <5>1. v = q + w + 2 /\ v \in 1..q + 1 + w + 1 /\ ~(v <= q + 1 + w) /\ v - (q + 1 + w) = 1
            BY <1>5, <1>6
          <5> HIDE DEF v
          <5>2. R[v] = e2[v - (q + 1 + w)]
            BY <3>7, <5>1
          <5>3. R[v] = e2[1]
            BY <5>1, <5>2
          <5> QED
            BY <5>1, <5>3
        <4>4. \A k \in 1..q : R[k] = K[k]
          <5> SUFFICES ASSUME NEW k \in 1..q PROVE R[k] = K[k]
            OBVIOUS
          <5>1. /\ k \in 1..q + 1 /\ k \in 1..q + 1 + w /\ k \in 1..q + 1 + w + 1
                /\ k <= q /\ k <= q + 1 /\ k <= q + 1 + w
            BY <1>5, <1>6
          <5> QED
            BY <3>5, <3>6, <3>7, <5>1
        <4> QED
          BY <1>8, <4>1, <4>2, <4>3, <4>4
      <3>9. \A j \in 1..w : R[q + 1 + j] = W[j]
        <4> SUFFICES ASSUME NEW j \in 1..w PROVE R[q + 1 + j] = W[j]
          OBVIOUS
        <4> DEFINE k == q + 1 + j
        <4>1. /\ k \in 1..q + 1 + w + 1 /\ k \in 1..q + 1 + w /\ k <= q + 1 + w
              /\ ~(k <= q + 1) /\ k - (q + 1) = j
          BY <1>5, <1>6
        <4> HIDE DEF k
        <4>2. R[k] = W[j]
          BY <3>6, <3>7, <4>1
        <4> QED
          BY <4>2 DEF k
      <3>10. ASSUME NEW k \in 1..Len(R)
             PROVE  /\ k # x /\ k # y => R[k] \in Middle
                    /\ k > x => R[k].from = "server"
                    /\ k > y => R[k].from = "client"
        <4>1. CASE k \in 1..q
          BY <1>5, <1>6, <3>3, <3>8, <4>1
        <4>2. CASE k = q + 1
          BY <1>5, <1>6, <4>2
        <4>3. CASE k > q + 1 /\ k < y
          <5>1. k - (q + 1) \in 1..w /\ q + 1 + (k - (q + 1)) = k /\ ~(k > y)
            BY <1>5, <1>6, <4>3
          <5> QED
            BY <3>4, <3>9, <5>1
        <4>4. CASE k = y
          <5>1. k > x /\ ~(k > y)
            BY <1>5, <1>6, <4>4
          <5> QED
            BY <1>2, <3>8, <4>4, <5>1
        <4> QED
          BY <1>5, <1>6, <3>7, <4>1, <4>2, <4>3, <4>4
      <3>11. x \in Nat /\ y \in Nat /\ x \in 1..Len(R) /\ y \in 1..Len(R)
        BY <1>5, <1>6, <3>7
      <3>12. R[x] = L("FIN") /\ R[y] = M("FIN")
        BY <3>8
      <3> HIDE DEF x, y
      <3> QED
        BY <3>2, <3>7, <3>10, <3>11, <3>12
    <2> QED
      BY <2>1, <2>2
  <1> HIDE DEF T, H
  <1>10. PICK R \in Seq(Lines), x \in Nat, y \in Nat :
          /\ T = H \o R /\ Close(c, "client") = h + x /\ Close(c, "server") = h + y
          /\ x \in 1..Len(R) /\ y \in 1..Len(R) /\ R[x] = L("FIN") /\ R[y] = M("FIN")
          /\ \A k \in 1..Len(R) : /\ k # x /\ k # y => R[k] \in Middle
                                  /\ k > x => R[k].from = "server"
                                  /\ k > y => R[k].from = "client"
    BY <1>9
  <1> DEFINE z == Len(R)
  <1>11. /\ T \in Seq(Lines) /\ Len(T) = h + z /\ h \in Nat /\ z \in Nat
         /\ \A k \in 1..h + z : T[k] = IF k <= h THEN H[k] ELSE R[k - h]
    <2>1. H \in Seq(Lines) /\ R \in Seq(Lines)
      BY <1>4, <1>10
    <2>2. /\ H \o R \in Seq(Lines) /\ Len(H \o R) = Len(H) + Len(R)
          /\ \A k \in 1..Len(H) + Len(R) : (H \o R)[k] = IF k <= Len(H) THEN H[k] ELSE R[k - Len(H)]
      BY <2>1, ConcatProperties
    <2> QED
      BY <1>10, LenProperties, <2>2
  <1>12. \A k \in 1..Len(T) : T[k] \in Lines
    BY <1>11, ElementOfSeq
  <1> HIDE DEF h, z, L, M
  <1>13. /\ \A k \in 1..h : T[k] = H[k]
         /\ \A k \in 1..Len(T) : k > h => k - h \in 1..z /\ T[k] = R[k - h]
    BY <1>11
  <1>14. /\ h \in Nat /\ h >= 2 /\ (c.cookie => h = 4) /\ (~c.cookie => h = 2)
         /\ Start(c) \in 1..h /\ Start(c) < h
    BY <1>1, <1>4, <1>7
  <1>23. h \in Nat /\ h >= 2 /\ x \in Nat /\ y \in Nat /\ x >= 1 /\ y >= 1
    BY <1>10, <1>14
  <1>15. /\ T[h + x] = L("FIN") /\ T[h + y] = M("FIN")
         /\ h + x \in 1..Len(T) /\ h + y \in 1..Len(T) /\ Start(c) < h + x /\ Start(c) < h + y
    <2>1. h + x - h = x /\ h + y - h = y /\ h + x > h /\ h + y > h
      BY <1>10, <1>14
    <2>2. h + x \in 1..Len(T) /\ h + y \in 1..Len(T)
      BY <1>10, <1>11, <1>14 DEF z
    <2>3. T[h + x] = R[x] /\ T[h + y] = R[y]
      <3> DEFINE i == h + x
                 j == h + y
      <3>1. /\ i = h + x /\ i \in 1..Len(T) /\ i > h /\ i - h = x
            /\ j = h + y /\ j \in 1..Len(T) /\ j > h /\ j - h = y
        BY <1>23, <2>2
      <3> HIDE DEF i, j
      <3>2. T[i] = R[i - h] /\ T[j] = R[j - h]
        BY <1>13, <3>1
      <3>3. T[i] = R[x] /\ T[j] = R[y]
        BY <3>1, <3>2
      <3> QED
        BY <3>1, <3>3
    <2>4. T[h + x] = L("FIN") /\ T[h + y] = M("FIN")
      BY <1>10, <2>1, <2>3
    <2>5. Start(c) < h + x /\ Start(c) < h + y
      <3>1. Start(c) \in Nat /\ Start(c) < h
        BY <1>14
      <3> QED
        BY <1>23, <3>1
    <2> QED
      BY <2>2, <2>4, <2>5
  <1>16. T[Start(c)] = L("CH") /\ (c.cookie => T[2] = M("HVR"))
    BY <1>1, <1>4, <1>7, <1>13, <1>14
  <1>17. ASSUME NEW k \in 1..h
         PROVE  /\ T[k].msg # "FIN" /\ k # h + x /\ k # h + y /\ ~(k >= h + x) /\ ~(k >= h + y)
                /\ k > Start(c) => T[k].msg \notin {"CH", "HVR"}
    <2>1. ~c.cookie => k = 1 \/ k = 2
      BY <1>14
    <2>2. c.cookie => k = 1 \/ k = 2 \/ k = 3 \/ k = 4
      BY <1>14
    <2>3. T[k] = H[k]
      BY <1>13
    <2>4. ~(k >= h + x) /\ ~(k >= h + y)
      BY <1>23
    <2>5. T[k].msg # "FIN"
      BY <1>1, <1>2, <1>4, <2>1, <2>2, <2>3
    <2>6. k > Start(c) => T[k].msg = "SH"
      <3>1. CASE c.cookie
        BY <1>2, <1>4, <1>7, <2>2, <2>3, <3>1
      <3>2. CASE ~c.cookie
        BY <1>2, <1>4, <1>7, <2>1, <2>3, <3>2
      <3> QED
        BY <3>1, <3>2
    <2> QED
      BY <1>14, <2>4, <2>5, <2>6
  <1>18. ASSUME NEW k \in 1..Len(T), k > h
         PROVE  /\ k # h + x /\ k # h + y => T[k] \in Middle
                /\ k > h + x => T[k].from = "server"
                /\ k > h + y => T[k].from = "client"
    <2>1. k - h \in 1..z /\ T[k] = R[k - h]
      BY <1>13, <1>18
    <2>2. /\ (k - h = x <=> k = h + x) /\ (k - h = y <=> k = h + y)
          /\ (k - h > x <=> k > h + x) /\ (k - h > y <=> k > h + y)
      BY <1>23
    <2> QED
      BY <1>10, <2>1, <2>2 DEF z
  <1>19. ASSUME NEW e \in End, NEW k \in 1..Len(T),
                T[k].from = e, T[k].msg = "FIN" \/ k >= Close(c, e)
         PROVE  k = Close(c, e)
    <2>1. k > h
      <3>1. CASE k \in 1..h
        <4>1. T[k].msg # "FIN" /\ ~(k >= h + x) /\ ~(k >= h + y)
          BY <1>17, <3>1
        <4>2. Close(c, e) = h + x \/ Close(c, e) = h + y
          BY <1>2, <1>10
        <4>3. ~(k >= Close(c, e))
          BY <4>1, <4>2
        <4> QED
          BY <1>19, <4>1, <4>3
      <3> QED
        BY <1>23, <3>1
    <2>2. /\ L("FIN").from = "client" /\ M("FIN").from = "server" /\ Close(c, "client") = h + x
          /\ Close(c, "server") = h + y
      BY <1>2, <1>10
    <2>3. \A l \in Middle : l.msg # "FIN"
      BY DEF Middle
    <2>4. CASE e = "client"
      <3>1. k # h + y
        BY <1>15, <1>19, <2>2, <2>4
      <3>2. ~(k > h + x)
        BY <1>18, <1>19, <2>1, <2>4
      <3>3. k # h + x => T[k].msg # "FIN"
        BY <1>18, <2>1, <2>3, <3>1
      <3> QED
        <4>1. Close(c, e) = h + x
          BY <2>2, <2>4
        <4>2. k = h + x \/ k >= h + x
          BY <1>19, <3>3, <4>1
        <4> QED
          BY <1>23, <3>2, <4>1, <4>2
    <2>5. CASE e = "server"
      <3>1. k # h + x
        BY <1>15, <1>19, <2>2, <2>5
      <3>2. ~(k > h + y)
        BY <1>18, <1>19, <2>1, <2>5
      <3>3. k # h + y => T[k].msg # "FIN"
        BY <1>18, <2>1, <2>3, <3>1
      <3> QED
        <4>1. Close(c, e) = h + y
          BY <2>2, <2>5
        <4>2. k = h + y \/ k >= h + y
          BY <1>19, <3>3, <4>1
        <4> QED
          BY <1>23, <3>2, <4>1, <4>2
    <2> QED
      BY <1>2, <2>4, <2>5
  <1>20. ASSUME NEW k \in 1..Len(T), k > Start(c)
         PROVE  T[k].msg \notin {"CH", "HVR"}
    <2>1. CASE k \in 1..h
      BY <1>17, <1>20, <2>1
    <2>2. CASE k > h
      <3>1. CASE k = h + x \/ k = h + y
        BY <1>2, <1>15, <3>1
      <3>2. CASE k # h + x /\ k # h + y
        BY <1>18, <2>2, <3>2 DEF Middle
      <3> QED
        BY <3>1, <3>2
    <2> QED
      BY <1>14, <2>1, <2>2
  <1>21. ASSUME NEW e \in End
         PROVE  Close(c, e) \in 1..Len(T) /\ Start(c) < Close(c, e) /\ T[Close(c, e)] = Says(e, "FIN")
    <2>1. L("FIN") = Says("client", "FIN") /\ M("FIN") = Says("server", "FIN")
      BY DEF L, M, FromClient, FromServer
    <2>2. CASE e = "client"
      <3>1. Close(c, e) = h + x
        BY <1>10, <2>2
      <3> QED
        BY <1>15, <2>1, <2>2, <3>1
    <2>3. CASE e = "server"
      <3>1. Close(c, e) = h + y
        BY <1>10, <2>3
      <3> QED
        BY <1>15, <2>1, <2>3, <3>1
    <2> QED
      BY <1>2, <2>2, <2>3
  <1>22. Len(T) \in Nat /\ Start(c) \in 1..Len(T)
    BY <1>11, <1>14
  <1> QED
    BY <1>11, <1>12, <1>16, <1>19, <1>20, <1>21, <1>22 DEF T, L, M

\* The turn of an end that has not done is one of its script's.
LEMMA CaseType ==
  ASSUME conf \in Settings, NEW e \in End, ssl[e].at \in Nat, ssl[e].at > 0, ~Done(e)
  PROVE  Case(e) \in Turns /\ ssl[e].at <= Length(e)
  <1>1. Script(e) \in Seq(Turns) /\ Length(e) \in Nat
    BY ScriptType, LenProperties DEF Length
  <1>2. ssl[e].at \in 1..Length(e)
    BY <1>1 DEF Done, Length
  <1> QED
    BY <1>1, <1>2, ElementOfSeq DEF Case, Length

LEMMA AppendFacts ==
  ASSUME NEW S, NEW s \in Seq(S), NEW x \in S
  PROVE  /\ Append(s, x) \in Seq(S) /\ Len(Append(s, x)) = Len(s) + 1 /\ Len(s) \in Nat
         /\ \A k \in 1..Len(s) + 1 : Append(s, x)[k] = IF k = Len(s) + 1 THEN x ELSE s[k]
  BY AppendProperties, LenProperties

\* What is under way after rs go out from e, and after one record is taken off.
LEMMA OutFacts ==
  ASSUME DOMAIN wire = End, NEW e \in End, NEW rs
  PROVE  /\ DOMAIN Out(e, rs) = End
         /\ \A f \in End : \A r \in BagToSet(Out(e, rs)[f]) :
              r \in BagToSet(wire[f]) \/ (f = Peer(e) /\ r \in rs)
  <1>1. \A b : DOMAIN (b (+) SetToBag(rs)) = (DOMAIN b) \cup rs
    BY DEF SetToBag, (+)
  <1>2. \A f \in End : Out(e, rs)[f] = IF f = Peer(e) THEN wire[f] (+) SetToBag(rs) ELSE wire[f]
    BY Peers DEF Out
  <1>3. DOMAIN Out(e, rs) = End
    BY DEF Out
  <1>4. ASSUME NEW f \in End, NEW r \in BagToSet(Out(e, rs)[f])
        PROVE  r \in BagToSet(wire[f]) \/ (f = Peer(e) /\ r \in rs)
    <2>1. CASE f = Peer(e)
      <3>1. DOMAIN Out(e, rs)[f] = (DOMAIN wire[f]) \cup rs
        BY <1>1, <1>2, <2>1
      <3> QED
        BY <1>4, <2>1, <3>1 DEF BagToSet
    <2>2. CASE f # Peer(e)
      BY <1>2, <1>4, <2>2
    <2> QED
      BY <2>1, <2>2
  <1> QED
    BY <1>3, <1>4

LEMMA RemoveFacts ==
  ASSUME NEW b, NEW r, NEW x \in BagToSet(b (-) SetToBag({r}))
  PROVE  x \in BagToSet(b)
  BY DEF BagToSet, (-)

\* A record still fits when its sender says more.
LEMMA FitsMore ==
  ASSUME NEW d \in Seq(Messages), NEW m \in Messages, NEW r, Fits(d, r)
  PROVE  Fits(Append(d, m), r)
  <1>1. r.seq \in Nat
    BY DEF Fits, Record
  <1> QED
    BY <1>1, AppendFacts DEF Fits

\* So do the pieces it is cut in.
LEMMA PiecesFit ==
  ASSUME NEW d, NEW r, Fits(d, r), NEW x \in Fragments(r) \cup Halves(r)
  PROVE  Fits(d, x)
  <1>1. x = r \/ x = [r EXCEPT !.part = {1}] \/ x = [r EXCEPT !.part = {2}]
    BY DEF Fragments, Halves
  <1>2. r \in Record
    BY DEF Fits
  <1>3. x \in Record /\ x.msg = r.msg /\ x.seq = r.seq
    BY <1>1, <1>2 DEF Record, Whole
  <1> QED
    BY <1>3 DEF Fits

LEMMA ResentFit ==
  ASSUME NEW e \in End, NEW d, Sound(Length(e), d, ssl[e]),
         NEW x \in dtls1_retransmit_buffered_messages(ssl[e])
  PROVE  Fits(ssl[e].said, x)
  <1>1. PICK k \in DOMAIN ssl[e].sent : x \in Fragments(ssl[e].sent[k])
    BY DEF dtls1_retransmit_buffered_messages
  <1>2. k \in 1..Len(ssl[e].sent)
    BY <1>1, LenProperties DEF Sound, State
  <1> QED
    BY <1>1, <1>2, PiecesFit DEF Sound

-----------------------------------------------------------------------------
(* What reading does to one end.                                           *)

\* A turn ends; with the last one the numbers start again.
LEMMA AdvanceFacts ==
  ASSUME NEW e \in End, NEW s \in State, Length(e) \in Nat
  PROVE  LET t == Advance(e, s) IN
         /\ t \in State /\ t.at = s.at + 1
         /\ t.read_seq = (IF t.at <= Length(e) THEN s.read_seq ELSE 0)
         /\ t.write_seq = (IF t.at <= Length(e) THEN s.write_seq ELSE 0)
         /\ t.w_epoch = s.w_epoch /\ t.r_epoch = s.r_epoch
         /\ t.change_cipher_spec = s.change_cipher_spec /\ t.peer_finish_md = s.peer_finish_md
         /\ t.timer = s.timer /\ t.num_alerts = s.num_alerts /\ t.finish_mac = s.finish_mac
         /\ t.sent = s.sent /\ t.buffered = s.buffered /\ t.unprocessed = s.unprocessed
         /\ t.said = s.said /\ t.told = s.told /\ t.failed = s.failed
  <1> DEFINE n == s.at + 1
             t == Advance(e, s)
             a == [s EXCEPT !.at = n]
             b == [a EXCEPT !.read_seq = 0, !.write_seq = 0]
  <1>1. n \in Nat
    BY DEF State
  <1>2. t = IF n > Length(e) THEN b ELSE a
    BY DEF Advance, State, Length
  <1> HIDE DEF n, t
  <1>3. /\ a \in State /\ a.at = n
        /\ a.read_seq = s.read_seq /\ a.write_seq = s.write_seq
        /\ a.w_epoch = s.w_epoch /\ a.r_epoch = s.r_epoch
        /\ a.change_cipher_spec = s.change_cipher_spec /\ a.peer_finish_md = s.peer_finish_md
        /\ a.timer = s.timer /\ a.num_alerts = s.num_alerts /\ a.finish_mac = s.finish_mac
        /\ a.sent = s.sent /\ a.buffered = s.buffered /\ a.unprocessed = s.unprocessed
        /\ a.said = s.said /\ a.told = s.told /\ a.failed = s.failed
    BY <1>1 DEF State
  <1>4. /\ b \in State /\ b.at = n
        /\ b.read_seq = 0 /\ b.write_seq = 0
        /\ b.w_epoch = s.w_epoch /\ b.r_epoch = s.r_epoch
        /\ b.change_cipher_spec = s.change_cipher_spec /\ b.peer_finish_md = s.peer_finish_md
        /\ b.timer = s.timer /\ b.num_alerts = s.num_alerts /\ b.finish_mac = s.finish_mac
        /\ b.sent = s.sent /\ b.buffered = s.buffered /\ b.unprocessed = s.unprocessed
        /\ b.said = s.said /\ b.told = s.told /\ b.failed = s.failed
    BY <1>1 DEF State
  <1> HIDE DEF a, b
  <1> QED
    BY <1>1, <1>2, <1>3, <1>4 DEF t, n

\* The next message is taken.
LEMMA TakeFacts ==
  ASSUME conf \in Settings, NEW e \in End, NEW d \in Seq(Messages), NEW s, Sound(Length(e), d, s),
         s.at = ssl[e].at, ~Done(e), NEW r, Waits(d, r), r.seq = s.read_seq
  PROVE  LET t == dtls1_get_message(e, s, r) IN Sound(Length(e), d, t) /\ Heard(d, s, t)
  <1> DEFINE i == Case(e)
             fine == r.msg = i.msg /\ (r.msg = "FIN" => s.change_cipher_spec /\ r.md = s.peer_finish_md)
             n == s.read_seq + 1
             y == Append(s.told, r.msg)
             z == Append(s.finish_mac, r.msg)
             u == [s EXCEPT !.read_seq = n, !.sent = <<>>, !.told = y,
                            !.finish_mac = z, !.failed = ~fine]
             v == [u EXCEPT !.timer = @ /\ i.timer = "keep",
                            !.change_cipher_spec = @ /\ r.msg # "FIN"]
             t == dtls1_get_message(e, s, r)
  <1>1. /\ s \in State /\ r \in Record /\ r.msg \in Messages
        /\ r.seq < Len(d) /\ d[r.seq + 1] = r.msg
    BY DEF Sound, Waits, Fits, Record, Kinds
  <1>2. s.at <= Length(e) /\ s.read_seq = Len(s.told) /\ s.write_seq = Len(s.said)
    BY <1>1, CaseType DEF Sound, State
  <1>3. /\ Append(s.told, r.msg) \in Seq(Messages) /\ Append(s.finish_mac, r.msg) \in Seq(Messages)
        /\ Len(Append(s.told, r.msg)) = s.read_seq + 1
        /\ <<>> \in Seq(Record) /\ Len(<<>>) = 0
    <2>1. s.told \in Seq(Messages) /\ s.finish_mac \in Seq(Messages)
      BY <1>1 DEF State
    <2> QED
      BY <1>1, <1>2, <2>1, AppendFacts, EmptySeq
  <1>4. t = IF ~fine THEN u ELSE Advance(e, v)
    BY DEF dtls1_get_message
  <1>5. n \in Nat /\ y \in Seq(Messages) /\ z \in Seq(Messages)
    <2>1. s.read_seq \in Nat
      BY <1>1 DEF State
    <2> QED
      BY <1>3, <2>1
  <1> HIDE DEF n, y, z, fine
  <1>6. /\ u \in State /\ u.at = s.at /\ u.read_seq = n /\ u.write_seq = s.write_seq
        /\ u.sent = <<>> /\ u.told = y /\ u.said = s.said
        /\ u.buffered = s.buffered /\ u.unprocessed = s.unprocessed
    BY <1>1, <1>3, <1>5 DEF State
  <1> HIDE DEF u
  <1>7. /\ v \in State /\ v.at = s.at /\ v.read_seq = n /\ v.write_seq = s.write_seq
        /\ v.sent = <<>> /\ v.told = y /\ v.said = s.said
        /\ v.buffered = s.buffered /\ v.unprocessed = s.unprocessed
    BY <1>6 DEF State
  <1> HIDE DEF v, t
  <1>8. /\ t \in State /\ t.sent = <<>> /\ t.told = y /\ t.said = s.said /\ t.at >= s.at
        /\ t.buffered = s.buffered /\ t.unprocessed = s.unprocessed
        /\ t.at <= Length(e) => t.read_seq = n /\ t.write_seq = s.write_seq
    <2>1. Length(e) \in Nat /\ s.at \in Nat
      BY <1>1, ScriptType, LenProperties DEF State, Length
    <2>2. CASE ~fine
      BY <1>4, <1>6, <2>1, <2>2
    <2>3. CASE fine
      BY <1>4, <1>7, <2>1, <2>3, AdvanceFacts
    <2> QED
      BY <2>2, <2>3
  <1>9. Sound(Length(e), d, t)
    <2>1. s.at \in Nat /\ t.at \in Nat
      BY <1>1, <1>8 DEF State
    <2> QED
      BY <1>2, <1>3, <1>8, <2>1 DEF Sound, n, y
  <1>10. Heard(d, s, t)
    BY <1>1, <1>2, <1>8 DEF Heard, y
  <1> QED
    BY <1>9, <1>10 DEF t

\* What a piece marks of its message leaves the rest of the record as it is.
LEMMA CoveredFacts ==
  ASSUME NEW r \in Record
  PROVE  /\ Covered(r) \in Record /\ Covered(r).msg = r.msg /\ Covered(r).epoch = r.epoch
         /\ Covered(r).seq = r.seq /\ Covered(r).md = r.md
  <1> DEFINE p == IF r.msg \in conf.aligned THEN r.part \ {1} ELSE r.part
  <1>1. Covered(r) = [r EXCEPT !.part = p]
    BY DEF Covered
  <1>2. p \in SUBSET Whole
    BY DEF Record
  <1> HIDE DEF p
  <1> QED
    BY <1>1, <1>2 DEF Record

\* A piece of a message is put with the others.
LEMMA JoinedFacts ==
  ASSUME NEW e \in End, NEW d, NEW s, Sound(Length(e), d, s), NEW r, Waits(d, r)
  PROVE  LET t == Joined(s, r) IN
         /\ Sound(Length(e), d, t) /\ t.told = s.told /\ t.said = s.said
  <1> DEFINE there == {h \in s.buffered : h.seq = r.seq}
             joined == {[h EXCEPT !.part = @ \cup r.part] : h \in there}
             B == IF there = {} THEN s.buffered \cup {r} ELSE (s.buffered \ there) \cup joined
             t == Joined(s, r)
  <1>1. s \in State /\ r \in Record
    BY DEF Sound, Waits, Fits
  <1>2. ASSUME NEW h \in B
        PROVE  Waits(d, h)
    <2>1. CASE h \in s.buffered
      BY <2>1 DEF Sound
    <2>2. CASE h = r
      BY <2>2
    <2>3. CASE h \in joined
      <3>1. PICK g \in s.buffered : h = [g EXCEPT !.part = @ \cup r.part]
        BY <2>3
      <3>2. Waits(d, g)
        BY DEF Sound
      <3>3. g \in Record
        BY <3>2 DEF Waits, Fits
      <3>4. h \in Record /\ h.msg = g.msg /\ h.seq = g.seq
        BY <1>1, <3>1, <3>3 DEF Record
      <3> QED
        BY <3>2, <3>4 DEF Waits, Fits
    <2> QED
      BY <1>2, <2>1, <2>2, <2>3
  <1>3. B \subseteq Record
    BY <1>2 DEF Waits, Fits
  <1>4. t = [s EXCEPT !.buffered = B]
    BY <1>1 DEF Joined, State
  <1> HIDE DEF B, t
  <1>5. /\ t \in State /\ t.buffered = B /\ t.at = s.at /\ t.read_seq = s.read_seq
        /\ t.write_seq = s.write_seq /\ t.sent = s.sent /\ t.unprocessed = s.unprocessed
        /\ t.said = s.said /\ t.told = s.told
    BY <1>1, <1>3, <1>4 DEF State
  <1>6. Sound(Length(e), d, t)
    BY <1>2, <1>5 DEF Sound
  <1> QED
    BY <1>5, <1>6 DEF t

LEMMA ReassembleFacts ==
  ASSUME NEW e \in End, NEW d, NEW s, Sound(Length(e), d, s), NEW r, Waits(d, r)
  PROVE  LET t == dtls1_reassemble_fragment(s, r) IN
         /\ Sound(Length(e), d, t) /\ t.told = s.told /\ t.said = s.said
  <1> DEFINE x == Covered(r)
  <1>1. r \in Record
    BY DEF Waits, Fits
  <1>2. x \in Record /\ x.msg = r.msg /\ x.seq = r.seq
    BY <1>1, CoveredFacts
  <1>3. dtls1_reassemble_fragment(s, r) = Joined(s, x)
    BY DEF dtls1_reassemble_fragment
  <1> HIDE DEF x
  <1>4. Waits(d, x)
    BY <1>2 DEF Waits, Fits
  <1> QED
    BY <1>3, <1>4, JoinedFacts

\* A message that is not the next one changes at most what is kept.
LEMMA OutOfSeqFacts ==
  ASSUME NEW e \in End, NEW d, NEW s, Sound(Length(e), d, s), NEW r, Waits(d, r)
  PROVE  LET t == dtls1_process_out_of_seq_message(s, r) IN
         /\ Sound(Length(e), d, t) /\ t.told = s.told /\ t.said = s.said
  <1> DEFINE t == dtls1_process_out_of_seq_message(s, r)
             b == [s EXCEPT !.buffered = @ \cup {r}]
  <1>1. t = s \/ t = dtls1_reassemble_fragment(s, r) \/ t = b
    BY DEF dtls1_process_out_of_seq_message
  <1>2. s \in State /\ r \in Record
    BY DEF Sound, Waits, Fits
  <1>3. /\ b \in State /\ b.buffered = s.buffered \cup {r} /\ b.at = s.at /\ b.read_seq = s.read_seq
        /\ b.write_seq = s.write_seq /\ b.sent = s.sent /\ b.unprocessed = s.unprocessed
        /\ b.said = s.said /\ b.told = s.told
    BY <1>2 DEF State
  <1> HIDE DEF b
  <1>4. Sound(Length(e), d, b)
    BY <1>3 DEF Sound
  <1> QED
    BY <1>1, <1>3, <1>4, ReassembleFacts

LEMMA FragmentFacts ==
  ASSUME conf \in Settings, NEW e \in End, NEW d \in Seq(Messages), NEW s, Sound(Length(e), d, s),
         s.at = ssl[e].at, ~Done(e), NEW r, Waits(d, r)
  PROVE  LET t == dtls1_get_message_fragment(e, s, r) IN Sound(Length(e), d, t) /\ Heard(d, s, t)
  <1> DEFINE t == dtls1_get_message_fragment(e, s, r)
  <1>1. CASE r.seq # s.read_seq
    BY <1>1, OutOfSeqFacts DEF dtls1_get_message_fragment, Heard
  <1>2. CASE r.seq = s.read_seq /\ r.part # Whole
    BY <1>2, ReassembleFacts DEF dtls1_get_message_fragment, Heard
  <1>3. CASE r.seq = s.read_seq /\ r.part = Whole
    <2>1. t = dtls1_get_message(e, s, r)
      BY <1>3 DEF dtls1_get_message_fragment
    <2> QED
      BY <1>3, <2>1, TakeFacts
  <1> QED
    BY <1>1, <1>2, <1>3

\* A record of the epoch being read.
LEMMA ReadFacts ==
  ASSUME conf \in Settings, NEW e \in End, NEW d \in Seq(Messages), NEW s, Sound(Length(e), d, s),
         s.at = ssl[e].at, NEW r, Fits(d, r)
  PROVE  LET t == dtls1_read_bytes(e, s, r) IN Sound(Length(e), d, t) /\ Heard(d, s, t)
  <1> DEFINE t == dtls1_read_bytes(e, s, r)
             c == ssl3_do_change_cipher_spec(s)
  <1>1. s \in State /\ s.r_epoch + 1 \in Nat /\ s.finish_mac \in Seq(Messages)
    BY DEF Sound, State
  <1>2. /\ c \in State /\ c.buffered = s.buffered /\ c.at = s.at /\ c.read_seq = s.read_seq
        /\ c.write_seq = s.write_seq /\ c.sent = s.sent /\ c.unprocessed = s.unprocessed
        /\ c.said = s.said /\ c.told = s.told
    <2>1. \A n \in Nat, m \in Seq(Messages) :
            LET a == [s EXCEPT !.change_cipher_spec = TRUE, !.r_epoch = n, !.peer_finish_md = m] IN
            /\ a \in State /\ a.buffered = s.buffered /\ a.at = s.at /\ a.read_seq = s.read_seq
            /\ a.write_seq = s.write_seq /\ a.sent = s.sent /\ a.unprocessed = s.unprocessed
            /\ a.said = s.said /\ a.told = s.told
      BY <1>1 DEF State
    <2> QED
      BY <1>1, <2>1 DEF ssl3_do_change_cipher_spec
  <1> HIDE DEF c
  <1>3. Sound(Length(e), d, c) /\ Heard(d, s, c) /\ Heard(d, s, s)
    BY <1>2 DEF Sound, Heard
  <1>4. t = c \/ t = s \/ (t = dtls1_get_message_fragment(e, s, r) /\ r.msg # "CCS" /\ ~Done(e))
    BY DEF dtls1_read_bytes, c
  <1> HIDE DEF t
  <1>5. CASE t = c \/ t = s
    BY <1>3, <1>5 DEF t
  <1>6. CASE t = dtls1_get_message_fragment(e, s, r) /\ r.msg # "CCS" /\ ~Done(e)
    BY <1>6, FragmentFacts DEF Waits, t
  <1> QED
    BY <1>4, <1>5, <1>6

-----------------------------------------------------------------------------
(* The steps keep the invariant, and are steps of MessageDelivery.         *)

SaidOf == [e \in End |-> ssl[e].said]
ToldOf == [e \in End |-> ssl[e].told]

\* An end moves: what it promises suffices.
LEMMA MoveFacts ==
  ASSUME Inv, NEW e \in End, NEW t, ssl' = [ssl EXCEPT ![e] = t], conf' = conf,
         Sound(Length(e), ssl[Peer(e)].said, t),
         \/ Heard(ssl[Peer(e)].said, ssl[e], t)
         \/ t.told = ssl[e].told /\ \E m \in Messages : t.said = Append(ssl[e].said, m),
         DOMAIN wire' = End,
         \A f \in End : \A r \in BagToSet(wire'[f]) :
           r \in BagToSet(wire[f]) \/ (f = Peer(e) /\ Fits(t.said, r))
  PROVE  Inv' /\ [Delivery!Next]_(Delivery!vars)
  <1> DEFINE p == Peer(e)
             s == ssl[e]
  <1>1. p \in End /\ p # e /\ Peer(p) = e /\ \A f \in End : f = e \/ f = p
    BY Peers
  <1>2. DOMAIN ssl = End /\ DOMAIN ssl' = End /\ ssl'[e] = t /\ ssl'[p] = ssl[p]
    BY <1>1 DEF Inv
  <1>3. s \in State /\ t \in State /\ s.said \in Seq(Messages) /\ ssl[p].said \in Seq(Messages)
    <2>1. s \in State /\ ssl[p] \in State /\ t \in State
      BY <1>1 DEF Inv, Sound
    <2> QED
      BY <2>1 DEF State
  <1>4. ASSUME NEW r, Fits(s.said, r)
        PROVE  Fits(t.said, r)
    <2>1. CASE t.said = s.said
      BY <1>4, <2>1
    <2>2. CASE \E m \in Messages : t.said = Append(s.said, m)
      <3>1. PICK m \in Messages : t.said = Append(s.said, m)
        BY <2>2
      <3> QED
        BY <1>3, <1>4, <3>1, FitsMore
    <2> QED
      BY <2>1, <2>2 DEF Heard
  <1>5. Sound(Length(p), t.said, ssl[p])
    <2>1. Sound(Length(p), s.said, ssl[p])
      BY <1>1 DEF Inv
    <2> QED
      BY <2>1, <1>4 DEF Sound, Waits
  <1>6. \A f \in End : \A r \in BagToSet(wire'[f]) : Fits(ssl'[Peer(f)].said, r)
    <2>1. \A r \in BagToSet(wire'[e]) : Fits(ssl[p].said, r)
      BY <1>1 DEF Inv
    <2>2. \A r \in BagToSet(wire'[p]) : Fits(t.said, r)
      BY <1>1, <1>4 DEF Inv
    <2> QED
      BY <1>1, <1>2, <2>1, <2>2
  <1>7. Length(e)' = Length(e) /\ Length(p)' = Length(p)
    BY DEF Length, Script
  <1>8. Inv'
    <2>1. \A f \in End : Sound(Length(f)', ssl'[Peer(f)].said, ssl'[f])
      <3>1. Sound(Length(e)', ssl'[p].said, ssl'[e])
        BY <1>2, <1>7
      <3>2. Sound(Length(p)', ssl'[e].said, ssl'[p])
        BY <1>2, <1>5, <1>7
      <3> QED
        BY <1>1, <3>1, <3>2
    <2>2. conf' \in Settings
      BY DEF Inv
    <2>3. ssl' \in [End -> State]
      BY <1>3 DEF Inv
    <2> QED
      BY <1>6, <2>1, <2>2, <2>3 DEF Inv
  <1>9. [Delivery!Next]_(Delivery!vars)
    <2>1. /\ SaidOf' = [SaidOf EXCEPT ![e] = t.said]
          /\ ToldOf' = [ToldOf EXCEPT ![e] = t.told]
          /\ SaidOf[e] = s.said /\ ToldOf[e] = s.told /\ SaidOf[p] = ssl[p].said
      BY <1>1, <1>2 DEF SaidOf, ToldOf
    <2>2. ToldOf = [ToldOf EXCEPT ![e] = s.told] /\ SaidOf = [SaidOf EXCEPT ![e] = s.said]
      BY DEF SaidOf, ToldOf
    <2>3. CASE t.said = s.said /\ t.told = s.told
      <3>1. SaidOf' = SaidOf /\ ToldOf' = ToldOf
        BY <2>1, <2>2, <2>3
      <3> QED
        BY <3>1 DEF SaidOf, ToldOf, Delivery!vars
    <2>4. CASE /\ t.said = s.said /\ Len(s.told) < Len(ssl[p].said)
               /\ t.told = Append(s.told, ssl[p].said[Len(s.told) + 1])
      <3>1. /\ SaidOf' = SaidOf /\ Len(ToldOf[e]) < Len(SaidOf[Peer(e)])
            /\ ToldOf' = [ToldOf EXCEPT ![e] = Append(@, SaidOf[Peer(e)][Len(@) + 1])]
        BY <2>1, <2>2, <2>4
      <3>2. Delivery!Hear(e)
        BY <3>1 DEF SaidOf, ToldOf, Delivery!Hear
      <3> QED
        BY <3>2 DEF Delivery!Next
    <2>5. CASE t.told = s.told /\ \E m \in Messages : t.said = Append(s.said, m)
      <3>1. /\ ToldOf' = ToldOf
            /\ \E m \in Messages : SaidOf' = [SaidOf EXCEPT ![e] = Append(@, m)]
        BY <2>1, <2>2, <2>5
      <3>2. Delivery!Say(e)
        BY <3>1 DEF SaidOf, ToldOf, Delivery!Say
      <3> QED
        BY <3>2 DEF Delivery!Next
    <2> QED
      BY <2>3, <2>4, <2>5 DEF Heard
  <1> QED
    BY <1>8, <1>9

\* What an end sends, and what is left of its state.
Outgoing(e) ==
  [msg |-> Case(e).msg, epoch |-> ssl[e].w_epoch, seq |-> ssl[e].write_seq, part |-> Whole,
   md |-> IF Case(e).msg = "FIN" THEN ssl[e].finish_mac ELSE <<>>]

Onward(e) ==
  LET m == Case(e).msg IN
  Advance(e, [dtls1_buffer_message(ssl[e], Outgoing(e)) EXCEPT
                !.timer = @ \/ Case(e).timer = "start",
                !.w_epoch = IF m = "CCS" THEN @ + 1 ELSE @,
                !.write_seq = IF m = "CCS" THEN @ ELSE @ + 1,
                !.said = IF m = "CCS" THEN @ ELSE Append(@, m),
                !.finish_mac = Digested(@, m)])

LEMMA OnwardFacts ==
  ASSUME Inv, NEW e \in End, ~Done(e)
  PROVE  LET s == ssl[e] m == Case(e).msg r == Outgoing(e) u == Onward(e) IN
         /\ m \in Kinds /\ s \in State /\ s.at <= Length(e) /\ s.at \in Nat /\ Length(e) \in Nat
         /\ s.write_seq = Len(s.said) /\ s.read_seq = Len(s.told)
         /\ r \in Record /\ r.msg = m /\ r.seq = s.write_seq
         /\ u \in State /\ u.at = s.at + 1 /\ u.sent = Append(s.sent, r)
         /\ u.said = (IF m = "CCS" THEN s.said ELSE Append(s.said, m)) /\ u.told = s.told
         /\ u.finish_mac = Digested(s.finish_mac, m)
         /\ u.buffered = s.buffered /\ u.unprocessed = s.unprocessed
         /\ u.w_epoch = (IF m = "CCS" THEN s.w_epoch + 1 ELSE s.w_epoch) /\ u.r_epoch = s.r_epoch
         /\ u.change_cipher_spec = s.change_cipher_spec /\ u.peer_finish_md = s.peer_finish_md
         /\ u.failed = s.failed
         /\ u.at <= Length(e) => u.read_seq = s.read_seq /\ u.write_seq = Len(u.said)
  <1> DEFINE s == ssl[e]
             m == Case(e).msg
             r == Outgoing(e)
             b == dtls1_buffer_message(s, r)
             t == [b EXCEPT
                     !.timer = @ \/ Case(e).timer = "start",
                     !.w_epoch = IF m = "CCS" THEN @ + 1 ELSE @,
                     !.write_seq = IF m = "CCS" THEN @ ELSE @ + 1,
                     !.said = IF m = "CCS" THEN @ ELSE Append(@, m),
                     !.finish_mac = Digested(@, m)]
             u == Onward(e)
  <1>1. /\ Sound(Length(e), ssl[Peer(e)].said, s) /\ s \in State /\ s.at > 0 /\ s.at \in Nat
        /\ conf \in Settings
    BY DEF Inv, Sound, State
  <1>2. /\ m \in Kinds /\ s.at <= Length(e) /\ s.write_seq = Len(s.said) /\ s.read_seq = Len(s.told)
        /\ Case(e) \in Turns /\ Length(e) \in Nat
    <2>1. Case(e) \in Turns /\ s.at <= Length(e)
      BY <1>1, CaseType
    <2>2. Length(e) \in Nat
      BY <1>1, ScriptType, LenProperties DEF Length
    <2> QED
      BY <1>1, <2>1, <2>2 DEF Turns, Sound
  <1>3. r \in Record /\ r.msg = m /\ r.seq = s.write_seq
    <2>1. s.w_epoch \in Nat /\ s.write_seq \in Nat /\ s.finish_mac \in Seq(Messages)
      BY <1>1 DEF State
    <2> QED
      BY <1>2, <2>1, EmptySeq DEF Outgoing, Record, Whole
  <1> DEFINE w == IF m = "CCS" THEN s.w_epoch + 1 ELSE s.w_epoch
             q == IF m = "CCS" THEN s.write_seq ELSE s.write_seq + 1
             y == IF m = "CCS" THEN s.said ELSE Append(s.said, m)
             z == Digested(s.finish_mac, m)
             x == Append(s.sent, r)
             i == s.timer \/ Case(e).timer = "start"
  <1>4. /\ w \in Nat /\ q \in Nat /\ y \in Seq(Messages) /\ z \in Seq(Messages) /\ x \in Seq(Record)
        /\ q = Len(y)
    <2>1. /\ s.w_epoch \in Nat /\ s.write_seq \in Nat /\ s.said \in Seq(Messages)
          /\ s.finish_mac \in Seq(Messages) /\ s.sent \in Seq(Record)
      BY <1>1 DEF State
    <2>2. m # "CCS" => m \in Messages
      BY <1>2 DEF Kinds
    <2>3. y \in Seq(Messages) /\ q = Len(y)
      BY <1>2, <2>1, <2>2, AppendFacts
    <2>4. z \in Seq(Messages)
      <3>1. m # "CCS" => <<m>> \in Seq(Messages)
        BY <2>2
      <3>2. m # "CCS" => Append(s.finish_mac, m) \in Seq(Messages)
        BY <2>1, <2>2, AppendFacts
      <3> QED
        BY <2>1, <3>1, <3>2, EmptySeq DEF Digested
    <2>5. x \in Seq(Record)
      BY <1>3, <2>1, AppendFacts
    <2> QED
      BY <2>1, <2>2, <2>3, <2>4, <2>5
  <1>5. t = [s EXCEPT !.sent = x, !.timer = i, !.w_epoch = w, !.write_seq = q, !.said = y,
                      !.finish_mac = z]
    BY <1>1 DEF dtls1_buffer_message, State
  <1>6. u = Advance(e, t)
    BY DEF Onward
  <1> HIDE DEF w, q, y, z, x, i, r, t, b, u
  <1>7. /\ t \in State /\ t.at = s.at /\ t.read_seq = s.read_seq /\ t.write_seq = q
        /\ t.sent = x /\ t.said = y /\ t.told = s.told
        /\ t.buffered = s.buffered /\ t.unprocessed = s.unprocessed
        /\ t.w_epoch = w /\ t.r_epoch = s.r_epoch /\ t.finish_mac = z /\ t.failed = s.failed
        /\ t.change_cipher_spec = s.change_cipher_spec /\ t.peer_finish_md = s.peer_finish_md
    <2>1. i \in BOOLEAN
      BY DEF i
    <2> QED
      BY <1>1, <1>4, <1>5, <2>1 DEF State
  <1>8. /\ u \in State /\ u.at = s.at + 1 /\ u.sent = x /\ u.said = y /\ u.told = s.told
        /\ u.buffered = s.buffered /\ u.unprocessed = s.unprocessed
        /\ u.w_epoch = w /\ u.r_epoch = s.r_epoch /\ u.finish_mac = z /\ u.failed = s.failed
        /\ u.change_cipher_spec = s.change_cipher_spec /\ u.peer_finish_md = s.peer_finish_md
        /\ u.at <= Length(e) => u.read_seq = s.read_seq /\ u.write_seq = q
    BY <1>2, <1>6, <1>7, AdvanceFacts
  <1> QED
    BY <1>1, <1>2, <1>3, <1>4, <1>8 DEF w, y, z, x, r, u

\* A message is sent for the first time, or a ChangeCipherSpec.
LEMMA send_message_Step ==
  ASSUME Inv, NEW e \in End, send_message(e)
  PROVE  Inv' /\ [Delivery!Next]_(Delivery!vars)
  <1> DEFINE s == ssl[e]
             m == Case(e).msg
             r == Outgoing(e)
             u == Onward(e)
             d == ssl[Peer(e)].said
             y == IF m = "CCS" THEN s.said ELSE Append(s.said, m)
             x == Append(s.sent, r)
  <1>1. /\ Sound(Length(e), d, s) /\ DOMAIN ssl = End /\ DOMAIN wire = End
        /\ s.said \in Seq(Messages) /\ s.sent \in Seq(Record)
    BY DEF Inv, Sound, State
  <1>2. /\ m \in Kinds /\ s.at \in Nat /\ s.write_seq = Len(s.said) /\ s.read_seq = Len(s.told)
        /\ r \in Record /\ r.msg = m /\ r.seq = s.write_seq
        /\ u \in State /\ u.at = s.at + 1 /\ u.sent = x /\ u.said = y /\ u.told = s.told
        /\ u.buffered = s.buffered /\ u.unprocessed = s.unprocessed
        /\ u.at <= Length(e) => u.read_seq = s.read_seq /\ u.write_seq = Len(y)
    BY OnwardFacts DEF send_message
  <1>3. /\ \E rs \in FirstFragments(r) : wire' = Out(e, rs)
        /\ ssl' = [ssl EXCEPT ![e] = u] /\ conf' = conf
    BY DEF send_message, Outgoing, Onward
  <1>4. PICK rs \in FirstFragments(r) : wire' = Out(e, rs)
    BY <1>3
  <1> HIDE DEF x, r, u
  <1>5. Fits(y, r) /\ \A h : Fits(s.said, h) => Fits(y, h)
    <2>1. m # "CCS" => m \in Messages
      BY <1>2 DEF Kinds
    <2>2. ASSUME NEW h, Fits(s.said, h)
          PROVE  Fits(y, h)
      BY <1>1, <2>1, <2>2, FitsMore
    <2>3. Fits(y, r)
      <3>1. CASE m = "CCS"
        BY <1>2, <3>1 DEF Fits
      <3>2. CASE m # "CCS"
        <4>1. y = Append(s.said, m) /\ m \in Messages
          BY <2>1, <3>2
        <4> QED
          BY <1>1, <1>2, <4>1, AppendFacts DEF Fits
      <3> QED
        BY <3>1, <3>2
    <2> QED
      BY <2>2, <2>3
  <1> HIDE DEF y
  <1>6. \A k \in 1..Len(x) : Fits(y, x[k])
    <2>1. /\ Len(x) = Len(s.sent) + 1 /\ Len(s.sent) \in Nat
          /\ \A k \in 1..Len(s.sent) + 1 : x[k] = IF k = Len(s.sent) + 1 THEN r ELSE s.sent[k]
      BY <1>1, <1>2, AppendFacts DEF x
    <2>2. \A k \in 1..Len(s.sent) : Fits(y, s.sent[k])
      BY <1>1, <1>5 DEF Sound
    <2> QED
      BY <1>5, <2>1, <2>2
  <1>7. Sound(Length(e), d, u)
    <2>1. u.at > 0
      BY <1>2
    <2> QED
      BY <1>1, <1>2, <1>6, <2>1 DEF Sound
  <1>8. DOMAIN wire' = End /\ \A f \in End : \A g \in BagToSet(wire'[f]) :
          g \in BagToSet(wire[f]) \/ (f = Peer(e) /\ Fits(u.said, g))
    <2>1. \A g \in rs : Fits(u.said, g)
      <3>1. rs = Fragments(r) \/ rs = Halves(r)
        BY <1>4 DEF FirstFragments
      <3> QED
        BY <1>2, <1>5, <3>1, PiecesFit
    <2> QED
      BY <1>1, <1>4, <2>1, OutFacts
  <1>9. \/ Heard(d, s, u)
        \/ u.told = s.told /\ \E n \in Messages : u.said = Append(s.said, n)
    BY <1>2 DEF Heard, y, Kinds
  <1> QED
    BY <1>3, <1>7, <1>8, <1>9, MoveFacts

\* The queue of messages changes.
LEMMA BufferedFacts ==
  ASSUME NEW n, NEW d, NEW s, Sound(n, d, s), NEW B \in SUBSET Record, \A h \in B : Waits(d, h)
  PROVE  LET t == [s EXCEPT !.buffered = B] IN
         Sound(n, d, t) /\ t.said = s.said /\ t.told = s.told /\ t.at = s.at
  <1> DEFINE t == [s EXCEPT !.buffered = B]
  <1>1. s \in State
    BY DEF Sound
  <1>2. /\ t \in State /\ t.buffered = B /\ t.unprocessed = s.unprocessed /\ t.at = s.at
        /\ t.read_seq = s.read_seq /\ t.write_seq = s.write_seq /\ t.sent = s.sent
        /\ t.said = s.said /\ t.told = s.told
    BY <1>1 DEF State
  <1> HIDE DEF t
  <1>3. Sound(n, d, t)
    BY <1>2 DEF Sound
  <1> QED
    BY <1>2, <1>3 DEF t

\* The records kept for the next epoch change.
LEMMA UnprocessedFacts ==
  ASSUME NEW n, NEW d, NEW s, Sound(n, d, s), NEW U \in Seq(Record), \A k \in 1..Len(U) : Waits(d, U[k])
  PROVE  LET t == [s EXCEPT !.unprocessed = U] IN
         Sound(n, d, t) /\ t.said = s.said /\ t.told = s.told /\ t.at = s.at
  <1> DEFINE t == [s EXCEPT !.unprocessed = U]
  <1>1. s \in State
    BY DEF Sound
  <1>2. /\ t \in State /\ t.buffered = s.buffered /\ t.unprocessed = U /\ t.at = s.at
        /\ t.read_seq = s.read_seq /\ t.write_seq = s.write_seq /\ t.sent = s.sent
        /\ t.said = s.said /\ t.told = s.told
    BY <1>1 DEF State
  <1> HIDE DEF t
  <1>3. Sound(n, d, t)
    BY <1>2 DEF Sound
  <1> QED
    BY <1>2, <1>3 DEF t

\* The timeouts in a row are counted.
LEMMA AlertsFacts ==
  ASSUME NEW n, NEW d, NEW s, Sound(n, d, s), NEW a \in Nat
  PROVE  LET t == [s EXCEPT !.num_alerts = a] IN
         Sound(n, d, t) /\ t.said = s.said /\ t.told = s.told /\ t.at = s.at
  <1> DEFINE t == [s EXCEPT !.num_alerts = a]
  <1>1. s \in State
    BY DEF Sound
  <1>2. /\ t \in State /\ t.buffered = s.buffered /\ t.unprocessed = s.unprocessed /\ t.at = s.at
        /\ t.read_seq = s.read_seq /\ t.write_seq = s.write_seq /\ t.sent = s.sent
        /\ t.said = s.said /\ t.told = s.told
    BY <1>1 DEF State
  <1> HIDE DEF t
  <1>3. Sound(n, d, t)
    BY <1>2 DEF Sound
  <1> QED
    BY <1>2, <1>3 DEF t

\* A message put together is taken out of the queue.
LEMMA retrieve_Step ==
  ASSUME Inv, NEW e \in End, dtls1_retrieve_buffered_fragment(e)
  PROVE  Inv' /\ [Delivery!Next]_(Delivery!vars)
  <1> DEFINE s == ssl[e]
             d == ssl[Peer(e)].said
  <1>1. Sound(Length(e), d, s) /\ d \in Seq(Messages) /\ conf \in Settings
    BY Peers DEF Inv, Sound, State
  <1>2. PICK h \in Ready(e) :
          ssl' = [ssl EXCEPT ![e] = dtls1_get_message(e, [s EXCEPT !.buffered = @ \ {h}], h)]
    BY DEF dtls1_retrieve_buffered_fragment
  <1> DEFINE B == s.buffered \ {h}
             b == [s EXCEPT !.buffered = B]
             t == dtls1_get_message(e, b, h)
  <1>3. h \in s.buffered /\ ~Done(e) /\ h.seq = s.read_seq /\ Waits(d, h)
    BY <1>1, <1>2 DEF Ready, Sound
  <1>4. Sound(Length(e), d, b) /\ b.said = s.said /\ b.told = s.told /\ b.at = s.at
    <2>1. B \in SUBSET Record /\ \A g \in B : Waits(d, g)
      BY <1>1 DEF Sound, State
    <2> HIDE DEF B
    <2> QED
      BY <1>1, <2>1, BufferedFacts
  <1>5. b.read_seq = s.read_seq
    BY <1>1 DEF Sound, State
  <1> HIDE DEF b
  <1>6. Sound(Length(e), d, t) /\ Heard(d, b, t)
    BY <1>1, <1>3, <1>4, <1>5, TakeFacts
  <1>7. ssl' = [ssl EXCEPT ![e] = t] /\ conf' = conf /\ wire' = wire
    BY <1>2 DEF dtls1_retrieve_buffered_fragment, b
  <1> HIDE DEF t
  <1>8. Heard(d, s, t)
    BY <1>4, <1>6 DEF Heard
  <1>9. DOMAIN wire' = End /\ \A f \in End : \A r \in BagToSet(wire'[f]) : r \in BagToSet(wire[f])
    BY <1>7 DEF Inv
  <1> QED
    BY <1>6, <1>7, <1>8, <1>9, MoveFacts

\* A Finished that comes again is answered with what was sent.
LEMMA AnswerFits ==
  ASSUME NEW e \in End, NEW d, Sound(Length(e), d, ssl[e]), NEW r, NEW x \in Answer(e, r)
  PROVE  Fits(ssl[e].said, x)
  BY ResentFit DEF Answer

\* A record that was kept for this epoch is read.
LEMMA processed_Step ==
  ASSUME Inv, NEW e \in End, dtls1_get_processed_record(e)
  PROVE  Inv' /\ [Delivery!Next]_(Delivery!vars)
  <1> DEFINE s == ssl[e]
             d == ssl[Peer(e)].said
             r == s.unprocessed[1]
             U == Tail(s.unprocessed)
             u == [s EXCEPT !.unprocessed = U]
             t == dtls1_read_bytes(e, u, r)
  <1>1. Sound(Length(e), d, s) /\ d \in Seq(Messages) /\ conf \in Settings /\ DOMAIN wire = End
    BY Peers DEF Inv, Sound, State
  <1>2. s.unprocessed # <<>> /\ s.unprocessed \in Seq(Record)
    BY <1>1 DEF dtls1_get_processed_record, Early, Sound, State
  <1>3. U \in Seq(Record) /\ (\A k \in 1..Len(U) : Waits(d, U[k])) /\ Waits(d, r)
    <2>1. /\ U \in Seq(Record) /\ Len(U) = Len(s.unprocessed) - 1
          /\ \A k \in 1..Len(U) : U[k] = s.unprocessed[k + 1]
          /\ Len(s.unprocessed) \in Nat \ {0}
      BY <1>2, HeadTailProperties, EmptySeq
    <2>2. \A k \in 1..Len(s.unprocessed) : Waits(d, s.unprocessed[k])
      BY <1>1 DEF Sound
    <2> HIDE DEF U
    <2> QED
      BY <2>1, <2>2
  <1>4. Sound(Length(e), d, u) /\ u.said = s.said /\ u.told = s.told /\ u.at = s.at
    <2> HIDE DEF U
    <2> QED
      BY <1>1, <1>3, UnprocessedFacts
  <1>5. ssl' = [ssl EXCEPT ![e] = t] /\ conf' = conf /\ wire' = Out(e, Answer(e, r))
    BY DEF dtls1_get_processed_record
  <1> HIDE DEF u, r
  <1>6. Sound(Length(e), d, t) /\ Heard(d, u, t)
    BY <1>1, <1>3, <1>4, ReadFacts DEF Waits
  <1> HIDE DEF t
  <1>7. Heard(d, s, t)
    BY <1>4, <1>6 DEF Heard
  <1>8. DOMAIN wire' = End /\ \A f \in End : \A g \in BagToSet(wire'[f]) :
          g \in BagToSet(wire[f]) \/ (f = Peer(e) /\ Fits(t.said, g))
    <2>1. t.said = s.said
      BY <1>7 DEF Heard
    <2>2. \A g \in Answer(e, r) : Fits(t.said, g)
      BY <1>1, <2>1, AnswerFits
    <2> QED
      BY <1>1, <1>5, <2>2, OutFacts
  <1> QED
    BY <1>5, <1>6, <1>7, <1>8, MoveFacts

\* A record from the wire is read, kept or dropped.
LEMMA get_record_Step ==
  ASSUME Inv, NEW e \in End, dtls1_get_record(e)
  PROVE  Inv' /\ [Delivery!Next]_(Delivery!vars)
  <1> DEFINE s == ssl[e]
             d == ssl[Peer(e)].said
             z == [s EXCEPT !.num_alerts = 0]
  <1>1. Sound(Length(e), d, s) /\ d \in Seq(Messages) /\ conf \in Settings /\ DOMAIN wire = End
    BY Peers DEF Inv, Sound, State
  <1>2. PICK r \in BagToSet(wire[e]) :
          /\ ssl' = [ssl EXCEPT ![e] =
               IF Current(s, r) THEN dtls1_read_bytes(e, z, r)
               ELSE IF r.epoch = s.r_epoch + 1 /\ r.msg # "CCS" /\ ~Done(e)
                    THEN [s EXCEPT !.unprocessed = Append(@, r)] ELSE s]
          /\ wire' = [Out(e, IF Current(s, r) THEN Answer(e, r) ELSE {}) EXCEPT ![e] = @ (-) SetToBag({r})]
    BY DEF dtls1_get_record
  <1> DEFINE U == Append(s.unprocessed, r)
             u == [s EXCEPT !.unprocessed = U]
             t == IF Current(s, r) THEN dtls1_read_bytes(e, z, r)
                  ELSE IF r.epoch = s.r_epoch + 1 /\ r.msg # "CCS" /\ ~Done(e) THEN u ELSE s
             A == IF Current(s, r) THEN Answer(e, r) ELSE {}
  <1>3. Fits(d, r)
    BY DEF Inv
  <1>4. /\ s.buffered \in SUBSET Record /\ \A h \in s.buffered : Waits(d, h)
        /\ s.unprocessed \in Seq(Record) /\ \A k \in 1..Len(s.unprocessed) : Waits(d, s.unprocessed[k])
    BY <1>1 DEF Sound, State
  <1>5. Sound(Length(e), d, z) /\ z.said = s.said /\ z.told = s.told /\ z.at = s.at
    <2>1. \A a \in Nat : LET v == [s EXCEPT !.num_alerts = a] IN
            Sound(Length(e), d, v) /\ v.said = s.said /\ v.told = s.told /\ v.at = s.at
      BY <1>1, AlertsFacts
    <2> QED
      BY <2>1
  <1>6. ASSUME r.msg # "CCS"
        PROVE  Sound(Length(e), d, u) /\ u.said = s.said /\ u.told = s.told
    <2>1. r \in Record /\ Waits(d, r)
      BY <1>3, <1>6 DEF Fits, Waits
    <2>2. U \in Seq(Record) /\ \A k \in 1..Len(U) : Waits(d, U[k])
      BY <1>4, <2>1, AppendFacts
    <2> HIDE DEF U
    <2> QED
      BY <1>1, <2>2, UnprocessedFacts
  <1>7. ssl' = [ssl EXCEPT ![e] = t] /\ conf' = conf
    BY <1>2 DEF dtls1_get_record
  <1> HIDE DEF z, u
  <1>8. Sound(Length(e), d, t) /\ Heard(d, s, t)
    <2>1. CASE Current(s, r)
      <3> DEFINE v == dtls1_read_bytes(e, z, r)
      <3>1. Sound(Length(e), d, v) /\ Heard(d, z, v)
        BY <1>1, <1>3, <1>5, ReadFacts
      <3>2. t = v
        BY <2>1
      <3> HIDE DEF v, t
      <3> QED
        BY <1>5, <3>1, <3>2 DEF Heard
    <2>2. CASE ~Current(s, r) /\ r.epoch = s.r_epoch + 1 /\ r.msg # "CCS" /\ ~Done(e)
      BY <1>6, <2>2 DEF Heard
    <2>3. CASE ~Current(s, r) /\ ~(r.epoch = s.r_epoch + 1 /\ r.msg # "CCS" /\ ~Done(e))
      BY <1>1, <2>3 DEF Heard
    <2> QED
      BY <2>1, <2>2, <2>3
  <1> HIDE DEF t
  <1>9. DOMAIN wire' = End /\ \A f \in End : \A g \in BagToSet(wire'[f]) :
          g \in BagToSet(wire[f]) \/ (f = Peer(e) /\ Fits(t.said, g))
    <2>1. t.said = s.said
      BY <1>8 DEF Heard
    <2>2. \A g \in A : Fits(t.said, g)
      BY <1>1, <2>1, AnswerFits
    <2>3. /\ DOMAIN Out(e, A) = End
          /\ \A f \in End : \A g \in BagToSet(Out(e, A)[f]) :
               g \in BagToSet(wire[f]) \/ (f = Peer(e) /\ Fits(t.said, g))
      BY <1>1, <2>2, OutFacts
    <2>4. wire' = [Out(e, A) EXCEPT ![e] = @ (-) SetToBag({r})]
      BY <1>2
    <2> HIDE DEF A
    <2> QED
      BY <2>3, <2>4, RemoveFacts
  <1> QED
    BY <1>7, <1>8, <1>9, MoveFacts

\* The timer expires.
LEMMA timeout_Step ==
  ASSUME Inv, NEW e \in End, dtls1_handle_timeout(e)
  PROVE  Inv' /\ [Delivery!Next]_(Delivery!vars)
  <1> DEFINE s == ssl[e]
             d == ssl[Peer(e)].said
             a == Min({s.num_alerts + 1, AlertCount + 1})
             t == [s EXCEPT !.num_alerts = a]
  <1>1. Sound(Length(e), d, s) /\ s \in State /\ DOMAIN wire = End /\ ssl \in [End -> State]
    BY DEF Inv, Sound
  <1>2. a \in Nat
    <2>1. s.num_alerts \in Nat /\ AlertCount \in Nat
      BY <1>1, ConstantAssumption DEF State
    <2>2. \A x, y \in Nat : Min({x, y}) \in {x, y}
      BY DEF Min
    <2> QED
      BY <2>1, <2>2
  <1>3. ssl' = [ssl EXCEPT ![e] = t] /\ conf' = conf
    <2>1. ssl' = [ssl EXCEPT ![e].num_alerts = Min({@ + 1, AlertCount + 1})]
      BY DEF dtls1_handle_timeout
    <2> HIDE DEF a
    <2> QED
      BY <1>1, <2>1 DEF dtls1_handle_timeout, a
  <1> HIDE DEF a
  <1>4. Sound(Length(e), d, t) /\ Heard(d, s, t) /\ t.said = s.said
    BY <1>1, <1>2, AlertsFacts DEF Heard
  <1> HIDE DEF t
  <1>5. DOMAIN wire' = End /\ \A f \in End : \A g \in BagToSet(wire'[f]) :
          g \in BagToSet(wire[f]) \/ (f = Peer(e) /\ Fits(t.said, g))
    <2>1. wire' = wire \/ wire' = Out(e, dtls1_retransmit_buffered_messages(s))
      BY DEF dtls1_handle_timeout
    <2>2. \A g \in dtls1_retransmit_buffered_messages(s) : Fits(t.said, g)
      BY <1>1, <1>4, ResentFit
    <2> QED
      BY <1>1, <2>1, <2>2, OutFacts
  <1> QED
    BY <1>3, <1>4, <1>5, MoveFacts

\* A datagram is lost.
LEMMA lose_Step ==
  ASSUME Inv, NEW e \in End, lose(e)
  PROVE  Inv' /\ [Delivery!Next]_(Delivery!vars)
  <1> DEFINE s == ssl[e]
             d == ssl[Peer(e)].said
  <1>1. Sound(Length(e), d, s) /\ DOMAIN wire = End /\ ssl \in [End -> State]
    BY DEF Inv
  <1>2. Heard(d, s, s)
    BY DEF Heard
  <1>3. ssl' = [ssl EXCEPT ![e] = s] /\ conf' = conf
    BY <1>1 DEF lose
  <1>4. DOMAIN wire' = End /\ \A f \in End : \A g \in BagToSet(wire'[f]) : g \in BagToSet(wire[f])
    <2>1. PICK r \in BagToSet(wire[e]) : wire' = [wire EXCEPT ![e] = @ (-) SetToBag({r})]
      BY DEF lose
    <2> QED
      BY <1>1, <2>1, RemoveFacts
  <1> QED
    BY <1>1, <1>2, <1>3, <1>4, MoveFacts

LEMMA InitInv == Init => Inv /\ Delivery!Init
  <1> SUFFICES ASSUME Init PROVE Inv /\ Delivery!Init
    OBVIOUS
  <1>1. /\ <<>> \in Seq(Record) /\ <<>> \in Seq(Messages) /\ Len(<<>>) = 0
    BY EmptySeq
  <1>2. dtls1_new \in State /\ dtls1_new.at > 0
    BY <1>1 DEF dtls1_new, State
  <1>3. \A n : Sound(n, <<>>, dtls1_new)
    BY <1>1, <1>2 DEF Sound, dtls1_new
  <1>4. \A e \in End : /\ ssl[e] = dtls1_new /\ ssl[Peer(e)].said = <<>>
                       /\ BagToSet(wire[e]) = {} /\ ssl[e].said = <<>> /\ ssl[e].told = <<>>
    BY Peers DEF Init, dtls1_new, EmptyBag, SetToBag, BagToSet
  <1>5. Inv
    <2>1. ssl \in [End -> State]
      BY <1>2 DEF Init
    <2> QED
      BY <1>3, <1>4, <2>1 DEF Init, Inv
  <1>6. Delivery!Init
    BY <1>4 DEF Delivery!Init
  <1> QED
    BY <1>5, <1>6

LEMMA NextInv == Inv /\ [Next]_vars => Inv' /\ [Delivery!Next]_(Delivery!vars)
  <1> SUFFICES ASSUME Inv, [Next]_vars
               PROVE  Inv' /\ [Delivery!Next]_(Delivery!vars)
    OBVIOUS
  <1>1. ASSUME NEW e \in End, Library(e)
        PROVE  Inv' /\ [Delivery!Next]_(Delivery!vars)
    BY <1>1, send_message_Step, retrieve_Step, processed_Step, get_record_Step DEF Library
  <1>2. CASE UNCHANGED vars
    <2>1. Inv'
      BY <1>2 DEF vars, Inv, Sound, Length, Script
    <2>2. UNCHANGED Delivery!vars
      BY <1>2 DEF vars, Delivery!vars
    <2> QED
      BY <2>1, <2>2
  <1> QED
    BY <1>1, <1>2, timeout_Step, lose_Step DEF Next

\* Whatever the datagrams do, each end takes the messages its peer has sent,
\* in order and each once (dtls1_get_message_fragment and those it calls).
THEOREM Refinement == Spec => ImplementsDelivery
  <1>1. Init => Inv /\ Delivery!Init
    BY InitInv
  <1>2. Inv /\ [Next]_vars => Inv' /\ [Delivery!Next]_(Delivery!vars)
    BY NextInv
  <1> QED
    BY <1>1, <1>2, PTL DEF Spec, ImplementsDelivery, Delivery!Spec

-----------------------------------------------------------------------------
(* The second inductive invariant: where in the talk an end is, and what   *)
(* it has made of it.                                                      *)

Place(c, e, s) == IF s.at <= Close(c, e) THEN s.at - 1 ELSE s.at - 2

\* A record of p: its Finished alone is of the new epoch and has the MAC.
Marked(c, p, r) ==
  /\ r.msg = "FIN" => r.epoch = 1 /\ r.md = Mac(c, Close(c, p) - 1)
  /\ r.msg # "FIN" => r.epoch = 0

\* What has been said and told is the talk so far.
Counted(c, e, s) ==
  LET n == Place(c, e, s) IN
  /\ n \in 0..Len(Talk(c))
  /\ Len(s.said) = Count(c, e, n) /\ Len(s.told) = Count(c, Peer(e), n)
  /\ \A k \in 1..n : Talk(c)[k].from = e => s.said[Count(c, e, k)] = Talk(c)[k].msg

\* Both ends have the same Finished MAC, from the ClientHello on that counts.
Digests(c, e, s) ==
  LET n == Place(c, e, s) IN
  /\ n >= Start(c) => s.finish_mac = Mac(c, n)
  /\ e = "server" /\ n = Start(c) - 1 => s.finish_mac = <<>>

\* The message whose turn it is will not be found, for one before it is in its way.
Stalled(s) ==
  \A h \in s.buffered : h.part = Whole /\ h.seq = s.read_seq => \E g \in s.buffered : g.seq < h.seq

\* A ChangeCipherSpec came when the Finished was the next message, or so early
\* that none will be taken any more.
Changed(c, e, s) ==
  LET n == Place(c, e, s) p == Peer(e) IN
  s.r_epoch = 1 =>
    \/ n >= Close(c, p)
    \/ n + 1 = Close(c, p) /\ s.change_cipher_spec /\ s.peer_finish_md = Mac(c, n)
    \/ n + 1 < Close(c, p) /\ Talk(c)[n + 1].from = p /\ Stalled(s)

Epochs(c, e, s) ==
  /\ s.r_epoch \in {0, 1} /\ s.w_epoch = (IF s.at <= Close(c, e) THEN 0 ELSE 1)
  /\ \A h \in s.buffered : Marked(c, Peer(e), h) /\ h.epoch <= s.r_epoch
  /\ \A k \in 1..Len(s.unprocessed) : Marked(c, Peer(e), s.unprocessed[k])
  /\ \A k \in 1..Len(s.sent) : Marked(c, e, s.sent[k])

Agreed(c, e, s) ==
  ~s.failed /\ Counted(c, e, s) /\ Digests(c, e, s) /\ Epochs(c, e, s) /\ Changed(c, e, s)

Agreement ==
  \A e \in End : /\ Agreed(conf, e, ssl[e])
                 /\ \A r \in BagToSet(wire[e]) : Marked(conf, Peer(e), r)

\* How many of the first messages are of one end.
LEMMA CountFacts ==
  ASSUME NEW c, NEW p
  PROVE  /\ Count(c, p, 0) = 0
         /\ \A n \in Nat : /\ Count(c, p, n) \in Nat
                           /\ Talk(c)[n + 1].from = p => Count(c, p, n + 1) = Count(c, p, n) + 1
                           /\ Talk(c)[n + 1].from # p => Count(c, p, n + 1) = Count(c, p, n)
                           /\ \A m \in 0..n : Count(c, p, m) <= Count(c, p, n)
  <1>1. ASSUME NEW n \in Nat
        PROVE  IsFiniteSet(By(c, p, n)) /\ Cardinality(By(c, p, n)) \in Nat
    <2>1. 1 \in Int /\ n \in Int
      OBVIOUS
    <2>2. IsFiniteSet(1..n)
      BY <2>1, FS_Interval
    <2>3. By(c, p, n) \in SUBSET (1..n)
      BY DEF By
    <2>4. IsFiniteSet(By(c, p, n))
      BY <2>2, <2>3, FS_Subset
    <2> QED
      BY <2>4, FS_CardinalityType
  <1>2. \A n \in Nat : Count(c, p, n) \in Nat
    BY <1>1 DEF Count
  <1>3. Count(c, p, 0) = 0
    <2>1. By(c, p, 0) = {}
      BY DEF By
    <2> QED
      BY <2>1, FS_EmptySet DEF Count
  <1>4. ASSUME NEW n \in Nat
        PROVE  /\ Talk(c)[n + 1].from = p => Count(c, p, n + 1) = Count(c, p, n) + 1
               /\ Talk(c)[n + 1].from # p => Count(c, p, n + 1) = Count(c, p, n)
    <2> DEFINE S == By(c, p, n)
               x == n + 1
    <2>1. IsFiniteSet(S) /\ Cardinality(S) \in Nat
      BY <1>1
    <2>2. Talk(c)[x].from = p => By(c, p, x) = S \cup {x} /\ x \notin S
      BY DEF By
    <2>3. Talk(c)[x].from # p => By(c, p, x) = S
      BY DEF By
    <2> HIDE DEF S, x
    <2>4. x \notin S => Cardinality(S \cup {x}) = Cardinality(S) + 1
      BY <2>1, FS_AddElement
    <2>5. /\ Talk(c)[x].from = p => Cardinality(By(c, p, x)) = Cardinality(S) + 1
          /\ Talk(c)[x].from # p => Cardinality(By(c, p, x)) = Cardinality(S)
      <3>1. CASE Talk(c)[x].from = p
        BY <2>2, <2>4, <3>1
      <3>2. CASE Talk(c)[x].from # p
        BY <2>1, <2>3, <3>2
      <3> QED
        BY <3>1, <3>2
    <2> QED
      BY <2>5 DEF S, x, Count
  <1>5. ASSUME NEW n \in Nat, NEW m \in 0..n
        PROVE  Count(c, p, m) <= Count(c, p, n)
    <2>1. By(c, p, m) \in SUBSET By(c, p, n)
      BY DEF By
    <2>2. IsFiniteSet(By(c, p, n))
      BY <1>1
    <2>3. Cardinality(By(c, p, m)) <= Cardinality(By(c, p, n))
      BY <2>1, <2>2, FS_Subset
    <2> QED
      BY <2>3 DEF Count
  <1> QED
    BY <1>2, <1>3, <1>4, <1>5

\* The MAC takes the messages one after the other.
LEMMA MacFacts ==
  ASSUME NEW c \in Settings
  PROVE  /\ Mac(c, Start(c)) = <<"CH">>
         /\ \A n \in Start(c)..Len(Talk(c)) - 1 :
              Mac(c, n + 1) = Append(Mac(c, n), Talk(c)[n + 1].msg)
  <1> DEFINE T == Talk(c)
             N == Len(T)
             M == [k \in 1..N |-> T[k].msg]
             b == Start(c)
  <1>1. /\ N \in Nat /\ b \in 1..N /\ T[b].msg = "CH"
        /\ \A k \in 1..N : T[k].msg \in Messages
    <2>1. /\ N \in Nat /\ b \in 1..N /\ T[b] = FromClient("CH")
          /\ \A k \in 1..N : T[k] \in Lines
      BY TalkFacts
    <2> QED
      BY <2>1 DEF Lines, FromClient, Says
  <1>2. M \in Seq(Messages) /\ Len(M) = N
    BY <1>1
  <1>3. \A k \in 1..N : M[k] = T[k].msg
    OBVIOUS
  <1>4. \A n : Mac(c, n) = SubSeq(M, b, n)
    BY DEF Mac
  <1> HIDE DEF M, N, b, T
  <1>5. ASSUME NEW n \in b..N
        PROVE  SubSeq(M, b, n) = SubSeq(M, b, n - 1) \o <<M[n]>>
    <2>1. n \in b..Len(M) /\ b \in 1..Len(M)
      BY <1>1, <1>2
    <2> QED
      BY <1>2, <2>1, SubSeqRecursiveSecond
  <1>6. ASSUME NEW n \in Int, n <= N
        PROVE  SubSeq(M, b, n) \in Seq(Messages)
    <2>1. b \in Int /\ \A i \in b..n : M[i] \in Messages
      BY <1>1, <1>3, <1>6
    <2> QED
      BY <2>1, SubSeqProperties
  <1>7. Mac(c, b) = <<"CH">>
    <2>1. SubSeq(M, b, b - 1) = <<>>
      <3>1. b \in Int /\ b - 1 \in Int /\ b - 1 < b
        BY <1>1
      <3> QED
        BY <3>1, SubSeqEmpty
    <2>2. SubSeq(M, b, b) = <<>> \o <<M[b]>>
      <3>1. b \in b..N
        BY <1>1
      <3> QED
        BY <1>5, <2>1, <3>1
    <2>3. M[b] = "CH"
      BY <1>1, <1>3
    <2>4. <<"CH">> \in Seq({"CH"})
      OBVIOUS
    <2>5. <<>> \o <<"CH">> = <<"CH">>
      BY <2>4, ConcatEmptySeq
    <2> QED
      BY <1>4, <2>2, <2>3, <2>5
  <1>8. ASSUME NEW n \in b..N - 1
        PROVE  Mac(c, n + 1) = Append(Mac(c, n), T[n + 1].msg)
    <2> DEFINE x == n + 1
    <2>1. n \in Int /\ n <= N /\ x \in b..N /\ x \in 1..N /\ x - 1 = n
      BY <1>1
    <2> HIDE DEF x
    <2>2. SubSeq(M, b, x) = SubSeq(M, b, x - 1) \o <<M[x]>>
      BY <1>5, <2>1
    <2>3. M[x] = T[x].msg /\ T[x].msg \in Messages
      BY <1>1, <1>3, <2>1
    <2>4. SubSeq(M, b, n) \in Seq(Messages)
      BY <1>6, <2>1
    <2>5. Append(SubSeq(M, b, n), T[x].msg) = SubSeq(M, b, n) \o <<T[x].msg>>
      BY <2>3, <2>4, AppendIsConcat
    <2>6. SubSeq(M, b, x) = Append(SubSeq(M, b, n), T[x].msg)
      BY <2>1, <2>2, <2>3, <2>5
    <2> QED
      BY <1>4, <2>6 DEF x
  <1> QED
    BY <1>7, <1>8 DEF b, N, T

\* The turn of an end is the next line of the talk, or its ChangeCipherSpec.
LEMMA TurnFacts ==
  ASSUME conf \in Settings, NEW e \in End, ssl[e] \in State, ssl[e].at > 0, ~Done(e)
  PROVE  LET i == Case(e) n == Place(conf, e, ssl[e]) C == Close(conf, e) T == Talk(conf) IN
         /\ i \in Turns
         /\ ssl[e].at = C => i.msg = "CCS" /\ i.do = "send" /\ n + 1 = C
         /\ ssl[e].at # C => n + 1 \in 1..Len(T) /\ Follows(e, i, T[n + 1]) /\ i.msg \in Messages
         /\ \A t : t.at = ssl[e].at + 1 => Place(conf, e, t) = IF ssl[e].at = C THEN n ELSE n + 1
         /\ n \in 0..Len(T)
  <1> DEFINE k == ssl[e].at
             n == Place(conf, e, ssl[e])
             C == Close(conf, e)
             T == Talk(conf)
             N == Len(T)
             R == Script(e)
             i == Case(e)
  <1>1. k \in Nat /\ k > 0 /\ i \in Turns /\ i = R[k] /\ k <= Length(e)
    BY CaseType DEF State, Case
  <1>2. /\ R \in Seq(Turns) /\ Len(R) = N + 1 /\ Length(e) = N + 1
        /\ C \in 1..N /\ R[C].msg = "CCS" /\ R[C].do = "send" /\ N \in Nat
        /\ \A j \in 1..Len(R) : /\ j < C => Follows(e, R[j], T[j])
                                /\ j > C => Follows(e, R[j], T[j - 1])
    <2>1. AlignedAt(e, R, T, C) /\ Length(e) = N + 1
      BY ScriptType
    <2>2. N \in Nat
      BY TalkFacts
    <2> QED
      BY <2>1, <2>2 DEF AlignedAt
  <1>3. \A j \in 1..N : T[j].msg \in Messages
    BY TalkFacts DEF Lines
  <1>4. n = IF k <= C THEN k - 1 ELSE k - 2
    BY DEF Place
  <1>5. \A t : t.at = k + 1 => Place(conf, e, t) = IF k + 1 <= C THEN k ELSE k - 1
    BY <1>1 DEF Place
  <1> HIDE DEF k, n, C, T, N, R, i
  <1>6. k \in 1..Len(R) /\ n \in 0..N
    BY <1>1, <1>2, <1>4
  <1>7. ASSUME k = C
        PROVE  i.msg = "CCS" /\ i.do = "send" /\ n + 1 = C
    BY <1>1, <1>2, <1>4, <1>7
  <1>8. ASSUME k # C
        PROVE  n + 1 \in 1..N /\ Follows(e, i, T[n + 1]) /\ i.msg \in Messages
    <2> DEFINE x == n + 1
    <2>1. x \in 1..N /\ (k < C => x = k) /\ (k > C => x = k - 1)
      BY <1>1, <1>2, <1>4, <1>8
    <2> HIDE DEF x
    <2>2. Follows(e, i, T[x])
      <3>1. CASE k < C
        BY <1>1, <1>2, <1>6, <2>1, <3>1
      <3>2. CASE k > C
        BY <1>1, <1>2, <1>6, <2>1, <3>2
      <3> QED
        BY <1>1, <1>2, <1>8, <3>1, <3>2
    <2>3. i.msg \in Messages
      BY <1>3, <2>1, <2>2 DEF Follows
    <2> QED
      BY <2>1, <2>2, <2>3 DEF x
  <1>9. ASSUME NEW t, t.at = k + 1
        PROVE  Place(conf, e, t) = IF k = C THEN n ELSE n + 1
    <2>1. Place(conf, e, t) = IF k + 1 <= C THEN k ELSE k - 1
      BY <1>5, <1>9
    <2> QED
      BY <1>1, <1>2, <1>4, <2>1
  <1>10. \A t : t.at = k + 1 => Place(conf, e, t) = IF k = C THEN n ELSE n + 1
    BY <1>9
  <1> QED
    BY <1>1, <1>6, <1>7, <1>8, <1>10 DEF k, n, C, T, N, i

\* The message that has the number of the next one is the one whose turn it is.
LEMMA NextFacts ==
  ASSUME Inv, Agreement, NEW e \in End, ~Done(e), Case(e).do = "get",
         NEW r, Waits(ssl[Peer(e)].said, r), r.seq = ssl[e].read_seq
  PROVE  LET n == Place(conf, e, ssl[e]) IN
         /\ ssl[e].at # Close(conf, e) /\ n \in 0..Len(Talk(conf)) - 1
         /\ Talk(conf)[n + 1].from = Peer(e) /\ r.msg = Talk(conf)[n + 1].msg /\ Case(e).msg = r.msg
  <1> DEFINE p == Peer(e)
             d == ssl[p].said
             T == Talk(conf)
             n == Place(conf, e, ssl[e])
             m == Place(conf, p, ssl[p])
             x == n + 1
             Of(k) == Count(conf, p, k)
  <1>1. p \in End /\ p # e /\ \A f \in End : f = e \/ f = p
    BY Peers
  <1>2. /\ conf \in Settings /\ Sound(Length(e), d, ssl[e]) /\ ssl[e] \in State /\ ssl[e].at > 0
        /\ ssl[p] \in State
    BY <1>1 DEF Inv, Sound
  <1>3. /\ ssl[e].at # Close(conf, e) /\ x \in 1..Len(T) /\ Follows(e, Case(e), T[x])
        /\ n \in 0..Len(T) /\ x = n + 1
    BY <1>2, TurnFacts DEF Turns
  <1>4. Len(T) \in Nat /\ T[x] \in Lines
    BY <1>2, <1>3, TalkFacts
  <1>5. T[x].from = p /\ Case(e).msg = T[x].msg
    BY <1>1, <1>3, <1>4 DEF Follows, Lines
  <1>6. ssl[e].at <= Length(e)
    BY <1>2, CaseType DEF State
  <1>7. /\ Len(ssl[e].told) = Of(n) /\ m \in 0..Len(T) /\ Len(d) = Of(m)
        /\ \A k \in 1..m : T[k].from = p => d[Of(k)] = T[k].msg
    BY <1>1 DEF Agreement, Agreed, Counted
  <1>8. r.seq = Of(n) /\ r.seq < Of(m) /\ d[r.seq + 1] = r.msg
    BY <1>2, <1>6, <1>7 DEF Sound, Waits, Fits
  <1>9. /\ Of(x) = Of(n) + 1
        /\ m <= n => Of(m) <= Of(n)
        /\ Of(n) \in Nat /\ Of(m) \in Nat
    <2>1. n \in Nat /\ m \in Nat
      BY <1>3, <1>4, <1>7
    <2>2. \A j \in Nat :
            /\ Count(conf, p, j) \in Nat
            /\ Talk(conf)[j + 1].from = p => Count(conf, p, j + 1) = Count(conf, p, j) + 1
            /\ Talk(conf)[j + 1].from # p => Count(conf, p, j + 1) = Count(conf, p, j)
            /\ \A i \in 0..j : Count(conf, p, i) <= Count(conf, p, j)
      BY CountFacts
    <2>3. Of(n) \in Nat /\ Of(m) \in Nat
      BY <2>1, <2>2
    <2>4. Of(x) = Of(n) + 1
      BY <1>5, <2>1, <2>2
    <2>5. m <= n => Of(m) <= Of(n)
      <3>1. m <= n => m \in 0..n
        BY <2>1
      <3> QED
        BY <2>1, <2>2, <3>1
    <2> QED
      BY <2>3, <2>4, <2>5
  <1> HIDE DEF n, m, x, Of, T, d
  <1>10. x \in 1..m
    BY <1>3, <1>4, <1>7, <1>8, <1>9
  <1>11. d[Of(x)] = T[x].msg
    BY <1>5, <1>7, <1>10
  <1>12. r.msg = T[x].msg
    BY <1>8, <1>9, <1>11
  <1>13. n \in 0..Len(T) - 1
    BY <1>3, <1>4
  <1> QED
    BY <1>3, <1>5, <1>12, <1>13 DEF n, x, T, d

\* An end says or takes the next line: the counts go on,
LEMMA CountedMove ==
  ASSUME NEW c \in Settings, NEW e \in End, NEW s, NEW t, s.said \in Seq(Messages), s.told \in Seq(Messages),
         Counted(c, e, s), Place(c, e, s) + 1 \in 1..Len(Talk(c)), Place(c, e, t) = Place(c, e, s) + 1,
         LET l == Talk(c)[Place(c, e, s) + 1] IN
         /\ t.said = IF l.from = e THEN Append(s.said, l.msg) ELSE s.said
         /\ t.told = IF l.from = e THEN s.told ELSE Append(s.told, l.msg)
  PROVE  Counted(c, e, t)
  <1> DEFINE p == Peer(e)
             T == Talk(c)
             n == Place(c, e, s)
             x == n + 1
             l == T[x]
             Of(k) == Count(c, e, k)
             On(k) == Count(c, p, k)
  <1>1. /\ n \in 0..Len(T) /\ Len(s.said) = Of(n) /\ Len(s.told) = On(n)
        /\ \A k \in 1..n : T[k].from = e => s.said[Of(k)] = T[k].msg
    BY DEF Counted
  <1>2. Len(T) \in Nat /\ l \in Lines /\ \A k \in 1..Len(T) : T[k] \in Lines
    BY TalkFacts
  <1>3. x = n + 1 /\ x \in 1..Len(T) /\ n \in Nat /\ Place(c, e, t) = x
    BY <1>1, <1>2
  <1>4. l.msg \in Messages /\ (l.from = e \/ l.from = p) /\ p # e
    BY <1>2, Peers DEF Lines
  <1>5. \A k \in Nat : /\ Of(k) \in Nat
                       /\ T[k + 1].from = e => Of(k + 1) = Of(k) + 1
                       /\ T[k + 1].from # e => Of(k + 1) = Of(k)
                       /\ \A j \in 0..k : Of(j) <= Of(k)
    <2>1. \A k \in Nat : /\ Count(c, e, k) \in Nat
                         /\ Talk(c)[k + 1].from = e => Count(c, e, k + 1) = Count(c, e, k) + 1
                         /\ Talk(c)[k + 1].from # e => Count(c, e, k + 1) = Count(c, e, k)
                         /\ \A j \in 0..k : Count(c, e, j) <= Count(c, e, k)
      BY CountFacts
    <2> QED
      BY <2>1
  <1>6. \A k \in Nat : /\ On(k) \in Nat
                       /\ T[k + 1].from = p => On(k + 1) = On(k) + 1
                       /\ T[k + 1].from # p => On(k + 1) = On(k)
    <2>1. \A k \in Nat : /\ Count(c, p, k) \in Nat
                         /\ Talk(c)[k + 1].from = p => Count(c, p, k + 1) = Count(c, p, k) + 1
                         /\ Talk(c)[k + 1].from # p => Count(c, p, k + 1) = Count(c, p, k)
                         /\ \A j \in 0..k : Count(c, p, j) <= Count(c, p, k)
      BY CountFacts
    <2> QED
      BY <2>1
  <1>7. /\ t.said = IF l.from = e THEN Append(s.said, l.msg) ELSE s.said
        /\ t.told = IF l.from = e THEN s.told ELSE Append(s.told, l.msg)
    OBVIOUS
  <1> HIDE DEF n, x, Of, On, T, p
  <1>8. /\ l.from = e => Of(x) = Of(n) + 1
        /\ l.from # e => Of(x) = Of(n)
        /\ l.from = p => On(x) = On(n) + 1
        /\ l.from # p => On(x) = On(n)
    BY <1>3, <1>5, <1>6
  <1>9. Of(n) \in Nat /\ On(n) \in Nat
    BY <1>3, <1>5, <1>6
  <1>10. ASSUME NEW k \in 1..n, T[k].from = e
         PROVE  Of(k) \in 1..Of(n)
    <2> DEFINE j == k - 1
    <2>1. j \in Nat /\ k = j + 1 /\ k \in 0..n
      BY <1>3
    <2> HIDE DEF j
    <2>2. Of(k) = Of(j) + 1 /\ Of(j) \in Nat
      BY <1>5, <1>10, <2>1
    <2>3. Of(k) <= Of(n)
      BY <1>3, <1>5, <2>1
    <2> QED
      BY <1>9, <2>2, <2>3
  <1>11. CASE l.from = e
    <2> DEFINE y == Append(s.said, l.msg)
    <2>1. /\ t.said = y /\ t.told = s.told /\ Of(x) = Of(n) + 1 /\ On(x) = On(n)
      <3>1. t.said = y /\ t.told = s.told /\ l.from # p
        BY <1>4, <1>7, <1>11
      <3> HIDE DEF y, l
      <3> QED
        BY <1>8, <1>9, <1>11, <3>1
    <2>2. /\ Len(y) = Len(s.said) + 1
          /\ \A k \in 1..Len(s.said) + 1 : y[k] = IF k = Len(s.said) + 1 THEN l.msg ELSE s.said[k]
      BY <1>4, AppendFacts
    <2> HIDE DEF y
    <2>3. ASSUME NEW k \in 1..x, T[k].from = e
          PROVE  y[Of(k)] = T[k].msg
      <3>1. CASE k = x
        BY <1>1, <1>9, <2>1, <2>2, <3>1
      <3>2. CASE k \in 1..n
        <4>1. Of(k) \in 1..Of(n)
          BY <1>10, <2>3, <3>2
        <4>2. y[Of(k)] = s.said[Of(k)]
          BY <1>1, <1>9, <2>2, <4>1
        <4> QED
          BY <1>1, <2>3, <3>2, <4>2
      <3> QED
        BY <1>3, <3>1, <3>2
    <2>4. x \in 0..Len(T) /\ Len(t.said) = Of(x) /\ Len(t.told) = On(x)
      <3>1. x \in 0..Len(T)
        BY <1>2, <1>3
      <3>2. Len(t.said) = Of(x) /\ Len(t.told) = On(x)
        BY <1>1, <2>1, <2>2
      <3> QED
        BY <3>1, <3>2
    <2>5. \A k \in 1..x : T[k].from = e => t.said[Of(k)] = T[k].msg
      BY <2>1, <2>3
    <2> QED
      BY <1>3, <2>4, <2>5 DEF Counted, Of, On, T, p
  <1>12. CASE l.from = p
    <2>1. /\ t.said = s.said /\ t.told = Append(s.told, l.msg) /\ Of(x) = Of(n) /\ On(x) = On(n) + 1
      <3>1. t.said = s.said /\ t.told = Append(s.told, l.msg) /\ l.from # e
        BY <1>4, <1>7, <1>12
      <3> HIDE DEF l
      <3> QED
        BY <1>8, <1>9, <1>12, <3>1
    <2>2. Len(t.told) = Len(s.told) + 1
      BY <1>4, <2>1, AppendFacts
    <2>3. ASSUME NEW k \in 1..x, T[k].from = e
          PROVE  s.said[Of(k)] = T[k].msg
      <3>1. k # x
        BY <1>4, <1>12, <2>3
      <3>2. k \in 1..n
        BY <1>3, <3>1
      <3> QED
        BY <1>1, <2>3, <3>2
    <2>4. x \in 0..Len(T) /\ Len(t.said) = Of(x) /\ Len(t.told) = On(x)
      <3>1. x \in 0..Len(T)
        BY <1>2, <1>3
      <3>2. Len(t.said) = Of(x) /\ Len(t.told) = On(x)
        BY <1>1, <2>1, <2>2
      <3> QED
        BY <3>1, <3>2
    <2>5. \A k \in 1..x : T[k].from = e => t.said[Of(k)] = T[k].msg
      BY <2>1, <2>3
    <2> QED
      BY <1>3, <2>4, <2>5 DEF Counted, Of, On, T, p
  <1> QED
    BY <1>4, <1>11, <1>12

\* and so does the Finished MAC.
LEMMA DigestsMove ==
  ASSUME NEW c \in Settings, NEW e \in End, NEW s, NEW t, s.finish_mac \in Seq(Messages),
         Digests(c, e, s), Place(c, e, s) \in Nat,
         Place(c, e, s) + 1 \in 1..Len(Talk(c)), Place(c, e, t) = Place(c, e, s) + 1,
         LET l == Talk(c)[Place(c, e, s) + 1] IN
         t.finish_mac = IF l.from = e THEN Digested(s.finish_mac, l.msg) ELSE Append(s.finish_mac, l.msg)
  PROVE  Digests(c, e, t)
  <1> DEFINE T == Talk(c)
             n == Place(c, e, s)
             x == n + 1
             l == T[x]
             S == Start(c)
             f == s.finish_mac
             g == IF l.from = e THEN Digested(f, l.msg) ELSE Append(f, l.msg)
  <1>1. /\ n >= S => f = Mac(c, n)
        /\ e = "server" /\ n = S - 1 => f = <<>>
        /\ t.finish_mac = g /\ Place(c, e, t) = x
    BY DEF Digests
  <1>2. /\ Len(T) \in Nat /\ S \in 1..Len(T) /\ T[S] = FromClient("CH")
        /\ c.cookie => T[2] = FromServer("HVR")
        /\ \A k \in 1..Len(T) : k > S => T[k].msg \notin {"CH", "HVR"}
        /\ \A k \in 1..Len(T) : T[k] \in Lines
    BY TalkFacts
  <1>3. S = IF c.cookie THEN 3 ELSE 1
    BY DEF Start
  <1>4. l \in Lines /\ l.msg # "CCS"
    BY <1>2 DEF Lines, Messages
  <1>5. Mac(c, S) = <<"CH">> /\ \A k \in S..Len(T) - 1 : Mac(c, k + 1) = Append(Mac(c, k), T[k + 1].msg)
    BY MacFacts
  <1>6. x = n + 1 /\ n \in Nat /\ x \in 1..Len(T)
    OBVIOUS
  <1>9. /\ FromClient("CH").from = "client" /\ FromClient("CH").msg = "CH"
        /\ FromServer("HVR").from = "server" /\ FromServer("HVR").msg = "HVR"
    BY DEF FromClient, FromServer, Says
  <1> HIDE DEF n, x, S, T, f
  <1>7. ASSUME x >= S
        PROVE  g = Mac(c, x)
    <2>1. CASE x = S
      <3>1. l.from = "client" /\ l.msg = "CH"
        BY <1>2, <1>9, <2>1
      <3>2. CASE e = "client"
        <4>1. g = <<"CH">>
          BY <3>1, <3>2 DEF Digested
        <4> QED
          BY <1>5, <2>1, <4>1
      <3>3. CASE e = "server"
        <4>1. f = <<>>
          BY <1>1, <1>2, <1>6, <2>1, <3>3
        <4>2. g = Append(<<>>, "CH")
          BY <3>1, <3>3, <4>1
        <4>3. Append(<<>>, "CH") = <<"CH">>
          OBVIOUS
        <4> QED
          BY <1>5, <2>1, <4>2, <4>3
      <3> QED
        BY <3>2, <3>3 DEF End
    <2>2. CASE x > S
      <3>1. l.msg \notin {"CH", "HVR", "CCS"}
        BY <1>2, <1>4, <1>6, <2>2
      <3>2. g = Append(f, l.msg)
        BY <3>1 DEF Digested
      <3>3. n >= S /\ n \in S..Len(T) - 1
        BY <1>2, <1>6, <2>2
      <3> QED
        BY <1>1, <1>5, <1>6, <3>2, <3>3
    <2> QED
      BY <1>2, <1>6, <1>7, <2>1, <2>2
  <1>8. ASSUME e = "server", x = S - 1
        PROVE  g = <<>>
    <2>1. c.cookie /\ x = 2
      <3>1. CASE c.cookie
        BY <1>3, <1>8, <3>1
      <3>2. CASE ~c.cookie
        BY <1>3, <1>6, <1>8, <3>2
      <3> QED
        BY <3>1, <3>2
    <2>2. l.from = "server" /\ l.msg = "HVR"
      BY <1>2, <1>9, <2>1
    <2> QED
      BY <1>8, <2>2 DEF Digested
  <1> HIDE DEF g
  <1> QED
    BY <1>1, <1>7, <1>8 DEF Digests, S

\* What is left of the state when a message is taken that is not refused.
LEMMA TakenFields ==
  ASSUME NEW e \in End, NEW s \in State, ~s.failed, Case(e) \in Turns, Length(e) \in Nat,
         NEW r, r.msg \in Messages, r.msg = Case(e).msg,
         r.msg = "FIN" => s.change_cipher_spec /\ r.md = s.peer_finish_md
  PROVE  LET t == dtls1_get_message(e, s, r) IN
         /\ t.at = s.at + 1 /\ ~t.failed /\ t.said = s.said /\ t.told = Append(s.told, r.msg)
         /\ t.finish_mac = Append(s.finish_mac, r.msg) /\ t.sent = <<>>
         /\ t.buffered = s.buffered /\ t.unprocessed = s.unprocessed
         /\ t.w_epoch = s.w_epoch /\ t.r_epoch = s.r_epoch /\ t.peer_finish_md = s.peer_finish_md
         /\ r.msg # "FIN" => t.change_cipher_spec = s.change_cipher_spec
  <1> DEFINE i == Case(e)
             fine == r.msg = i.msg /\ (r.msg = "FIN" => s.change_cipher_spec /\ r.md = s.peer_finish_md)
             n == s.read_seq + 1
             y == Append(s.told, r.msg)
             z == Append(s.finish_mac, r.msg)
             k == s.timer /\ i.timer = "keep"
             o == s.change_cipher_spec /\ r.msg # "FIN"
             u == [s EXCEPT !.read_seq = n, !.sent = <<>>, !.told = y,
                            !.finish_mac = z, !.failed = ~fine]
             v == [u EXCEPT !.timer = @ /\ i.timer = "keep",
                            !.change_cipher_spec = @ /\ r.msg # "FIN"]
             t == dtls1_get_message(e, s, r)
  <1>1. fine
    OBVIOUS
  <1>2. t = Advance(e, v)
    BY <1>1 DEF dtls1_get_message
  <1>3. n \in Nat /\ y \in Seq(Messages) /\ z \in Seq(Messages) /\ <<>> \in Seq(Record)
    <2>1. s.read_seq \in Nat /\ s.told \in Seq(Messages) /\ s.finish_mac \in Seq(Messages)
      BY DEF State
    <2> QED
      BY <2>1, AppendFacts, EmptySeq
  <1> HIDE DEF n, y, z, fine, t
  <1>4. /\ u \in State /\ u.at = s.at /\ ~u.failed /\ u.said = s.said /\ u.told = y
        /\ u.finish_mac = z /\ u.sent = <<>> /\ u.buffered = s.buffered /\ u.unprocessed = s.unprocessed
        /\ u.w_epoch = s.w_epoch /\ u.r_epoch = s.r_epoch /\ u.peer_finish_md = s.peer_finish_md
        /\ u.change_cipher_spec = s.change_cipher_spec /\ u.timer = s.timer
    BY <1>1, <1>3 DEF State
  <1> HIDE DEF u
  <1>5. /\ v \in State /\ v.at = s.at /\ ~v.failed /\ v.said = s.said /\ v.told = y
        /\ v.finish_mac = z /\ v.sent = <<>> /\ v.buffered = s.buffered /\ v.unprocessed = s.unprocessed
        /\ v.w_epoch = s.w_epoch /\ v.r_epoch = s.r_epoch /\ v.peer_finish_md = s.peer_finish_md
        /\ r.msg # "FIN" => v.change_cipher_spec = s.change_cipher_spec
    BY <1>4 DEF State
  <1> HIDE DEF v
  <1> QED
    BY <1>2, <1>5, AdvanceFacts DEF t, y, z

\* The next message, when the keys it came under are those its end reads with.
LEMMA TakeAgrees ==
  ASSUME Inv, Agreement, NEW e \in End, ~Done(e), Case(e).do = "get",
         NEW s \in State, Agreed(conf, e, s), s.at = ssl[e].at, s.read_seq = ssl[e].read_seq,
         NEW r, Waits(ssl[Peer(e)].said, r), r.seq = s.read_seq,
         Marked(conf, Peer(e), r), r.epoch <= s.r_epoch,
         s.r_epoch = 1 => Place(conf, e, s) + 1 >= Close(conf, Peer(e))
  PROVE  Agreed(conf, e, dtls1_get_message(e, s, r))
  <1> DEFINE p == Peer(e)
             T == Talk(conf)
             n == Place(conf, e, s)
             x == n + 1
             P == Close(conf, p)
             C == Close(conf, e)
             t == dtls1_get_message(e, s, r)
  <1>1. conf \in Settings /\ ssl[e] \in State /\ ssl[e].at > 0 /\ p \in End /\ p # e
    BY Peers DEF Inv, Sound
  <1>2. n = Place(conf, e, ssl[e])
    BY DEF Place
  <1>3. /\ s.at # C /\ n \in 0..Len(T) - 1 /\ T[x].from = p /\ r.msg = T[x].msg /\ Case(e).msg = r.msg
    BY <1>2, NextFacts
  <1>4. /\ Case(e) \in Turns /\ r.msg \in Messages
        /\ \A q : q.at = s.at + 1 => Place(conf, e, q) = x
    BY <1>1, <1>2, <1>3, TurnFacts
  <1>5. /\ Len(T) \in Nat /\ C \in 1..Len(T) /\ P \in 1..Len(T) /\ T[P] = Says(p, "FIN") /\ Start(conf) < P
        /\ \A k \in 1..Len(T) : T[k].from = p /\ (T[k].msg = "FIN" \/ k >= P) => k = P
    BY <1>1, TalkFacts
  <1>6. n \in Nat /\ x \in Nat /\ x = n + 1 /\ x \in 1..Len(T)
    BY <1>3, <1>5
  <1>7. /\ ~s.failed /\ Counted(conf, e, s) /\ Digests(conf, e, s) /\ Epochs(conf, e, s) /\ Changed(conf, e, s)
    BY DEF Agreed
  <1>8. s.r_epoch \in {0, 1} /\ s.at \in Nat
    BY <1>7 DEF Epochs, State
  <1>9. ASSUME r.msg = "FIN"
        PROVE  s.change_cipher_spec /\ r.md = s.peer_finish_md
    <2>1. r.epoch = 1 /\ r.md = Mac(conf, P - 1)
      BY <1>9 DEF Marked
    <2>2. s.r_epoch = 1
      BY <1>8, <2>1
    <2>3. x = P
      BY <1>3, <1>5, <1>6, <1>9
    <2>4. n >= P \/ (n + 1 = P /\ s.change_cipher_spec /\ s.peer_finish_md = Mac(conf, n)) \/ n + 1 < P
      BY <1>7, <2>2 DEF Changed
    <2>5. s.change_cipher_spec /\ s.peer_finish_md = Mac(conf, n)
      <3> HIDE DEF n, P
      <3> QED
        BY <1>5, <1>6, <2>3, <2>4
    <2>6. P - 1 = n
      BY <1>6, <2>3
    <2> QED
      BY <2>1, <2>5, <2>6
  <1>10. Length(e) \in Nat
    BY <1>1, ScriptType, LenProperties DEF Length
  <1>11. /\ t.at = s.at + 1 /\ ~t.failed /\ t.said = s.said /\ t.told = Append(s.told, r.msg)
         /\ t.finish_mac = Append(s.finish_mac, r.msg) /\ t.sent = <<>>
         /\ t.buffered = s.buffered /\ t.unprocessed = s.unprocessed
         /\ t.w_epoch = s.w_epoch /\ t.r_epoch = s.r_epoch /\ t.peer_finish_md = s.peer_finish_md
    BY <1>3, <1>4, <1>7, <1>9, <1>10, TakenFields
  <1> HIDE DEF t
  <1>12. Place(conf, e, t) = x
    BY <1>4, <1>11
  <1>13. T[x].from # e
    BY <1>1, <1>3
  <1>14. Counted(conf, e, t)
    <2>1. s.said \in Seq(Messages) /\ s.told \in Seq(Messages)
      BY DEF State
    <2>2. /\ t.said = IF T[x].from = e THEN Append(s.said, T[x].msg) ELSE s.said
          /\ t.told = IF T[x].from = e THEN s.told ELSE Append(s.told, T[x].msg)
      BY <1>3, <1>11, <1>13
    <2> QED
      BY <1>1, <1>6, <1>7, <1>12, <2>1, <2>2, CountedMove
  <1>15. Digests(conf, e, t)
    <2>1. s.finish_mac \in Seq(Messages)
      BY DEF State
    <2>2. t.finish_mac = IF T[x].from = e THEN Digested(s.finish_mac, T[x].msg) ELSE Append(s.finish_mac, T[x].msg)
      BY <1>3, <1>11, <1>13
    <2> QED
      BY <1>1, <1>6, <1>7, <1>12, <2>1, <2>2, DigestsMove
  <1>16. Epochs(conf, e, t)
    <2>1. s.at <= C <=> t.at <= C
      <3> HIDE DEF C
      <3> QED
        <4>1. s.at \in Nat /\ C \in Nat /\ s.at # C /\ t.at = s.at + 1
          BY <1>3, <1>5, <1>8, <1>11
        <4> QED
          BY <4>1
    <2>2. Len(<<>>) = 0
      OBVIOUS
    <2> QED
      BY <1>7, <1>11, <2>1, <2>2 DEF Epochs
  <1>17. Changed(conf, e, t)
    <2>1. s.r_epoch = 1 => x >= P
      OBVIOUS
    <2> HIDE DEF x
    <2> QED
      BY <1>11, <1>12, <2>1 DEF Changed
  <1> QED
    BY <1>11, <1>14, <1>15, <1>16, <1>17 DEF Agreed, t

\* What an end keeps for later is of its peer, and does not clear its way.
LEMMA KeepAgrees ==
  ASSUME NEW e \in End, NEW s \in State, NEW t, Agreed(conf, e, s), t.at = s.at, t.failed = s.failed,
         t.said = s.said, t.told = s.told, t.finish_mac = s.finish_mac, t.w_epoch = s.w_epoch,
         t.r_epoch = s.r_epoch, t.change_cipher_spec = s.change_cipher_spec,
         t.peer_finish_md = s.peer_finish_md, t.sent = s.sent,
         \A h \in t.buffered : Marked(conf, Peer(e), h) /\ h.epoch <= s.r_epoch,
         \A k \in 1..Len(t.unprocessed) : Marked(conf, Peer(e), t.unprocessed[k]),
         s.r_epoch = 1 /\ Place(conf, e, s) + 1 < Close(conf, Peer(e)) /\ Stalled(s) => Stalled(t)
  PROVE  Agreed(conf, e, t)
  <1>1. Place(conf, e, t) = Place(conf, e, s)
    BY DEF Place
  <1>2. Counted(conf, e, t) /\ Digests(conf, e, t)
    BY <1>1 DEF Agreed, Counted, Digests
  <1>3. Epochs(conf, e, t)
    BY DEF Agreed, Epochs
  <1>4. Changed(conf, e, t)
    BY <1>1 DEF Agreed, Changed
  <1> QED
    BY <1>2, <1>3, <1>4 DEF Agreed

\* A record that is kept, alone or with other pieces of its message.
LEMMA JoinedAgrees ==
  ASSUME NEW e \in End, NEW s \in State, Agreed(conf, e, s), NEW r, Marked(conf, Peer(e), r),
         r.epoch <= s.r_epoch, r \in Record,
         r.seq = s.read_seq /\ s.r_epoch = 1 => Place(conf, e, s) + 1 >= Close(conf, Peer(e)),
         Place(conf, e, s) \in Nat, Close(conf, Peer(e)) \in Nat
  PROVE  /\ Agreed(conf, e, Joined(s, r))
         /\ Agreed(conf, e, [s EXCEPT !.buffered = @ \cup {r}])
  <1> DEFINE p == Peer(e)
             there == {h \in s.buffered : h.seq = r.seq}
             joined == {[h EXCEPT !.part = @ \cup r.part] : h \in there}
             J == IF there = {} THEN s.buffered \cup {r} ELSE (s.buffered \ there) \cup joined
             q == s.read_seq
  <1>1. /\ \A h \in s.buffered : Marked(conf, p, h) /\ h.epoch <= s.r_epoch
        /\ \A k \in 1..Len(s.unprocessed) : Marked(conf, p, s.unprocessed[k])
    BY DEF Agreed, Epochs
  <1>2. s.buffered \in SUBSET Record
    BY DEF State
  <1>3. ASSUME NEW h \in joined
        PROVE  \E g \in there : h.msg = g.msg /\ h.epoch = g.epoch /\ h.seq = g.seq /\ h.md = g.md
    <2>1. PICK g \in there : h = [g EXCEPT !.part = @ \cup r.part]
      OBVIOUS
    <2>2. g \in Record
      BY <1>2
    <2> QED
      BY <2>1, <2>2 DEF Record
  <1>4. ASSUME NEW B, /\ \A h \in B : \/ h \in s.buffered \/ h = r
                                      \/ \E g \in there : /\ h.msg = g.msg /\ h.epoch = g.epoch
                                                          /\ h.seq = g.seq /\ h.md = g.md,
               \A g \in s.buffered : \E h \in B : h.seq = g.seq,
               B \in SUBSET Record
        PROVE  Agreed(conf, e, [s EXCEPT !.buffered = B])
    <2> DEFINE t == [s EXCEPT !.buffered = B]
    <2>1. /\ t.at = s.at /\ t.failed = s.failed /\ t.said = s.said /\ t.told = s.told
          /\ t.finish_mac = s.finish_mac /\ t.w_epoch = s.w_epoch /\ t.r_epoch = s.r_epoch
          /\ t.change_cipher_spec = s.change_cipher_spec /\ t.peer_finish_md = s.peer_finish_md
          /\ t.sent = s.sent /\ t.buffered = B /\ t.unprocessed = s.unprocessed /\ t.read_seq = q
      BY DEF State
    <2> HIDE DEF t
    <2>2. ASSUME NEW h \in B
          PROVE  Marked(conf, p, h) /\ h.epoch <= s.r_epoch
      <3>1. CASE h \in s.buffered
        BY <1>1, <3>1
      <3>2. CASE h = r
        BY <3>2
      <3>3. CASE \E g \in there : /\ h.msg = g.msg /\ h.epoch = g.epoch /\ h.seq = g.seq /\ h.md = g.md
        BY <1>1, <3>3 DEF Marked
      <3> QED
        BY <1>4, <3>1, <3>2, <3>3
    <2>3. ASSUME s.r_epoch = 1, Place(conf, e, s) + 1 < Close(conf, Peer(e)), Stalled(s)
          PROVE  Stalled(t)
      <3>1. r.seq # q
        BY <2>3
      <3>2. SUFFICES ASSUME NEW h \in B, h.part = Whole, h.seq = q
                     PROVE  \E g \in B : g.seq < h.seq
        BY <2>1 DEF Stalled
      <3>3. h \in s.buffered
        BY <1>4, <3>1, <3>2
      <3>4. PICK g \in s.buffered : g.seq < h.seq
        BY <2>3, <3>2, <3>3 DEF Stalled
      <3> QED
        BY <1>4, <3>4
    <2>4. Agreed(conf, e, t)
      BY <1>1, <2>1, <2>2, <2>3, KeepAgrees
    <2> QED
      BY <2>4 DEF t
  <1>5. Agreed(conf, e, [s EXCEPT !.buffered = s.buffered \cup {r}])
    BY <1>2, <1>4
  <1>6. Agreed(conf, e, [s EXCEPT !.buffered = J])
    <2>1. CASE there = {}
      BY <1>5, <2>1
    <2>2. CASE there # {}
      <3>1. J = (s.buffered \ there) \cup joined
        BY <2>2
      <3>2. J \in SUBSET Record
        <4>1. \A h \in joined : h \in Record
          <5> SUFFICES ASSUME NEW g \in there PROVE [g EXCEPT !.part = @ \cup r.part] \in Record
            OBVIOUS
          <5>1. g \in Record
            BY <1>2
          <5> QED
            BY <5>1 DEF Record
        <4> HIDE DEF joined
        <4> QED
          BY <1>2, <3>1, <4>1
      <3>3. \A g \in s.buffered : \E h \in J : h.seq = g.seq
        <4> SUFFICES ASSUME NEW g \in s.buffered PROVE \E h \in J : h.seq = g.seq
          OBVIOUS
        <4>1. CASE g \in there
          <5> DEFINE h == [g EXCEPT !.part = @ \cup r.part]
          <5>1. g \in Record
            BY <1>2
          <5>2. h \in joined /\ h.seq = g.seq
            BY <4>1, <5>1 DEF Record
          <5> HIDE DEF h, joined, J
          <5> QED
            BY <3>1, <5>2
        <4>2. CASE g \notin there
          BY <3>1, <4>2
        <4> QED
          BY <4>1, <4>2
      <3>4. \A h \in J : \/ h \in s.buffered
                         \/ \E g \in there : h.msg = g.msg /\ h.epoch = g.epoch /\ h.seq = g.seq /\ h.md = g.md
        <4> HIDE DEF joined, there
        <4> QED
          BY <1>3, <3>1
      <3> HIDE DEF J, there
      <3> QED
        BY <1>4, <3>2, <3>3, <3>4
    <2> QED
      BY <2>1, <2>2
  <1>7. Joined(s, r) = [s EXCEPT !.buffered = J]
    BY DEF Joined, State
  <1>8. [s EXCEPT !.buffered = @ \cup {r}] = [s EXCEPT !.buffered = s.buffered \cup {r}]
    BY DEF State
  <1> HIDE DEF J
  <1> QED
    BY <1>5, <1>6, <1>7, <1>8

LEMMA BufferAgrees ==
  ASSUME NEW e \in End, NEW s \in State, Agreed(conf, e, s), NEW r, Marked(conf, Peer(e), r),
         r.epoch <= s.r_epoch, r \in Record,
         r.seq = s.read_seq /\ s.r_epoch = 1 => Place(conf, e, s) + 1 >= Close(conf, Peer(e)),
         Place(conf, e, s) \in Nat, Close(conf, Peer(e)) \in Nat
  PROVE  /\ Agreed(conf, e, dtls1_reassemble_fragment(s, r))
         /\ Agreed(conf, e, [s EXCEPT !.buffered = @ \cup {r}])
  <1> DEFINE x == Covered(r)
  <1>1. /\ x \in Record /\ x.msg = r.msg /\ x.epoch = r.epoch
        /\ x.seq = r.seq /\ x.md = r.md
    BY CoveredFacts
  <1>2. dtls1_reassemble_fragment(s, r) = Joined(s, x)
    BY DEF dtls1_reassemble_fragment
  <1> HIDE DEF x
  <1>3. Marked(conf, Peer(e), x)
    BY <1>1 DEF Marked
  <1>4. Agreed(conf, e, Joined(s, x))
    BY <1>1, <1>3, JoinedAgrees
  <1>5. Agreed(conf, e, [s EXCEPT !.buffered = @ \cup {r}])
    BY JoinedAgrees
  <1> QED
    BY <1>2, <1>4, <1>5

\* A message of the epoch being read.
LEMMA FragmentAgrees ==
  ASSUME Inv, Agreement, NEW e \in End, ~Done(e), Case(e).do = "get",
         NEW s \in State, Agreed(conf, e, s), s.at = ssl[e].at, s.read_seq = ssl[e].read_seq,
         NEW r, Waits(ssl[Peer(e)].said, r), Marked(conf, Peer(e), r), r.epoch = s.r_epoch
  PROVE  Agreed(conf, e, dtls1_get_message_fragment(e, s, r))
  <1> DEFINE p == Peer(e)
             T == Talk(conf)
             n == Place(conf, e, s)
             P == Close(conf, p)
  <1>1. conf \in Settings /\ p \in End /\ r \in Record /\ r.epoch \in Nat /\ s.r_epoch \in Nat
    BY Peers DEF Inv, Waits, Fits, Record, State
  <1>2. /\ Len(T) \in Nat /\ P \in 1..Len(T)
        /\ \A k \in 1..Len(T) : T[k].from = p /\ (T[k].msg = "FIN" \/ k >= P) => k = P
    BY <1>1, TalkFacts
  <1>3. n \in Nat /\ P \in Nat /\ n = Place(conf, e, ssl[e])
    <2>1. n \in 0..Len(T) /\ n = Place(conf, e, ssl[e])
      BY DEF Agreed, Counted, Place
    <2> QED
      BY <1>2, <2>1
  <1>4. ASSUME r.seq = s.read_seq, s.r_epoch = 1
        PROVE  n + 1 >= P
    <2>1. n \in 0..Len(T) - 1 /\ T[n + 1].from = p /\ r.msg = T[n + 1].msg
      BY <1>3, <1>4, NextFacts
    <2>2. r.msg = "FIN"
      BY <1>4 DEF Marked
    <2>3. n + 1 \in 1..Len(T)
      BY <1>2, <2>1
    <2>4. n + 1 = P
      BY <1>2, <2>1, <2>2, <2>3
    <2> HIDE DEF n, P
    <2> QED
      BY <1>3, <2>4
  <1>5. r.epoch <= s.r_epoch
    BY <1>1
  <1>6. /\ Agreed(conf, e, dtls1_reassemble_fragment(s, r))
        /\ Agreed(conf, e, [s EXCEPT !.buffered = @ \cup {r}])
    BY <1>1, <1>3, <1>4, <1>5, BufferAgrees
  <1>7. CASE r.seq # s.read_seq
    BY <1>6, <1>7 DEF dtls1_get_message_fragment, dtls1_process_out_of_seq_message
  <1>8. CASE r.seq = s.read_seq /\ r.part # Whole
    BY <1>6, <1>8 DEF dtls1_get_message_fragment
  <1>9. CASE r.seq = s.read_seq /\ r.part = Whole
    <2>1. dtls1_get_message_fragment(e, s, r) = dtls1_get_message(e, s, r)
      BY <1>9 DEF dtls1_get_message_fragment
    <2> QED
      BY <1>4, <1>5, <1>9, <2>1, TakeAgrees
  <1> QED
    BY <1>7, <1>8, <1>9

\* A ChangeCipherSpec that is taken.
LEMMA ChangeAgrees ==
  ASSUME Inv, NEW e \in End, change_cipher_spec_ok(e), Reads(e), Ready(e) = {},
         NEW s \in State, Agreed(conf, e, s), s.at = ssl[e].at, s.read_seq = ssl[e].read_seq,
         s.buffered = ssl[e].buffered, s.r_epoch = 0
  PROVE  Agreed(conf, e, ssl3_do_change_cipher_spec(s))
  <1> DEFINE p == Peer(e)
             T == Talk(conf)
             n == Place(conf, e, s)
             x == n + 1
             P == Close(conf, p)
             t == ssl3_do_change_cipher_spec(s)
  <1>1. /\ conf \in Settings /\ ssl[e] \in State /\ ssl[e].at > 0 /\ p \in End /\ p # e
        /\ \A f \in End : f = e \/ f = p
    BY Peers DEF Inv, Sound
  <1>2. ~Done(e) /\ Case(e).msg \in {"CV", "FIN"} /\ Case(e).do = "get"
    BY DEF change_cipher_spec_ok, Reads
  <1>3. /\ x \in 1..Len(T) /\ Follows(e, Case(e), T[x]) /\ n \in 0..Len(T)
    <2>1. n = Place(conf, e, ssl[e])
      BY DEF Place
    <2> QED
      BY <1>1, <1>2, <2>1, TurnFacts
  <1>4. /\ Len(T) \in Nat /\ P \in 1..Len(T) /\ T[P] = Says(p, "FIN") /\ Start(conf) < P
        /\ Start(conf) \in 1..Len(T)
        /\ \A k \in 1..Len(T) : T[k].from = p /\ (T[k].msg = "FIN" \/ k >= P) => k = P
        /\ \A k \in 1..Len(T) : T[k] \in Lines
    BY <1>1, TalkFacts
  <1>5. T[x].from = p /\ T[x].msg \in {"CV", "FIN"}
    BY <1>1, <1>2, <1>3, <1>4 DEF Follows, Lines
  <1>6. x = n + 1 /\ n \in Nat
    BY <1>3, <1>4
  <1> DEFINE y == s.r_epoch + 1
             z == s.finish_mac
  <1>7. y = 1 /\ z \in Seq(Messages) /\ y \in Nat
    BY DEF State
  <1>8. t = [s EXCEPT !.change_cipher_spec = TRUE, !.r_epoch = y, !.peer_finish_md = z]
    BY DEF ssl3_do_change_cipher_spec, State
  <1> HIDE DEF y, z, t
  <1>9. /\ t.at = s.at /\ t.failed = s.failed /\ t.said = s.said /\ t.told = s.told
        /\ t.finish_mac = s.finish_mac /\ t.w_epoch = s.w_epoch /\ t.r_epoch = 1 /\ t.change_cipher_spec
        /\ t.peer_finish_md = s.finish_mac /\ t.sent = s.sent /\ t.buffered = s.buffered
        /\ t.unprocessed = s.unprocessed /\ t.read_seq = s.read_seq
    BY <1>7, <1>8 DEF State, z
  <1>10. Place(conf, e, t) = n
    BY <1>9 DEF Place
  <1>15. ~s.failed
    BY DEF Agreed
  <1>16. ~t.failed
    BY <1>9, <1>15
  <1>11. Counted(conf, e, t) /\ Digests(conf, e, t)
    BY <1>9, <1>10 DEF Agreed, Counted, Digests
  <1>12. Epochs(conf, e, t)
    <2>1. \A h \in s.buffered : Marked(conf, p, h) /\ h.epoch <= 0
      BY DEF Agreed, Epochs
    <2>2. \A h \in s.buffered : h.epoch \in Nat
      BY DEF State, Record
    <2>3. \A h \in s.buffered : Marked(conf, p, h) /\ h.epoch <= 1
      BY <2>1, <2>2
    <2> QED
      BY <1>9, <2>3 DEF Agreed, Epochs
  <1>13. CASE T[x].msg = "FIN"
    <2>1. x = P
      BY <1>3, <1>4, <1>5, <1>13
    <2>2. n >= Start(conf)
      <3> HIDE DEF n, x, P
      <3> QED
        BY <1>4, <1>6, <2>1
    <2>3. s.finish_mac = Mac(conf, n)
      BY <2>2 DEF Agreed, Digests
    <2>4. Changed(conf, e, t)
      BY <1>9, <1>10, <2>1, <2>3 DEF Changed
    <2> QED
      BY <1>11, <1>12, <1>16, <2>4 DEF Agreed, t
  <1>14. CASE T[x].msg = "CV"
    <2>1. x # P
      BY <1>4, <1>14 DEF Says
    <2>2. ~(x >= P)
      BY <1>3, <1>4, <1>5, <2>1
    <2>3. x < P
      <3> HIDE DEF n, P
      <3> QED
        BY <1>4, <1>6, <2>2
    <2>4. Stalled(t)
      <3> SUFFICES ASSUME NEW h \in s.buffered, h.part = Whole, h.seq = s.read_seq
                   PROVE  \E g \in s.buffered : g.seq < h.seq
        BY <1>9 DEF Stalled
      <3>1. h \notin Ready(e)
        OBVIOUS
      <3>2. ~(\A g \in s.buffered : h.seq <= g.seq)
        BY <1>2, <3>1 DEF Ready
      <3>3. \A g \in s.buffered : g.seq \in Nat /\ h.seq \in Nat
        BY DEF State, Record
      <3> QED
        BY <3>2, <3>3
    <2>5. Changed(conf, e, t)
      BY <1>5, <1>9, <1>10, <2>3, <2>4 DEF Changed
    <2> QED
      BY <1>11, <1>12, <1>16, <2>5 DEF Agreed, t
  <1> QED
    BY <1>5, <1>13, <1>14

\* A record of the epoch being read.
LEMMA ReadAgrees ==
  ASSUME Inv, Agreement, NEW e \in End, Reads(e), Ready(e) = {},
         NEW s \in State, Agreed(conf, e, s), s.at = ssl[e].at, s.read_seq = ssl[e].read_seq,
         s.buffered = ssl[e].buffered,
         NEW r, Fits(ssl[Peer(e)].said, r), Marked(conf, Peer(e), r), r.epoch = s.r_epoch
  PROVE  Agreed(conf, e, dtls1_read_bytes(e, s, r))
  <1>1. CASE r.msg = "CCS" /\ change_cipher_spec_ok(e)
    <2>1. dtls1_read_bytes(e, s, r) = ssl3_do_change_cipher_spec(s)
      BY <1>1 DEF dtls1_read_bytes
    <2>2. s.r_epoch = 0
      BY <1>1 DEF Marked
    <2> QED
      BY <1>1, <2>1, <2>2, ChangeAgrees
  <1>2. CASE r.msg = "CCS" /\ ~change_cipher_spec_ok(e)
    BY <1>2 DEF dtls1_read_bytes
  <1>3. CASE r.msg # "CCS" /\ Done(e)
    BY <1>3 DEF dtls1_read_bytes
  <1>4. CASE r.msg # "CCS" /\ ~Done(e)
    <2>1. dtls1_read_bytes(e, s, r) = dtls1_get_message_fragment(e, s, r)
      BY <1>4 DEF dtls1_read_bytes
    <2>2. Case(e).do = "get" /\ Waits(ssl[Peer(e)].said, r)
      BY <1>4 DEF Reads, Waits
    <2> QED
      BY <1>4, <2>1, <2>2, FragmentAgrees
  <1> QED
    BY <1>1, <1>2, <1>3, <1>4

\* What an end sends is of the talk, and it goes on from there.
LEMMA OnwardAgrees ==
  ASSUME Inv, Agreement, NEW e \in End, ~Done(e), Case(e).do = "send"
  PROVE  Marked(conf, e, Outgoing(e)) /\ Agreed(conf, e, Onward(e))
  <1> DEFINE p == Peer(e)
             T == Talk(conf)
             s == ssl[e]
             m == Case(e).msg
             r == Outgoing(e)
             t == Onward(e)
             n == Place(conf, e, s)
             x == n + 1
             C == Close(conf, e)
             P == Close(conf, p)
  <1>1. /\ conf \in Settings /\ s \in State /\ s.at > 0 /\ s.at \in Nat /\ p \in End /\ p # e
        /\ \A f \in End : f = e \/ f = p
    BY Peers DEF Inv, Sound, State
  <1>2. /\ s.at = C => m = "CCS" /\ x = C
        /\ s.at # C => x \in 1..Len(T) /\ Follows(e, Case(e), T[x]) /\ m \in Messages
        /\ \A q : q.at = s.at + 1 => Place(conf, e, q) = IF s.at = C THEN n ELSE x
        /\ n \in 0..Len(T)
    BY <1>1, TurnFacts
  <1>3. /\ Len(T) \in Nat /\ C \in 1..Len(T) /\ P \in 1..Len(T) /\ Start(conf) < C
        /\ T[C] = Says(e, "FIN") /\ T[P] = Says(p, "FIN") /\ Start(conf) \in 1..Len(T)
        /\ \A k \in 1..Len(T) : T[k].from = e /\ (T[k].msg = "FIN" \/ k >= C) => k = C
    BY <1>1, TalkFacts
  <1>4. x = n + 1 /\ n \in Nat /\ n = (IF s.at <= C THEN s.at - 1 ELSE s.at - 2)
    BY <1>2, <1>3 DEF Place
  <1>5. "CCS" \notin Messages
    BY DEF Messages
  <1>6. (m = "CCS" <=> s.at = C) /\ (s.at # C => T[x].from = e /\ T[x].msg = m)
    BY <1>2, <1>5 DEF Follows
  <1>7. ~s.failed /\ Counted(conf, e, s) /\ Digests(conf, e, s) /\ Epochs(conf, e, s) /\ Changed(conf, e, s)
    BY DEF Agreement, Agreed
  <1>8. /\ r \in Record /\ r.msg = m /\ r.epoch = s.w_epoch
        /\ m = "FIN" => r.md = s.finish_mac
        /\ t.at = s.at + 1 /\ t.sent = Append(s.sent, r)
        /\ t.said = (IF m = "CCS" THEN s.said ELSE Append(s.said, m)) /\ t.told = s.told
        /\ t.finish_mac = Digested(s.finish_mac, m)
        /\ t.buffered = s.buffered /\ t.unprocessed = s.unprocessed
        /\ t.w_epoch = (IF m = "CCS" THEN s.w_epoch + 1 ELSE s.w_epoch) /\ t.r_epoch = s.r_epoch
        /\ t.change_cipher_spec = s.change_cipher_spec /\ t.peer_finish_md = s.peer_finish_md
        /\ t.failed = s.failed
    BY OnwardFacts DEF Outgoing
  <1>9. s.w_epoch = IF s.at <= C THEN 0 ELSE 1
    BY <1>7 DEF Epochs
  <1> HIDE DEF m, r, t, x, C, P
  <1>10. m = "FIN" => s.at # C /\ x = C
    <2>1. m = "FIN" => s.at # C
      BY <1>6
    <2> QED
      BY <1>2, <1>3, <1>6, <2>1
  <1>11. m # "FIN" => s.at <= C
    <2> SUFFICES ASSUME m # "FIN", ~(s.at <= C) PROVE FALSE
      OBVIOUS
    <2>1. s.at # C /\ x >= C
      <3> HIDE DEF n
      <3> QED
        BY <1>1, <1>3, <1>4
    <2>2. x = C
      BY <1>2, <1>3, <1>6, <2>1
    <2> QED
      BY <1>3, <1>6, <2>1, <2>2 DEF Says
  <1>12. Marked(conf, e, r)
    <2>1. CASE m = "FIN"
      <3>1. ~(s.at <= C) /\ n = C - 1 /\ n >= Start(conf)
        <4> HIDE DEF n
        <4>1. C \in Nat /\ n \in Nat /\ s.at \in Nat /\ Start(conf) \in Nat /\ Start(conf) < C
          BY <1>1, <1>3, <1>4
        <4>2. s.at # C /\ n + 1 = C
          BY <1>4, <1>10, <2>1
        <4>3. n = IF s.at <= C THEN s.at - 1 ELSE s.at - 2
          BY <1>4
        <4> QED
          BY <4>1, <4>2, <4>3
      <3>2. s.finish_mac = Mac(conf, n)
        BY <1>7, <3>1 DEF Digests
      <3> QED
        BY <1>8, <1>9, <2>1, <3>1, <3>2 DEF Marked, C
    <2>2. CASE m # "FIN"
      BY <1>8, <1>9, <1>11, <2>2 DEF Marked
    <2> QED
      BY <2>1, <2>2
  <1>13. Counted(conf, e, t) /\ Digests(conf, e, t)
    <2>1. CASE m = "CCS"
      <3>1. Place(conf, e, t) = n
        BY <1>2, <1>6, <1>8, <2>1
      <3>2. t.finish_mac = s.finish_mac
        BY <1>8, <2>1 DEF Digested
      <3> QED
        BY <1>7, <1>8, <2>1, <3>1, <3>2 DEF Counted, Digests
    <2>2. CASE m # "CCS"
      <3>1. Place(conf, e, t) = n + 1 /\ n + 1 \in 1..Len(T) /\ T[n + 1].from = e /\ T[n + 1].msg = m
        BY <1>2, <1>4, <1>6, <1>8, <2>2
      <3>2. s.said \in Seq(Messages) /\ s.told \in Seq(Messages) /\ s.finish_mac \in Seq(Messages)
        BY <1>1 DEF State
      <3>3. /\ t.said = IF T[n + 1].from = e THEN Append(s.said, T[n + 1].msg) ELSE s.said
            /\ t.told = IF T[n + 1].from = e THEN s.told ELSE Append(s.told, T[n + 1].msg)
            /\ t.finish_mac = IF T[n + 1].from = e THEN Digested(s.finish_mac, T[n + 1].msg)
                              ELSE Append(s.finish_mac, T[n + 1].msg)
        BY <1>8, <2>2, <3>1
      <3>4. Counted(conf, e, t)
        BY <1>1, <1>7, <3>1, <3>2, <3>3, CountedMove
      <3>5. Digests(conf, e, t)
        BY <1>1, <1>4, <1>7, <3>1, <3>2, <3>3, DigestsMove
      <3> QED
        BY <3>4, <3>5
    <2> QED
      BY <2>1, <2>2
  <1>14. Epochs(conf, e, t)
    <2>1. /\ s.r_epoch \in {0, 1}
          /\ \A h \in s.buffered : Marked(conf, p, h) /\ h.epoch <= s.r_epoch
          /\ \A k \in 1..Len(s.unprocessed) : Marked(conf, p, s.unprocessed[k])
          /\ \A k \in 1..Len(s.sent) : Marked(conf, e, s.sent[k])
      BY <1>7 DEF Epochs
    <2>2. t.w_epoch = IF t.at <= C THEN 0 ELSE 1
      <3>1. CASE s.at = C
        BY <1>1, <1>6, <1>8, <1>9, <3>1
      <3>2. CASE s.at # C
        <4>1. t.w_epoch = s.w_epoch
          BY <1>6, <1>8, <3>2
        <4>2. s.at <= C <=> t.at <= C
          BY <1>1, <1>3, <1>8, <3>2
        <4> QED
          BY <1>9, <4>1, <4>2
      <3> QED
        BY <3>1, <3>2
    <2>3. \A k \in 1..Len(t.sent) : Marked(conf, e, t.sent[k])
      <3> DEFINE w == Append(s.sent, r)
      <3>1. s.sent \in Seq(Record)
        BY <1>1 DEF State
      <3>2. /\ Len(w) = Len(s.sent) + 1 /\ Len(s.sent) \in Nat
            /\ \A k \in 1..Len(s.sent) + 1 : w[k] = IF k = Len(s.sent) + 1 THEN r ELSE s.sent[k]
        BY <1>8, <3>1, AppendFacts
      <3>3. t.sent = w
        BY <1>8
      <3> HIDE DEF w
      <3>4. \A k \in 1..Len(w) : Marked(conf, e, w[k])
        BY <1>12, <2>1, <3>2
      <3> QED
        BY <3>3, <3>4
    <2> QED
      BY <1>8, <2>1, <2>2, <2>3 DEF Epochs, C
  <1>15. Changed(conf, e, t)
    <2> SUFFICES ASSUME s.r_epoch = 1 PROVE Place(conf, e, t) >= P
      BY <1>8 DEF Changed, P
    <2>1. T[x].from = e
      BY <1>2, <1>3, <1>6 DEF Says
    <2>2. n >= P \/ x = P \/ T[x].from = p
      BY <1>7 DEF Changed, P, x
    <2>3. n >= P
      BY <1>1, <1>3, <2>1, <2>2 DEF Says
    <2>4. Place(conf, e, t) = n \/ Place(conf, e, t) = x
      BY <1>2, <1>8
    <2>5. P \in Nat
      BY <1>3
    <2> HIDE DEF n
    <2> QED
      BY <1>4, <2>3, <2>4, <2>5
  <1> QED
    BY <1>7, <1>8, <1>12, <1>13, <1>14, <1>15 DEF Agreed, r, t

-----------------------------------------------------------------------------
(* The steps keep it.                                                      *)

\* An end moves: what it sends is its own, and its peer sees nothing of the rest.
LEMMA MoveAgrees ==
  ASSUME Inv, Agreement, NEW e \in End, NEW t, ssl' = [ssl EXCEPT ![e] = t], conf' = conf,
         Agreed(conf, e, t),
         \A f \in End : \A r \in BagToSet(wire'[f]) :
           r \in BagToSet(wire[f]) \/ (f = Peer(e) /\ Marked(conf, e, r))
  PROVE  Agreement'
  <1>1. Peer(e) \in End /\ Peer(e) # e /\ Peer(Peer(e)) = e /\ \A f \in End : f = e \/ f = Peer(e)
    BY Peers
  <1>2. ssl'[e] = t /\ ssl'[Peer(e)] = ssl[Peer(e)]
    BY <1>1 DEF Inv
  <1>3. ASSUME NEW f \in End
        PROVE  /\ Agreed(conf', f, ssl'[f])
               /\ \A r \in BagToSet(wire'[f]) : Marked(conf', Peer(f), r)
    <2>1. CASE f = e
      <3>1. Agreed(conf', f, ssl'[f])
        BY <1>2, <2>1
      <3>2. \A r \in BagToSet(wire'[f]) : Marked(conf', Peer(f), r)
        BY <1>1, <2>1 DEF Agreement
      <3> QED
        BY <3>1, <3>2
    <2>2. CASE f = Peer(e)
      <3>1. Agreed(conf', f, ssl'[f])
        BY <1>2, <2>2 DEF Agreement
      <3>2. \A r \in BagToSet(wire'[f]) : Marked(conf', Peer(f), r)
        BY <1>1, <2>2 DEF Agreement
      <3> QED
        BY <3>1, <3>2
    <2> QED
      BY <1>1, <2>1, <2>2
  <1> QED
    BY <1>3 DEF Agreement

\* The pieces a record is cut in are marked like it.
LEMMA PiecesMarked ==
  ASSUME NEW e, NEW r \in Record, Marked(conf, e, r), NEW x \in Fragments(r) \cup Halves(r)
  PROVE  Marked(conf, e, x)
  <1>1. x = r \/ x = [r EXCEPT !.part = {1}] \/ x = [r EXCEPT !.part = {2}]
    BY DEF Fragments, Halves
  <1>2. x.msg = r.msg /\ x.epoch = r.epoch /\ x.md = r.md
    BY <1>1 DEF Record
  <1> QED
    BY <1>2 DEF Marked

\* What is sent again is as it was.
LEMMA ResentMarked ==
  ASSUME Inv, Agreement, NEW e \in End, NEW x \in dtls1_retransmit_buffered_messages(ssl[e])
  PROVE  Marked(conf, e, x)
  <1>1. PICK k \in DOMAIN ssl[e].sent : x \in Fragments(ssl[e].sent[k])
    BY DEF dtls1_retransmit_buffered_messages
  <1>2. ssl[e].sent \in Seq(Record)
    BY DEF Inv, State
  <1>3. k \in 1..Len(ssl[e].sent) /\ ssl[e].sent[k] \in Record
    BY <1>1, <1>2, LenProperties, ElementOfSeq
  <1>4. Marked(conf, e, ssl[e].sent[k])
    BY <1>3 DEF Agreement, Agreed, Epochs
  <1> QED
    BY <1>1, <1>3, <1>4, PiecesMarked

LEMMA send_message_Agrees ==
  ASSUME Inv, Agreement, NEW e \in End, send_message(e)
  PROVE  Agreement'
  <1> DEFINE r == Outgoing(e)
             t == Onward(e)
  <1>1. /\ \E rs \in FirstFragments(r) : wire' = Out(e, rs)
        /\ ssl' = [ssl EXCEPT ![e] = t] /\ conf' = conf
    BY DEF send_message, Outgoing, Onward
  <1>2. ~Done(e) /\ Case(e).do = "send"
    BY DEF send_message
  <1>3. Marked(conf, e, r) /\ Agreed(conf, e, t)
    BY <1>2, OnwardAgrees
  <1>4. r \in Record /\ DOMAIN wire = End
    BY <1>2, OnwardFacts DEF Inv
  <1>5. PICK rs \in FirstFragments(r) : wire' = Out(e, rs)
    BY <1>1
  <1> HIDE DEF r, t
  <1>6. \A g \in rs : Marked(conf, e, g)
    <2>1. rs = Fragments(r) \/ rs = Halves(r)
      BY <1>5 DEF FirstFragments
    <2> QED
      BY <1>3, <1>4, <2>1, PiecesMarked
  <1>7. \A f \in End : \A g \in BagToSet(wire'[f]) :
          g \in BagToSet(wire[f]) \/ (f = Peer(e) /\ Marked(conf, e, g))
    BY <1>4, <1>5, <1>6, OutFacts
  <1> QED
    BY <1>1, <1>3, <1>7, MoveAgrees

\* A message put together: its way is clear, so no ChangeCipherSpec came too early.
LEMMA retrieve_Agrees ==
  ASSUME Inv, Agreement, NEW e \in End, dtls1_retrieve_buffered_fragment(e)
  PROVE  Agreement'
  <1> DEFINE s == ssl[e]
             p == Peer(e)
             d == ssl[p].said
  <1>1. /\ s \in State /\ conf \in Settings /\ p \in End /\ Agreed(conf, e, s)
        /\ \A h \in s.buffered : Waits(d, h)
    BY Peers DEF Inv, Sound, Agreement
  <1>2. PICK h \in Ready(e) :
          ssl' = [ssl EXCEPT ![e] = dtls1_get_message(e, [s EXCEPT !.buffered = @ \ {h}], h)]
    BY DEF dtls1_retrieve_buffered_fragment
  <1> DEFINE B == s.buffered \ {h}
             b == [s EXCEPT !.buffered = B]
             t == dtls1_get_message(e, b, h)
  <1>3. /\ h \in s.buffered /\ ~Done(e) /\ h.part = Whole /\ h.seq = s.read_seq /\ Waits(d, h)
        /\ \A g \in s.buffered : h.seq <= g.seq
    BY <1>1, <1>2 DEF Ready
  <1>4. Case(e).do = "get"
    BY <1>3 DEF dtls1_retrieve_buffered_fragment, Reads
  <1>5. ~Stalled(s)
    <2>1. \A g \in s.buffered : g.seq \in Nat
      BY <1>1 DEF State, Record
    <2> QED
      BY <1>3, <2>1 DEF Stalled
  <1>6. s.r_epoch = 1 => Place(conf, e, s) + 1 >= Close(conf, p)
    <2>1. s.r_epoch = 1 => Place(conf, e, s) >= Close(conf, p) \/ Place(conf, e, s) + 1 = Close(conf, p)
      BY <1>1, <1>5 DEF Agreed, Changed
    <2>2. Place(conf, e, s) \in Nat /\ Close(conf, p) \in Nat
      <3>1. Len(Talk(conf)) \in Nat /\ Close(conf, p) \in 1..Len(Talk(conf))
        BY <1>1, TalkFacts
      <3> QED
        BY <1>1, <3>1 DEF Agreed, Counted
    <2> QED
      BY <2>1, <2>2
  <1>7. Marked(conf, p, h) /\ h.epoch <= s.r_epoch
    BY <1>1, <1>3 DEF Agreed, Epochs
  <1>8. /\ b \in State /\ b.at = s.at /\ b.failed = s.failed /\ b.said = s.said /\ b.told = s.told
        /\ b.finish_mac = s.finish_mac /\ b.w_epoch = s.w_epoch /\ b.r_epoch = s.r_epoch
        /\ b.change_cipher_spec = s.change_cipher_spec /\ b.peer_finish_md = s.peer_finish_md
        /\ b.sent = s.sent /\ b.buffered = B /\ b.unprocessed = s.unprocessed /\ b.read_seq = s.read_seq
    <2>1. B \in SUBSET Record
      BY <1>1 DEF State
    <2> HIDE DEF B
    <2> QED
      BY <1>1, <2>1 DEF State
  <1>9. ssl' = [ssl EXCEPT ![e] = t] /\ conf' = conf /\ wire' = wire
    BY <1>2 DEF dtls1_retrieve_buffered_fragment
  <1> HIDE DEF b
  <1>10. Agreed(conf, e, b)
    <2>1. /\ \A g \in B : Marked(conf, p, g) /\ g.epoch <= s.r_epoch
          /\ \A k \in 1..Len(s.unprocessed) : Marked(conf, p, s.unprocessed[k])
      BY <1>1 DEF Agreed, Epochs
    <2> HIDE DEF B
    <2> QED
      BY <1>1, <1>5, <1>8, <2>1, KeepAgrees
  <1>11. Agreed(conf, e, t)
    <2>1. Place(conf, e, b) = Place(conf, e, s)
      BY <1>8 DEF Place
    <2> QED
      BY <1>3, <1>4, <1>6, <1>7, <1>8, <1>10, <2>1, TakeAgrees
  <1> HIDE DEF t
  <1> QED
    BY <1>9, <1>11, MoveAgrees

LEMMA AnswerMarked ==
  ASSUME Inv, Agreement, NEW e \in End, NEW r, NEW x \in Answer(e, r)
  PROVE  Marked(conf, e, x)
  BY ResentMarked DEF Answer

\* A record that was kept for this epoch.
LEMMA processed_Agrees ==
  ASSUME Inv, Agreement, NEW e \in End, dtls1_get_processed_record(e)
  PROVE  Agreement'
  <1> DEFINE s == ssl[e]
             p == Peer(e)
             d == ssl[p].said
             r == s.unprocessed[1]
             U == Tail(s.unprocessed)
             u == [s EXCEPT !.unprocessed = U]
             t == dtls1_read_bytes(e, u, r)
  <1>1. /\ s \in State /\ Agreed(conf, e, s) /\ DOMAIN wire = End
        /\ \A k \in 1..Len(s.unprocessed) : Waits(d, s.unprocessed[k])
    BY DEF Inv, Sound, Agreement
  <1>2. /\ s.unprocessed # <<>> /\ s.unprocessed \in Seq(Record) /\ r.epoch = s.r_epoch
        /\ Reads(e) /\ Ready(e) = {}
    BY <1>1 DEF dtls1_get_processed_record, Early, State
  <1>3. /\ \A h \in s.buffered : Marked(conf, p, h) /\ h.epoch <= s.r_epoch
        /\ \A k \in 1..Len(s.unprocessed) : Marked(conf, p, s.unprocessed[k])
    BY <1>1 DEF Agreed, Epochs
  <1>4. /\ U \in Seq(Record) /\ (\A k \in 1..Len(U) : Marked(conf, p, U[k])) /\ Marked(conf, p, r)
        /\ Fits(d, r)
    <2>1. /\ U \in Seq(Record) /\ Len(U) = Len(s.unprocessed) - 1
          /\ \A k \in 1..Len(U) : U[k] = s.unprocessed[k + 1]
          /\ Len(s.unprocessed) \in Nat \ {0}
      BY <1>2, HeadTailProperties, EmptySeq
    <2>2. Waits(d, r)
      BY <1>1, <2>1
    <2> HIDE DEF U
    <2> QED
      BY <1>3, <2>1, <2>2 DEF Waits
  <1>5. ssl' = [ssl EXCEPT ![e] = t] /\ conf' = conf /\ wire' = Out(e, Answer(e, r))
    BY DEF dtls1_get_processed_record
  <1> HIDE DEF U
  <1>6. /\ u \in State /\ u.at = s.at /\ u.failed = s.failed /\ u.said = s.said /\ u.told = s.told
        /\ u.finish_mac = s.finish_mac /\ u.w_epoch = s.w_epoch /\ u.r_epoch = s.r_epoch
        /\ u.change_cipher_spec = s.change_cipher_spec /\ u.peer_finish_md = s.peer_finish_md
        /\ u.sent = s.sent /\ u.buffered = s.buffered /\ u.unprocessed = U /\ u.read_seq = s.read_seq
    BY <1>1, <1>4 DEF State
  <1> HIDE DEF u, r
  <1>7. Agreed(conf, e, u)
    <2>1. Stalled(s) => Stalled(u)
      BY <1>6 DEF Stalled
    <2> QED
      BY <1>1, <1>3, <1>4, <1>6, <2>1, KeepAgrees
  <1>8. Agreed(conf, e, t)
    BY <1>2, <1>4, <1>6, <1>7, ReadAgrees
  <1> HIDE DEF t
  <1>9. \A f \in End : \A g \in BagToSet(wire'[f]) :
          g \in BagToSet(wire[f]) \/ (f = Peer(e) /\ Marked(conf, e, g))
    BY <1>1, <1>5, AnswerMarked, OutFacts
  <1> QED
    BY <1>5, <1>8, <1>9, MoveAgrees

\* A record from the wire.
LEMMA get_record_Agrees ==
  ASSUME Inv, Agreement, NEW e \in End, dtls1_get_record(e)
  PROVE  Agreement'
  <1> DEFINE s == ssl[e]
             p == Peer(e)
             d == ssl[p].said
             z == [s EXCEPT !.num_alerts = 0]
  <1>1. /\ s \in State /\ Agreed(conf, e, s) /\ DOMAIN wire = End /\ Reads(e) /\ Ready(e) = {}
    BY DEF Inv, Agreement, dtls1_get_record
  <1>2. PICK r \in BagToSet(wire[e]) :
          /\ ssl' = [ssl EXCEPT ![e] =
               IF Current(s, r) THEN dtls1_read_bytes(e, z, r)
               ELSE IF r.epoch = s.r_epoch + 1 /\ r.msg # "CCS" /\ ~Done(e)
                    THEN [s EXCEPT !.unprocessed = Append(@, r)] ELSE s]
          /\ wire' = [Out(e, IF Current(s, r) THEN Answer(e, r) ELSE {}) EXCEPT ![e] = @ (-) SetToBag({r})]
    BY DEF dtls1_get_record
  <1> DEFINE U == Append(s.unprocessed, r)
             u == [s EXCEPT !.unprocessed = U]
             t == IF Current(s, r) THEN dtls1_read_bytes(e, z, r)
                  ELSE IF r.epoch = s.r_epoch + 1 /\ r.msg # "CCS" /\ ~Done(e) THEN u ELSE s
             A == IF Current(s, r) THEN Answer(e, r) ELSE {}
  <1>3. Fits(d, r) /\ Marked(conf, p, r) /\ r \in Record
    BY DEF Inv, Agreement, Fits
  <1>4. /\ \A h \in s.buffered : Marked(conf, p, h) /\ h.epoch <= s.r_epoch
        /\ \A k \in 1..Len(s.unprocessed) : Marked(conf, p, s.unprocessed[k])
        /\ s.unprocessed \in Seq(Record)
    BY <1>1 DEF Agreed, Epochs, State
  <1>5. /\ z \in State /\ z.at = s.at /\ z.failed = s.failed /\ z.said = s.said /\ z.told = s.told
        /\ z.finish_mac = s.finish_mac /\ z.w_epoch = s.w_epoch /\ z.r_epoch = s.r_epoch
        /\ z.change_cipher_spec = s.change_cipher_spec /\ z.peer_finish_md = s.peer_finish_md
        /\ z.sent = s.sent /\ z.buffered = s.buffered /\ z.unprocessed = s.unprocessed
        /\ z.read_seq = s.read_seq
    BY <1>1 DEF State
  <1>6. U \in Seq(Record) /\ \A k \in 1..Len(U) : Marked(conf, p, U[k])
    BY <1>3, <1>4, AppendFacts
  <1>7. ssl' = [ssl EXCEPT ![e] = t] /\ conf' = conf
    BY <1>2 DEF dtls1_get_record
  <1> HIDE DEF z, U
  <1>8. /\ u.at = s.at /\ u.failed = s.failed /\ u.said = s.said /\ u.told = s.told
        /\ u.finish_mac = s.finish_mac /\ u.w_epoch = s.w_epoch /\ u.r_epoch = s.r_epoch
        /\ u.change_cipher_spec = s.change_cipher_spec /\ u.peer_finish_md = s.peer_finish_md
        /\ u.sent = s.sent /\ u.buffered = s.buffered /\ u.unprocessed = U /\ u.read_seq = s.read_seq
    BY <1>1 DEF State
  <1> HIDE DEF u
  <1>9. Agreed(conf, e, u)
    <2>1. Stalled(s) => Stalled(u)
      BY <1>8 DEF Stalled
    <2> QED
      BY <1>1, <1>4, <1>6, <1>8, <2>1, KeepAgrees
  <1>10. Agreed(conf, e, z)
    <2>1. Stalled(s) => Stalled(z)
      BY <1>5 DEF Stalled
    <2> QED
      BY <1>1, <1>4, <1>5, <2>1, KeepAgrees
  <1>11. Agreed(conf, e, t)
    <2>1. CASE Current(s, r)
      <3>1. r.epoch = z.r_epoch
        BY <1>5, <2>1 DEF Current
      <3>2. Agreed(conf, e, dtls1_read_bytes(e, z, r))
        BY <1>1, <1>3, <1>5, <1>10, <3>1, ReadAgrees
      <3> QED
        BY <2>1, <3>2
    <2>2. CASE ~Current(s, r)
      BY <1>1, <1>9, <2>2
    <2> QED
      BY <2>1, <2>2
  <1> HIDE DEF t
  <1>12. \A f \in End : \A g \in BagToSet(wire'[f]) :
           g \in BagToSet(wire[f]) \/ (f = Peer(e) /\ Marked(conf, e, g))
    <2>1. \A g \in A : Marked(conf, e, g)
      BY AnswerMarked
    <2>2. /\ DOMAIN Out(e, A) = End
          /\ \A f \in End : \A g \in BagToSet(Out(e, A)[f]) :
               g \in BagToSet(wire[f]) \/ (f = Peer(e) /\ Marked(conf, e, g))
      BY <1>1, <2>1, OutFacts
    <2>3. wire' = [Out(e, A) EXCEPT ![e] = @ (-) SetToBag({r})]
      BY <1>2
    <2> HIDE DEF A
    <2> QED
      BY <2>2, <2>3, RemoveFacts
  <1> QED
    BY <1>7, <1>11, <1>12, MoveAgrees

\* The timer expires, or a datagram is lost.
LEMMA timeout_Agrees ==
  ASSUME Inv, Agreement, NEW e \in End, dtls1_handle_timeout(e)
  PROVE  Agreement'
  <1> DEFINE s == ssl[e]
             a == Min({s.num_alerts + 1, AlertCount + 1})
             t == [s EXCEPT !.num_alerts = a]
  <1>1. s \in State /\ Agreed(conf, e, s) /\ DOMAIN wire = End /\ ssl \in [End -> State]
    BY DEF Inv, Agreement
  <1>2. ssl' = [ssl EXCEPT ![e] = t] /\ conf' = conf
    <2>1. ssl' = [ssl EXCEPT ![e].num_alerts = Min({@ + 1, AlertCount + 1})]
      BY DEF dtls1_handle_timeout
    <2> HIDE DEF a
    <2> QED
      BY <1>1, <2>1 DEF dtls1_handle_timeout, a
  <1> HIDE DEF a
  <1>3. /\ t.at = s.at /\ t.failed = s.failed /\ t.said = s.said /\ t.told = s.told
        /\ t.finish_mac = s.finish_mac /\ t.w_epoch = s.w_epoch /\ t.r_epoch = s.r_epoch
        /\ t.change_cipher_spec = s.change_cipher_spec /\ t.peer_finish_md = s.peer_finish_md
        /\ t.sent = s.sent /\ t.buffered = s.buffered /\ t.unprocessed = s.unprocessed
        /\ t.read_seq = s.read_seq
    BY <1>1 DEF State
  <1> HIDE DEF t
  <1>4. Agreed(conf, e, t)
    <2>1. Stalled(s) => Stalled(t)
      BY <1>3 DEF Stalled
    <2>2. /\ \A h \in s.buffered : Marked(conf, Peer(e), h) /\ h.epoch <= s.r_epoch
          /\ \A k \in 1..Len(s.unprocessed) : Marked(conf, Peer(e), s.unprocessed[k])
      BY <1>1 DEF Agreed, Epochs
    <2> QED
      BY <1>1, <1>3, <2>1, <2>2, KeepAgrees
  <1>5. \A f \in End : \A g \in BagToSet(wire'[f]) :
          g \in BagToSet(wire[f]) \/ (f = Peer(e) /\ Marked(conf, e, g))
    <2>1. wire' = wire \/ wire' = Out(e, dtls1_retransmit_buffered_messages(s))
      BY DEF dtls1_handle_timeout
    <2> QED
      BY <1>1, <2>1, ResentMarked, OutFacts
  <1> QED
    BY <1>2, <1>4, <1>5, MoveAgrees

LEMMA lose_Agrees ==
  ASSUME Inv, Agreement, NEW e \in End, lose(e)
  PROVE  Agreement'
  <1>1. ssl' = [ssl EXCEPT ![e] = ssl[e]] /\ conf' = conf /\ Agreed(conf, e, ssl[e])
    BY DEF lose, Inv, Agreement
  <1>2. \A f \in End : \A g \in BagToSet(wire'[f]) : g \in BagToSet(wire[f])
    <2>1. PICK r \in BagToSet(wire[e]) : wire' = [wire EXCEPT ![e] = @ (-) SetToBag({r})]
      BY DEF lose
    <2> QED
      BY <2>1, RemoveFacts DEF Inv
  <1> QED
    BY <1>1, <1>2, MoveAgrees

LEMMA InitAgreement == Init => Agreement
  <1> SUFFICES ASSUME Init, NEW e \in End PROVE
        /\ Agreed(conf, e, ssl[e])
        /\ \A r \in BagToSet(wire[e]) : Marked(conf, Peer(e), r)
    BY DEF Agreement
  <1> DEFINE s == dtls1_new
             C == Close(conf, e)
  <1>1. ssl[e] = s /\ BagToSet(wire[e]) = {}
    BY DEF Init, EmptyBag, SetToBag, BagToSet
  <1>2. /\ s.at = 1 /\ ~s.failed /\ s.said = <<>> /\ s.told = <<>> /\ s.finish_mac = <<>>
        /\ s.w_epoch = 0 /\ s.r_epoch = 0 /\ s.buffered = {} /\ s.unprocessed = <<>> /\ s.sent = <<>>
    BY DEF dtls1_new
  <1>3. Len(Talk(conf)) \in Nat /\ C \in 1..Len(Talk(conf)) /\ Start(conf) \in 1..Len(Talk(conf))
    BY TalkFacts DEF Init
  <1> HIDE DEF s
  <1>4. Place(conf, e, s) = 0
    BY <1>2, <1>3 DEF Place
  <1>5. Counted(conf, e, s)
    <2>1. Count(conf, e, 0) = 0 /\ Count(conf, Peer(e), 0) = 0
      BY CountFacts
    <2>2. Len(<<>>) = 0
      OBVIOUS
    <2> QED
      BY <1>2, <1>3, <1>4, <2>1, <2>2 DEF Counted
  <1>6. Digests(conf, e, s)
    BY <1>2, <1>3, <1>4 DEF Digests
  <1>7. Epochs(conf, e, s)
    <2>1. Len(<<>>) = 0 /\ s.at <= C
      BY <1>2, <1>3
    <2> QED
      BY <1>2, <2>1 DEF Epochs
  <1>8. Changed(conf, e, s)
    BY <1>2 DEF Changed
  <1> QED
    BY <1>1, <1>2, <1>5, <1>6, <1>7, <1>8 DEF Agreed

LEMMA NextAgreement == Inv /\ Agreement /\ [Next]_vars => Agreement'
  <1> SUFFICES ASSUME Inv, Agreement, [Next]_vars
               PROVE  Agreement'
    OBVIOUS
  <1>1. ASSUME NEW e \in End, Library(e)
        PROVE  Agreement'
    BY <1>1, send_message_Agrees, retrieve_Agrees, processed_Agrees, get_record_Agrees DEF Library
  <1>2. CASE UNCHANGED vars
    BY <1>2 DEF vars, Agreement
  <1> QED
    BY <1>1, <1>2, timeout_Agrees, lose_Agrees DEF Next

\* No message is taken for another and each end finds the peer's Finished as it
\* made it itself, whatever is lost, overtaken or sent again (ssl3_get_finished,
\* dtls1_get_message, ssl3_do_change_cipher_spec).
THEOREM Matched == Spec => []FinishedMatch
  <1>1. Init => Inv /\ Agreement
    BY InitInv, InitAgreement
  <1>2. Inv /\ Agreement /\ [Next]_vars => Inv' /\ Agreement'
    BY NextInv, NextAgreement
  <1>3. Agreement => FinishedMatch
    BY DEF Agreement, Agreed, FinishedMatch
  <1> QED
    BY <1>1, <1>2, <1>3, PTL DEF Spec
=============================================================================
