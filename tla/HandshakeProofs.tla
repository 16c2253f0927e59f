--------------------------- MODULE HandshakeProofs ---------------------------
(***************************************************************************)
(* Proofs about Handshake, for any set of configurations and any numbers   *)
(* of records and renegotiations: what the ends agree on, that their data  *)
(* arrive in order and that they end the conversation together.  The last  *)
(* sections number the records of a handshake, for LockstepProofs.         *)
(***************************************************************************)
EXTENDS Handshake, SequenceTheorems, FiniteSetTheorems, TLAPS

USE DEF C, S

-----------------------------------------------------------------------------
(* What the theorems assume of the applications.                           *)

\* The calls of end e that start a renegotiation, and those that close.
Renews(c, e) ==
  \E x \in {"renegotiate", "renegotiate_early", "renegotiate_in_window"} : <<e, x>> \in c.calls
Closes(c, e) == \E x \in {"shutdown", "shutdown_in_window"} : <<e, x>> \in c.calls

\* No end closes what it may renegotiate, and the client nothing that the
\* server may: only the server may close while the client asks for more.
Apart(c) ==
  /\ Closes(c, S) => ~Renews(c, S)
  /\ Closes(c, C) => ~Renews(c, C) /\ ~Renews(c, S)

\* No application shuts down in a handshake and takes the 1 for an answer.
NoHurry(c) == \A e \in Endpoint : <<e, "shutdown_in_init">> \notin c.calls

-----------------------------------------------------------------------------
(* The invariant: what holds of an end by itself.                          *)

\* The fields of a connection and their types: what TypeOK says of an end, and
\* the fields the proof needs to be there.
FieldNames == {"state", "next", "buffered", "hit", "ticket_expected", "cert_req",
  "new_session", "renegotiate", "total", "new_cipher", "sid", "tick", "master", "peer",
  "cr", "sr", "rkey", "wkey", "key_block", "mac", "peer_md", "prev", "ccs", "shutdown",
  "failed", "vkey", "good", "shut"}

Typed(s) ==
  /\ DOMAIN s = FieldNames /\ DOMAIN s.prev = Endpoint
  /\ s.state \in States /\ s.next \in States
  /\ s.buffered \in BOOLEAN /\ s.hit \in BOOLEAN /\ s.ticket_expected \in BOOLEAN
  /\ s.renegotiate \in BOOLEAN /\ s.new_cipher \in BOOLEAN /\ s.peer \in BOOLEAN
  /\ s.ccs \in BOOLEAN /\ s.failed \in BOOLEAN /\ s.shut \in BOOLEAN
  /\ s.cert_req \in 0 .. 2 /\ s.new_session \in 0 .. 2
  /\ s.cr \in Nat /\ s.sr \in Nat /\ s.total \in Nat /\ s.good \in Nat
  /\ s.shutdown \subseteq {"sent", "received"}

\* The keys a peer's record or Finished has vouched for: those an end reads
\* with; those it also writes with, when no ChangeCipherSpec is unanswered. And
\* the keys of the handshake under way, where an end writes or reads with them.
Vouched(s) == s.rkey # None /\ s.rkey = s.vkey
Settled(s) == Vouched(s) /\ s.wkey = s.vkey /\ ~s.ccs
WritesNew(s) == s.key_block # None /\ s.wkey = s.key_block
ReadsNew(s) == s.key_block # None /\ s.rkey = s.key_block /\ s.vkey = s.key_block /\ ~s.ccs

\* The states that only a full handshake passes.
FullStates == {"CR_CERT", "CR_CERT_STATUS", "CR_KEY_EXCH", "CR_CERT_REQ", "CR_SRVR_DONE",
  "CW_CERT", "CW_KEY_EXCH", "CW_CERT_VRFY", "CUTTHROUGH_COMPLETE", "CR_SESSION_TICKET",
  "SW_CERT", "SW_CERT_STATUS", "SW_KEY_EXCH", "SW_CERT_REQ", "SW_SRVR_DONE",
  "SR_CERT", "SR_KEY_EXCH", "SR_CERT_VRFY"}
\* Of both ends: an answered handshake leaves keys the peer has vouched for.
Keys(s) ==
  /\ s.ccs => s.key_block # None /\ s.rkey = s.key_block /\ s.peer_md # None
  /\ s.state \in FullStates => ~s.hit
  /\ s.state \in {"DONE", "OK"} => Settled(s)
  /\ s.state = "OK" => ~s.buffered

\* Of the client: which keys it writes and reads with in the states after its
\* ChangeCipherSpec and the server's, where it goes from the flush, and that it
\* has the server's Finished before its handshake is over.
ClientKeys(s) ==
  /\ s.state \in {"CW_FINISHED", "CW_FLUSH", "CUTTHROUGH_COMPLETE", "CR_SESSION_TICKET"}
       => WritesNew(s)
  /\ s.state = "CR_FINISHED" /\ ~s.hit => WritesNew(s)
  /\ s.state \in {"CW_CHANGE", "CW_FINISHED", "CW_FLUSH"} /\ s.hit
       => ReadsNew(s) /\ s.prev[S] # None
  /\ s.state = "CW_FLUSH" =>
       IF s.hit THEN s.next = "DONE"
       ELSE IF conf.cut /\ s.prev[S] = None THEN s.next = "CUTTHROUGH_COMPLETE"
       ELSE s.next \in {"CR_SESSION_TICKET", "CR_FINISHED"}
  /\ s.state \in {"DONE", "OK"} \/ s.good > 0 => s.prev[S] # None
  /\ s.state \in {"CR_SESSION_TICKET", "CR_FINISHED"} /\ ~s.hit /\ conf.cut /\ s.prev[S] = None
       => ~s.buffered

\* A client that begins another handshake after it has finished one reads with
\* the keys of the last, until it has read the next ChangeCipherSpec.
ClientWindow(s) ==
  s.prev[S] # None =>
  /\ s.state = "RENEGOTIATE" \/ (s.state = "CW_CLNT_HELLO" /\ s.total # 0) => Settled(s)
  /\ s.state = "CR_SRVR_HELLO" /\ s.total # 0 => s.ccs \/ Vouched(s)

\* What the client does only if its application, or the server's, asks for it.
ClientCalls(s) ==
  /\ s.state \notin ServerReads \cup ServerWrites
  /\ s.state = "BEFORE" => s.total = 0
  /\ s.state = "RENEGOTIATE" => s.total # 0
  /\ s.renegotiate => Renews(conf, C) /\ s.total < MaxRenego
  /\ s.total # 0 => Renews(conf, C) \/ Renews(conf, S)
  /\ "sent" \in s.shutdown =>
       Closes(conf, C) /\ s.state # "BEFORE" /\ ~(s.state = "CW_CLNT_HELLO" /\ s.total = 0)

\* A hello more than finished handshakes, only while one is under way.
ClientCounts(s) ==
  LET before == s.state \in {"BEFORE", "RENEGOTIATE", "CW_CLNT_HELLO"}
  IN /\ IF before THEN s.cr <= s.total ELSE s.cr <= s.total + 1
     /\ IF before \/ s.state = "OK" THEN s.good <= s.cr ELSE s.good < s.cr

\* The same of the server.
ServerKeys(s) ==
  /\ s.state \in {"SW_SESSION_TICKET", "SW_CHANGE", "SW_FINISHED"} /\ ~s.hit => ReadsNew(s)
  /\ s.state = "SW_FINISHED" => WritesNew(s)
  /\ s.state = "SR_FINISHED" /\ s.hit => WritesNew(s)
  /\ s.state = "RENEGOTIATE" => Settled(s)
  /\ s.state = "SW_FLUSH" =>
       \/ s.next = "SR_CERT" /\ ~s.hit
       \/ s.next = "SR_FINISHED" /\ s.hit /\ WritesNew(s)
       \/ s.next = "DONE" /\ ~s.hit /\ WritesNew(s) /\ ReadsNew(s)

ServerCalls(s) ==
  /\ s.state \notin ClientReads \cup ClientWrites
  /\ s.renegotiate => Renews(conf, S) /\ s.total < MaxRenego
  /\ s.state = "RENEGOTIATE" => Renews(conf, S)
  /\ "sent" \in s.shutdown => Closes(conf, S)
  /\ Apart(conf) /\ "sent" \in s.shutdown => s.state = "OK"

ServerCounts(s) ==
  /\ s.total <= MaxRenego
  /\ s.good <= s.sr /\ (s.new_session = 2 => s.good < s.sr)

GoodClient(s) ==
  /\ Typed(s) /\ Keys(s) /\ ClientKeys(s)
  /\ ClientWindow(s) /\ ClientCalls(s) /\ ClientCounts(s)
GoodServer(s) == Typed(s) /\ Keys(s) /\ ServerKeys(s) /\ ServerCalls(s) /\ ServerCounts(s)
Ends == DOMAIN ssl = Endpoint /\ GoodClient(ssl[C]) /\ GoodServer(ssl[S])

-----------------------------------------------------------------------------
(* The invariant: what holds of the ends and of the records between them.  *)

\* What the counts tell records apart by, how many of a sort a queue holds, and
\* the records in it.
Tag(r) == IF r.type = "handshake" THEN <<"handshake", r.body.name>> ELSE <<r.type>>
App == <<"app">>
Hello == <<"handshake", "ClientHello">>
Request == <<"handshake", "HelloRequest">>
ServerHello == <<"handshake", "ServerHello">>
Count(q, t) == Cardinality({i \in DOMAIN q : Tag(q[i]) = t})
Elements(q) == {q[i] : i \in DOMAIN q}
IsSeq(q) == q \in Seq(Elements(q))

\* The records on the way to end e, those its peer still buffers included; how
\* many of them are of a sort. A HelloRequest the server has yet to write counts
\* as on the way.
Traffic(e) == Elements(wire[e]) \cup Elements(out[Peer(e)])
Flying(e, t) == Count(wire[e], t) + Count(out[Peer(e)], t)
Pending == IF ssl[S].state = "RENEGOTIATE" THEN 1 ELSE 0

\* The queues are sequences of records, and no application data is buffered.
Streams ==
  /\ DOMAIN wire = Endpoint /\ DOMAIN out = Endpoint
  /\ \A e \in Endpoint : IsSeq(wire[e]) /\ IsSeq(out[e])
Records ==
  \A e \in Endpoint :
    /\ \A r \in Traffic(e) : r.type \in RecordTypes
    /\ \A r \in Elements(out[e]) : r.type # "app"

\* Every hello answers for a renegotiation: HelloRequests, and the ClientHellos
\* that follow them, are no more than the renegotiations the ends have counted,
\* and the randoms that a record or the other end has are ones its sender has
\* already drawn.
Hellos ==
  /\ \A r \in Traffic(C) : Tag(r) = Request => Renews(conf, S)
  /\ \A r \in Traffic(C) : Tag(r) = ServerHello => r.body.rnd \in 0 .. ssl[S].sr
  /\ \A r \in Traffic(S) : Tag(r) = Hello => r.body.rnd \in 0 .. ssl[C].cr
  /\ ssl[C].sr <= ssl[S].sr /\ ssl[S].cr <= ssl[C].cr
  /\ Flying(C, Request) + Pending <= ssl[S].total
  /\ ssl[C].total + Flying(C, Request) + Pending <= MaxRenego + ssl[S].total
  /\ ssl[S].sr + Flying(S, Hello) <= ssl[C].cr

\* No end reads more data than the other has sent, and while its application has
\* not closed, what it has not read is on the way to it.
Counted ==
  /\ DOMAIN sent = Endpoint /\ DOMAIN got = Endpoint
  /\ \A e \in Endpoint :
       /\ sent[e] \in 0 .. MaxData /\ got[e] \in Nat
       /\ got[e] + Flying(e, App) <= sent[Peer(e)]
       /\ Apart(conf) /\ "sent" \notin ssl[e].shutdown => got[e] + Flying(e, App) = sent[Peer(e)]

\* A close_notify on the way, or received, was sent by an application that has
\* closed; where no application calls SSL_shutdown in a handshake, an answer of 1
\* says that both have.
Closed ==
  Apart(conf) =>
  \A e \in Endpoint :
    /\ \A r \in Traffic(e) : r.type = "close_notify" => "sent" \in ssl[Peer(e)].shutdown
    /\ "received" \in ssl[e].shutdown /\ ~ssl[e].failed => "sent" \in ssl[Peer(e)].shutdown
    /\ NoHurry(conf) /\ ssl[e].shut =>
         ssl[e].shutdown = {"sent", "received"} /\ "sent" \in ssl[Peer(e)].shutdown

\* The inductive invariant.
Inv == conf \in Configs /\ Ends /\ Streams /\ Records /\ Hellos /\ Counted /\ Closed

-----------------------------------------------------------------------------
(* Queues of records.                                                      *)

LEMMA EmptySeqFacts == IsSeq(<<>>) /\ DOMAIN <<>> = {} /\ \A t : Count(<<>>, t) = 0
<1>1. DOMAIN <<>> = {}
  OBVIOUS
<1>2. <<>> \in Seq(Elements(<<>>))
  OBVIOUS
<1>3. ASSUME NEW t PROVE Count(<<>>, t) = 0
  <2>1. {i \in DOMAIN <<>> : Tag(<<>>[i]) = t} = {}
    BY <1>1
  <2> QED
    BY <2>1, FS_EmptySet DEF Count
<1> QED
  BY <1>1, <1>2, <1>3 DEF IsSeq, Elements

LEMMA SeqFacts ==
  ASSUME NEW q, IsSeq(q)
  PROVE  /\ Len(q) \in Nat /\ DOMAIN q = 1 .. Len(q)
         /\ q = <<>> <=> Len(q) = 0
BY LenProperties, EmptySeq DEF IsSeq, Elements

LEMMA CountFacts ==
  ASSUME NEW q, IsSeq(q), NEW t
  PROVE  /\ IsFiniteSet({i \in DOMAIN q : Tag(q[i]) = t})
         /\ Count(q, t) \in Nat
<1>1. IsFiniteSet(1 .. Len(q))
  BY SeqFacts, FS_Interval
<1>2. {i \in DOMAIN q : Tag(q[i]) = t} \in SUBSET (1 .. Len(q))
  BY SeqFacts
<1> QED
  BY <1>1, <1>2, FS_Subset, FS_CardinalityType DEF Count

LEMMA ConcatFacts ==
  ASSUME NEW p, IsSeq(p), NEW q, IsSeq(q)
  PROVE  /\ IsSeq(p \o q)
         /\ Len(p \o q) = Len(p) + Len(q)
         /\ \A i \in 1 .. Len(p) + Len(q) :
              (p \o q)[i] = IF i <= Len(p) THEN p[i] ELSE q[i - Len(p)]
         /\ Elements(p \o q) = Elements(p) \cup Elements(q)
<1> DEFINE P == Elements(p)
           Q == Elements(q)
           r == p \o q
<1>1. p \in Seq(P \cup Q) /\ q \in Seq(P \cup Q)
  BY SeqMonotonic DEF IsSeq, Elements
<1>2. /\ r \in Seq(P \cup Q) /\ Len(r) = Len(p) + Len(q)
      /\ \A i \in 1 .. Len(p) + Len(q) : r[i] = IF i <= Len(p) THEN p[i] ELSE q[i - Len(p)]
  BY <1>1, ConcatProperties, Zenon
<1>3. /\ Len(p) \in Nat /\ Len(q) \in Nat
      /\ DOMAIN p = 1 .. Len(p) /\ DOMAIN q = 1 .. Len(q) /\ DOMAIN r = 1 .. Len(p) + Len(q)
  BY <1>2, SeqFacts, LenProperties
<1> HIDE DEF r
<1>4. Elements(r) = P \cup Q
  <2> USE DEF Elements
  <2>1. ASSUME NEW i \in DOMAIN r PROVE r[i] \in P \cup Q
    <3>1. CASE i <= Len(p)
      BY <3>1, <1>2, <1>3
    <3>2. CASE ~(i <= Len(p))
      <4>1. i - Len(p) \in DOMAIN q /\ r[i] = q[i - Len(p)]
        BY <3>2, <1>2, <1>3
      <4> QED
        BY <4>1
    <3> QED
      BY <3>1, <3>2
  <2>2. ASSUME NEW i \in DOMAIN p PROVE p[i] \in {r[j] : j \in DOMAIN r}
    <3>1. i \in DOMAIN r /\ r[i] = p[i]
      BY <1>2, <1>3
    <3> QED
      BY <3>1
  <2>3. ASSUME NEW i \in DOMAIN q PROVE q[i] \in {r[j] : j \in DOMAIN r}
    <3>1. i + Len(p) \in DOMAIN r /\ r[i + Len(p)] = q[i]
      BY <1>2, <1>3
    <3> QED
      BY <3>1
  <2> QED
    BY <2>1, <2>2, <2>3
<1>5. IsSeq(r)
  BY <1>2, <1>4 DEF IsSeq, Elements
<1> QED
  BY <1>2, <1>4, <1>5 DEF r

LEMMA CountConcat ==
  ASSUME NEW p, IsSeq(p), NEW q, IsSeq(q), NEW t
  PROVE  Count(p \o q, t) = Count(p, t) + Count(q, t)
<1> DEFINE r == p \o q
           A == {i \in DOMAIN p : Tag(p[i]) = t}
           B == {i \in DOMAIN q : Tag(q[i]) = t}
           D == {i \in DOMAIN r : Tag(r[i]) = t}
           E == {i \in D : i > Len(p)}
<1>1. /\ IsSeq(r) /\ Len(r) = Len(p) + Len(q)
      /\ \A i \in 1 .. Len(p) + Len(q) : r[i] = IF i <= Len(p) THEN p[i] ELSE q[i - Len(p)]
  BY ConcatFacts
<1>2. /\ Len(p) \in Nat /\ Len(q) \in Nat
      /\ DOMAIN p = 1 .. Len(p) /\ DOMAIN q = 1 .. Len(q) /\ DOMAIN r = 1 .. Len(p) + Len(q)
  BY <1>1, SeqFacts
<1>3. IsFiniteSet(A) /\ IsFiniteSet(B) /\ IsFiniteSet(D)
  BY <1>1, CountFacts
<1> HIDE DEF r
<1>4. D = A \cup E /\ A \cap E = {}
  BY <1>1, <1>2
<1>5. IsFiniteSet(E)
  BY <1>3, FS_Subset
<1>6. ExistsBijection(B, E)
  <2> DEFINE f == [i \in B |-> i + Len(p)]
  <2>1. f \in [B -> E]
    BY <1>1, <1>2
  <2>2. \A i, j \in B : f[i] = f[j] => i = j
    BY <1>2
  <2>3. \A k \in E : \E i \in B : f[i] = k
    <3>1. ASSUME NEW k \in E PROVE k - Len(p) \in B /\ f[k - Len(p)] = k
      BY <1>1, <1>2
    <3> QED
      BY <3>1
  <2>4. f \in Bijection(B, E)
    BY <2>1, <2>2, <2>3 DEF Bijection, Injection, Surjection, IsInjective
  <2> QED
    BY <2>4 DEF ExistsBijection
<1>7. Cardinality(E) = Cardinality(B)
  BY <1>3, <1>6, FS_Bijection
<1>8. Cardinality(D) = Cardinality(A) + Cardinality(E)
  <2> HIDE DEF A, D, E
  <2>1. Cardinality(A \cup E) = Cardinality(A) + Cardinality(E) - Cardinality(A \cap E)
    BY <1>3, <1>5, FS_Union
  <2>2. Cardinality(A \cap E) = 0
    BY <1>4, FS_EmptySet
  <2>3. Cardinality(A) \in Nat /\ Cardinality(E) \in Nat
    BY <1>3, <1>5, FS_CardinalityType
  <2> QED
    BY <2>1, <2>2, <2>3, <1>4
<1> QED
  BY <1>7, <1>8 DEF Count, r

LEMMA OneFacts ==
  ASSUME NEW r
  PROVE  /\ IsSeq(<<r>>) /\ Elements(<<r>>) = {r}
         /\ \A t : Count(<<r>>, t) = IF Tag(r) = t THEN 1 ELSE 0
<1>1. DOMAIN <<r>> = {1} /\ <<r>>[1] = r
  OBVIOUS
<1>2. Elements(<<r>>) = {r}
  BY <1>1 DEF Elements
<1>3. <<r>> \in Seq({r})
  OBVIOUS
<1>4. ASSUME NEW t PROVE Count(<<r>>, t) = IF Tag(r) = t THEN 1 ELSE 0
  <2>1. {i \in DOMAIN <<r>> : Tag(<<r>>[i]) = t} = IF Tag(r) = t THEN {1} ELSE {}
    BY <1>1
  <2> QED
    BY <2>1, FS_Singleton, FS_EmptySet DEF Count
<1> QED
  BY <1>2, <1>3, <1>4 DEF IsSeq, Elements

LEMMA TailFacts ==
  ASSUME NEW q, IsSeq(q), q # <<>>
  PROVE  /\ IsSeq(Tail(q))
         /\ Head(q) \in Elements(q)
         /\ Elements(Tail(q)) \subseteq Elements(q)
         /\ \A t : Count(q, t) = Count(Tail(q), t) + (IF Tag(Head(q)) = t THEN 1 ELSE 0)
<1> DEFINE Q == Elements(q)
           r == Tail(q)
<1>1. /\ Head(q) \in Q /\ r \in Seq(Q) /\ Len(r) = Len(q) - 1
      /\ \A i \in 1 .. Len(r) : r[i] = q[i + 1]
  BY HeadTailProperties DEF IsSeq, Elements
<1>2. Len(q) \in Nat \ {0} /\ DOMAIN q = 1 .. Len(q) /\ DOMAIN r = 1 .. Len(r) /\ q[1] = Head(q)
  BY <1>1, SeqFacts, LenProperties
<1> HIDE DEF r
<1>3. \A i \in DOMAIN r : r[i] \in Q
  BY <1>1, <1>2
<1>4. IsSeq(r)
  <2> DEFINE R == Elements(r)
  <2>1. \A i \in 1 .. Len(r) : r[i] \in R
    BY <1>2 DEF Elements
  <2>2. r = [i \in 1 .. Len(r) |-> r[i]] /\ Len(r) \in Nat
    BY <1>1, LenProperties
  <2> HIDE DEF R
  <2>3. r \in [1 .. Len(r) -> R]
    BY <2>1, <2>2
  <2>4. r \in Seq(R)
    BY <2>2, <2>3, SeqDef
  <2> QED
    BY <2>4 DEF IsSeq, Elements, R
<1>5. q = <<Head(q)>> \o r
  <2>1. <<Head(q)>> \in Seq(Q) /\ q \in Seq(Q)
    BY <1>1 DEF IsSeq, Elements
  <2>2. /\ <<Head(q)>> \o r \in Seq(Q) /\ Len(<<Head(q)>> \o r) = 1 + Len(r)
        /\ \A i \in 1 .. 1 + Len(r) : (<<Head(q)>> \o r)[i] = IF i <= 1 THEN Head(q) ELSE r[i - 1]
    BY <2>1, <1>1, ConcatProperties
  <2>3. \A i \in 1 .. Len(q) : q[i] = (<<Head(q)>> \o r)[i]
    BY <2>2, <1>1, <1>2
  <2> QED
    BY <2>1, <2>2, <2>3, <1>1, <1>2, SeqEqual
<1>6. ASSUME NEW t PROVE Count(q, t) = Count(r, t) + (IF Tag(Head(q)) = t THEN 1 ELSE 0)
  <2>1. Count(<<Head(q)>> \o r, t) = Count(<<Head(q)>>, t) + Count(r, t)
    BY <1>4, OneFacts, CountConcat
  <2>2. Count(<<Head(q)>>, t) = IF Tag(Head(q)) = t THEN 1 ELSE 0
    BY OneFacts
  <2>3. Count(r, t) \in Nat
    BY <1>4, CountFacts
  <2>4. Count(q, t) = Count(<<Head(q)>> \o r, t)
    BY <1>5
  <2>5. Count(q, t) = (IF Tag(Head(q)) = t THEN 1 ELSE 0) + Count(r, t)
    BY <2>1, <2>2, <2>4
  <2> QED
    BY <2>3, <2>5
<1> QED
  BY <1>1, <1>3, <1>4, <1>6 DEF r, Elements

-----------------------------------------------------------------------------
(* What a step does to the records on the way.                             *)

LEMMA PeerFacts == /\ Endpoint = {C, S} /\ C # S /\ Peer(C) = S /\ Peer(S) = C
                   /\ \A e \in Endpoint : Peer(e) \in Endpoint /\ Peer(e) # e /\ Peer(Peer(e)) = e
BY DEF Peer, Endpoint

LEMMA FlyingFacts ==
  ASSUME Streams, NEW e \in Endpoint
  PROVE  \A t : /\ Count(wire[e], t) \in Nat /\ Count(out[e], t) \in Nat
                /\ Flying(e, t) \in Nat
<1>1. Peer(e) \in Endpoint
  BY PeerFacts
<1>2. IsSeq(wire[e]) /\ IsSeq(out[e]) /\ IsSeq(out[Peer(e)])
  BY <1>1 DEF Streams
<1>3. \A t : Count(wire[e], t) \in Nat /\ Count(out[e], t) \in Nat /\ Count(out[Peer(e)], t) \in Nat
  BY <1>2, CountFacts
<1> QED
  BY <1>3 DEF Flying

\* One record more in one direction, none less in the other.
Adds(e, r) ==
  /\ Streams'
  /\ Traffic(Peer(e))' = Traffic(Peer(e)) \cup {r} /\ Traffic(e)' = Traffic(e)
  /\ \A t : /\ Flying(Peer(e), t)' = Flying(Peer(e), t) + (IF Tag(r) = t THEN 1 ELSE 0)
            /\ Flying(e, t)' = Flying(e, t)
  /\ Elements(out[Peer(e)])' = Elements(out[Peer(e)])
  /\ Elements(out[e])' \subseteq Elements(out[e]) \cup {r}

LEMMA JoinFacts ==
  ASSUME NEW p, IsSeq(p), NEW q, IsSeq(q)
  PROVE  /\ IsSeq(p \o q) /\ Elements(p \o q) = Elements(p) \cup Elements(q)
         /\ \A t : /\ Count(p, t) \in Nat /\ Count(q, t) \in Nat
                   /\ Count(p \o q, t) = Count(p, t) + Count(q, t)
BY ConcatFacts, CountConcat, CountFacts

LEMMA EmptyFacts == IsSeq(<<>>) /\ Elements(<<>>) = {} /\ \A t : Count(<<>>, t) = 0
BY EmptySeqFacts DEF Elements

\* The buffer is written out, and a record after it.
LEMMA JoinThree ==
  ASSUME NEW p, IsSeq(p), NEW q, IsSeq(q), NEW u, IsSeq(u)
  PROVE  /\ IsSeq(p \o q \o u) /\ Elements(p \o q \o u) = Elements(p) \cup Elements(q) \cup Elements(u)
         /\ \A t : Count(p \o q \o u, t) = Count(p, t) + Count(q, t) + Count(u, t)
<1>1. /\ IsSeq(p \o q) /\ Elements(p \o q) = Elements(p) \cup Elements(q)
      /\ \A t : Count(p \o q, t) = Count(p, t) + Count(q, t)
  BY JoinFacts
<1> QED
  BY <1>1, JoinFacts

LEMMA PutAdds ==
  ASSUME Streams, NEW e \in Endpoint, NEW r, Put(e, <<r>>)
  PROVE  Adds(e, r) /\ (~ssl[e].buffered => Elements(out[e])' = Elements(out[e]))
<1> DEFINE x == Peer(e)
<1>1. x \in Endpoint /\ x # e /\ Peer(x) = e /\ x = Peer(e) /\ Endpoint = {e, x}
  BY PeerFacts
<1>2. IsSeq(wire[x]) /\ IsSeq(out[e]) /\ IsSeq(wire[e]) /\ IsSeq(out[x])
      /\ DOMAIN wire = Endpoint /\ DOMAIN out = Endpoint
  BY <1>1 DEF Streams
<1>0. \A t : /\ Count(wire[x], t) \in Nat /\ Count(out[e], t) \in Nat
            /\ Count(wire[e], t) \in Nat /\ Count(out[x], t) \in Nat
  BY <1>2, CountFacts
<1> HIDE DEF x
<1>3. /\ IsSeq(<<r>>) /\ Elements(<<r>>) = {r}
      /\ \A t : Count(<<r>>, t) = IF Tag(r) = t THEN 1 ELSE 0
  BY OneFacts
<1>4. /\ DOMAIN wire' = Endpoint /\ DOMAIN out' = Endpoint
      /\ wire'[e] = wire[e] /\ out'[x] = out[x]
  BY <1>1, <1>2 DEF Put
<1>5. \/ wire'[x] = wire[x] \o <<r>> /\ out'[e] = out[e]
      \/ wire'[x] = wire[x] /\ out'[e] = out[e] \o <<r>> /\ ssl[e].buffered
      \/ wire'[x] = wire[x] \o out[e] \o <<r>> /\ out'[e] = <<>> /\ ssl[e].buffered
  BY <1>1, <1>2 DEF Put
<1>6. /\ IsSeq(wire'[x]) /\ IsSeq(out'[e])
      /\ Elements(wire'[x]) \cup Elements(out'[e]) = Elements(wire[x]) \cup Elements(out[e]) \cup {r}
      /\ Elements(out'[e]) \subseteq Elements(out[e]) \cup {r}
      /\ ~ssl[e].buffered => Elements(out'[e]) = Elements(out[e])
      /\ \A t : Count(wire'[x], t) + Count(out'[e], t) =
                Count(wire[x], t) + Count(out[e], t) + (IF Tag(r) = t THEN 1 ELSE 0)
  <2>1. CASE wire'[x] = wire[x] \o <<r>> /\ out'[e] = out[e]
    BY <2>1, <1>0, <1>2, <1>3, JoinFacts, SMTT(20)
  <2>2. CASE wire'[x] = wire[x] /\ out'[e] = out[e] \o <<r>> /\ ssl[e].buffered
    BY <2>2, <1>0, <1>2, <1>3, JoinFacts
  <2>3. CASE wire'[x] = wire[x] \o out[e] \o <<r>> /\ out'[e] = <<>> /\ ssl[e].buffered
    <3>1. /\ IsSeq(wire[x] \o out[e] \o <<r>>)
          /\ Elements(wire[x] \o out[e] \o <<r>>) = Elements(wire[x]) \cup Elements(out[e]) \cup {r}
          /\ \A t : Count(wire[x] \o out[e] \o <<r>>, t) =
                    Count(wire[x], t) + Count(out[e], t) + (IF Tag(r) = t THEN 1 ELSE 0)
      BY <1>0, <1>2, <1>3, JoinThree
    <3> QED
      BY <2>3, <3>1, <1>0, EmptyFacts
  <2> QED
    BY <1>5, <2>1, <2>2, <2>3
<1>8. /\ Traffic(e) = Elements(wire[e]) \cup Elements(out[x])
      /\ Traffic(x) = Elements(wire[x]) \cup Elements(out[e])
  BY <1>1 DEF Traffic
<1>9. /\ Traffic(e)' = Elements(wire'[e]) \cup Elements(out'[x])
      /\ Traffic(x)' = Elements(wire'[x]) \cup Elements(out'[e])
  BY <1>1 DEF Traffic
<1>10. \A t : /\ Flying(e, t) = Count(wire[e], t) + Count(out[x], t)
              /\ Flying(x, t) = Count(wire[x], t) + Count(out[e], t)
  BY <1>1 DEF Flying
<1>11. \A t : /\ Flying(e, t)' = Count(wire'[e], t) + Count(out'[x], t)
              /\ Flying(x, t)' = Count(wire'[x], t) + Count(out'[e], t)
  BY <1>1 DEF Flying
<1>12. Streams'
  BY <1>1, <1>2, <1>4, <1>6 DEF Streams
<1> QED
  BY <1>0, <1>1, <1>2, <1>4, <1>6, <1>8, <1>9, <1>10, <1>11, <1>12 DEF Adds

LEMMA FatalAdds ==
  ASSUME Streams, NEW e \in Endpoint, NEW r,
         wire' = [wire EXCEPT ![Peer(e)] = @ \o out[e] \o <<r>>],
         out' = [out EXCEPT ![e] = <<>>]
  PROVE  Adds(e, r)
<1> DEFINE x == Peer(e)
<1>1. x \in Endpoint /\ x # e /\ Peer(x) = e /\ x = Peer(e) /\ Endpoint = {e, x}
  BY PeerFacts
<1>2. IsSeq(wire[x]) /\ IsSeq(out[e]) /\ IsSeq(wire[e]) /\ IsSeq(out[x])
      /\ DOMAIN wire = Endpoint /\ DOMAIN out = Endpoint
  BY <1>1 DEF Streams
<1>0. \A t : /\ Count(wire[x], t) \in Nat /\ Count(out[e], t) \in Nat
            /\ Count(wire[e], t) \in Nat /\ Count(out[x], t) \in Nat
  BY <1>2, CountFacts
<1> HIDE DEF x
<1>3. /\ DOMAIN wire' = Endpoint /\ DOMAIN out' = Endpoint
      /\ wire'[e] = wire[e] /\ out'[x] = out[x]
      /\ wire'[x] = wire[x] \o out[e] \o <<r>> /\ out'[e] = <<>>
  BY <1>1, <1>2
<1>4. /\ IsSeq(wire'[x]) /\ IsSeq(out'[e]) /\ Elements(out'[e]) = {}
      /\ Elements(wire'[x]) = Elements(wire[x]) \cup Elements(out[e]) \cup {r}
      /\ \A t : Count(wire'[x], t) + Count(out'[e], t) =
                Count(wire[x], t) + Count(out[e], t) + (IF Tag(r) = t THEN 1 ELSE 0)
  <2>1. /\ IsSeq(wire[x] \o out[e] \o <<r>>)
        /\ Elements(wire[x] \o out[e] \o <<r>>) = Elements(wire[x]) \cup Elements(out[e]) \cup {r}
        /\ \A t : Count(wire[x] \o out[e] \o <<r>>, t) =
                  Count(wire[x], t) + Count(out[e], t) + (IF Tag(r) = t THEN 1 ELSE 0)
    <3>1. IsSeq(<<r>>) /\ Elements(<<r>>) = {r} /\ \A t : Count(<<r>>, t) = IF Tag(r) = t THEN 1 ELSE 0
      BY OneFacts
    <3> QED
      BY <1>0, <1>2, <3>1, JoinThree
  <2> QED
    BY <2>1, <1>0, <1>3, EmptyFacts
<1>8. /\ Traffic(e) = Elements(wire[e]) \cup Elements(out[x])
      /\ Traffic(x) = Elements(wire[x]) \cup Elements(out[e])
  BY <1>1 DEF Traffic
<1>9. /\ Traffic(e)' = Elements(wire'[e]) \cup Elements(out'[x])
      /\ Traffic(x)' = Elements(wire'[x]) \cup Elements(out'[e])
  BY <1>1 DEF Traffic
<1>10. \A t : /\ Flying(e, t) = Count(wire[e], t) + Count(out[x], t)
              /\ Flying(x, t) = Count(wire[x], t) + Count(out[e], t)
  BY <1>1 DEF Flying
<1>11. \A t : /\ Flying(e, t)' = Count(wire'[e], t) + Count(out'[x], t)
              /\ Flying(x, t)' = Count(wire'[x], t) + Count(out'[e], t)
  BY <1>1 DEF Flying
<1>12. Streams'
  BY <1>1, <1>2, <1>3, <1>4 DEF Streams
<1> QED
  BY <1>0, <1>1, <1>2, <1>3, <1>4, <1>8, <1>9, <1>10, <1>11, <1>12 DEF Adds

\* No record more in either direction, and none of type app less in the buffers.
Keeps ==
  /\ Streams'
  /\ \A e \in Endpoint :
       /\ Traffic(e)' \subseteq Traffic(e) /\ Elements(out[e])' \subseteq Elements(out[e])
       /\ \A t : Flying(e, t)' \in Nat /\ Flying(e, t)' <= Flying(e, t)
       /\ Flying(e, App)' = Flying(e, App)

LEMMA StillKeeps == ASSUME Streams, UNCHANGED <<wire, out>> PROVE Keeps
BY FlyingFacts DEF Keeps, Streams, Traffic, Flying

LEMMA FlushKeeps == ASSUME Streams, NEW e \in Endpoint, Flush(e) PROVE Keeps
<1> DEFINE x == Peer(e)
<1>1. x \in Endpoint /\ x # e /\ Peer(x) = e /\ x = Peer(e) /\ Endpoint = {e, x}
  BY PeerFacts
<1>2. IsSeq(wire[x]) /\ IsSeq(out[e]) /\ IsSeq(wire[e]) /\ IsSeq(out[x])
      /\ DOMAIN wire = Endpoint /\ DOMAIN out = Endpoint
  BY <1>1 DEF Streams
<1>0. \A t : /\ Count(wire[x], t) \in Nat /\ Count(out[e], t) \in Nat
            /\ Count(wire[e], t) \in Nat /\ Count(out[x], t) \in Nat
  BY <1>2, CountFacts
<1> HIDE DEF x
<1>3. /\ DOMAIN wire' = Endpoint /\ DOMAIN out' = Endpoint
      /\ wire'[e] = wire[e] /\ out'[x] = out[x]
      /\ wire'[x] = wire[x] \o out[e] /\ out'[e] = <<>>
  BY <1>1, <1>2 DEF Flush
<1>4. /\ IsSeq(wire'[x]) /\ IsSeq(out'[e]) /\ Elements(out'[e]) = {}
      /\ Elements(wire'[x]) = Elements(wire[x]) \cup Elements(out[e])
      /\ \A t : Count(wire'[x], t) + Count(out'[e], t) = Count(wire[x], t) + Count(out[e], t)
  BY <1>0, <1>2, <1>3, JoinFacts, EmptyFacts
<1>8. /\ Traffic(e) = Elements(wire[e]) \cup Elements(out[x])
      /\ Traffic(x) = Elements(wire[x]) \cup Elements(out[e])
  BY <1>1 DEF Traffic
<1>9. /\ Traffic(e)' = Elements(wire'[e]) \cup Elements(out'[x])
      /\ Traffic(x)' = Elements(wire'[x]) \cup Elements(out'[e])
  BY <1>1 DEF Traffic
<1>10. \A t : /\ Flying(e, t) = Count(wire[e], t) + Count(out[x], t)
              /\ Flying(x, t) = Count(wire[x], t) + Count(out[e], t)
  BY <1>1 DEF Flying
<1>11. \A t : /\ Flying(e, t)' = Count(wire'[e], t) + Count(out'[x], t)
              /\ Flying(x, t)' = Count(wire'[x], t) + Count(out'[e], t)
  BY <1>1 DEF Flying
<1>12. Streams'
  BY <1>1, <1>2, <1>3, <1>4 DEF Streams
<1>13. /\ Traffic(e)' = Traffic(e) /\ Elements(out'[e]) \subseteq Elements(out[e])
       /\ \A t : Flying(e, t)' = Flying(e, t) /\ Flying(e, t) \in Nat
  BY <1>0, <1>3, <1>4, <1>8, <1>9, <1>10, <1>11
<1>14. /\ Traffic(x)' = Traffic(x) /\ Elements(out'[x]) \subseteq Elements(out[x])
       /\ \A t : Flying(x, t)' = Flying(x, t) /\ Flying(x, t) \in Nat
  BY <1>0, <1>3, <1>4, <1>8, <1>9, <1>10, <1>11
<1> QED
  BY <1>1, <1>12, <1>13, <1>14 DEF Keeps

LEMMA DropKeeps ==
  ASSUME Streams, Records, NEW e \in Endpoint, DropBuffer(e)
  PROVE  Keeps
<1> DEFINE x == Peer(e)
<1>1. x \in Endpoint /\ x # e /\ Peer(x) = e /\ x = Peer(e) /\ Endpoint = {e, x}
  BY PeerFacts
<1>2. IsSeq(wire[x]) /\ IsSeq(out[e]) /\ IsSeq(wire[e]) /\ IsSeq(out[x])
      /\ DOMAIN wire = Endpoint /\ DOMAIN out = Endpoint
  BY <1>1 DEF Streams
<1>0. \A t : /\ Count(wire[x], t) \in Nat /\ Count(out[e], t) \in Nat
            /\ Count(wire[e], t) \in Nat /\ Count(out[x], t) \in Nat
  BY <1>2, CountFacts
<1> HIDE DEF x
<1>3. /\ wire' = wire /\ DOMAIN out' = Endpoint
      /\ out'[x] = out[x] /\ out'[e] = <<>>
  BY <1>1, <1>2 DEF DropBuffer
<1>4. /\ IsSeq(out'[e]) /\ Elements(out'[e]) = {} /\ \A t : Count(out'[e], t) = 0
  BY <1>3, EmptyFacts
<1>5. \A t : Count(out[e], t) \in Nat
  BY <1>2, CountFacts
<1>6. Count(out[e], App) = 0
  <2>1. {i \in DOMAIN out[e] : Tag(out[e][i]) = App} = {}
    BY DEF Records, Elements, Tag, App
  <2> QED
    BY <2>1, FS_EmptySet DEF Count
<1>8. /\ Traffic(e) = Elements(wire[e]) \cup Elements(out[x])
      /\ Traffic(x) = Elements(wire[x]) \cup Elements(out[e])
  BY <1>1 DEF Traffic
<1>9. /\ Traffic(e)' = Elements(wire'[e]) \cup Elements(out'[x])
      /\ Traffic(x)' = Elements(wire'[x]) \cup Elements(out'[e])
  BY <1>1 DEF Traffic
<1>10. \A t : /\ Flying(e, t) = Count(wire[e], t) + Count(out[x], t)
              /\ Flying(x, t) = Count(wire[x], t) + Count(out[e], t)
  BY <1>1 DEF Flying
<1>11. \A t : /\ Flying(e, t)' = Count(wire'[e], t) + Count(out'[x], t)
              /\ Flying(x, t)' = Count(wire'[x], t) + Count(out'[e], t)
  BY <1>1 DEF Flying
<1>12. Streams'
  BY <1>1, <1>2, <1>3, <1>4 DEF Streams
<1>13. /\ Traffic(e)' = Traffic(e) /\ Elements(out'[e]) \subseteq Elements(out[e])
       /\ \A t : Flying(e, t)' = Flying(e, t) /\ Flying(e, t) \in Nat
  BY <1>0, <1>3, <1>4, <1>8, <1>9, <1>10, <1>11
<1>14. /\ Traffic(x)' \subseteq Traffic(x) /\ Elements(out'[x]) \subseteq Elements(out[x])
       /\ \A t : Flying(x, t)' \in Nat /\ Flying(x, t)' <= Flying(x, t)
       /\ Flying(x, App)' = Flying(x, App)
  BY <1>0, <1>3, <1>4, <1>6, <1>8, <1>9, <1>10, <1>11
<1> QED
  BY <1>1, <1>12, <1>13, <1>14 DEF Keeps

\* One record is taken off.
Loses(e, r) ==
  /\ Streams' /\ r \in Traffic(e)
  /\ Traffic(e)' \subseteq Traffic(e) /\ Traffic(Peer(e))' = Traffic(Peer(e))
  /\ \A x \in Endpoint : Elements(out[x])' = Elements(out[x])
  /\ \A t : /\ Flying(e, t) = Flying(e, t)' + (IF Tag(r) = t THEN 1 ELSE 0)
            /\ Flying(e, t)' \in Nat
            /\ Flying(Peer(e), t)' = Flying(Peer(e), t)

LEMMA TakeLoses ==
  ASSUME Streams, NEW e \in Endpoint, wire[e] # <<>>, Take(e), UNCHANGED out
  PROVE  Loses(e, Head1(e))
<1> DEFINE x == Peer(e)
<1>1. x \in Endpoint /\ x # e /\ Peer(x) = e /\ x = Peer(e) /\ Endpoint = {e, x}
  BY PeerFacts
<1>2. IsSeq(wire[x]) /\ IsSeq(out[e]) /\ IsSeq(wire[e]) /\ IsSeq(out[x])
      /\ DOMAIN wire = Endpoint /\ DOMAIN out = Endpoint
  BY <1>1 DEF Streams
<1>0. \A t : /\ Count(wire[x], t) \in Nat /\ Count(out[e], t) \in Nat
            /\ Count(wire[e], t) \in Nat /\ Count(out[x], t) \in Nat
  BY <1>2, CountFacts
<1> HIDE DEF x
<1>3. /\ DOMAIN wire' = Endpoint /\ out' = out
      /\ wire'[x] = wire[x] /\ wire'[e] = Tail(wire[e])
  BY <1>1, <1>2 DEF Take
<1>4. /\ IsSeq(wire'[e]) /\ Head1(e) \in Elements(wire[e])
      /\ Elements(wire'[e]) \subseteq Elements(wire[e])
      /\ \A t : Count(wire[e], t) = Count(wire'[e], t) + (IF Tag(Head1(e)) = t THEN 1 ELSE 0)
  BY <1>2, <1>3, TailFacts DEF Head1
<1>5. \A t : Count(wire'[e], t) \in Nat /\ Count(out[x], t) \in Nat
  BY <1>2, <1>4, CountFacts
<1>8. /\ Traffic(e) = Elements(wire[e]) \cup Elements(out[x])
      /\ Traffic(x) = Elements(wire[x]) \cup Elements(out[e])
  BY <1>1 DEF Traffic
<1>9. /\ Traffic(e)' = Elements(wire'[e]) \cup Elements(out'[x])
      /\ Traffic(x)' = Elements(wire'[x]) \cup Elements(out'[e])
  BY <1>1 DEF Traffic
<1>10. \A t : /\ Flying(e, t) = Count(wire[e], t) + Count(out[x], t)
              /\ Flying(x, t) = Count(wire[x], t) + Count(out[e], t)
  BY <1>1 DEF Flying
<1>11. \A t : /\ Flying(e, t)' = Count(wire'[e], t) + Count(out'[x], t)
              /\ Flying(x, t)' = Count(wire'[x], t) + Count(out'[e], t)
  BY <1>1 DEF Flying
<1>12. Streams'
  BY <1>1, <1>2, <1>3, <1>4 DEF Streams
<1> QED
  BY <1>0, <1>1, <1>2, <1>3, <1>4, <1>5, <1>8, <1>9, <1>10, <1>11, <1>12 DEF Loses

-----------------------------------------------------------------------------
(* Which steps keep which part of the invariant.                           *)

Good(e, s) == (e = C => GoodClient(s)) /\ (e = S => GoodServer(s))

LEMMA EndBecomes ==
  ASSUME Ends, NEW e \in Endpoint, NEW new, Become(e, new), Good(e, new), conf' = conf
  PROVE  /\ Ends' /\ ssl'[e] = new /\ ssl'[Peer(e)] = ssl[Peer(e)]
         /\ Typed(ssl[e]) /\ Typed(new)
<1>1. /\ DOMAIN ssl' = Endpoint /\ ssl'[e] = new /\ ssl'[Peer(e)] = ssl[Peer(e)]
  BY PeerFacts DEF Ends, Become
<1>2. GoodClient(ssl'[C]) /\ GoodServer(ssl'[S])
  BY <1>1, PeerFacts DEF Ends, Good
<1>3. GoodClient(ssl[C])'
  BY <1>2
     DEF GoodClient, Typed, Keys, ClientKeys, ClientWindow, ClientCalls, ClientCounts,
         Vouched, Settled, WritesNew, ReadsNew, Renews, Closes
<1>4. GoodServer(ssl[S])'
  BY <1>2
     DEF GoodServer, Typed, Keys, ServerKeys, ServerCalls, ServerCounts, Vouched,
         Settled, WritesNew, ReadsNew, Renews, Closes, Apart
<1> QED
  BY <1>1, <1>3, <1>4, PeerFacts DEF Ends, Good, GoodClient, GoodServer

\* An end's part in the hellos, and in the closing, is what it was.
SameHellos(e, s, t) ==
  /\ t.total = s.total /\ t.cr = s.cr /\ t.sr = s.sr
  /\ e = S => (t.state = "RENEGOTIATE" <=> s.state = "RENEGOTIATE")
SameClosing(s, t) ==
  /\ (s.failed => t.failed) /\ t.shut = s.shut
  /\ t.shutdown = s.shutdown \/ (t.shutdown = {} /\ (Apart(conf) => "sent" \notin s.shutdown))

Fewer(t) == \A e \in Endpoint : Flying(e, t)' \in Nat /\ Flying(e, t)' <= Flying(e, t)
Nothing(T) == \A e \in Endpoint : \A r \in Traffic(e)' : r \in Traffic(e) \/ Tag(r) \notin T

LEMMA HellosKept ==
  ASSUME Inv, NEW e \in Endpoint, conf' = conf,
         ssl'[Peer(e)] = ssl[Peer(e)], SameHellos(e, ssl[e], ssl'[e]),
         Fewer(Hello), Fewer(Request), Nothing({Hello, Request, ServerHello})
  PROVE  Hellos'
<1>1. \A x \in Endpoint : SameHellos(x, ssl[x], ssl'[x])
  BY PeerFacts DEF SameHellos
<1>2. /\ ssl'[C].total = ssl[C].total /\ ssl'[C].cr = ssl[C].cr /\ ssl'[C].sr = ssl[C].sr
      /\ ssl'[S].total = ssl[S].total /\ ssl'[S].cr = ssl[S].cr /\ ssl'[S].sr = ssl[S].sr
      /\ Pending' = Pending /\ Pending \in Nat
  BY <1>1, PeerFacts DEF SameHellos, Pending
<1>3. /\ ssl[C].total \in Nat /\ ssl[C].cr \in Nat /\ ssl[S].total \in Nat /\ ssl[S].sr \in Nat
  BY DEF Inv, Ends, GoodClient, GoodServer, Typed
<1>4. \A x \in Endpoint : Flying(x, Hello) \in Nat /\ Flying(x, Request) \in Nat
  BY FlyingFacts DEF Inv
<1>5. /\ \A r \in Traffic(C)' : Tag(r) = Request => Renews(conf, S)
      /\ \A r \in Traffic(C)' : Tag(r) = ServerHello => r.body.rnd \in 0 .. ssl[S].sr
      /\ \A r \in Traffic(S)' : Tag(r) = Hello => r.body.rnd \in 0 .. ssl[C].cr
  BY PeerFacts DEF Inv, Hellos, Nothing
<1>6. MaxRenego \in Nat
  BY ConfigAssumption
<1>7. /\ Flying(C, Request)' \in Nat /\ Flying(C, Request)' <= Flying(C, Request)
      /\ Flying(S, Hello)' \in Nat /\ Flying(S, Hello)' <= Flying(S, Hello)
  BY PeerFacts DEF Fewer
<1>8. /\ Flying(C, Request) \in Nat /\ Flying(S, Hello) \in Nat
  BY <1>4, PeerFacts
<1>9. /\ ssl[C].sr <= ssl[S].sr /\ ssl[S].cr <= ssl[C].cr
      /\ Flying(C, Request)' + Pending <= ssl[S].total
      /\ ssl[C].total + Flying(C, Request)' + Pending <= MaxRenego + ssl[S].total
      /\ ssl[S].sr + Flying(S, Hello)' <= ssl[C].cr
  BY <1>2, <1>3, <1>6, <1>7, <1>8 DEF Inv, Hellos
<1> QED
  BY <1>2, <1>5, <1>9 DEF Hellos, Renews

LEMMA CountedKept ==
  ASSUME Inv, NEW e \in Endpoint, UNCHANGED <<conf, sent, got>>,
         ssl'[Peer(e)] = ssl[Peer(e)], SameClosing(ssl[e], ssl'[e]),
         \A x \in Endpoint : Flying(x, App)' = Flying(x, App)
  PROVE  Counted'
<1>1. \A x \in Endpoint : Apart(conf) /\ "sent" \notin ssl'[x].shutdown => "sent" \notin ssl[x].shutdown
  BY PeerFacts DEF SameClosing
<1>2. Apart(conf)' = Apart(conf)
  BY DEF Apart, Renews, Closes
<1> QED
  BY <1>1, <1>2 DEF Inv, Counted

LEMMA ClosedKept ==
  ASSUME Inv, NEW e \in Endpoint, conf' = conf,
         ssl'[Peer(e)] = ssl[Peer(e)], SameClosing(ssl[e], ssl'[e]), Nothing({<<"close_notify">>})
  PROVE  Closed'
<1>1. Apart(conf)' = Apart(conf) /\ NoHurry(conf)' = NoHurry(conf)
  BY DEF Apart, Renews, Closes, NoHurry
<1>2. SUFFICES ASSUME Apart(conf), NEW x \in Endpoint
               PROVE  /\ \A r \in Traffic(x)' : r.type = "close_notify" => "sent" \in ssl'[Peer(x)].shutdown
                      /\ "received" \in ssl'[x].shutdown /\ ~ssl'[x].failed => "sent" \in ssl'[Peer(x)].shutdown
                      /\ NoHurry(conf) /\ ssl'[x].shut =>
                           ssl'[x].shutdown = {"sent", "received"} /\ "sent" \in ssl'[Peer(x)].shutdown
  BY <1>1 DEF Closed
<1>3. \A y \in Endpoint : SameClosing(ssl[y], ssl'[y])
  BY PeerFacts DEF SameClosing
<1>4. \A y \in Endpoint : "sent" \in ssl[y].shutdown => "sent" \in ssl'[y].shutdown
  BY <1>2, <1>3 DEF SameClosing
<1>5. \A y \in Endpoint : "received" \in ssl'[y].shutdown => "received" \in ssl[y].shutdown
  BY <1>3 DEF SameClosing
<1>6. ASSUME NEW r \in Traffic(x)', r.type = "close_notify" PROVE "sent" \in ssl'[Peer(x)].shutdown
  <2>1. Tag(r) = <<"close_notify">>
    BY <1>6 DEF Tag
  <2>2. r \in Traffic(x)
    BY <2>1 DEF Nothing
  <2> QED
    BY <2>2, <1>2, <1>4, <1>6, PeerFacts DEF Inv, Closed
<1>7. "received" \in ssl'[x].shutdown /\ ~ssl'[x].failed => "sent" \in ssl'[Peer(x)].shutdown
  BY <1>2, <1>3, <1>4, <1>5, PeerFacts DEF Inv, Closed, SameClosing
<1>8. ASSUME NoHurry(conf), ssl'[x].shut
      PROVE  ssl'[x].shutdown = {"sent", "received"} /\ "sent" \in ssl'[Peer(x)].shutdown
  BY <1>2, <1>3, <1>4, <1>8, PeerFacts DEF Inv, Closed, SameClosing
<1> QED
  BY <1>6, <1>7, <1>8

LEMMA RecordsKept ==
  ASSUME Inv, \A x \in Endpoint : \A r \in Traffic(x)' : r \in Traffic(x) \/ r.type \in RecordTypes,
         \A x \in Endpoint : \A r \in Elements(out[x])' : r \in Elements(out[x]) \/ r.type # "app"
  PROVE  Records'
BY DEF Inv, Records

-----------------------------------------------------------------------------
(* Steps without news for the hellos, the data and the closing.            *)

\* A step that sends and reads nothing.
LEMMA KeepInv ==
  ASSUME Inv, NEW e \in Endpoint, NEW new, Become(e, new), Good(e, new),
         SameHellos(e, ssl[e], new), SameClosing(ssl[e], new), Keeps, UNCHANGED <<conf, sent, got>>
  PROVE  Inv'
<1>1. Ends' /\ ssl'[e] = new /\ ssl'[Peer(e)] = ssl[Peer(e)]
  BY EndBecomes DEF Inv
<1>2. Hellos'
  BY <1>1, HellosKept DEF Keeps, Fewer, Nothing
<1>3. Counted'
  BY <1>1, CountedKept DEF Keeps
<1>4. Closed'
  BY <1>1, ClosedKept DEF Keeps, Nothing
<1>5. Records'
  BY RecordsKept DEF Keeps
<1> QED
  BY <1>1, <1>2, <1>3, <1>4, <1>5 DEF Inv, Keeps

\* A step that reads a record other than data.
LEMMA LoseInv ==
  ASSUME Inv, NEW e \in Endpoint, NEW new, Become(e, new), Good(e, new),
         SameHellos(e, ssl[e], new), SameClosing(ssl[e], new),
         NEW r, Loses(e, r), r.type # "app", UNCHANGED <<conf, sent, got>>
  PROVE  Inv'
<1>1. Ends' /\ ssl'[e] = new /\ ssl'[Peer(e)] = ssl[Peer(e)]
  BY EndBecomes DEF Inv
<1>2. \A x \in Endpoint : \A t : Flying(x, t) \in Nat
  BY FlyingFacts DEF Inv
<1>3. ASSUME NEW t, NEW x \in Endpoint
      PROVE  Flying(x, t)' \in Nat /\ Flying(x, t)' <= Flying(x, t)
  <2>1. CASE x = e
    BY <2>1, <1>2 DEF Loses
  <2>2. CASE x = Peer(e)
    BY <2>2, <1>2, PeerFacts DEF Loses
  <2> QED
    BY <2>1, <2>2, PeerFacts
<1>4. \A x \in Endpoint : Flying(x, App)' = Flying(x, App)
  <2>1. Tag(r) # App
    BY DEF Tag, App
  <2> QED
    BY <2>1, <1>2, PeerFacts DEF Loses
<1>5. \A x \in Endpoint : Traffic(x)' \subseteq Traffic(x)
  BY PeerFacts DEF Loses
<1>6. Hellos'
  BY <1>1, <1>3, <1>5, HellosKept DEF Fewer, Nothing
<1>7. Counted'
  BY <1>1, <1>4, CountedKept
<1>8. Closed'
  BY <1>1, <1>5, ClosedKept DEF Nothing
<1>9. Records'
  BY <1>5, RecordsKept DEF Loses
<1> QED
  BY <1>1, <1>6, <1>7, <1>8, <1>9 DEF Inv, Loses

\* A step that sends a record which nobody counts.
LEMMA AddInv ==
  ASSUME Inv, NEW e \in Endpoint, NEW new, Become(e, new), Good(e, new),
         SameHellos(e, ssl[e], new), SameClosing(ssl[e], new),
         NEW r, Adds(e, r), r.type \in RecordTypes \ {"app", "close_notify"},
         Tag(r) \notin {Hello, Request, ServerHello}, UNCHANGED <<conf, sent, got>>
  PROVE  Inv'
<1>1. Ends' /\ ssl'[e] = new /\ ssl'[Peer(e)] = ssl[Peer(e)]
  BY EndBecomes DEF Inv
<1>2. \A x \in Endpoint : \A t : Flying(x, t) \in Nat
  BY FlyingFacts DEF Inv
<1>3. ASSUME NEW t, Tag(r) # t, NEW x \in Endpoint PROVE Flying(x, t)' = Flying(x, t)
  BY <1>2, <1>3, PeerFacts DEF Adds
<1>4. Tag(r) # App /\ Tag(r) # <<"close_notify">>
  BY DEF Tag, App
<1>5. \A x \in Endpoint : \A q \in Traffic(x)' : q \in Traffic(x) \/ q = r
  BY PeerFacts DEF Adds
<1>6. Hellos'
  <2>1. Fewer(Hello) /\ Fewer(Request)
    BY <1>2, <1>3 DEF Fewer
  <2>2. Nothing({Hello, Request, ServerHello})
    BY <1>5 DEF Nothing
  <2> QED
    BY <1>1, <2>1, <2>2, HellosKept
<1>7. Counted'
  BY <1>1, <1>3, <1>4, CountedKept
<1>8. Closed'
  <2>1. Nothing({<<"close_notify">>})
    BY <1>4, <1>5 DEF Nothing
  <2> QED
    BY <1>1, <2>1, ClosedKept
<1>9. Records'
  <2>1. \A x \in Endpoint : \A q \in Elements(out[x])' : q \in Elements(out[x]) \/ q = r
    BY PeerFacts DEF Adds
  <2> QED
    BY <1>5, <2>1, RecordsKept
<1> QED
  BY <1>1, <1>6, <1>7, <1>8, <1>9 DEF Inv, Adds

-----------------------------------------------------------------------------
(* Moving, sending and receiving.                                          *)

LEMMA FinishMacGood ==
  ASSUME NEW e \in Endpoint, NEW s, NEW m, Good(e, s)
  PROVE  Good(e, ssl3_finish_mac(s, m))
<1> DEFINE t == ssl3_finish_mac(s, m)
<1>1. DOMAIN s = FieldNames
  BY PeerFacts DEF Good, GoodClient, GoodServer, Typed
<1>2. DOMAIN t = FieldNames /\ \A f \in FieldNames \ {"mac"} : t[f] = s[f]
  BY <1>1 DEF ssl3_finish_mac
<1>3. /\ t.state = s.state /\ t.next = s.next /\ t.buffered = s.buffered /\ t.hit = s.hit
      /\ t.ticket_expected = s.ticket_expected /\ t.cert_req = s.cert_req
      /\ t.new_session = s.new_session /\ t.renegotiate = s.renegotiate /\ t.total = s.total
      /\ t.new_cipher = s.new_cipher /\ t.peer = s.peer /\ t.cr = s.cr /\ t.sr = s.sr
      /\ t.rkey = s.rkey /\ t.wkey = s.wkey /\ t.key_block = s.key_block
      /\ t.peer_md = s.peer_md /\ t.prev = s.prev /\ t.ccs = s.ccs /\ t.shutdown = s.shutdown
      /\ t.failed = s.failed /\ t.vkey = s.vkey /\ t.good = s.good /\ t.shut = s.shut
  BY <1>2 DEF FieldNames
<1> HIDE DEF t
<1>4. GoodClient(s) => GoodClient(t)
  BY <1>1, <1>2, <1>3
     DEF GoodClient, Typed, Keys, ClientKeys, ClientWindow, ClientCalls, ClientCounts,
         Vouched, Settled, WritesNew, ReadsNew
<1>5. GoodServer(s) => GoodServer(t)
  BY <1>1, <1>2, <1>3
     DEF GoodServer, Typed, Keys, ServerKeys, ServerCalls, ServerCounts, Vouched,
         Settled, WritesNew, ReadsNew
<1> QED
  BY <1>4, <1>5 DEF Good, t

LEMMA FinishMacSame ==
  ASSUME NEW e \in Endpoint, NEW s, NEW m, NEW u, Good(e, s)
  PROVE  /\ SameHellos(e, u, s) => SameHellos(e, u, ssl3_finish_mac(s, m))
         /\ SameClosing(u, s) => SameClosing(u, ssl3_finish_mac(s, m))
<1>1. DOMAIN s = FieldNames
  BY PeerFacts DEF Good, GoodClient, GoodServer, Typed
<1> QED
  BY <1>1 DEF ssl3_finish_mac, FieldNames, SameHellos, SameClosing

LEMMA MoveInv ==
  ASSUME Inv, NEW e \in Endpoint, NEW new, Move(e, new), Good(e, new),
         SameHellos(e, ssl[e], new), SameClosing(ssl[e], new)
  PROVE  Inv'
<1>1. Become(e, new) /\ UNCHANGED <<wire, out, conf, sent, got>>
  BY DEF Move
<1>2. Keeps
  BY <1>1, StillKeeps DEF Inv
<1> QED
  BY <1>1, <1>2, KeepInv

LEMMA SendInv ==
  ASSUME Inv, NEW e \in Endpoint, NEW new, NEW m, Send(e, new, m), Good(e, new),
         SameHellos(e, ssl[e], new), SameClosing(ssl[e], new),
         m.name \notin {"ClientHello", "HelloRequest", "ServerHello"}
  PROVE  Inv'
<1> DEFINE r == Record(e, "handshake", m)
           t == ssl3_finish_mac(new, m)
<1>1. Become(e, t) /\ Put(e, <<r>>) /\ UNCHANGED <<conf, sent, got>>
  BY DEF Send
<1>2. Good(e, t) /\ SameHellos(e, ssl[e], t) /\ SameClosing(ssl[e], t)
  BY FinishMacGood, FinishMacSame
<1>3. Adds(e, r)
  BY <1>1, PutAdds DEF Inv
<1>4. /\ r.type \in RecordTypes \ {"app", "close_notify"}
      /\ Tag(r) \notin {Hello, Request, ServerHello}
  BY DEF Record, RecordTypes, Tag, Hello, Request, ServerHello
<1> HIDE DEF r, t
<1> QED
  BY <1>1, <1>2, <1>3, <1>4, AddInv

LEMMA ReceiveInv ==
  ASSUME Inv, NEW e \in Endpoint, NEW new, Receive(e, new), Arrives(e, "handshake"), Good(e, new),
         SameHellos(e, ssl[e], new), SameClosing(ssl[e], new)
  PROVE  Inv'
<1> DEFINE t == ssl3_finish_mac(new, Message(e))
<1>1. Become(e, t) /\ Take(e) /\ UNCHANGED <<out, conf, sent, got>>
  BY DEF Receive
<1>2. Good(e, t) /\ SameHellos(e, ssl[e], t) /\ SameClosing(ssl[e], t)
  BY FinishMacGood, FinishMacSame
<1>3. Loses(e, Head1(e)) /\ Head1(e).type # "app"
  BY <1>1, TakeLoses DEF Inv, Arrives
<1> HIDE DEF t
<1> QED
  BY <1>1, <1>2, <1>3, LoseInv

-----------------------------------------------------------------------------
(* The client's steps.                                                     *)

LEMMA connect_start_Inv == ASSUME Inv, connect_start PROVE Inv'
<1> DEFINE new == [ssl[C] EXCEPT !.state = "CW_CLNT_HELLO", !.mac = None, !.buffered = FALSE,
                     !.new_session = IF ssl[C].state = "RENEGOTIATE" THEN 1 ELSE @]
<1>1. Good(C, new) /\ SameHellos(C, ssl[C], new) /\ SameClosing(ssl[C], new)
  BY DEF connect_start, Inv, Ends, Good, GoodClient, Typed, Keys, ClientKeys,
         ClientWindow, ClientCalls, ClientCounts, Vouched, Settled, WritesNew, ReadsNew,
         FieldNames, States, Reads, ClientReads, ServerReads, ClientWrites,
         ServerWrites, Rest, FullStates, SameHellos, SameClosing
<1>2. Keeps
  BY DropKeeps, PeerFacts DEF Inv, connect_start
<1> QED
  BY <1>1, <1>2, KeepInv, PeerFacts DEF connect_start

LEMMA skip_certificate_Inv == ASSUME Inv, skip_certificate PROVE Inv'
<1> DEFINE new == [ssl[C] EXCEPT !.state = "CR_KEY_EXCH"]
<1>1. Good(C, new) /\ SameHellos(C, ssl[C], new) /\ SameClosing(ssl[C], new)
  BY DEF skip_certificate, Inv, Ends, Good, GoodClient, Typed, Keys, ClientKeys,
         ClientWindow, ClientCalls, ClientCounts, Vouched, Settled, WritesNew, ReadsNew,
         FieldNames, States, Reads, ClientReads, ServerReads, ClientWrites,
         ServerWrites, Rest, FullStates, SameHellos, SameClosing
<1> QED
  BY <1>1, MoveInv, PeerFacts DEF skip_certificate

LEMMA ssl3_get_server_certificate_Inv ==
  ASSUME Inv, ssl3_get_server_certificate
  PROVE  Inv'
<1> DEFINE new == [ssl[C] EXCEPT !.state = IF conf.status THEN "CR_CERT_STATUS" ELSE "CR_KEY_EXCH"]
<1>1. Good(C, new) /\ SameHellos(C, ssl[C], new) /\ SameClosing(ssl[C], new)
  BY DEF ssl3_get_server_certificate, Inv, Ends, Good, GoodClient, Typed, Keys,
         ClientKeys, ClientWindow, ClientCalls, ClientCounts, Vouched, Settled,
         WritesNew, ReadsNew, FieldNames, States, Reads, ClientReads, ServerReads,
         ClientWrites, ServerWrites, Rest, FullStates, SameHellos, SameClosing
<1> QED
  BY <1>1, ReceiveInv, PeerFacts DEF ssl3_get_server_certificate, IsNext

LEMMA ssl3_get_cert_status_Inv == ASSUME Inv, ssl3_get_cert_status PROVE Inv'
<1> DEFINE new == [ssl[C] EXCEPT !.state = "CR_KEY_EXCH"]
<1>1. Good(C, new) /\ SameHellos(C, ssl[C], new) /\ SameClosing(ssl[C], new)
  BY DEF ssl3_get_cert_status, Inv, Ends, Good, GoodClient, Typed, Keys, ClientKeys,
         ClientWindow, ClientCalls, ClientCounts, Vouched, Settled, WritesNew, ReadsNew,
         FieldNames, States, Reads, ClientReads, ServerReads, ClientWrites,
         ServerWrites, Rest, FullStates, SameHellos, SameClosing
<1> QED
  BY <1>1, ReceiveInv, PeerFacts DEF ssl3_get_cert_status, IsNext

LEMMA ssl3_get_server_done_Inv == ASSUME Inv, ssl3_get_server_done PROVE Inv'
<1> DEFINE new == [ssl[C] EXCEPT
                     !.state = IF ssl[C].cert_req # 0 THEN "CW_CERT" ELSE "CW_KEY_EXCH"]
<1>1. Good(C, new) /\ SameHellos(C, ssl[C], new) /\ SameClosing(ssl[C], new)
  BY DEF ssl3_get_server_done, Inv, Ends, Good, GoodClient, Typed, Keys, ClientKeys,
         ClientWindow, ClientCalls, ClientCounts, Vouched, Settled, WritesNew, ReadsNew,
         FieldNames, States, Reads, ClientReads, ServerReads, ClientWrites,
         ServerWrites, Rest, FullStates, SameHellos, SameClosing
<1> QED
  BY <1>1, ReceiveInv, PeerFacts DEF ssl3_get_server_done, IsNext

LEMMA ssl3_send_client_certificate_Inv ==
  ASSUME Inv, ssl3_send_client_certificate
  PROVE  Inv'
<1> DEFINE new == [ssl[C] EXCEPT !.state = "CW_KEY_EXCH",
                     !.cert_req = IF conf.auth = "cert" THEN @ ELSE 2]
<1>1. Good(C, new) /\ SameHellos(C, ssl[C], new) /\ SameClosing(ssl[C], new)
  BY DEF ssl3_send_client_certificate, Inv, Ends, Good, GoodClient, Typed, Keys,
         ClientKeys, ClientWindow, ClientCalls, ClientCounts, Vouched, Settled,
         WritesNew, ReadsNew, FieldNames, States, Reads, ClientReads, ServerReads,
         ClientWrites, ServerWrites, Rest, FullStates, SameHellos, SameClosing
<1> QED
  BY <1>1, SendInv, PeerFacts DEF ssl3_send_client_certificate

LEMMA ssl3_send_client_key_exchange_Inv ==
  ASSUME Inv, ssl3_send_client_key_exchange
  PROVE  Inv'
<1> DEFINE m == <<ssl[C].cr, ssl[C].sr>>
<1> DEFINE new == [ssl[C] EXCEPT
                     !.state = IF ssl[C].cert_req = 1 THEN "CW_CERT_VRFY" ELSE "CW_CHANGE",
                     !.ccs = IF ssl[C].cert_req = 1 THEN @ ELSE FALSE,
                     !.master = m]
<1> HIDE DEF m
<1>1. Good(C, new) /\ SameHellos(C, ssl[C], new) /\ SameClosing(ssl[C], new)
  <2>1. CASE ssl[C].cert_req = 1
    BY <2>1
       DEF ssl3_send_client_key_exchange, Inv, Ends, Good, GoodClient, Typed, Keys,
           ClientKeys, ClientWindow, ClientCalls, ClientCounts, Vouched, Settled,
           WritesNew, ReadsNew, FieldNames, States, Reads, ClientReads, ServerReads,
           ClientWrites, ServerWrites, Rest, FullStates, SameHellos, SameClosing
  <2>2. CASE ssl[C].cert_req # 1
    BY <2>2
       DEF ssl3_send_client_key_exchange, Inv, Ends, Good, GoodClient, Typed, Keys,
           ClientKeys, ClientWindow, ClientCalls, ClientCounts, Vouched, Settled,
           WritesNew, ReadsNew, FieldNames, States, Reads, ClientReads, ServerReads,
           ClientWrites, ServerWrites, Rest, FullStates, SameHellos, SameClosing
  <2> QED
    BY <2>1, <2>2
<1> QED
  BY <1>1, SendInv, PeerFacts DEF ssl3_send_client_key_exchange, Plain, m

LEMMA ssl3_send_client_verify_Inv == ASSUME Inv, ssl3_send_client_verify PROVE Inv'
<1> DEFINE new == [ssl[C] EXCEPT !.state = "CW_CHANGE", !.ccs = FALSE]
<1>1. Good(C, new) /\ SameHellos(C, ssl[C], new) /\ SameClosing(ssl[C], new)
  BY DEF ssl3_send_client_verify, Inv, Ends, Good, GoodClient, Typed, Keys, ClientKeys,
         ClientWindow, ClientCalls, ClientCounts, Vouched, Settled, WritesNew, ReadsNew,
         FieldNames, States, Reads, ClientReads, ServerReads, ClientWrites,
         ServerWrites, Rest, FullStates, SameHellos, SameClosing
<1> QED
  BY <1>1, SendInv, PeerFacts DEF ssl3_send_client_verify

LEMMA client_finished_Inv == ASSUME Inv, client_finished PROVE Inv'
<1> DEFINE new == [ssl[C] EXCEPT !.state = "CW_FLUSH", !.next = AfterFlight(ssl[C]),
                     !.prev[C] = final_finish_mac(ssl[C], C)]
<1>1. Good(C, new) /\ SameHellos(C, ssl[C], new) /\ SameClosing(ssl[C], new)
  BY DEF client_finished, Inv, Ends, Good, GoodClient, Typed, Keys, ClientKeys,
         ClientWindow, ClientCalls, ClientCounts, Vouched, Settled, WritesNew, ReadsNew,
         FieldNames, States, Reads, ClientReads, ServerReads, ClientWrites,
         ServerWrites, Rest, FullStates, SameHellos, SameClosing, AfterFlight, Endpoint
<1> QED
  BY <1>1, SendInv, PeerFacts DEF client_finished

LEMMA cutthrough_Inv == ASSUME Inv, cutthrough PROVE Inv'
<1> DEFINE new == [ssl[C] EXCEPT !.buffered = FALSE,
                     !.state = IF ssl[C].ticket_expected THEN "CR_SESSION_TICKET" ELSE "CR_FINISHED"]
<1>1. Good(C, new) /\ SameHellos(C, ssl[C], new) /\ SameClosing(ssl[C], new)
  BY DEF cutthrough, Inv, Ends, Good, GoodClient, Typed, Keys, ClientKeys, ClientWindow,
         ClientCalls, ClientCounts, Vouched, Settled, WritesNew, ReadsNew, FieldNames,
         States, Reads, ClientReads, ServerReads, ClientWrites, ServerWrites, Rest,
         FullStates, SameHellos, SameClosing
<1>2. Keeps
  BY DropKeeps, PeerFacts DEF Inv, cutthrough
<1> QED
  BY <1>1, <1>2, KeepInv, PeerFacts DEF cutthrough

LEMMA ssl3_get_key_exchange_Inv == ASSUME Inv, ssl3_get_key_exchange PROVE Inv'
<1> DEFINE new == [ssl[C] EXCEPT !.state = "CR_CERT_REQ"]
<1>1. Good(C, new) /\ SameHellos(C, ssl[C], new) /\ SameClosing(ssl[C], new)
  BY DEF ssl3_get_key_exchange, Inv, Ends, Good, GoodClient, Typed, Keys, ClientKeys,
         ClientWindow, ClientCalls, ClientCounts, Vouched, Settled, WritesNew, ReadsNew,
         FieldNames, States, Reads, ClientReads, ServerReads, ClientWrites,
         ServerWrites, Rest, FullStates, SameHellos, SameClosing
<1> QED
  BY <1>1, MoveInv, ReceiveInv, PeerFacts DEF ssl3_get_key_exchange, IsNext

LEMMA ssl3_get_certificate_request_Inv ==
  ASSUME Inv, ssl3_get_certificate_request
  PROVE  Inv'
<1>1. ASSUME IsNext(C, "CertificateRequest"),
             Receive(C, [ssl[C] EXCEPT !.state = "CR_SRVR_DONE", !.cert_req = 1])
      PROVE  Inv'
  <2> DEFINE new == [ssl[C] EXCEPT !.state = "CR_SRVR_DONE", !.cert_req = 1]
  <2>1. Good(C, new) /\ SameHellos(C, ssl[C], new) /\ SameClosing(ssl[C], new)
    BY DEF ssl3_get_certificate_request, Inv, Ends, Good, GoodClient, Typed, Keys,
           ClientKeys, ClientWindow, ClientCalls, ClientCounts, Vouched, Settled,
           WritesNew, ReadsNew, FieldNames, States, Reads, ClientReads, ServerReads,
           ClientWrites, ServerWrites, Rest, FullStates, SameHellos, SameClosing
  <2> QED
    BY <1>1, <2>1, ReceiveInv, PeerFacts DEF ssl3_get_certificate_request, IsNext
<1>2. ASSUME Move(C, [ssl[C] EXCEPT !.state = "CR_SRVR_DONE", !.cert_req = 0])
      PROVE  Inv'
  <2> DEFINE new == [ssl[C] EXCEPT !.state = "CR_SRVR_DONE", !.cert_req = 0]
  <2>1. Good(C, new) /\ SameHellos(C, ssl[C], new) /\ SameClosing(ssl[C], new)
    BY DEF ssl3_get_certificate_request, Inv, Ends, Good, GoodClient, Typed, Keys,
           ClientKeys, ClientWindow, ClientCalls, ClientCounts, Vouched, Settled,
           WritesNew, ReadsNew, FieldNames, States, Reads, ClientReads, ServerReads,
           ClientWrites, ServerWrites, Rest, FullStates, SameHellos, SameClosing
  <2> QED
    BY <1>2, <2>1, MoveInv, PeerFacts DEF ssl3_get_certificate_request
<1> QED
  BY <1>1, <1>2 DEF ssl3_get_certificate_request

LEMMA ssl3_get_new_session_ticket_Inv ==
  ASSUME Inv, ssl3_get_new_session_ticket
  PROVE  Inv'
<1>1. ASSUME IsNext(C, "NewSessionTicket"),
             Receive(C, [ssl[C] EXCEPT !.state = "CR_FINISHED", !.tick = Message(C).tick,
                               !.sid = <<"hash", Message(C).tick>>])
      PROVE  Inv'
  <2> DEFINE new == [ssl[C] EXCEPT !.state = "CR_FINISHED", !.tick = Message(C).tick,
                               !.sid = <<"hash", Message(C).tick>>]
  <2>1. Good(C, new) /\ SameHellos(C, ssl[C], new) /\ SameClosing(ssl[C], new)
    BY DEF ssl3_get_new_session_ticket, Inv, Ends, Good, GoodClient, Typed, Keys,
           ClientKeys, ClientWindow, ClientCalls, ClientCounts, Vouched, Settled,
           WritesNew, ReadsNew, FieldNames, States, Reads, ClientReads, ServerReads,
           ClientWrites, ServerWrites, Rest, FullStates, SameHellos, SameClosing
  <2> QED
    BY <1>1, <2>1, ReceiveInv, PeerFacts DEF ssl3_get_new_session_ticket, IsNext
<1>2. ASSUME Move(C, [ssl[C] EXCEPT !.state = "CR_FINISHED"])
      PROVE  Inv'
  <2> DEFINE new == [ssl[C] EXCEPT !.state = "CR_FINISHED"]
  <2>1. Good(C, new) /\ SameHellos(C, ssl[C], new) /\ SameClosing(ssl[C], new)
    BY DEF ssl3_get_new_session_ticket, Inv, Ends, Good, GoodClient, Typed, Keys,
           ClientKeys, ClientWindow, ClientCalls, ClientCounts, Vouched, Settled,
           WritesNew, ReadsNew, FieldNames, States, Reads, ClientReads, ServerReads,
           ClientWrites, ServerWrites, Rest, FullStates, SameHellos, SameClosing
  <2> QED
    BY <1>2, <2>1, MoveInv, PeerFacts DEF ssl3_get_new_session_ticket
<1> QED
  BY <1>1, <1>2 DEF ssl3_get_new_session_ticket

-----------------------------------------------------------------------------
(* The steps of either end.                                                *)

LEMMA flush_C_Inv == ASSUME Inv, flush(C) PROVE Inv'
<1> DEFINE new == [ssl[C] EXCEPT !.state = ssl[C].next]
<1>1. Good(C, new) /\ SameHellos(C, ssl[C], new) /\ SameClosing(ssl[C], new)
  BY DEF flush, Inv, Ends, Good, GoodClient, Typed, Keys, ClientKeys, ClientWindow,
         ClientCalls, ClientCounts, Vouched, Settled, WritesNew, ReadsNew, FieldNames,
         States, Reads, ClientReads, ServerReads, ClientWrites, ServerWrites, Rest,
         FullStates, SameHellos, SameClosing
<1>2. Keeps
  BY FlushKeeps, PeerFacts DEF Inv, flush
<1> QED
  BY <1>1, <1>2, KeepInv, PeerFacts DEF flush

LEMMA flush_S_Inv == ASSUME Inv, flush(S) PROVE Inv'
<1> DEFINE new == [ssl[S] EXCEPT !.state = ssl[S].next]
<1>1. Good(S, new) /\ SameHellos(S, ssl[S], new) /\ SameClosing(ssl[S], new)
  BY DEF flush, Inv, Ends, Good, GoodServer, Typed, Keys, ServerKeys, ServerCalls,
         ServerCounts, Vouched, Settled, WritesNew, ReadsNew, FieldNames, States, Reads,
         ClientReads, ServerReads, ClientWrites, ServerWrites, Rest, FullStates,
         SameHellos, SameClosing
<1>2. Keeps
  BY FlushKeeps, PeerFacts DEF Inv, flush
<1> QED
  BY <1>1, <1>2, KeepInv, PeerFacts DEF flush

LEMMA handshake_done_C_Inv == ASSUME Inv, handshake_done(C) PROVE Inv'
<1> DEFINE new == [ssl[C] EXCEPT !.state = "OK", !.key_block = None, !.buffered = FALSE,
       !.new_session = IF C = S /\ ssl[C].new_session # 2 THEN @ ELSE 0,
       !.good = IF C = S /\ ssl[C].new_session # 2 THEN @ ELSE @ + 1]
<1>1. Good(C, new) /\ SameHellos(C, ssl[C], new) /\ SameClosing(ssl[C], new)
  BY DEF handshake_done, Inv, Ends, Good, GoodClient, Typed, Keys, ClientKeys,
         ClientWindow, ClientCalls, ClientCounts, Vouched, Settled, WritesNew, ReadsNew,
         FieldNames, States, Reads, ClientReads, ServerReads, ClientWrites,
         ServerWrites, Rest, FullStates, SameHellos, SameClosing
<1>2. Keeps
  BY DropKeeps, PeerFacts DEF Inv, handshake_done
<1> QED
  BY <1>1, <1>2, KeepInv, PeerFacts DEF handshake_done

LEMMA handshake_done_S_Inv == ASSUME Inv, handshake_done(S) PROVE Inv'
<1> DEFINE new == [ssl[S] EXCEPT !.state = "OK", !.key_block = None, !.buffered = FALSE,
       !.new_session = IF S = S /\ ssl[S].new_session # 2 THEN @ ELSE 0,
       !.good = IF S = S /\ ssl[S].new_session # 2 THEN @ ELSE @ + 1]
<1>1. Good(S, new) /\ SameHellos(S, ssl[S], new) /\ SameClosing(ssl[S], new)
  BY DEF handshake_done, Inv, Ends, Good, GoodServer, Typed, Keys, ServerKeys,
         ServerCalls, ServerCounts, Vouched, Settled, WritesNew, ReadsNew, FieldNames,
         States, Reads, ClientReads, ServerReads, ClientWrites, ServerWrites, Rest,
         FullStates, SameHellos, SameClosing
<1>2. Keeps
  BY DropKeeps, PeerFacts DEF Inv, handshake_done
<1> QED
  BY <1>1, <1>2, KeepInv, PeerFacts DEF handshake_done

LEMMA ssl3_get_finished_C_Inv == ASSUME Inv, ssl3_get_finished(C) PROVE Inv'
<1> DEFINE new == [ssl[C] EXCEPT !.state = AfterFinished(C), !.ccs = FALSE,
                     !.prev[Peer(C)] = ssl[C].peer_md, !.vkey = ssl[C].rkey]
<1>1. Good(C, new) /\ SameHellos(C, ssl[C], new) /\ SameClosing(ssl[C], new)
  BY DEF ssl3_get_finished, Inv, Ends, Good, GoodClient, Typed, Keys, ClientKeys,
         ClientWindow, ClientCalls, ClientCounts, Vouched, Settled, WritesNew, ReadsNew,
         FieldNames, States, Reads, ClientReads, ServerReads, ClientWrites,
         ServerWrites, Rest, FullStates, SameHellos, SameClosing, AfterFinished,
         FinishedOk, Peer, Endpoint
<1> QED
  BY <1>1, ReceiveInv, PeerFacts DEF ssl3_get_finished, IsNext

LEMMA ssl3_get_finished_S_Inv == ASSUME Inv, ssl3_get_finished(S) PROVE Inv'
<1> DEFINE new == [ssl[S] EXCEPT !.state = AfterFinished(S), !.ccs = FALSE,
                     !.prev[Peer(S)] = ssl[S].peer_md, !.vkey = ssl[S].rkey]
<1>1. Good(S, new) /\ SameHellos(S, ssl[S], new) /\ SameClosing(ssl[S], new)
  BY DEF ssl3_get_finished, Inv, Ends, Good, GoodServer, Typed, Keys, ServerKeys,
         ServerCalls, ServerCounts, Vouched, Settled, WritesNew, ReadsNew, FieldNames,
         States, Reads, ClientReads, ServerReads, ClientWrites, ServerWrites, Rest,
         FullStates, SameHellos, SameClosing, AfterFinished, FinishedOk, Peer, Endpoint
<1> QED
  BY <1>1, ReceiveInv, PeerFacts DEF ssl3_get_finished, IsNext

LEMMA change_cipher_spec_C_Inv == ASSUME Inv, change_cipher_spec(C) PROVE Inv'
<1> DEFINE k == setup_key_block(ssl[C])
           new == [k EXCEPT !.state = "CW_FINISHED", !.wkey = k.key_block]
           r == Record(C, "ccs", Plain("ChangeCipherSpec"))
<1>1. Good(C, new) /\ SameHellos(C, ssl[C], new) /\ SameClosing(ssl[C], new)
  BY DEF change_cipher_spec, setup_key_block, None, Inv, Ends, Good, GoodClient, Typed,
         Keys, ClientKeys, ClientWindow, ClientCalls, ClientCounts, Vouched, Settled,
         WritesNew, ReadsNew, FieldNames, States, Reads, ClientReads, ServerReads,
         ClientWrites, ServerWrites, Rest, FullStates, SameHellos, SameClosing
<1>2. Become(C, new) /\ Put(C, <<r>>) /\ UNCHANGED <<conf, sent, got>>
  BY DEF change_cipher_spec
<1>3. Adds(C, r)
  BY <1>2, PutAdds, PeerFacts DEF Inv
<1>4. r.type = "ccs"
  BY DEF Record
<1> HIDE DEF new, r
<1> QED
  BY <1>1, <1>2, <1>3, <1>4, AddInv, PeerFacts
     DEF RecordTypes, Tag, Hello, Request, ServerHello

LEMMA change_cipher_spec_S_Inv == ASSUME Inv, change_cipher_spec(S) PROVE Inv'
<1> DEFINE k == setup_key_block(ssl[S])
           new == [k EXCEPT !.state = "SW_FINISHED", !.wkey = k.key_block]
           r == Record(S, "ccs", Plain("ChangeCipherSpec"))
<1>1. Good(S, new) /\ SameHellos(S, ssl[S], new) /\ SameClosing(ssl[S], new)
  BY DEF change_cipher_spec, setup_key_block, None, Inv, Ends, Good, GoodServer, Typed,
         Keys, ServerKeys, ServerCalls, ServerCounts, Vouched, Settled, WritesNew,
         ReadsNew, FieldNames, States, Reads, ClientReads, ServerReads, ClientWrites,
         ServerWrites, Rest, FullStates, SameHellos, SameClosing
<1>2. Become(S, new) /\ Put(S, <<r>>) /\ UNCHANGED <<conf, sent, got>>
  BY DEF change_cipher_spec
<1>3. Adds(S, r)
  BY <1>2, PutAdds, PeerFacts DEF Inv
<1>4. r.type = "ccs"
  BY DEF Record
<1> HIDE DEF new, r
<1> QED
  BY <1>1, <1>2, <1>3, <1>4, AddInv, PeerFacts
     DEF RecordTypes, Tag, Hello, Request, ServerHello

LEMMA read_change_cipher_spec_C_Inv == ASSUME Inv, read_change_cipher_spec(C) PROVE Inv'
<1> DEFINE k == setup_key_block(ssl[C])
           b == k.key_block
           md == final_finish_mac(k, Peer(C))
           new == [k EXCEPT !.ccs = TRUE, !.rkey = b, !.peer_md = md]
<1>1. b # None /\ (k = ssl[C] \/ k = [ssl[C] EXCEPT !.key_block = b])
      /\ (ssl[C].key_block # None => b = ssl[C].key_block)
  BY DEF setup_key_block, None, Inv, Ends, GoodClient, GoodServer, Typed, FieldNames
<1>2. md # None
  BY DEF final_finish_mac, None
<1>3. Become(C, new) /\ Take(C) /\ UNCHANGED <<out, conf, sent, got>>
  BY DEF read_change_cipher_spec
<1>4. Loses(C, Head1(C)) /\ Head1(C).type # "app"
  BY <1>3, TakeLoses, PeerFacts DEF Inv, Arrives, read_change_cipher_spec
<1> HIDE DEF k, b, md
<1>5. /\ new.ccs = TRUE /\ new.rkey = b /\ new.peer_md = md /\ new.key_block = b
      /\ DOMAIN new = FieldNames
      /\ \A f \in FieldNames \ {"ccs", "rkey", "peer_md", "key_block"} : new[f] = ssl[C][f]
  BY <1>1 DEF Inv, Ends, GoodClient, GoodServer, Typed, FieldNames, k, b
<1> HIDE DEF new
<1>6. /\ new.state = ssl[C].state /\ new.next = ssl[C].next /\ new.hit = ssl[C].hit
      /\ new.buffered = ssl[C].buffered /\ new.peer = ssl[C].peer
      /\ new.ticket_expected = ssl[C].ticket_expected /\ new.cert_req = ssl[C].cert_req
      /\ new.new_session = ssl[C].new_session /\ new.renegotiate = ssl[C].renegotiate
      /\ new.total = ssl[C].total /\ new.new_cipher = ssl[C].new_cipher
      /\ new.cr = ssl[C].cr /\ new.sr = ssl[C].sr /\ new.wkey = ssl[C].wkey
      /\ new.prev = ssl[C].prev /\ new.shutdown = ssl[C].shutdown
      /\ new.failed = ssl[C].failed /\ new.vkey = ssl[C].vkey
      /\ new.good = ssl[C].good /\ new.shut = ssl[C].shut
  BY <1>5 DEF FieldNames
<1>0. ssl[C].state \in Reads
  BY DEF read_change_cipher_spec
<1>7. Good(C, new) /\ SameHellos(C, ssl[C], new) /\ SameClosing(ssl[C], new)
  <2>1. GoodClient(ssl[C])
    BY DEF Inv, Ends
  <2>2. Typed(new)
    BY <2>1, <1>5, <1>6 DEF GoodClient, Typed
  <2>3. Keys(new)
    BY <2>1, <1>0, <1>1, <1>2, <1>5, <1>6
       DEF GoodClient, Keys, Reads, ClientReads, ServerReads
  <2>4. ClientKeys(new)
    BY <2>1, <1>0, <1>1, <1>5, <1>6
       DEF GoodClient, ClientKeys, WritesNew, ReadsNew, Settled, Reads, ClientReads,
           ServerReads
  <2>5. ClientWindow(new) /\ ClientCalls(new) /\ ClientCounts(new)
    BY <2>1, <1>0, <1>1, <1>5, <1>6
       DEF GoodClient, ClientWindow, ClientCalls, ClientCounts, Settled, Vouched, Reads,
           ClientReads, ServerReads
  <2>6. SameHellos(C, ssl[C], new) /\ SameClosing(ssl[C], new)
    BY <1>6 DEF SameHellos, SameClosing
  <2> QED
    BY <2>2, <2>3, <2>4, <2>5, <2>6 DEF Good, GoodClient, GoodServer
<1> QED
  BY <1>3, <1>4, <1>7, LoseInv, PeerFacts

LEMMA read_change_cipher_spec_S_Inv == ASSUME Inv, read_change_cipher_spec(S) PROVE Inv'
<1> DEFINE k == setup_key_block(ssl[S])
           b == k.key_block
           md == final_finish_mac(k, Peer(S))
           new == [k EXCEPT !.ccs = TRUE, !.rkey = b, !.peer_md = md]
<1>1. b # None /\ (k = ssl[S] \/ k = [ssl[S] EXCEPT !.key_block = b])
      /\ (ssl[S].key_block # None => b = ssl[S].key_block)
  BY DEF setup_key_block, None, Inv, Ends, GoodClient, GoodServer, Typed, FieldNames
<1>2. md # None
  BY DEF final_finish_mac, None
<1>3. Become(S, new) /\ Take(S) /\ UNCHANGED <<out, conf, sent, got>>
  BY DEF read_change_cipher_spec
<1>4. Loses(S, Head1(S)) /\ Head1(S).type # "app"
  BY <1>3, TakeLoses, PeerFacts DEF Inv, Arrives, read_change_cipher_spec
<1> HIDE DEF k, b, md
<1>5. /\ new.ccs = TRUE /\ new.rkey = b /\ new.peer_md = md /\ new.key_block = b
      /\ DOMAIN new = FieldNames
      /\ \A f \in FieldNames \ {"ccs", "rkey", "peer_md", "key_block"} : new[f] = ssl[S][f]
  BY <1>1 DEF Inv, Ends, GoodClient, GoodServer, Typed, FieldNames, k, b
<1> HIDE DEF new
<1>6. /\ new.state = ssl[S].state /\ new.next = ssl[S].next /\ new.hit = ssl[S].hit
      /\ new.buffered = ssl[S].buffered /\ new.peer = ssl[S].peer
      /\ new.ticket_expected = ssl[S].ticket_expected /\ new.cert_req = ssl[S].cert_req
      /\ new.new_session = ssl[S].new_session /\ new.renegotiate = ssl[S].renegotiate
      /\ new.total = ssl[S].total /\ new.new_cipher = ssl[S].new_cipher
      /\ new.cr = ssl[S].cr /\ new.sr = ssl[S].sr /\ new.wkey = ssl[S].wkey
      /\ new.prev = ssl[S].prev /\ new.shutdown = ssl[S].shutdown
      /\ new.failed = ssl[S].failed /\ new.vkey = ssl[S].vkey
      /\ new.good = ssl[S].good /\ new.shut = ssl[S].shut
  BY <1>5 DEF FieldNames
<1>0. ssl[S].state \in Reads
  BY DEF read_change_cipher_spec
<1>7. Good(S, new) /\ SameHellos(S, ssl[S], new) /\ SameClosing(ssl[S], new)
  <2>1. GoodServer(ssl[S])
    BY DEF Inv, Ends
  <2>2. Typed(new)
    BY <2>1, <1>5, <1>6 DEF GoodServer, Typed
  <2>3. Keys(new)
    BY <2>1, <1>0, <1>1, <1>2, <1>5, <1>6
       DEF GoodServer, Keys, Reads, ClientReads, ServerReads
  <2>4. ServerKeys(new)
    BY <2>1, <1>0, <1>1, <1>5, <1>6
       DEF GoodServer, ServerKeys, WritesNew, ReadsNew, Settled, Reads, ClientReads,
           ServerReads
  <2>5. ServerCalls(new) /\ ServerCounts(new)
    BY <2>1, <1>0, <1>1, <1>5, <1>6
       DEF GoodServer, ClientWindow, ServerCalls, ServerCounts, Settled, Vouched, Reads,
           ClientReads, ServerReads
  <2>6. SameHellos(S, ssl[S], new) /\ SameClosing(ssl[S], new)
    BY <1>6 DEF SameHellos, SameClosing
  <2> QED
    BY <2>2, <2>3, <2>4, <2>5, <2>6 DEF Good, GoodClient, GoodServer
<1> QED
  BY <1>3, <1>4, <1>7, LoseInv, PeerFacts

-----------------------------------------------------------------------------
(* The server's steps.                                                     *)

LEMMA accept_start_Inv == ASSUME Inv, accept_start PROVE Inv'
<1> DEFINE new == [ssl[S] EXCEPT !.state = "SR_CLNT_HELLO", !.mac = None, !.buffered = TRUE]
<1>1. Good(S, new) /\ SameHellos(S, ssl[S], new) /\ SameClosing(ssl[S], new)
  BY DEF accept_start, Inv, Ends, Good, GoodServer, Typed, Keys, ServerKeys,
         ServerCalls, ServerCounts, Vouched, Settled, WritesNew, ReadsNew, FieldNames,
         States, Reads, ClientReads, ServerReads, ClientWrites, ServerWrites, Rest,
         FullStates, SameHellos, SameClosing
<1>2. Keeps
  BY DropKeeps, PeerFacts DEF Inv, accept_start
<1> QED
  BY <1>1, <1>2, KeepInv, PeerFacts DEF accept_start

LEMMA ssl3_send_server_certificate_Inv ==
  ASSUME Inv, ssl3_send_server_certificate
  PROVE  Inv'
<1>1. ASSUME Move(S, [ssl[S] EXCEPT !.state = "SW_KEY_EXCH"])
      PROVE  Inv'
  <2> DEFINE new == [ssl[S] EXCEPT !.state = "SW_KEY_EXCH"]
  <2>1. Good(S, new) /\ SameHellos(S, ssl[S], new) /\ SameClosing(ssl[S], new)
    BY DEF ssl3_send_server_certificate, Inv, Ends, Good, GoodServer, Typed, Keys,
           ServerKeys, ServerCalls, ServerCounts, Vouched, Settled, WritesNew, ReadsNew,
           FieldNames, States, Reads, ClientReads, ServerReads, ClientWrites,
           ServerWrites, Rest, FullStates, SameHellos, SameClosing
  <2> QED
    BY <1>1, <2>1, MoveInv, PeerFacts DEF ssl3_send_server_certificate
<1>2. ASSUME Send(S, [ssl[S] EXCEPT !.state = IF conf.status THEN "SW_CERT_STATUS" ELSE "SW_KEY_EXCH"],
                  [name |-> "Certificate", rnd |-> 0, empty |-> FALSE])
      PROVE  Inv'
  <2> DEFINE new == [ssl[S] EXCEPT !.state = IF conf.status THEN "SW_CERT_STATUS" ELSE "SW_KEY_EXCH"]
  <2>1. Good(S, new) /\ SameHellos(S, ssl[S], new) /\ SameClosing(ssl[S], new)
    BY DEF ssl3_send_server_certificate, Inv, Ends, Good, GoodServer, Typed, Keys,
           ServerKeys, ServerCalls, ServerCounts, Vouched, Settled, WritesNew, ReadsNew,
           FieldNames, States, Reads, ClientReads, ServerReads, ClientWrites,
           ServerWrites, Rest, FullStates, SameHellos, SameClosing
  <2> QED
    BY <1>2, <2>1, SendInv, PeerFacts DEF ssl3_send_server_certificate, Plain
<1> QED
  BY <1>1, <1>2 DEF ssl3_send_server_certificate

LEMMA ssl3_send_cert_status_Inv == ASSUME Inv, ssl3_send_cert_status PROVE Inv'
<1> DEFINE new == [ssl[S] EXCEPT !.state = "SW_KEY_EXCH"]
<1>1. Good(S, new) /\ SameHellos(S, ssl[S], new) /\ SameClosing(ssl[S], new)
  BY DEF ssl3_send_cert_status, Inv, Ends, Good, GoodServer, Typed, Keys, ServerKeys,
         ServerCalls, ServerCounts, Vouched, Settled, WritesNew, ReadsNew, FieldNames,
         States, Reads, ClientReads, ServerReads, ClientWrites, ServerWrites, Rest,
         FullStates, SameHellos, SameClosing
<1> QED
  BY <1>1, SendInv, PeerFacts DEF ssl3_send_cert_status, Plain

LEMMA ssl3_send_server_key_exchange_Inv ==
  ASSUME Inv, ssl3_send_server_key_exchange
  PROVE  Inv'
<1> DEFINE new == [ssl[S] EXCEPT !.state = "SW_CERT_REQ"]
<1>1. Good(S, new) /\ SameHellos(S, ssl[S], new) /\ SameClosing(ssl[S], new)
  BY DEF ssl3_send_server_key_exchange, Inv, Ends, Good, GoodServer, Typed, Keys,
         ServerKeys, ServerCalls, ServerCounts, Vouched, Settled, WritesNew, ReadsNew,
         FieldNames, States, Reads, ClientReads, ServerReads, ClientWrites,
         ServerWrites, Rest, FullStates, SameHellos, SameClosing
<1> QED
  BY <1>1, MoveInv, SendInv, PeerFacts DEF ssl3_send_server_key_exchange, Plain

LEMMA ssl3_send_certificate_request_Inv ==
  ASSUME Inv, ssl3_send_certificate_request
  PROVE  Inv'
<1>1. ASSUME Move(S, [[ssl[S] EXCEPT !.state = "SW_SRVR_DONE"] EXCEPT !.cert_req = 0])
      PROVE  Inv'
  <2> DEFINE new == [[ssl[S] EXCEPT !.state = "SW_SRVR_DONE"] EXCEPT !.cert_req = 0]
  <2>1. Good(S, new) /\ SameHellos(S, ssl[S], new) /\ SameClosing(ssl[S], new)
    BY DEF ssl3_send_certificate_request, Inv, Ends, Good, GoodServer, Typed, Keys,
           ServerKeys, ServerCalls, ServerCounts, Vouched, Settled, WritesNew, ReadsNew,
           FieldNames, States, Reads, ClientReads, ServerReads, ClientWrites,
           ServerWrites, Rest, FullStates, SameHellos, SameClosing
  <2> QED
    BY <1>1, <2>1, MoveInv, PeerFacts DEF ssl3_send_certificate_request
<1>2. ASSUME Send(S, [[ssl[S] EXCEPT !.state = "SW_SRVR_DONE"] EXCEPT !.cert_req = 1], Plain("CertificateRequest"))
      PROVE  Inv'
  <2> DEFINE new == [[ssl[S] EXCEPT !.state = "SW_SRVR_DONE"] EXCEPT !.cert_req = 1]
  <2>1. Good(S, new) /\ SameHellos(S, ssl[S], new) /\ SameClosing(ssl[S], new)
    BY DEF ssl3_send_certificate_request, Inv, Ends, Good, GoodServer, Typed, Keys,
           ServerKeys, ServerCalls, ServerCounts, Vouched, Settled, WritesNew, ReadsNew,
           FieldNames, States, Reads, ClientReads, ServerReads, ClientWrites,
           ServerWrites, Rest, FullStates, SameHellos, SameClosing
  <2> QED
    BY <1>2, <2>1, SendInv, PeerFacts DEF ssl3_send_certificate_request, Plain
<1> QED
  BY <1>1, <1>2 DEF ssl3_send_certificate_request

LEMMA ssl3_send_server_done_Inv == ASSUME Inv, ssl3_send_server_done PROVE Inv'
<1> DEFINE new == [ssl[S] EXCEPT !.state = "SW_FLUSH", !.next = "SR_CERT"]
<1>1. Good(S, new) /\ SameHellos(S, ssl[S], new) /\ SameClosing(ssl[S], new)
  BY DEF ssl3_send_server_done, Inv, Ends, Good, GoodServer, Typed, Keys, ServerKeys,
         ServerCalls, ServerCounts, Vouched, Settled, WritesNew, ReadsNew, FieldNames,
         States, Reads, ClientReads, ServerReads, ClientWrites, ServerWrites, Rest,
         FullStates, SameHellos, SameClosing
<1> QED
  BY <1>1, SendInv, PeerFacts DEF ssl3_send_server_done, Plain

LEMMA ssl3_get_client_certificate_Inv ==
  ASSUME Inv, ssl3_get_client_certificate
  PROVE  Inv'
<1>1. ASSUME IsNext(S, "Certificate"),
             Receive(S, [ssl[S] EXCEPT !.state = "SR_KEY_EXCH", !.peer = ~Message(S).empty])
      PROVE  Inv'
  <2> DEFINE new == [ssl[S] EXCEPT !.state = "SR_KEY_EXCH", !.peer = ~Message(S).empty]
  <2>1. Good(S, new) /\ SameHellos(S, ssl[S], new) /\ SameClosing(ssl[S], new)
    BY DEF ssl3_get_client_certificate, Inv, Ends, Good, GoodServer, Typed, Keys,
           ServerKeys, ServerCalls, ServerCounts, Vouched, Settled, WritesNew, ReadsNew,
           FieldNames, States, Reads, ClientReads, ServerReads, ClientWrites,
           ServerWrites, Rest, FullStates, SameHellos, SameClosing
  <2> QED
    BY <1>1, <2>1, ReceiveInv, PeerFacts DEF ssl3_get_client_certificate, IsNext
<1>2. ASSUME Move(S, [ssl[S] EXCEPT !.state = "SR_KEY_EXCH"])
      PROVE  Inv'
  <2> DEFINE new == [ssl[S] EXCEPT !.state = "SR_KEY_EXCH"]
  <2>1. Good(S, new) /\ SameHellos(S, ssl[S], new) /\ SameClosing(ssl[S], new)
    BY DEF ssl3_get_client_certificate, Inv, Ends, Good, GoodServer, Typed, Keys,
           ServerKeys, ServerCalls, ServerCounts, Vouched, Settled, WritesNew, ReadsNew,
           FieldNames, States, Reads, ClientReads, ServerReads, ClientWrites,
           ServerWrites, Rest, FullStates, SameHellos, SameClosing
  <2> QED
    BY <1>2, <2>1, MoveInv, PeerFacts DEF ssl3_get_client_certificate
<1> QED
  BY <1>1, <1>2 DEF ssl3_get_client_certificate

LEMMA ssl3_get_client_key_exchange_Inv ==
  ASSUME Inv, ssl3_get_client_key_exchange
  PROVE  Inv'
<1> DEFINE new == [ssl[S] EXCEPT !.state = "SR_CERT_VRFY", !.master = <<ssl[S].cr, ssl[S].sr>>]
<1>1. Good(S, new) /\ SameHellos(S, ssl[S], new) /\ SameClosing(ssl[S], new)
  BY DEF ssl3_get_client_key_exchange, Inv, Ends, Good, GoodServer, Typed, Keys,
         ServerKeys, ServerCalls, ServerCounts, Vouched, Settled, WritesNew, ReadsNew,
         FieldNames, States, Reads, ClientReads, ServerReads, ClientWrites,
         ServerWrites, Rest, FullStates, SameHellos, SameClosing
<1> QED
  BY <1>1, ReceiveInv, PeerFacts DEF ssl3_get_client_key_exchange, IsNext

LEMMA ssl3_get_cert_verify_Inv == ASSUME Inv, ssl3_get_cert_verify PROVE Inv'
<1> DEFINE new == [ssl[S] EXCEPT !.state = "SR_FINISHED"]
<1>1. Good(S, new) /\ SameHellos(S, ssl[S], new) /\ SameClosing(ssl[S], new)
  BY DEF ssl3_get_cert_verify, Inv, Ends, Good, GoodServer, Typed, Keys, ServerKeys,
         ServerCalls, ServerCounts, Vouched, Settled, WritesNew, ReadsNew, FieldNames,
         States, Reads, ClientReads, ServerReads, ClientWrites, ServerWrites, Rest,
         FullStates, SameHellos, SameClosing
<1> QED
  BY <1>1, MoveInv, ReceiveInv, PeerFacts DEF ssl3_get_cert_verify, IsNext

LEMMA ssl3_send_newsession_ticket_Inv ==
  ASSUME Inv, ssl3_send_newsession_ticket
  PROVE  Inv'
<1> DEFINE new == [ssl[S] EXCEPT !.state = "SW_CHANGE"]
<1>1. Good(S, new) /\ SameHellos(S, ssl[S], new) /\ SameClosing(ssl[S], new)
  BY DEF ssl3_send_newsession_ticket, Inv, Ends, Good, GoodServer, Typed, Keys,
         ServerKeys, ServerCalls, ServerCounts, Vouched, Settled, WritesNew, ReadsNew,
         FieldNames, States, Reads, ClientReads, ServerReads, ClientWrites,
         ServerWrites, Rest, FullStates, SameHellos, SameClosing
<1> QED
  BY <1>1, SendInv, PeerFacts DEF ssl3_send_newsession_ticket

LEMMA server_finished_Inv == ASSUME Inv, server_finished PROVE Inv'
<1> DEFINE new == [ssl[S] EXCEPT !.state = "SW_FLUSH", !.prev[S] = final_finish_mac(ssl[S], S),
                     !.next = IF ssl[S].hit THEN "SR_FINISHED" ELSE "DONE"]
<1>1. Good(S, new) /\ SameHellos(S, ssl[S], new) /\ SameClosing(ssl[S], new)
  BY DEF server_finished, Inv, Ends, Good, GoodServer, Typed, Keys, ServerKeys,
         ServerCalls, ServerCounts, Vouched, Settled, WritesNew, ReadsNew, FieldNames,
         States, Reads, ClientReads, ServerReads, ClientWrites, ServerWrites, Rest,
         FullStates, SameHellos, SameClosing, Endpoint
<1> QED
  BY <1>1, SendInv, PeerFacts DEF server_finished

LEMMA read_client_hello_Inv == ASSUME Inv, read_client_hello PROVE Inv'
<1> DEFINE new == [ssl[S] EXCEPT !.state = "ACCEPT", !.new_session = 1]
<1>1. Good(S, new) /\ SameHellos(S, ssl[S], new) /\ SameClosing(ssl[S], new)
  BY DEF read_client_hello, Inv, Ends, Good, GoodServer, Typed, Keys, ServerKeys,
         ServerCalls, ServerCounts, Vouched, Settled, WritesNew, ReadsNew, FieldNames,
         States, Reads, ClientReads, ServerReads, ClientWrites, ServerWrites, Rest,
         FullStates, SameHellos, SameClosing, Reading
<1> QED
  BY <1>1, MoveInv, PeerFacts DEF read_client_hello

-----------------------------------------------------------------------------
(* The steps that count: hellos and requests for them.                     *)

LEMMA HellosFrom ==
  ASSUME Inv, conf' = conf,
         \A r \in Traffic(C)' : \/ r \in Traffic(C)
                                \/ Tag(r) = Request /\ Renews(conf, S)
                                \/ Tag(r) = ServerHello /\ r.body.rnd \in 0 .. ssl'[S].sr
                                \/ Tag(r) \notin {Request, ServerHello},
         \A r \in Traffic(S)' : \/ r \in Traffic(S)
                                \/ Tag(r) = Hello /\ r.body.rnd \in 0 .. ssl'[C].cr
                                \/ Tag(r) # Hello,
         ssl'[S].sr \in Nat, ssl[S].sr <= ssl'[S].sr, ssl'[C].cr \in Nat, ssl[C].cr <= ssl'[C].cr,
         ssl'[C].sr <= ssl'[S].sr, ssl'[S].cr <= ssl'[C].cr,
         Flying(C, Request)' + Pending' <= ssl'[S].total,
         ssl'[C].total + Flying(C, Request)' + Pending' <= MaxRenego + ssl'[S].total,
         ssl'[S].sr + Flying(S, Hello)' <= ssl'[C].cr
  PROVE  Hellos'
<1>1. ssl[S].sr \in Nat /\ ssl[C].cr \in Nat
  BY DEF Inv, Ends, GoodClient, GoodServer, Typed
<1>2. ASSUME NEW r \in Traffic(C)' PROVE Tag(r) = Request => Renews(conf, S)
  BY DEF Inv, Hellos, Request, ServerHello
<1>3. ASSUME NEW r \in Traffic(C)', Tag(r) = ServerHello PROVE r.body.rnd \in 0 .. ssl'[S].sr
  <2>1. CASE r \in Traffic(C)
    <3>1. r.body.rnd \in 0 .. ssl[S].sr
      BY <2>1, <1>3 DEF Inv, Hellos
    <3> QED
      BY <3>1, <1>1
  <2>2. CASE r \notin Traffic(C)
    BY <2>2, <1>3 DEF Request, ServerHello
  <2> QED
    BY <2>1, <2>2
<1>4. ASSUME NEW r \in Traffic(S)', Tag(r) = Hello PROVE r.body.rnd \in 0 .. ssl'[C].cr
  <2>1. CASE r \in Traffic(S)
    <3>1. r.body.rnd \in 0 .. ssl[C].cr
      BY <2>1, <1>4 DEF Inv, Hellos
    <3> QED
      BY <3>1, <1>1
  <2>2. CASE r \notin Traffic(S)
    BY <2>2, <1>4
  <2> QED
    BY <2>1, <2>2
<1> QED
  BY <1>2, <1>3, <1>4 DEF Hellos, Renews

\* The numbers as they are.
LEMMA Numerals ==
  ASSUME Inv
  PROVE  /\ ssl[C].total \in Nat /\ ssl[C].cr \in Nat /\ ssl[C].sr \in Nat
         /\ ssl[S].total \in Nat /\ ssl[S].cr \in Nat /\ ssl[S].sr \in Nat
         /\ Flying(C, Request) \in Nat /\ Flying(S, Hello) \in Nat /\ Pending \in {0, 1}
         /\ MaxRenego \in Nat
         /\ ssl[C].sr <= ssl[S].sr /\ ssl[S].cr <= ssl[C].cr
         /\ Flying(C, Request) + Pending <= ssl[S].total
         /\ ssl[C].total + Flying(C, Request) + Pending <= MaxRenego + ssl[S].total
         /\ ssl[S].sr + Flying(S, Hello) <= ssl[C].cr
BY FlyingFacts, PeerFacts, ConfigAssumption
   DEF Inv, Hellos, Ends, GoodClient, GoodServer, Typed, Pending

LEMMA ssl3_client_hello_Inv == ASSUME Inv, ssl3_client_hello PROVE Inv'
<1> DEFINE new == [ssl[C] EXCEPT !.cr = @ + 1, !.shutdown = {}, !.state = "CR_SRVR_HELLO",
                     !.buffered = TRUE,
                     !.master = IF ssl[C].sid = None /\ ssl[C].tick = None THEN None ELSE @]
           m == ClientHello(new)
           t == ssl3_finish_mac(new, m)
           r == Record(C, "handshake", m)
<1>1. Good(C, new) /\ SameClosing(ssl[C], new)
  BY SMTT(20)
     DEF ssl3_client_hello, Apart, Inv, Ends, Good, GoodClient, Typed, Keys, ClientKeys,
         ClientWindow, ClientCalls, ClientCounts, Vouched, Settled, WritesNew, ReadsNew,
         FieldNames, States, Reads, ClientReads, ServerReads, ClientWrites,
         ServerWrites, Rest, FullStates, SameHellos, SameClosing
<1>2. new.cr = ssl[C].cr + 1 /\ new.total = ssl[C].total /\ new.sr = ssl[C].sr
  BY DEF Inv, Ends, GoodClient, Typed, FieldNames
<1>3. DOMAIN new = FieldNames
  BY <1>1 DEF Good, GoodClient, Typed
<1>4. Become(C, t) /\ Put(C, <<r>>) /\ UNCHANGED <<conf, sent, got>>
  BY DEF ssl3_client_hello, Send
<1>5. r.type = "handshake" /\ Tag(r) = Hello /\ r.body.rnd = ssl[C].cr + 1
  BY <1>2 DEF Record, ClientHello, Tag, Hello
<1> HIDE DEF new, m
<1>6. t.cr = ssl[C].cr + 1 /\ t.total = ssl[C].total /\ t.sr = ssl[C].sr
  BY <1>2, <1>3 DEF ssl3_finish_mac, FieldNames
<1>7. Good(C, t) /\ SameClosing(ssl[C], t)
  BY <1>1, FinishMacGood, FinishMacSame, PeerFacts
<1> HIDE DEF t, r
<1>8. Adds(C, r)
  BY <1>4, PutAdds, PeerFacts DEF Inv
<1>9. Ends' /\ ssl'[C] = t /\ ssl'[S] = ssl[S]
  BY <1>4, <1>7, EndBecomes, PeerFacts DEF Inv
<1>10. /\ Traffic(S)' = Traffic(S) \cup {r} /\ Traffic(C)' = Traffic(C)
       /\ Flying(S, Hello)' = Flying(S, Hello) + 1 /\ Flying(C, Request)' = Flying(C, Request)
       /\ Pending' = Pending
  BY <1>5, <1>8, <1>9, PeerFacts DEF Adds, Pending
<1>11. Hellos'
  BY <1>4, <1>5, <1>6, <1>9, <1>10, HellosFrom, Numerals
<1>12. Counted'
  <2>1. \A x \in Endpoint : Flying(x, App) \in Nat
    BY FlyingFacts DEF Inv
  <2>2. \A x \in Endpoint : Flying(x, App)' = Flying(x, App)
    BY <2>1, <1>5, <1>8, PeerFacts DEF Adds, App, Hello
  <2> QED
    BY <2>2, <1>4, <1>7, <1>9, CountedKept, PeerFacts
<1>13. Closed'
  BY <1>4, <1>5, <1>7, <1>9, <1>10, ClosedKept, PeerFacts DEF Nothing, Hello
<1>14. Records'
  BY <1>5, <1>8, RecordsKept, PeerFacts DEF Adds, RecordTypes
<1> QED
  BY <1>8, <1>9, <1>11, <1>12, <1>13, <1>14, <1>4 DEF Inv, Adds

LEMMA ssl3_send_hello_request_Inv == ASSUME Inv, ssl3_send_hello_request PROVE Inv'
<1> DEFINE new == [ssl[S] EXCEPT !.state = "DONE", !.new_session = 1, !.shutdown = {},
                     !.mac = None]
           r == Record(S, "handshake", Plain("HelloRequest"))
<1>1. Good(S, new) /\ SameClosing(ssl[S], new)
  BY DEF ssl3_send_hello_request, Inv, Ends, Good, GoodServer, Typed, Keys, ServerKeys,
         ServerCalls, ServerCounts, Vouched, Settled, WritesNew, ReadsNew, FieldNames,
         States, Reads, ClientReads, ServerReads, ClientWrites, ServerWrites, Rest,
         FullStates, SameHellos, SameClosing
<1>2. new.cr = ssl[S].cr /\ new.total = ssl[S].total /\ new.sr = ssl[S].sr
      /\ new.state = "DONE" /\ ssl[S].state = "RENEGOTIATE" /\ Renews(conf, S)
  BY DEF Inv, Ends, GoodServer, Typed, FieldNames, ServerCalls, ssl3_send_hello_request
<1>3. Become(S, new) /\ Put(S, <<r>>) /\ UNCHANGED <<conf, sent, got>>
  BY DEF ssl3_send_hello_request
<1>4. r.type = "handshake" /\ Tag(r) = Request
  BY DEF Record, Plain, Tag, Request
<1> HIDE DEF new, r
<1>5. Adds(S, r)
  BY <1>3, PutAdds, PeerFacts DEF Inv
<1>6. Ends' /\ ssl'[S] = new /\ ssl'[C] = ssl[C]
  BY <1>1, <1>3, EndBecomes, PeerFacts DEF Inv
<1>7. /\ Traffic(C)' = Traffic(C) \cup {r} /\ Traffic(S)' = Traffic(S)
      /\ Flying(C, Request)' = Flying(C, Request) + 1 /\ Flying(S, Hello)' = Flying(S, Hello)
      /\ Pending' = 0 /\ Pending = 1
  BY <1>2, <1>4, <1>5, <1>6, PeerFacts DEF Adds, Pending
<1>8. Hellos'
  BY <1>2, <1>3, <1>4, <1>6, <1>7, HellosFrom, Numerals
<1>9. Counted'
  <2>1. \A x \in Endpoint : Flying(x, App) \in Nat
    BY FlyingFacts DEF Inv
  <2>2. \A x \in Endpoint : Flying(x, App)' = Flying(x, App)
    BY <2>1, <1>4, <1>5, PeerFacts DEF Adds, App, Request
  <2> QED
    BY <2>2, <1>1, <1>3, <1>6, CountedKept, PeerFacts
<1>10. Closed'
  BY <1>1, <1>3, <1>4, <1>6, <1>7, ClosedKept, PeerFacts DEF Nothing, Request
<1>11. Records'
  BY <1>4, <1>5, RecordsKept, PeerFacts DEF Adds, RecordTypes
<1> QED
  BY <1>3, <1>5, <1>6, <1>8, <1>9, <1>10, <1>11 DEF Inv, Adds

LEMMA ssl3_send_server_hello_Inv == ASSUME Inv, ssl3_send_server_hello PROVE Inv'
<1> DEFINE new == [ssl[S] EXCEPT
                     !.state = IF ~ssl[S].hit THEN "SW_CERT"
                               ELSE IF ssl[S].ticket_expected THEN "SW_SESSION_TICKET"
                               ELSE "SW_CHANGE"]
           m == [name |-> "ServerHello", rnd |-> ssl[S].sr, sid |-> ssl[S].sid,
                 ticket_ext |-> ssl[S].ticket_expected, ri |-> ssl[S].prev]
           t == ssl3_finish_mac(new, m)
           r == Record(S, "handshake", m)
<1>1. Good(S, new) /\ SameHellos(S, ssl[S], new) /\ SameClosing(ssl[S], new)
  BY DEF ssl3_send_server_hello, Inv, Ends, Good, GoodServer, Typed, Keys, ServerKeys,
         ServerCalls, ServerCounts, Vouched, Settled, WritesNew, ReadsNew, FieldNames,
         States, Reads, ClientReads, ServerReads, ClientWrites, ServerWrites, Rest,
         FullStates, SameHellos, SameClosing
<1>2. Become(S, t) /\ Put(S, <<r>>) /\ UNCHANGED <<conf, sent, got>>
  BY DEF ssl3_send_server_hello, Send
<1>3. r.type = "handshake" /\ Tag(r) = ServerHello /\ r.body.rnd = ssl[S].sr
  BY DEF Record, Tag, ServerHello
<1> HIDE DEF new, m
<1>4. Good(S, t) /\ SameHellos(S, ssl[S], t) /\ SameClosing(ssl[S], t)
  BY <1>1, FinishMacGood, FinishMacSame, PeerFacts
<1> HIDE DEF t, r
<1>5. Adds(S, r)
  BY <1>2, PutAdds, PeerFacts DEF Inv
<1>6. Ends' /\ ssl'[S] = t /\ ssl'[C] = ssl[C]
  BY <1>2, <1>4, EndBecomes, PeerFacts DEF Inv
<1>7. /\ Traffic(C)' = Traffic(C) \cup {r} /\ Traffic(S)' = Traffic(S)
      /\ Flying(C, Request)' = Flying(C, Request) /\ Flying(S, Hello)' = Flying(S, Hello)
      /\ Pending' = Pending
  <2>1. Flying(C, Request) \in Nat /\ Tag(r) # Request
    BY <1>3, Numerals DEF Request, ServerHello
  <2> QED
    BY <2>1, <1>4, <1>5, <1>6, PeerFacts DEF Adds, Pending, SameHellos
<1>8. Hellos'
  BY <1>2, <1>3, <1>4, <1>6, <1>7, HellosFrom, Numerals DEF SameHellos
<1>9. Counted'
  <2>1. \A x \in Endpoint : Flying(x, App) \in Nat
    BY FlyingFacts DEF Inv
  <2>2. \A x \in Endpoint : Flying(x, App)' = Flying(x, App)
    BY <2>1, <1>3, <1>5, PeerFacts DEF Adds, App, ServerHello
  <2> QED
    BY <2>2, <1>2, <1>4, <1>6, CountedKept, PeerFacts
<1>10. Closed'
  BY <1>2, <1>3, <1>4, <1>6, <1>7, ClosedKept, PeerFacts DEF Nothing, ServerHello
<1>11. Records'
  BY <1>3, <1>5, RecordsKept, PeerFacts DEF Adds, RecordTypes
<1> QED
  BY <1>2, <1>5, <1>6, <1>8, <1>9, <1>10, <1>11 DEF Inv, Adds

-----------------------------------------------------------------------------
(* The steps that count: hellos and requests taken, renegotiations begun.  *)

\* All but the hellos, when a record other than data is read.
LEMMA LoseRest ==
  ASSUME Inv, NEW e \in Endpoint, NEW new, Become(e, new), Good(e, new),
         SameClosing(ssl[e], new), NEW r, Loses(e, r), r.type # "app", UNCHANGED <<conf, sent, got>>
  PROVE  /\ Hellos' => Inv'
         /\ ssl'[e] = new /\ ssl'[Peer(e)] = ssl[Peer(e)]
         /\ \A x \in Endpoint : Traffic(x)' \subseteq Traffic(x)
<1>1. Ends' /\ ssl'[e] = new /\ ssl'[Peer(e)] = ssl[Peer(e)]
  BY EndBecomes DEF Inv
<1>2. \A x \in Endpoint : Flying(x, App) \in Nat
  BY FlyingFacts DEF Inv
<1>3. \A x \in Endpoint : Flying(x, App)' = Flying(x, App)
  <2>1. Tag(r) # App
    BY DEF Tag, App
  <2> QED
    BY <2>1, <1>2, PeerFacts DEF Loses
<1>4. \A x \in Endpoint : Traffic(x)' \subseteq Traffic(x)
  BY PeerFacts DEF Loses
<1>5. Counted'
  BY <1>1, <1>3, CountedKept
<1>6. Closed'
  BY <1>1, <1>4, ClosedKept DEF Nothing
<1>7. Records'
  BY <1>4, RecordsKept DEF Loses
<1> QED
  BY <1>1, <1>4, <1>5, <1>6, <1>7 DEF Inv, Loses

\* The same of a step that neither reads nor writes.
LEMMA MoveRest ==
  ASSUME Inv, NEW e \in Endpoint, NEW new, Move(e, new), Good(e, new), SameClosing(ssl[e], new)
  PROVE  /\ Hellos' => Inv'
         /\ ssl'[e] = new /\ ssl'[Peer(e)] = ssl[Peer(e)]
         /\ \A x \in Endpoint : Traffic(x)' = Traffic(x) /\ \A t : Flying(x, t)' = Flying(x, t)
<1>1. Become(e, new) /\ UNCHANGED <<wire, out, conf, sent, got>>
  BY DEF Move
<1>2. Ends' /\ ssl'[e] = new /\ ssl'[Peer(e)] = ssl[Peer(e)]
  BY <1>1, EndBecomes DEF Inv
<1>3. Keeps
  BY <1>1, StillKeeps DEF Inv
<1>4. \A x \in Endpoint : Traffic(x)' = Traffic(x) /\ \A t : Flying(x, t)' = Flying(x, t)
  BY <1>1 DEF Traffic, Flying
<1>5. Counted'
  BY <1>1, <1>2, <1>4, CountedKept
<1>6. Closed'
  BY <1>1, <1>2, <1>4, ClosedKept DEF Nothing
<1>7. Records'
  BY <1>3, RecordsKept DEF Keeps
<1> QED
  BY <1>1, <1>2, <1>3, <1>4, <1>5, <1>6, <1>7 DEF Inv, Keeps

LEMMA ssl3_get_server_hello_Inv == ASSUME Inv, ssl3_get_server_hello PROVE Inv'
<1> DEFINE m == Message(C)
           hit == m.sid # None /\ m.sid = ssl[C].sid
           fresh == ~hit /\ ssl[C].sid # None
           state == IF hit THEN "CR_FINISHED" ELSE "CR_CERT"
           sid == m.sid
           rnd == m.rnd
           tick == IF fresh THEN None ELSE ssl[C].tick
           master == IF fresh THEN None ELSE ssl[C].master
           expected == ssl[C].ticket_expected \/ m.ticket_ext
           new == [ssl[C] EXCEPT
             !.state = state, !.hit = hit, !.sid = sid, !.sr = rnd, !.new_cipher = TRUE,
             !.tick = tick, !.master = master, !.ticket_expected = expected]
           t == ssl3_finish_mac(new, m)
           r == Head1(C)
<1>1. /\ wire[C] # <<>> /\ Tag(r) = ServerHello /\ r.type # "app" /\ m = r.body
      /\ ssl[C].state = "CR_SRVR_HELLO" /\ Receive(C, new)
  BY DEF ssl3_get_server_hello, IsNext, Arrives, Tag, ServerHello, Message
<1>2. Become(C, t) /\ Take(C) /\ UNCHANGED <<out, conf, sent, got>>
  BY <1>1 DEF Receive
<1>3. Loses(C, r)
  BY <1>1, <1>2, TakeLoses, PeerFacts DEF Inv
<1>4. rnd \in Nat /\ rnd <= ssl[S].sr
  <2>1. rnd \in 0 .. ssl[S].sr
    BY <1>1, <1>3 DEF Inv, Hellos, Loses
  <2> QED
    BY <2>1, Numerals
<1>5. hit \in BOOLEAN /\ expected \in BOOLEAN /\ ssl[C].state = "CR_SRVR_HELLO"
      /\ ((state = "CR_FINISHED" /\ hit = TRUE) \/ (state = "CR_CERT" /\ hit = FALSE))
  BY <1>1
<1> HIDE DEF m, hit, fresh, state, sid, rnd, tick, master, expected
<1>6. Good(C, new) /\ SameClosing(ssl[C], new) /\ DOMAIN new = FieldNames
  <2> DEFINE changed == {"state", "hit", "sid", "sr", "new_cipher", "tick", "master", "ticket_expected"}
  <2>1. DOMAIN ssl[C] = FieldNames
    BY DEF Inv, Ends, GoodClient, Typed
  <2>2. DOMAIN new = FieldNames /\ \A f \in FieldNames \ changed : new[f] = ssl[C][f]
    BY <2>1
  <2>3. /\ new.state = state /\ new.hit = hit /\ new.sid = sid /\ new.sr = rnd
        /\ new.new_cipher = TRUE /\ new.tick = tick /\ new.master = master
        /\ new.ticket_expected = expected
    BY <2>1 DEF FieldNames
  <2> HIDE DEF new
  <2>4. /\ new.next = ssl[C].next /\ new.buffered = ssl[C].buffered
        /\ new.cert_req = ssl[C].cert_req /\ new.new_session = ssl[C].new_session
        /\ new.renegotiate = ssl[C].renegotiate /\ new.total = ssl[C].total
        /\ new.peer = ssl[C].peer /\ new.cr = ssl[C].cr /\ new.rkey = ssl[C].rkey
        /\ new.wkey = ssl[C].wkey /\ new.key_block = ssl[C].key_block
        /\ new.mac = ssl[C].mac /\ new.peer_md = ssl[C].peer_md
        /\ new.prev = ssl[C].prev /\ new.ccs = ssl[C].ccs
        /\ new.shutdown = ssl[C].shutdown /\ new.failed = ssl[C].failed
        /\ new.vkey = ssl[C].vkey /\ new.good = ssl[C].good
        /\ new.shut = ssl[C].shut
    BY <2>2 DEF FieldNames
  <2>5. GoodClient(ssl[C])
    BY DEF Inv, Ends
  <2>6. Typed(new)
    BY <1>4, <1>5, <2>2, <2>3, <2>4, <2>5, Numerals
       DEF GoodClient, Typed, States, Reads, ClientReads, ServerReads, ClientWrites,
           ServerWrites, Rest
  <2>7. Keys(new)
    BY <1>5, <2>3, <2>4, <2>5 DEF GoodClient, Keys, Vouched, Settled, FullStates
  <2>8. ClientKeys(new)
    BY <1>5, <2>3, <2>4, <2>5 DEF GoodClient, ClientKeys, WritesNew, ReadsNew
  <2>9. ClientWindow(new)
    BY <1>5, <2>3, <2>4, <2>5 DEF GoodClient, ClientWindow, Vouched, Settled
  <2>10. ClientCalls(new) /\ ClientCounts(new)
    BY <1>5, <2>3, <2>4, <2>5
       DEF GoodClient, Typed, ClientCalls, ClientCounts, ServerReads, ServerWrites
  <2>11. SameClosing(ssl[C], new)
    BY <2>4 DEF SameClosing
  <2> QED
    BY <2>2, <2>6, <2>7, <2>8, <2>9, <2>10, <2>11, PeerFacts DEF Good, GoodClient
<1>7. /\ new.cr = ssl[C].cr /\ new.total = ssl[C].total /\ new.sr = rnd
  BY DEF Inv, Ends, GoodClient, Typed, FieldNames
<1> HIDE DEF new
<1>8. t.cr = ssl[C].cr /\ t.total = ssl[C].total /\ t.sr = rnd
  BY <1>6, <1>7 DEF ssl3_finish_mac, FieldNames
<1>9. Good(C, t) /\ SameClosing(ssl[C], t)
  BY <1>6, FinishMacGood, FinishMacSame, PeerFacts
<1> HIDE DEF t, r
<1>10. /\ Hellos' => Inv'
       /\ ssl'[C] = t /\ ssl'[S] = ssl[S]
       /\ Traffic(C)' \subseteq Traffic(C) /\ Traffic(S)' = Traffic(S)
  BY <1>1, <1>2, <1>3, <1>9, LoseRest, PeerFacts DEF Loses
<1>11. /\ Flying(S, Hello)' = Flying(S, Hello) /\ Flying(C, Request)' = Flying(C, Request)
       /\ Pending' = Pending
  <2>1. Tag(r) # Request
    BY <1>1 DEF Request, ServerHello
  <2>2. Flying(C, Request)' \in Nat /\ Flying(C, Request) = Flying(C, Request)'
    BY <1>3, <2>1 DEF Loses
  <2>3. Flying(S, Hello)' = Flying(S, Hello)
    BY <1>3, PeerFacts DEF Loses
  <2> QED
    BY <1>10, <2>2, <2>3 DEF Pending
<1>12. Hellos'
  BY <1>2, <1>4, <1>8, <1>10, <1>11, HellosFrom, Numerals
<1> QED
  BY <1>10, <1>12

LEMMA ssl3_get_client_hello_Inv == ASSUME Inv, ssl3_get_client_hello PROVE Inv'
<1> DEFINE m == Message(S)
           hit == Resumes(m)
           sr == ssl[S].sr + 1
           expected == TicketExpected(m)
           rnd == m.rnd
           sid == IF hit THEN m.sid ELSE IF expected THEN None ELSE <<"new", sr>>
           master == IF hit THEN OldMaster ELSE None
           new == [ssl[S] EXCEPT
             !.state = "SW_SRVR_HELLO", !.new_session = 2, !.shutdown = {}, !.hit = hit,
             !.cr = rnd, !.sr = sr, !.new_cipher = TRUE, !.ticket_expected = expected,
             !.sid = sid, !.master = master, !.peer = FALSE]
           t == ssl3_finish_mac(new, m)
           r == Head1(S)
<1>1. /\ wire[S] # <<>> /\ Tag(r) = Hello /\ r.type # "app" /\ m = r.body
      /\ ssl[S].state = "SR_CLNT_HELLO" /\ Receive(S, new)
  BY DEF ssl3_get_client_hello, IsNext, Arrives, Tag, Hello, Message
<1>2. Become(S, t) /\ Take(S) /\ UNCHANGED <<out, conf, sent, got>>
  BY <1>1 DEF Receive
<1>3. Loses(S, r)
  BY <1>1, <1>2, TakeLoses, PeerFacts DEF Inv
<1>4. rnd \in Nat /\ rnd <= ssl[C].cr
  <2>1. rnd \in 0 .. ssl[C].cr
    BY <1>1, <1>3 DEF Inv, Hellos, Loses
  <2> QED
    BY <2>1, Numerals
<1>5. hit \in BOOLEAN /\ expected \in BOOLEAN /\ ssl[S].state = "SR_CLNT_HELLO"
  BY <1>1 DEF Resumes, TicketExpected, Inv, Ends, GoodServer, Typed
<1> HIDE DEF m, hit, expected, rnd, sid, master
<1>6. Good(S, new) /\ SameClosing(ssl[S], new) /\ DOMAIN new = FieldNames
  <2> DEFINE changed == {"state", "new_session", "shutdown", "hit", "cr", "sr", "new_cipher",
                          "ticket_expected", "sid", "master", "peer"}
  <2>1. DOMAIN ssl[S] = FieldNames
    BY DEF Inv, Ends, GoodServer, Typed
  <2>2. DOMAIN new = FieldNames /\ \A f \in FieldNames \ changed : new[f] = ssl[S][f]
    BY <2>1
  <2>3. /\ new.state = "SW_SRVR_HELLO" /\ new.new_session = 2 /\ new.shutdown = {}
        /\ new.hit = hit /\ new.cr = rnd /\ new.sr = sr /\ new.new_cipher = TRUE
        /\ new.ticket_expected = expected /\ new.sid = sid /\ new.master = master
        /\ new.peer = FALSE
    BY <2>1 DEF FieldNames
  <2> HIDE DEF new
  <2>4. /\ new.next = ssl[S].next /\ new.buffered = ssl[S].buffered
        /\ new.cert_req = ssl[S].cert_req /\ new.renegotiate = ssl[S].renegotiate
        /\ new.total = ssl[S].total /\ new.tick = ssl[S].tick
        /\ new.rkey = ssl[S].rkey /\ new.wkey = ssl[S].wkey
        /\ new.key_block = ssl[S].key_block /\ new.mac = ssl[S].mac
        /\ new.peer_md = ssl[S].peer_md /\ new.prev = ssl[S].prev
        /\ new.ccs = ssl[S].ccs /\ new.failed = ssl[S].failed
        /\ new.vkey = ssl[S].vkey /\ new.good = ssl[S].good
        /\ new.shut = ssl[S].shut
    BY <2>2 DEF FieldNames
  <2>5. GoodServer(ssl[S])
    BY DEF Inv, Ends
  <2>6. Typed(new)
    <3>1. new.state \in States /\ new.next \in States
      BY <2>3, <2>4, <2>5 DEF GoodServer, Typed, States, ServerWrites
    <3>2. new.cr \in Nat /\ new.sr \in Nat
      BY <1>4, <2>3, Numerals
    <3>3. new.hit \in BOOLEAN /\ new.ticket_expected \in BOOLEAN /\ new.new_cipher \in BOOLEAN
          /\ new.peer \in BOOLEAN
      BY <1>5, <2>3
    <3>4. new.new_session \in 0 .. 2 /\ new.shutdown \subseteq {"sent", "received"}
      BY <2>3
    <3> QED
      BY <2>2, <2>4, <2>5, <3>1, <3>2, <3>3, <3>4 DEF GoodServer, Typed
  <2>7. Keys(new) /\ ServerKeys(new)
    BY <1>5, <2>3, <2>4, <2>5 DEF GoodServer, Keys, ServerKeys, Settled, FullStates
  <2>8. ServerCalls(new)
    BY <1>5, <2>3, <2>4, <2>5 DEF GoodServer, ServerCalls, ClientReads, ClientWrites
  <2>9. ServerCounts(new)
    BY <1>5, <2>3, <2>4, <2>5 DEF GoodServer, Typed, ServerCounts
  <2>10. SameClosing(ssl[S], new)
    BY <1>5, <2>3, <2>4, <2>5 DEF SameClosing, GoodServer, ServerCalls
  <2> QED
    BY <2>2, <2>6, <2>7, <2>8, <2>9, <2>10, PeerFacts DEF Good, GoodServer
<1>7. /\ new.cr = rnd /\ new.total = ssl[S].total /\ new.sr = ssl[S].sr + 1
      /\ new.state = "SW_SRVR_HELLO" 
  BY DEF Inv, Ends, GoodServer, Typed, FieldNames
<1> HIDE DEF new
<1>8. t.cr = rnd /\ t.total = ssl[S].total /\ t.sr = ssl[S].sr + 1 /\ t.state = "SW_SRVR_HELLO"
  BY <1>6, <1>7 DEF ssl3_finish_mac, FieldNames
<1>9. Good(S, t) /\ SameClosing(ssl[S], t)
  BY <1>6, FinishMacGood, FinishMacSame, PeerFacts
<1> HIDE DEF t, r
<1>10. /\ Hellos' => Inv'
       /\ ssl'[S] = t /\ ssl'[C] = ssl[C]
       /\ Traffic(C)' = Traffic(C) /\ Traffic(S)' \subseteq Traffic(S)
  BY <1>1, <1>2, <1>3, <1>9, LoseRest, PeerFacts DEF Loses
<1>11. /\ Flying(S, Hello) = Flying(S, Hello)' + 1 /\ Flying(S, Hello)' \in Nat
       /\ Flying(C, Request)' = Flying(C, Request) /\ Pending' = 0 /\ Pending = 0
  BY <1>1, <1>3, <1>8, <1>10, PeerFacts DEF Loses, Pending
<1>12. Hellos'
  BY <1>2, <1>4, <1>8, <1>10, <1>11, HellosFrom, Numerals
<1> QED
  BY <1>10, <1>12

LEMMA read_hello_request_Inv == ASSUME Inv, read_hello_request PROVE Inv'
<1> DEFINE r == Head1(C)
           new == [ssl[C] EXCEPT !.state = "RENEGOTIATE", !.total = @ + 1]
<1>1. /\ wire[C] # <<>> /\ Tag(r) = Request /\ r.type # "app"
      /\ Take(C) /\ UNCHANGED <<out, conf, sent, got>>
      /\ Become(C, IF Reading(C) THEN new ELSE ssl[C])
  BY DEF read_hello_request, IsNext, Arrives, Tag, Request, Message
<1>2. Loses(C, r)
  BY <1>1, TakeLoses, PeerFacts DEF Inv
<1>3. CASE ~Reading(C)
  <2>1. Become(C, ssl[C])
    BY <1>1, <1>3
  <2>2. Good(C, ssl[C]) /\ SameHellos(C, ssl[C], ssl[C]) /\ SameClosing(ssl[C], ssl[C])
    BY PeerFacts DEF Inv, Ends, Good, SameHellos, SameClosing
  <2> QED
    BY <1>1, <1>2, <2>1, <2>2, LoseInv, PeerFacts
<1>4. CASE Reading(C)
  <2>1. Become(C, new) /\ Renews(conf, S) /\ ssl[C].state = "OK"
    BY <1>1, <1>2, <1>4 DEF Inv, Hellos, Loses, Reading
  <2>2. Good(C, new) /\ SameClosing(ssl[C], new)
    BY <2>1, <1>4
       DEF Reading, Inv, Ends, Good, GoodClient, Typed, Keys, ClientKeys, ClientWindow,
           ClientCalls, ClientCounts, Vouched, Settled, WritesNew, ReadsNew, FieldNames,
           States, Reads, ClientReads, ServerReads, ClientWrites, ServerWrites, Rest,
           FullStates, SameHellos, SameClosing
  <2>3. new.cr = ssl[C].cr /\ new.total = ssl[C].total + 1 /\ new.sr = ssl[C].sr
    BY DEF Inv, Ends, GoodClient, Typed, FieldNames
  <2> HIDE DEF r, new
  <2>4. /\ Hellos' => Inv'
        /\ ssl'[C] = new /\ ssl'[S] = ssl[S]
        /\ Traffic(C)' \subseteq Traffic(C) /\ Traffic(S)' = Traffic(S)
    BY <1>1, <1>2, <2>1, <2>2, LoseRest, PeerFacts DEF Loses
  <2>5. /\ Flying(S, Hello)' = Flying(S, Hello) /\ Flying(C, Request) = Flying(C, Request)' + 1
        /\ Flying(C, Request)' \in Nat /\ Pending' = Pending
    BY <1>1, <1>2, <2>4, PeerFacts DEF Loses, Pending, Request, Hello
  <2>6. conf' = conf
    BY <1>1
  <2>7. Hellos'
    BY <2>3, <2>4, <2>5, <2>6, HellosFrom, Numerals
  <2> QED
    BY <2>4, <2>7
<1> QED
  BY <1>3, <1>4

LEMMA ssl3_renegotiate_check_C_Inv == ASSUME Inv, ssl3_renegotiate_check(C) PROVE Inv'
<1> DEFINE new == [ssl[C] EXCEPT !.state = "RENEGOTIATE", !.renegotiate = FALSE, !.total = @ + 1]
<1>1. Move(C, new) /\ ssl[C].renegotiate /\ (ssl[C].state = "OK" \/ cutthrough_complete(C))
  BY DEF ssl3_renegotiate_check, SSL_in_init
<1>2. Good(C, new) /\ SameClosing(ssl[C], new)
  BY <1>1, SMTT(20)
     DEF cutthrough_complete, Inv, Ends, Good, GoodClient, Typed, Keys, ClientKeys,
         ClientWindow, ClientCalls, ClientCounts, Vouched, Settled, WritesNew, ReadsNew,
         FieldNames, States, Reads, ClientReads, ServerReads, ClientWrites,
         ServerWrites, Rest, FullStates, SameHellos, SameClosing
<1>3. /\ new.cr = ssl[C].cr /\ new.total = ssl[C].total + 1 /\ new.sr = ssl[C].sr
      /\ ssl[C].total < MaxRenego
  BY <1>1 DEF Inv, Ends, GoodClient, Typed, FieldNames, ClientCalls
<1> HIDE DEF new
<1>4. /\ Hellos' => Inv'
      /\ ssl'[C] = new /\ ssl'[S] = ssl[S]
      /\ Traffic(C)' = Traffic(C) /\ Traffic(S)' = Traffic(S)
      /\ Flying(S, Hello)' = Flying(S, Hello) /\ Flying(C, Request)' = Flying(C, Request)
  BY <1>1, <1>2, MoveRest, PeerFacts
<1>5. Pending' = Pending
  BY <1>4 DEF Pending
<1>6. conf' = conf
  BY <1>1 DEF Move
<1>7. Hellos'
  BY <1>3, <1>4, <1>5, <1>6, HellosFrom, Numerals
<1> QED
  BY <1>4, <1>7

LEMMA ssl3_renegotiate_check_S_Inv == ASSUME Inv, ssl3_renegotiate_check(S) PROVE Inv'
<1> DEFINE new == [ssl[S] EXCEPT !.state = "RENEGOTIATE", !.renegotiate = FALSE, !.total = @ + 1]
<1>1. Move(S, new) /\ ssl[S].renegotiate /\ ssl[S].state = "OK"
  BY DEF ssl3_renegotiate_check, SSL_in_init, cutthrough_complete
<1>2. Good(S, new) /\ SameClosing(ssl[S], new)
  BY <1>1, ConfigAssumption
     DEF Apart, Inv, Ends, Good, GoodServer, Typed, Keys, ServerKeys, ServerCalls,
         ServerCounts, Vouched, Settled, WritesNew, ReadsNew, FieldNames, States, Reads,
         ClientReads, ServerReads, ClientWrites, ServerWrites, Rest, FullStates,
         SameHellos, SameClosing
<1>3. /\ new.cr = ssl[S].cr /\ new.total = ssl[S].total + 1 /\ new.sr = ssl[S].sr
      /\ new.state = "RENEGOTIATE"
  BY <1>1 DEF Inv, Ends, GoodServer, Typed, FieldNames
<1> HIDE DEF new
<1>4. /\ Hellos' => Inv'
      /\ ssl'[S] = new /\ ssl'[C] = ssl[C]
      /\ Traffic(C)' = Traffic(C) /\ Traffic(S)' = Traffic(S)
      /\ Flying(S, Hello)' = Flying(S, Hello) /\ Flying(C, Request)' = Flying(C, Request)
  BY <1>1, <1>2, MoveRest, PeerFacts
<1>5. Pending' = 1 /\ Pending = 0
  BY <1>1, <1>3, <1>4 DEF Pending
<1>6. conf' = conf
  BY <1>1 DEF Move
<1>7. Hellos'
  BY <1>3, <1>4, <1>5, <1>6, HellosFrom, Numerals
<1> QED
  BY <1>4, <1>7

LEMMA SSL_renegotiate_Inv ==
  ASSUME Inv, NEW e \in Endpoint, SSL_renegotiate(e)
  PROVE  Inv'
<1> DEFINE new == [ssl[e] EXCEPT !.renegotiate = TRUE,
                     !.new_session = IF ssl[e].new_session = 0 THEN 1 ELSE @]
<1>1. /\ Move(e, new) /\ ssl[e].total < MaxRenego
      /\ \/ May(e, "renegotiate") /\ ssl[e].good > 0
         \/ May(e, "renegotiate_in_window")
         \/ May(e, "renegotiate_early")
  BY DEF SSL_renegotiate
<1>2. Renews(conf, e)
  BY <1>1 DEF May, Renews
<1>3. CASE e = C
  <2>1. Good(C, new) /\ SameHellos(C, ssl[C], new) /\ SameClosing(ssl[C], new)
    BY <1>1, <1>2, <1>3
       DEF Inv, Ends, Good, GoodClient, Typed, Keys, ClientKeys, ClientWindow,
           ClientCalls, ClientCounts, Vouched, Settled, WritesNew, ReadsNew,
           FieldNames, States, Reads, ClientReads, ServerReads, ClientWrites,
           ServerWrites, Rest, FullStates, SameHellos, SameClosing
  <2> QED
    BY <1>1, <1>3, <2>1, MoveInv
<1>4. CASE e = S
  <2>1. Good(S, new) /\ SameHellos(S, ssl[S], new) /\ SameClosing(ssl[S], new)
    BY <1>1, <1>2, <1>4
       DEF Inv, Ends, Good, GoodServer, Typed, Keys, ServerKeys, ServerCalls,
           ServerCounts, Vouched, Settled, WritesNew, ReadsNew, FieldNames, States,
           Reads, ClientReads, ServerReads, ClientWrites, ServerWrites, Rest,
           FullStates, SameHellos, SameClosing
  <2> QED
    BY <1>1, <1>4, <2>1, MoveInv
<1> QED
  BY <1>3, <1>4, PeerFacts

-----------------------------------------------------------------------------
(* Data, alerts and closing.                                               *)

LEMMA EndsStay == ASSUME Ends, UNCHANGED <<ssl, conf>> PROVE Ends'
<1>1. GoodClient(ssl[C])'
  BY DEF Ends, GoodClient, Typed, Keys, ClientKeys, ClientWindow, ClientCalls,
         ClientCounts, Vouched, Settled, WritesNew, ReadsNew, Renews, Closes
<1>2. GoodServer(ssl[S])'
  BY DEF Ends, GoodServer, Typed, Keys, ServerKeys, ServerCalls, ServerCounts, Vouched,
         Settled, WritesNew, ReadsNew, Renews, Closes, Apart
<1> QED
  BY <1>1, <1>2 DEF Ends

LEMMA SameFacts ==
  ASSUME UNCHANGED ssl
  PROVE  \A e \in Endpoint : /\ SameHellos(e, ssl[e], ssl'[e]) /\ SameClosing(ssl[e], ssl'[e])
                            /\ ssl'[Peer(e)] = ssl[Peer(e)]
BY DEF SameHellos, SameClosing

LEMMA SSL_read_Inv == ASSUME Inv, NEW e \in Endpoint, SSL_read(e) PROVE Inv'
<1> DEFINE r == Head1(e)
<1>1. /\ wire[e] # <<>> /\ Tag(r) = App /\ Take(e) /\ UNCHANGED <<ssl, out, conf, sent>>
      /\ got' = [got EXCEPT ![e] = @ + 1]
  BY DEF SSL_read, Arrives, Tag, App
<1>2. Loses(e, r)
  BY <1>1, TakeLoses DEF Inv
<1> HIDE DEF r
<1>3. Ends'
  BY <1>1, EndsStay DEF Inv
<1>4. \A x \in Endpoint : Traffic(x)' \subseteq Traffic(x)
  BY <1>2, PeerFacts DEF Loses
<1>5. \A x \in Endpoint : \A t : Flying(x, t) \in Nat
  BY FlyingFacts DEF Inv
<1>6. /\ Flying(e, App) = Flying(e, App)' + 1 /\ Flying(e, App)' \in Nat
      /\ Flying(Peer(e), App)' = Flying(Peer(e), App)
  BY <1>1, <1>2 DEF Loses
<1>7. ASSUME NEW t, t # App PROVE \A x \in Endpoint : Flying(x, t)' = Flying(x, t)
  BY <1>1, <1>2, <1>5, <1>7, PeerFacts DEF Loses
<1>8. Hellos'
  <2>1. Fewer(Hello) /\ Fewer(Request)
    BY <1>5, <1>7 DEF Fewer, Hello, Request, App
  <2>2. Nothing({Hello, Request, ServerHello})
    BY <1>4 DEF Nothing
  <2> QED
    BY <1>1, <2>1, <2>2, SameFacts, HellosKept
<1>9. Closed'
  BY <1>1, <1>4, SameFacts, ClosedKept DEF Nothing
<1>10. Records'
  BY <1>2, <1>4, RecordsKept DEF Loses
<1>11. Counted'
  <2>1. DOMAIN got' = Endpoint /\ got'[e] = got[e] + 1 /\ got'[Peer(e)] = got[Peer(e)]
    BY <1>1, PeerFacts DEF Inv, Counted
  <2>2. \A x \in Endpoint : got[x] \in Nat /\ got'[x] \in Nat /\ got'[x] + Flying(x, App)' = got[x] + Flying(x, App)
    <3>1. \A x \in Endpoint : got[x] \in Nat
      BY DEF Inv, Counted
    <3> QED
      BY <3>1, <2>1, <1>5, <1>6, PeerFacts
  <2>3. Apart(conf)' = Apart(conf)
    BY <1>1 DEF Apart, Renews, Closes
  <2> QED
    BY <1>1, <2>1, <2>2, <2>3 DEF Inv, Counted
<1> QED
  BY <1>1, <1>2, <1>3, <1>8, <1>9, <1>10, <1>11 DEF Inv, Loses

\* Data are written past the buffering BIO.
LEMMA SSL_write_Inv == ASSUME Inv, NEW e \in Endpoint, SSL_write(e) PROVE Inv'
<1> DEFINE r == Record(e, "app", Plain("data"))
<1>1. /\ Put(e, <<r>>) /\ UNCHANGED <<ssl, conf, got>>
      /\ sent' = [sent EXCEPT ![e] = @ + 1] /\ sent[e] < MaxData
  BY DEF SSL_write
<1>2. Tag(r) = App /\ r.type = "app"
  BY DEF Record, Tag, App
<1>3. ~ssl[e].buffered
  <2>1. CASE ssl[e].state = "OK"
    BY <2>1, PeerFacts DEF Inv, Ends, GoodClient, GoodServer, Keys
  <2>2. CASE cutthrough_complete(e)
    BY <2>2 DEF Inv, Ends, GoodClient, ClientKeys, cutthrough_complete
  <2> QED
    BY <2>1, <2>2 DEF SSL_write, SSL_in_init
<1> HIDE DEF r
<1>4. Adds(e, r) /\ Elements(out[e])' = Elements(out[e])
  BY <1>1, <1>3, PutAdds DEF Inv
<1>5. Ends'
  BY <1>1, EndsStay DEF Inv
<1>6. \A x \in Endpoint : \A q \in Traffic(x)' : q \in Traffic(x) \/ q = r
  BY <1>4, PeerFacts DEF Adds
<1>7. \A x \in Endpoint : \A t : Flying(x, t) \in Nat
  BY FlyingFacts DEF Inv
<1>8. ASSUME NEW t, t # App PROVE \A x \in Endpoint : Flying(x, t)' = Flying(x, t)
  BY <1>2, <1>4, <1>7, <1>8, PeerFacts DEF Adds
<1>9. Flying(Peer(e), App)' = Flying(Peer(e), App) + 1 /\ Flying(e, App)' = Flying(e, App)
  BY <1>2, <1>4 DEF Adds
<1>10. Hellos'
  <2>1. Fewer(Hello) /\ Fewer(Request)
    BY <1>7, <1>8 DEF Fewer, Hello, Request, App
  <2>2. Nothing({Hello, Request, ServerHello})
    BY <1>2, <1>6 DEF Nothing, Hello, Request, ServerHello, App
  <2> QED
    BY <1>1, <2>1, <2>2, SameFacts, HellosKept
<1>11. Closed'
  <2>1. Nothing({<<"close_notify">>})
    BY <1>2, <1>6 DEF Nothing, App
  <2> QED
    BY <1>1, <2>1, SameFacts, ClosedKept
<1>12. Records'
  BY <1>2, <1>4, <1>6, RecordsKept, PeerFacts DEF Adds, RecordTypes
<1>13. Counted'
  <2>1. DOMAIN sent' = Endpoint /\ sent'[e] = sent[e] + 1 /\ sent'[Peer(e)] = sent[Peer(e)]
    BY <1>1, PeerFacts DEF Inv, Counted
  <2>2. /\ sent[e] \in 0 .. MaxData /\ sent[Peer(e)] \in 0 .. MaxData
        /\ got[e] \in Nat /\ got[Peer(e)] \in Nat
    BY PeerFacts DEF Inv, Counted
  <2>3. \A x \in Endpoint : sent'[x] \in 0 .. MaxData
    BY <1>1, <2>1, <2>2, ConfigAssumption, PeerFacts
  <2>4. Apart(conf)' = Apart(conf)
    BY <1>1 DEF Apart, Renews, Closes
  <2>5. ASSUME NEW x \in Endpoint
        PROVE  /\ got[x] + Flying(x, App)' <= sent'[Peer(x)]
               /\ Apart(conf) /\ "sent" \notin ssl[x].shutdown => got[x] + Flying(x, App)' = sent'[Peer(x)]
    <3>1. /\ got[x] + Flying(x, App) <= sent[Peer(x)]
          /\ Apart(conf) /\ "sent" \notin ssl[x].shutdown => got[x] + Flying(x, App) = sent[Peer(x)]
      BY DEF Inv, Counted
    <3>2. CASE x = e
      BY <3>1, <3>2, <1>9, <2>1
    <3>3. CASE x = Peer(e)
      <4>1. Peer(x) = e /\ sent[e] \in Nat /\ Flying(x, App) \in Nat /\ got[x] \in Nat
        BY <3>3, <1>7, <2>2, PeerFacts, ConfigAssumption
      <4> QED
        BY <3>1, <3>3, <4>1, <1>9, <2>1
    <3> QED
      BY <3>2, <3>3, PeerFacts
  <2> QED
    BY <1>1, <2>1, <2>3, <2>4, <2>5 DEF Inv, Counted
<1> QED
  BY <1>1, <1>4, <1>5, <1>10, <1>11, <1>12, <1>13 DEF Inv, Adds

\* Only an end that has closed throws data away.
LEMMA discard_Inv == ASSUME Inv, NEW e \in Endpoint, discard(e) PROVE Inv'
<1> DEFINE r == Head1(e)
<1>1. wire[e] # <<>> /\ Take(e) /\ UNCHANGED <<ssl, out, conf, sent, got>> /\ "sent" \in ssl[e].shutdown
  BY DEF discard, Discards
<1>2. Loses(e, r)
  BY <1>1, TakeLoses DEF Inv
<1> HIDE DEF r
<1>3. Ends'
  BY <1>1, EndsStay DEF Inv
<1>4. \A x \in Endpoint : Traffic(x)' \subseteq Traffic(x)
  BY <1>2, PeerFacts DEF Loses
<1>5. /\ \A t : Flying(e, t)' \in Nat /\ Flying(e, t) \in Nat /\ Flying(e, t)' <= Flying(e, t)
      /\ \A t : Flying(Peer(e), t)' \in Nat /\ Flying(Peer(e), t)' = Flying(Peer(e), t)
  <2>1. \A x \in Endpoint : \A t : Flying(x, t) \in Nat
    BY FlyingFacts DEF Inv
  <2> QED
    BY <2>1, <1>2, PeerFacts DEF Loses
<1>6. Hellos'
  <2>1. Fewer(Hello) /\ Fewer(Request)
    BY <1>5, PeerFacts DEF Fewer
  <2>2. Nothing({Hello, Request, ServerHello})
    BY <1>4 DEF Nothing
  <2> QED
    BY <1>1, <2>1, <2>2, SameFacts, HellosKept
<1>7. Closed'
  BY <1>1, <1>4, SameFacts, ClosedKept DEF Nothing
<1>8. Records'
  BY <1>2, <1>4, RecordsKept DEF Loses
<1>9. Counted'
  <2>1. Apart(conf)' = Apart(conf)
    BY <1>1 DEF Apart, Renews, Closes
  <2>2. ASSUME NEW x \in Endpoint
        PROVE  /\ got[x] + Flying(x, App)' <= sent[Peer(x)]
               /\ Apart(conf) /\ "sent" \notin ssl[x].shutdown => got[x] + Flying(x, App)' = sent[Peer(x)]
    <3>1. /\ got[x] + Flying(x, App) <= sent[Peer(x)] /\ got[x] \in Nat /\ sent[Peer(x)] \in 0 .. MaxData
          /\ Apart(conf) /\ "sent" \notin ssl[x].shutdown => got[x] + Flying(x, App) = sent[Peer(x)]
      BY PeerFacts DEF Inv, Counted
    <3>2. CASE x = e
      BY <3>1, <3>2, <1>1, <1>5, ConfigAssumption
    <3>3. CASE x = Peer(e)
      BY <3>1, <3>3, <1>5
    <3> QED
      BY <3>2, <3>3, PeerFacts
  <2> QED
    BY <1>1, <2>1, <2>2 DEF Inv, Counted
<1> QED
  BY <1>1, <1>2, <1>3, <1>6, <1>7, <1>8, <1>9 DEF Inv, Loses

LEMMA CountedSame ==
  ASSUME Inv, NEW e \in Endpoint, UNCHANGED <<conf, sent, got>>,
         ssl'[Peer(e)] = ssl[Peer(e)], "sent" \in ssl[e].shutdown => "sent" \in ssl'[e].shutdown,
         \A x \in Endpoint : Flying(x, App)' = Flying(x, App)
  PROVE  Counted'
<1>1. \A x \in Endpoint : "sent" \notin ssl'[x].shutdown => "sent" \notin ssl[x].shutdown
  BY PeerFacts
<1>2. Apart(conf)' = Apart(conf)
  BY DEF Apart, Renews, Closes
<1> QED
  BY <1>1, <1>2 DEF Inv, Counted

\* An alert is read.
LEMMA AlertInv ==
  ASSUME Inv, NEW e \in Endpoint, NEW new, Become(e, new), Good(e, new), SameHellos(e, ssl[e], new),
         new.shutdown = ssl[e].shutdown \cup {"received"}, new.shut = ssl[e].shut,
         ssl[e].failed => new.failed,
         Apart(conf) => new.failed \/ "sent" \in ssl[Peer(e)].shutdown,
         NEW r, Loses(e, r), r.type # "app", UNCHANGED <<conf, sent, got>>
  PROVE  Inv'
<1>1. Ends' /\ ssl'[e] = new /\ ssl'[Peer(e)] = ssl[Peer(e)]
  BY EndBecomes DEF Inv
<1>2. \A x \in Endpoint : \A t : Flying(x, t) \in Nat
  BY FlyingFacts DEF Inv
<1>3. ASSUME NEW t, NEW x \in Endpoint
      PROVE  Flying(x, t)' \in Nat /\ Flying(x, t)' <= Flying(x, t)
  <2>1. CASE x = e
    BY <2>1, <1>2 DEF Loses
  <2>2. CASE x = Peer(e)
    BY <2>2, <1>2, PeerFacts DEF Loses
  <2> QED
    BY <2>1, <2>2, PeerFacts
<1>4. \A x \in Endpoint : Flying(x, App)' = Flying(x, App)
  <2>1. Tag(r) # App
    BY DEF Tag, App
  <2> QED
    BY <2>1, <1>2, PeerFacts DEF Loses
<1>5. \A x \in Endpoint : Traffic(x)' \subseteq Traffic(x)
  BY PeerFacts DEF Loses
<1>6. Hellos'
  BY <1>1, <1>3, <1>5, HellosKept DEF Fewer, Nothing
<1>7. Counted'
  BY <1>1, <1>4, CountedSame
<1>8. Records'
  BY <1>5, RecordsKept DEF Loses
<1>9. Closed'
  <2>1. Apart(conf)' = Apart(conf) /\ NoHurry(conf)' = NoHurry(conf)
    BY DEF Apart, Renews, Closes, NoHurry
  <2>2. \A x \in Endpoint : "sent" \in ssl[x].shutdown => "sent" \in ssl'[x].shutdown
    BY <1>1, PeerFacts
  <2>3. ASSUME Apart(conf), NEW x \in Endpoint
        PROVE  /\ \A q \in Traffic(x)' : q.type = "close_notify" => "sent" \in ssl'[Peer(x)].shutdown
               /\ "received" \in ssl'[x].shutdown /\ ~ssl'[x].failed => "sent" \in ssl'[Peer(x)].shutdown
               /\ NoHurry(conf) /\ ssl'[x].shut =>
                    ssl'[x].shutdown = {"sent", "received"} /\ "sent" \in ssl'[Peer(x)].shutdown
    <3>1. /\ \A q \in Traffic(x) : q.type = "close_notify" => "sent" \in ssl[Peer(x)].shutdown
          /\ "received" \in ssl[x].shutdown /\ ~ssl[x].failed => "sent" \in ssl[Peer(x)].shutdown
          /\ NoHurry(conf) /\ ssl[x].shut =>
               ssl[x].shutdown = {"sent", "received"} /\ "sent" \in ssl[Peer(x)].shutdown
      BY <2>3 DEF Inv, Closed
    <3>2. Peer(x) \in Endpoint
      BY PeerFacts
    <3>3. \A q \in Traffic(x)' : q.type = "close_notify" => "sent" \in ssl'[Peer(x)].shutdown
      BY <3>1, <3>2, <1>5, <2>2
    <3>4. CASE x = e
      BY <3>1, <3>2, <3>3, <3>4, <1>1, <2>2, <2>3
    <3>5. CASE x = Peer(e)
      BY <3>1, <3>2, <3>3, <3>5, <1>1, <2>2
    <3> QED
      BY <3>4, <3>5, PeerFacts
  <2> QED
    BY <2>1, <2>3 DEF Closed
<1> QED
  BY <1>1, <1>6, <1>7, <1>8, <1>9 DEF Inv, Loses

LEMMA read_close_notify_Inv ==
  ASSUME Inv, NEW e \in Endpoint, read_close_notify(e)
  PROVE  Inv'
<1> DEFINE r == Head1(e)
           new == [ssl[e] EXCEPT !.shutdown = @ \cup {"received"}]
<1>1. /\ wire[e] # <<>> /\ r.type = "close_notify" /\ Become(e, new) /\ Take(e)
      /\ UNCHANGED <<out, conf, sent, got>> /\ ssl[e].state \in Reads \cup {"OK"}
  BY DEF read_close_notify, Arrives, Reading
<1>2. Loses(e, r)
  BY <1>1, TakeLoses DEF Inv
<1>3. CASE e = C
  <2>1. /\ Good(C, new) /\ SameHellos(C, ssl[C], new)
        /\ new.shutdown = ssl[C].shutdown \cup {"received"} /\ new.shut = ssl[C].shut
        /\ ssl[C].failed => new.failed
    BY <1>1, <1>3
       DEF Inv, Ends, Good, GoodClient, Typed, Keys, ClientKeys, ClientWindow,
           ClientCalls, ClientCounts, Vouched, Settled, WritesNew, ReadsNew, FieldNames,
           States, Reads, ClientReads, ServerReads, ClientWrites, ServerWrites, Rest,
           FullStates, SameHellos, SameClosing
  <2>2. Apart(conf) => new.failed \/ "sent" \in ssl[Peer(C)].shutdown
    BY <1>1, <1>2, <1>3 DEF Inv, Closed, Loses
  <2> HIDE DEF r, new
  <2> QED
    BY <1>1, <1>2, <1>3, <2>1, <2>2, AlertInv
<1>4. CASE e = S
  <2>1. /\ Good(S, new) /\ SameHellos(S, ssl[S], new)
        /\ new.shutdown = ssl[S].shutdown \cup {"received"} /\ new.shut = ssl[S].shut
        /\ ssl[S].failed => new.failed
    BY <1>1, <1>4
       DEF Inv, Ends, Good, GoodServer, Typed, Keys, ServerKeys, ServerCalls,
           ServerCounts, Vouched, Settled, WritesNew, ReadsNew, FieldNames, States,
           Reads, ClientReads, ServerReads, ClientWrites, ServerWrites, Rest,
           FullStates, SameHellos, SameClosing
  <2>2. Apart(conf) => new.failed \/ "sent" \in ssl[Peer(S)].shutdown
    BY <1>1, <1>2, <1>4 DEF Inv, Closed, Loses
  <2> HIDE DEF r, new
  <2> QED
    BY <1>1, <1>2, <1>4, <2>1, <2>2, AlertInv
<1> QED
  BY <1>3, <1>4, PeerFacts

LEMMA read_fatal_alert_Inv ==
  ASSUME Inv, NEW e \in Endpoint, read_fatal_alert(e)
  PROVE  Inv'
<1> DEFINE r == Head1(e)
           new == [ssl[e] EXCEPT !.failed = TRUE, !.shutdown = @ \cup {"received"}]
<1>1. /\ wire[e] # <<>> /\ r.type = "fatal" /\ Become(e, new) /\ Take(e)
      /\ UNCHANGED <<out, conf, sent, got>> /\ ssl[e].state \in Reads \cup {"OK"}
  BY DEF read_fatal_alert, Arrives, Reading
<1>2. Loses(e, r)
  BY <1>1, TakeLoses DEF Inv
<1>3. CASE e = C
  <2>1. /\ Good(C, new) /\ SameHellos(C, ssl[C], new)
        /\ new.shutdown = ssl[C].shutdown \cup {"received"} /\ new.shut = ssl[C].shut
        /\ ssl[C].failed => new.failed
    BY <1>1, <1>3, SMTT(20)
       DEF Inv, Ends, Good, GoodClient, Typed, Keys, ClientKeys, ClientWindow,
           ClientCalls, ClientCounts, Vouched, Settled, WritesNew, ReadsNew, FieldNames,
           States, Reads, ClientReads, ServerReads, ClientWrites, ServerWrites, Rest,
           FullStates, SameHellos, SameClosing
  <2>2. Apart(conf) => new.failed \/ "sent" \in ssl[Peer(C)].shutdown
    BY <1>1, <1>2, <1>3 DEF Inv, Ends, GoodClient, Typed, FieldNames
  <2> HIDE DEF r, new
  <2> QED
    BY <1>1, <1>2, <1>3, <2>1, <2>2, AlertInv
<1>4. CASE e = S
  <2>1. /\ Good(S, new) /\ SameHellos(S, ssl[S], new)
        /\ new.shutdown = ssl[S].shutdown \cup {"received"} /\ new.shut = ssl[S].shut
        /\ ssl[S].failed => new.failed
    BY <1>1, <1>4, SMTT(20)
       DEF Inv, Ends, Good, GoodServer, Typed, Keys, ServerKeys, ServerCalls,
           ServerCounts, Vouched, Settled, WritesNew, ReadsNew, FieldNames, States,
           Reads, ClientReads, ServerReads, ClientWrites, ServerWrites, Rest,
           FullStates, SameHellos, SameClosing
  <2>2. Apart(conf) => new.failed \/ "sent" \in ssl[Peer(S)].shutdown
    BY <1>1, <1>2, <1>4 DEF Inv, Ends, GoodServer, Typed, FieldNames
  <2> HIDE DEF r, new
  <2> QED
    BY <1>1, <1>2, <1>4, <2>1, <2>2, AlertInv
<1> QED
  BY <1>3, <1>4, PeerFacts

LEMMA ssl3_send_alert_Inv ==
  ASSUME Inv, NEW e \in Endpoint, ssl3_send_alert(e)
  PROVE  Inv'
<1> DEFINE r == Record(e, "fatal", Plain("alert"))
           new == [ssl[e] EXCEPT !.failed = TRUE]
<1>1. /\ Become(e, new) /\ UNCHANGED <<conf, sent, got>>
      /\ wire' = [wire EXCEPT ![Peer(e)] = @ \o out[e] \o <<r>>]
      /\ out' = [out EXCEPT ![e] = <<>>]
  BY DEF ssl3_send_alert
<1> HIDE DEF r
<1>2. Adds(e, r)
  BY <1>1, FatalAdds DEF Inv
<1>3. r.type = "fatal" /\ Tag(r) = <<"fatal">>
  BY DEF Record, Tag, r
<1>4. Good(e, new) /\ SameHellos(e, ssl[e], new) /\ SameClosing(ssl[e], new)
  <2>1. CASE e = C
    BY <2>1
       DEF Inv, Ends, Good, GoodClient, Typed, Keys, ClientKeys, ClientWindow,
           ClientCalls, ClientCounts, Vouched, Settled, WritesNew, ReadsNew, FieldNames,
           States, Reads, ClientReads, ServerReads, ClientWrites, ServerWrites, Rest,
           FullStates, SameHellos, SameClosing
  <2>2. CASE e = S
    BY <2>2
       DEF Inv, Ends, Good, GoodServer, Typed, Keys, ServerKeys, ServerCalls,
           ServerCounts, Vouched, Settled, WritesNew, ReadsNew, FieldNames, States,
           Reads, ClientReads, ServerReads, ClientWrites, ServerWrites, Rest,
           FullStates, SameHellos, SameClosing
  <2> QED
    BY <2>1, <2>2, PeerFacts
<1> HIDE DEF new
<1> QED
  BY <1>1, <1>2, <1>3, <1>4, AddInv DEF RecordTypes, Hello, Request, ServerHello

\* SSL_shutdown sends close_notify, or finds that both have been exchanged.
LEMMA SSL_shutdown_Inv == ASSUME Inv, NEW e \in Endpoint, SSL_shutdown(e) PROVE Inv'
<1> DEFINE done == [ssl[e] EXCEPT !.shut = TRUE]
           r == Record(e, "close_notify", Plain("close_notify"))
           both == "received" \in ssl[e].shutdown
           closing == ssl[e].shutdown \cup {"sent"}
           new == [ssl[e] EXCEPT !.shutdown = closing, !.shut = both]
<1>1. CASE Move(e, done) /\ (May(e, "shutdown_in_init")
                              \/ (ssl[e].shutdown = {"sent", "received"} /\ ~ssl[e].failed))
  <2>1. Good(e, done) /\ SameHellos(e, ssl[e], done)
    <3>1. CASE e = C
      BY <3>1
         DEF Inv, Ends, Good, GoodClient, Typed, Keys, ClientKeys, ClientWindow,
             ClientCalls, ClientCounts, Vouched, Settled, WritesNew, ReadsNew,
             FieldNames, States, Reads, ClientReads, ServerReads, ClientWrites,
             ServerWrites, Rest, FullStates, SameHellos, SameClosing
    <3>2. CASE e = S
      BY <3>2
         DEF Inv, Ends, Good, GoodServer, Typed, Keys, ServerKeys, ServerCalls,
             ServerCounts, Vouched, Settled, WritesNew, ReadsNew, FieldNames, States,
             Reads, ClientReads, ServerReads, ClientWrites, ServerWrites, Rest,
             FullStates, SameHellos, SameClosing
    <3> QED
      BY <3>1, <3>2, PeerFacts
  <2>2. done.shutdown = ssl[e].shutdown /\ done.failed = ssl[e].failed
    BY PeerFacts DEF Inv, Ends, GoodClient, GoodServer, Typed, FieldNames
  <2> HIDE DEF done
  <2>3. Become(e, done) /\ UNCHANGED <<wire, out, conf, sent, got>>
    BY <1>1 DEF Move
  <2>4. Ends' /\ ssl'[e] = done /\ ssl'[Peer(e)] = ssl[Peer(e)]
    BY <2>1, <2>3, EndBecomes DEF Inv
  <2>5. Keeps /\ \A x \in Endpoint : Traffic(x)' = Traffic(x)
    BY <2>3, StillKeeps DEF Inv, Traffic
  <2>6. Hellos'
    BY <2>1, <2>3, <2>4, <2>5, HellosKept DEF Keeps, Fewer, Nothing
  <2>7. Counted'
    BY <2>2, <2>3, <2>4, <2>5, CountedSame DEF Keeps
  <2>8. Records'
    BY <2>5, RecordsKept DEF Keeps
  <2>9. Closed'
    <3>1. Apart(conf)' = Apart(conf) /\ NoHurry(conf)' = NoHurry(conf)
      BY <2>3 DEF Apart, Renews, Closes, NoHurry
    <3>2. NoHurry(conf) => ssl[e].shutdown = {"sent", "received"} /\ ~ssl[e].failed
      BY <1>1 DEF NoHurry, May
    <3>3. \A x \in Endpoint : ssl'[x].shutdown = ssl[x].shutdown /\ ssl'[x].failed = ssl[x].failed
      BY <2>2, <2>4, PeerFacts
    <3>4. ssl'[Peer(e)].shut = ssl[Peer(e)].shut
      BY <2>4
    <3>5. ASSUME Apart(conf), NEW x \in Endpoint
          PROVE  /\ \A q \in Traffic(x)' : q.type = "close_notify" => "sent" \in ssl'[Peer(x)].shutdown
                 /\ "received" \in ssl'[x].shutdown /\ ~ssl'[x].failed => "sent" \in ssl'[Peer(x)].shutdown
                 /\ NoHurry(conf) /\ ssl'[x].shut =>
                      ssl'[x].shutdown = {"sent", "received"} /\ "sent" \in ssl'[Peer(x)].shutdown
      <4>1. /\ \A q \in Traffic(x) : q.type = "close_notify" => "sent" \in ssl[Peer(x)].shutdown
            /\ "received" \in ssl[x].shutdown /\ ~ssl[x].failed => "sent" \in ssl[Peer(x)].shutdown
            /\ NoHurry(conf) /\ ssl[x].shut =>
                 ssl[x].shutdown = {"sent", "received"} /\ "sent" \in ssl[Peer(x)].shutdown
        BY <3>5 DEF Inv, Closed
      <4>2. Peer(x) \in Endpoint
        BY PeerFacts
      <4>3. CASE x = e
        BY <4>1, <4>2, <4>3, <2>5, <3>2, <3>3
      <4>4. CASE x = Peer(e)
        BY <4>1, <4>2, <4>4, <2>5, <3>3, <3>4
      <4> QED
        BY <4>3, <4>4, PeerFacts
    <3> QED
      BY <3>1, <3>5 DEF Closed
  <2> QED
    BY <2>3, <2>4, <2>5, <2>6, <2>7, <2>8, <2>9 DEF Inv, Keeps
<1>2. CASE /\ Become(e, new) /\ Put(e, <<r>>) /\ UNCHANGED <<conf, sent, got>>
           /\ ~ssl[e].failed /\ (ssl[e].state = "OK" \/ cutthrough_complete(e)) /\ Closes(conf, e)
  <2>1. both \in BOOLEAN
    OBVIOUS
  <2>2. closing \subseteq {"sent", "received"} /\ "sent" \in closing
    BY PeerFacts DEF Inv, Ends, GoodClient, GoodServer, Typed
  <2> HIDE DEF both, closing
  <2>3. Good(e, new) /\ SameHellos(e, ssl[e], new)
    <3>1. CASE e = C
      BY <1>2, <2>1, <2>2, <3>1, SMTT(20)
         DEF cutthrough_complete, Inv, Ends, Good, GoodClient, Typed, Keys, ClientKeys,
             ClientWindow, ClientCalls, ClientCounts, Vouched, Settled, WritesNew,
             ReadsNew, FieldNames, States, Reads, ClientReads, ServerReads,
             ClientWrites, ServerWrites, Rest, FullStates, SameHellos, SameClosing
    <3>2. CASE e = S
      BY <1>2, <2>1, <2>2, <3>2
         DEF cutthrough_complete, Inv, Ends, Good, GoodServer, Typed, Keys, ServerKeys,
             ServerCalls, ServerCounts, Vouched, Settled, WritesNew, ReadsNew,
             FieldNames, States, Reads, ClientReads, ServerReads, ClientWrites,
             ServerWrites, Rest, FullStates, SameHellos, SameClosing
    <3> QED
      BY <3>1, <3>2, PeerFacts
  <2>4. new.shutdown = closing /\ new.shut = both /\ new.failed = ssl[e].failed
    BY PeerFacts DEF Inv, Ends, GoodClient, GoodServer, Typed, FieldNames
  <2>5. r.type = "close_notify" /\ Tag(r) = <<"close_notify">>
    BY DEF Record, Tag
  <2> HIDE DEF new, r
  <2>6. Ends' /\ ssl'[e] = new /\ ssl'[Peer(e)] = ssl[Peer(e)]
    BY <1>2, <2>3, EndBecomes DEF Inv
  <2>7. Adds(e, r)
    BY <1>2, PutAdds DEF Inv
  <2>8. \A x \in Endpoint : \A q \in Traffic(x)' : q \in Traffic(x) \/ (q = r /\ x = Peer(e))
    BY <2>7, PeerFacts DEF Adds
  <2>9. ASSUME NEW t, Tag(r) # t, NEW x \in Endpoint
        PROVE  Flying(x, t)' = Flying(x, t) /\ Flying(x, t) \in Nat
    <3>1. \A y \in Endpoint : \A u : Flying(y, u) \in Nat
      BY FlyingFacts DEF Inv
    <3> QED
      BY <3>1, <2>7, <2>9, PeerFacts DEF Adds
  <2>10. Hellos'
    <3>1. Fewer(Hello) /\ Fewer(Request)
      BY <2>5, <2>9 DEF Fewer, Hello, Request
    <3>2. Nothing({Hello, Request, ServerHello})
      BY <2>5, <2>8 DEF Nothing, Hello, Request, ServerHello
    <3> QED
      BY <1>2, <2>3, <2>6, <3>1, <3>2, HellosKept
  <2>11. Counted'
    BY <1>2, <2>2, <2>4, <2>5, <2>6, <2>9, CountedSame DEF App
  <2>12. Records'
    BY <2>5, <2>7, <2>8, RecordsKept, PeerFacts DEF Adds, RecordTypes
  <2>13. Closed'
    <3>1. Apart(conf)' = Apart(conf) /\ NoHurry(conf)' = NoHurry(conf)
      BY <1>2 DEF Apart, Renews, Closes, NoHurry
    <3>2. "sent" \in ssl'[e].shutdown /\ \A x \in Endpoint : "sent" \in ssl[x].shutdown => "sent" \in ssl'[x].shutdown
      BY <2>2, <2>4, <2>6, PeerFacts
    <3>3. /\ "received" \in ssl'[e].shutdown <=> "received" \in ssl[e].shutdown
          /\ ssl'[e].shut => "received" \in ssl[e].shutdown /\ ssl'[e].shutdown = {"sent", "received"}
      BY <2>2, <2>4, <2>6 DEF both, closing
    <3>4. ASSUME Apart(conf), NEW x \in Endpoint
          PROVE  /\ \A q \in Traffic(x)' : q.type = "close_notify" => "sent" \in ssl'[Peer(x)].shutdown
                 /\ "received" \in ssl'[x].shutdown /\ ~ssl'[x].failed => "sent" \in ssl'[Peer(x)].shutdown
                 /\ NoHurry(conf) /\ ssl'[x].shut =>
                      ssl'[x].shutdown = {"sent", "received"} /\ "sent" \in ssl'[Peer(x)].shutdown
      <4>1. /\ \A q \in Traffic(x) : q.type = "close_notify" => "sent" \in ssl[Peer(x)].shutdown
            /\ "received" \in ssl[x].shutdown /\ ~ssl[x].failed => "sent" \in ssl[Peer(x)].shutdown
            /\ NoHurry(conf) /\ ssl[x].shut =>
                 ssl[x].shutdown = {"sent", "received"} /\ "sent" \in ssl[Peer(x)].shutdown
        BY <3>4 DEF Inv, Closed
      <4>2. Peer(x) \in Endpoint /\ Peer(Peer(x)) = x
        BY PeerFacts
      <4>3. CASE x = e
        <5>1. \A q \in Traffic(x)' : q \in Traffic(x)
          BY <4>3, <2>8, PeerFacts
        <5> QED
          BY <4>1, <4>2, <4>3, <5>1, <1>2, <3>2, <3>3
      <4>4. CASE x = Peer(e)
        <5>1. Peer(x) = e
          BY <4>2, <4>4, PeerFacts
        <5> QED
          BY <4>1, <4>4, <5>1, <2>6, <3>2
      <4> QED
        BY <4>3, <4>4, PeerFacts
    <3> QED
      BY <3>1, <3>4 DEF Closed
  <2> QED
    BY <1>2, <2>6, <2>7, <2>10, <2>11, <2>12, <2>13 DEF Inv, Adds
<1> QED
  BY <1>1, <1>2 DEF SSL_shutdown, AtRest, SSL_in_init, May, Closes

-----------------------------------------------------------------------------
(* The invariant.                                                          *)

LEMMA FreshFacts == DOMAIN Fresh = FieldNames /\ Typed(Fresh)
<1>1. DOMAIN Fresh = FieldNames /\ DOMAIN Fresh.prev = Endpoint
  BY DEF Fresh, FieldNames
<1> QED
  BY <1>1 DEF Typed, Fresh, States, Rest

LEMMA Init_Inv == ASSUME Init PROVE Inv
<1>1. conf \in Configs
  BY DEF Init
<1>2. ssl[C] = Offered(conf) /\ ssl[S] = Fresh /\ DOMAIN ssl = Endpoint
  BY PeerFacts DEF Init
<1>3. GoodServer(Fresh)
  <2>1. Typed(Fresh)
    BY FreshFacts
  <2>2. Keys(Fresh) /\ ServerKeys(Fresh)
    BY DEF Fresh, Keys, ServerKeys, FullStates
  <2>3. ServerCalls(Fresh) /\ ServerCounts(Fresh)
    BY ConfigAssumption DEF Fresh, ServerCalls, ServerCounts, ClientReads, ClientWrites
  <2> QED
    BY <2>1, <2>2, <2>3 DEF GoodServer
<1>4. GoodClient(Offered(conf)) /\ Offered(conf).shutdown = {} /\ Offered(conf).shut = FALSE
  <2> DEFINE s == Offered(conf)
  <2>1. DOMAIN s = FieldNames /\ \A f \in FieldNames \ {"sid", "master", "tick"} : s[f] = Fresh[f]
    BY FreshFacts DEF Offered
  <2> HIDE DEF s
  <2>2. /\ s.state = "BEFORE" /\ s.next = "OK" /\ s.buffered = FALSE /\ s.hit = FALSE
        /\ s.ticket_expected = FALSE /\ s.cert_req = 0 /\ s.new_session = 0
        /\ s.renegotiate = FALSE /\ s.total = 0 /\ s.new_cipher = FALSE /\ s.peer = FALSE
    BY <2>1 DEF FieldNames, Fresh
  <2>3. /\ s.cr = 0 /\ s.sr = 0 /\ s.prev = Fresh.prev /\ s.ccs = FALSE /\ s.shutdown = {}
        /\ s.failed = FALSE /\ s.good = 0 /\ s.shut = FALSE
    BY <2>1 DEF FieldNames, Fresh
  <2>4. Typed(s)
    <3>1. /\ s.state = Fresh.state /\ s.next = Fresh.next /\ s.buffered = Fresh.buffered
          /\ s.hit = Fresh.hit /\ s.ticket_expected = Fresh.ticket_expected
          /\ s.cert_req = Fresh.cert_req /\ s.new_session = Fresh.new_session
          /\ s.renegotiate = Fresh.renegotiate /\ s.total = Fresh.total
          /\ s.new_cipher = Fresh.new_cipher /\ s.peer = Fresh.peer
      BY <2>1 DEF FieldNames
    <3>2. /\ s.cr = Fresh.cr /\ s.sr = Fresh.sr /\ s.prev = Fresh.prev /\ s.ccs = Fresh.ccs
          /\ s.shutdown = Fresh.shutdown /\ s.failed = Fresh.failed /\ s.good = Fresh.good
          /\ s.shut = Fresh.shut
      BY <2>1 DEF FieldNames
    <3> QED
      BY <2>1, <3>1, <3>2, FreshFacts DEF Typed
  <2>5. Keys(s) /\ ClientKeys(s) /\ ClientWindow(s)
    BY <2>2, <2>3 DEF Keys, ClientKeys, ClientWindow, FullStates
  <2>6. ClientCalls(s) /\ ClientCounts(s)
    BY <2>2, <2>3 DEF ClientCalls, ClientCounts, ServerReads, ServerWrites
  <2> QED
    BY <2>3, <2>4, <2>5, <2>6 DEF GoodClient, s
<1>5. Ends
  BY <1>2, <1>3, <1>4 DEF Ends
<1>6. /\ DOMAIN wire = Endpoint /\ DOMAIN out = Endpoint
      /\ \A e \in Endpoint : wire[e] = <<>> /\ out[e] = <<>> /\ out[Peer(e)] = <<>>
  BY PeerFacts DEF Init
<1>7. Streams
  BY <1>6, EmptyFacts DEF Streams
<1>8. \A e \in Endpoint : Traffic(e) = {} /\ Elements(out[e]) = {} /\ \A t : Flying(e, t) = 0
  BY <1>6, EmptyFacts DEF Traffic, Flying
<1>9. Records
  BY <1>8 DEF Records
<1>10. /\ ssl[C].total = 0 /\ ssl[C].cr = 0 /\ ssl[C].sr = 0 /\ Pending = 0
       /\ ssl[S].total = 0 /\ ssl[S].cr = 0 /\ ssl[S].sr = 0
  <2>1. DOMAIN Fresh = FieldNames
    BY FreshFacts
  <2> QED
    BY <1>2, <2>1 DEF Offered, Fresh, Pending, FieldNames
<1>11. Hellos
  BY <1>8, <1>10, ConfigAssumption, PeerFacts DEF Hellos
<1>12. Counted
  BY <1>8, ConfigAssumption, PeerFacts DEF Init, Counted
<1>13. Closed
  <2>1. \A e \in Endpoint : ssl[e].shutdown = {} /\ ssl[e].shut = FALSE
    <3>1. Fresh.shutdown = {} /\ Fresh.shut = FALSE
      BY DEF Fresh
    <3> QED
      BY <1>2, <1>4, <3>1, PeerFacts
  <2> QED
    BY <1>8, <2>1 DEF Closed
<1> QED
  BY <1>1, <1>5, <1>7, <1>9, <1>11, <1>12, <1>13 DEF Inv

LEMMA Stutter_Inv == ASSUME Inv, UNCHANGED vars PROVE Inv'
<1>1. UNCHANGED <<ssl, wire, out, conf, sent, got>>
  BY DEF vars
<1>2. Ends'
  BY <1>1, EndsStay DEF Inv
<1>3. Keeps /\ \A x \in Endpoint : Traffic(x)' = Traffic(x)
  BY <1>1, StillKeeps DEF Inv, Traffic
<1>4. C \in Endpoint
  BY PeerFacts
<1>5. Hellos'
  BY <1>1, <1>3, <1>4, SameFacts, HellosKept DEF Keeps, Fewer, Nothing
<1>6. Counted'
  BY <1>1, <1>3, <1>4, SameFacts, CountedKept DEF Keeps
<1>7. Closed'
  BY <1>1, <1>3, <1>4, SameFacts, ClosedKept DEF Nothing
<1>8. Records'
  BY <1>3, RecordsKept DEF Keeps
<1> QED
  BY <1>1, <1>2, <1>3, <1>5, <1>6, <1>7, <1>8 DEF Inv, Keeps

LEMMA Next_Inv == ASSUME Inv, [Next]_vars PROVE Inv'
<1>1. ASSUME ClientHandler \/ ClientStep PROVE Inv'
  BY <1>1, connect_start_Inv, ssl3_client_hello_Inv, ssl3_get_server_hello_Inv,
     skip_certificate_Inv, ssl3_get_server_certificate_Inv, ssl3_get_cert_status_Inv,
     ssl3_get_key_exchange_Inv, ssl3_get_certificate_request_Inv,
     ssl3_get_server_done_Inv, ssl3_send_client_certificate_Inv,
     ssl3_send_client_key_exchange_Inv, ssl3_send_client_verify_Inv,
     client_finished_Inv, cutthrough_Inv, ssl3_get_new_session_ticket_Inv,
     read_hello_request_Inv
     DEF ClientHandler, ClientStep
<1>2. ASSUME ServerHandler \/ ServerStep PROVE Inv'
  BY <1>2, accept_start_Inv, ssl3_send_hello_request_Inv, ssl3_get_client_hello_Inv,
     ssl3_send_server_hello_Inv, ssl3_send_server_certificate_Inv,
     ssl3_send_cert_status_Inv, ssl3_send_server_key_exchange_Inv,
     ssl3_send_certificate_request_Inv, ssl3_send_server_done_Inv,
     ssl3_get_client_certificate_Inv, ssl3_get_client_key_exchange_Inv,
     ssl3_get_cert_verify_Inv, ssl3_send_newsession_ticket_Inv, server_finished_Inv,
     read_client_hello_Inv
     DEF ServerHandler, ServerStep
<1>3. ASSUME NEW e \in Endpoint,
             \/ ssl3_get_finished(e) \/ read_change_cipher_spec(e) \/ change_cipher_spec(e)
             \/ flush(e) \/ handshake_done(e) \/ ssl3_renegotiate_check(e)
      PROVE  Inv'
  <2>1. CASE e = C
    BY <1>3, <2>1, change_cipher_spec_C_Inv, read_change_cipher_spec_C_Inv,
       ssl3_get_finished_C_Inv, flush_C_Inv, handshake_done_C_Inv,
       ssl3_renegotiate_check_C_Inv
  <2>2. CASE e = S
    BY <1>3, <2>2, change_cipher_spec_S_Inv, read_change_cipher_spec_S_Inv,
       ssl3_get_finished_S_Inv, flush_S_Inv, handshake_done_S_Inv,
       ssl3_renegotiate_check_S_Inv
  <2> QED
    BY <2>1, <2>2, PeerFacts
<1>4. ASSUME NEW e \in Endpoint,
             \/ SSL_read(e) \/ read_close_notify(e) \/ read_fatal_alert(e) \/ discard(e)
             \/ ssl3_send_alert(e) \/ SSL_write(e) \/ SSL_renegotiate(e) \/ SSL_shutdown(e)
      PROVE  Inv'
  BY <1>4, SSL_read_Inv, SSL_write_Inv, SSL_renegotiate_Inv, SSL_shutdown_Inv,
     read_close_notify_Inv, read_fatal_alert_Inv, discard_Inv, ssl3_send_alert_Inv
<1>5. CASE UNCHANGED vars
  BY <1>5, Stutter_Inv
<1>6. CASE Next
  <2>1. PICK e \in Endpoint : Library(e) \/ Application(e)
    BY <1>6 DEF Next
  <2>2. ASSUME Handler(e) PROVE Inv'
    BY <2>2, <1>1, <1>2, <1>3, <1>4 DEF Handler
  <2>3. ASSUME Step(e) PROVE Inv'
    BY <2>3, <1>1, <1>2, <1>3 DEF Step
  <2> QED
    BY <2>1, <2>2, <2>3, <1>3, <1>4 DEF Library, Application
<1> QED
  BY <1>5, <1>6

\* What every step of either end preserves; the theorems follow from it.
THEOREM Invariant == Spec => []Inv
<1>1. Init => Inv
  BY Init_Inv
<1>2. Inv /\ [Next]_vars => Inv'
  BY Next_Inv
<1> QED
  BY <1>1, <1>2, PTL DEF Spec

-----------------------------------------------------------------------------
(* What the other steps leave alone.                                       *)

\* No data move, and no end takes back that it has closed.
Quiet ==
  /\ got' = got /\ sent' = sent
  /\ \A e \in Endpoint : "sent" \in ssl[e].shutdown => "sent" \in ssl'[e].shutdown

\* The steps that take it back: those that begin a handshake.
Restarts == ssl3_client_hello \/ ssl3_send_hello_request \/ ssl3_get_client_hello

LEMMA QuietBecome ==
  ASSUME Inv, NEW e \in Endpoint, NEW new, Become(e, new), got' = got, sent' = sent,
         "sent" \in ssl[e].shutdown => "sent" \in new.shutdown
  PROVE  Quiet
BY PeerFacts DEF Become, Quiet, Inv, Ends

LEMMA QuietMac ==
  ASSUME Inv, NEW e \in Endpoint, NEW s, NEW m, DOMAIN s = FieldNames
  PROVE  DOMAIN ssl3_finish_mac(s, m) = FieldNames /\ ssl3_finish_mac(s, m).shutdown = s.shutdown
BY DEF ssl3_finish_mac, FieldNames

LEMMA EndFields == ASSUME Inv PROVE \A e \in Endpoint : DOMAIN ssl[e] = FieldNames
BY PeerFacts DEF Inv, Ends, GoodClient, GoodServer, Typed

LEMMA QuietMove ==
  ASSUME Inv, NEW e \in Endpoint, NEW new, new.shutdown = ssl[e].shutdown, DOMAIN new = FieldNames
  PROVE  /\ Move(e, new) => Quiet
         /\ Receive(e, new) => Quiet
         /\ \A m : Send(e, new, m) => Quiet
<1>1. ASSUME Move(e, new) PROVE Quiet
  BY <1>1, QuietBecome DEF Move
<1>2. ASSUME Receive(e, new) PROVE Quiet
  <2>1. ssl3_finish_mac(new, Message(e)).shutdown = ssl[e].shutdown
    BY QuietMac
  <2> QED
    BY <1>2, <2>1, QuietBecome DEF Receive
<1>3. ASSUME NEW m, Send(e, new, m) PROVE Quiet
  <2>1. ssl3_finish_mac(new, m).shutdown = ssl[e].shutdown
    BY QuietMac
  <2> QED
    BY <1>3, <2>1, QuietBecome DEF Send
<1> QED
  BY <1>1, <1>2, <1>3

LEMMA QuietClient == ASSUME Inv, ClientHandler \/ ClientStep PROVE Quiet \/ Restarts
<1>1. ASSUME connect_start PROVE Quiet
  BY <1>1, EndFields, QuietBecome, PeerFacts DEF connect_start, FieldNames
<1>2. ASSUME ssl3_get_server_hello PROVE Quiet
  BY <1>2, EndFields, QuietMove, PeerFacts DEF ssl3_get_server_hello, FieldNames
<1>3. ASSUME skip_certificate PROVE Quiet
  BY <1>3, EndFields, QuietMove, PeerFacts DEF skip_certificate, FieldNames
<1>4. ASSUME ssl3_get_server_certificate PROVE Quiet
  BY <1>4, EndFields, QuietMove, PeerFacts DEF ssl3_get_server_certificate, FieldNames
<1>5. ASSUME ssl3_get_cert_status PROVE Quiet
  BY <1>5, EndFields, QuietMove, PeerFacts DEF ssl3_get_cert_status, FieldNames
<1>6. ASSUME ssl3_get_key_exchange PROVE Quiet
  BY <1>6, EndFields, QuietMove, PeerFacts DEF ssl3_get_key_exchange, FieldNames
<1>7. ASSUME ssl3_get_certificate_request PROVE Quiet
  BY <1>7, EndFields, QuietMove, PeerFacts DEF ssl3_get_certificate_request, FieldNames
<1>8. ASSUME ssl3_get_server_done PROVE Quiet
  BY <1>8, EndFields, QuietMove, PeerFacts DEF ssl3_get_server_done, FieldNames
<1>9. ASSUME ssl3_send_client_certificate PROVE Quiet
  BY <1>9, EndFields, QuietMove, PeerFacts DEF ssl3_send_client_certificate, FieldNames
<1>10. ASSUME ssl3_send_client_key_exchange PROVE Quiet
  BY <1>10, EndFields, QuietMove, PeerFacts
     DEF ssl3_send_client_key_exchange, FieldNames
<1>11. ASSUME ssl3_send_client_verify PROVE Quiet
  BY <1>11, EndFields, QuietMove, PeerFacts DEF ssl3_send_client_verify, FieldNames
<1>12. ASSUME client_finished PROVE Quiet
  BY <1>12, EndFields, QuietMove, PeerFacts DEF client_finished, FieldNames
<1>13. ASSUME cutthrough PROVE Quiet
  BY <1>13, EndFields, QuietBecome, PeerFacts DEF cutthrough, FieldNames
<1>14. ASSUME ssl3_get_new_session_ticket PROVE Quiet
  BY <1>14, EndFields, QuietMove, PeerFacts DEF ssl3_get_new_session_ticket, FieldNames
<1>15. ASSUME read_hello_request PROVE Quiet
  BY <1>15, EndFields, QuietBecome, PeerFacts DEF read_hello_request, FieldNames
<1> QED
  BY <1>1, <1>2, <1>3, <1>4, <1>5, <1>6, <1>7, <1>8, <1>9, <1>10, <1>11, <1>12, <1>13,
     <1>14, <1>15
     DEF ClientHandler, ClientStep, Restarts

LEMMA QuietServer == ASSUME Inv, ServerHandler \/ ServerStep PROVE Quiet \/ Restarts
<1>1. ASSUME accept_start PROVE Quiet
  BY <1>1, EndFields, QuietBecome, PeerFacts DEF accept_start, FieldNames
<1>2. ASSUME ssl3_send_server_hello PROVE Quiet
  BY <1>2, EndFields, QuietMove, PeerFacts DEF ssl3_send_server_hello, FieldNames
<1>3. ASSUME ssl3_send_server_certificate PROVE Quiet
  BY <1>3, EndFields, QuietMove, PeerFacts DEF ssl3_send_server_certificate, FieldNames
<1>4. ASSUME ssl3_send_cert_status PROVE Quiet
  BY <1>4, EndFields, QuietMove, PeerFacts DEF ssl3_send_cert_status, FieldNames
<1>5. ASSUME ssl3_send_server_key_exchange PROVE Quiet
  BY <1>5, EndFields, QuietMove, PeerFacts DEF ssl3_send_server_key_exchange, FieldNames
<1>6. ASSUME ssl3_send_certificate_request PROVE Quiet
  BY <1>6, EndFields, QuietMove, PeerFacts DEF ssl3_send_certificate_request, FieldNames
<1>7. ASSUME ssl3_send_server_done PROVE Quiet
  BY <1>7, EndFields, QuietMove, PeerFacts DEF ssl3_send_server_done, FieldNames
<1>8. ASSUME ssl3_get_client_certificate PROVE Quiet
  BY <1>8, EndFields, QuietMove, PeerFacts DEF ssl3_get_client_certificate, FieldNames
<1>9. ASSUME ssl3_get_client_key_exchange PROVE Quiet
  BY <1>9, EndFields, QuietMove, PeerFacts DEF ssl3_get_client_key_exchange, FieldNames
<1>10. ASSUME ssl3_get_cert_verify PROVE Quiet
  BY <1>10, EndFields, QuietMove, PeerFacts DEF ssl3_get_cert_verify, FieldNames
<1>11. ASSUME ssl3_send_newsession_ticket PROVE Quiet
  BY <1>11, EndFields, QuietMove, PeerFacts DEF ssl3_send_newsession_ticket, FieldNames
<1>12. ASSUME server_finished PROVE Quiet
  BY <1>12, EndFields, QuietMove, PeerFacts DEF server_finished, FieldNames
<1>13. ASSUME read_client_hello PROVE Quiet
  BY <1>13, EndFields, QuietMove, PeerFacts DEF read_client_hello, FieldNames
<1> QED
  BY <1>1, <1>2, <1>3, <1>4, <1>5, <1>6, <1>7, <1>8, <1>9, <1>10, <1>11, <1>12, <1>13
     DEF ServerHandler, ServerStep, Restarts

LEMMA QuietEither ==
  ASSUME Inv, NEW e \in Endpoint,
         \/ ssl3_get_finished(e) \/ read_change_cipher_spec(e) \/ change_cipher_spec(e)
         \/ flush(e) \/ handshake_done(e) \/ ssl3_renegotiate_check(e)
         \/ read_close_notify(e) \/ read_fatal_alert(e) \/ discard(e)
         \/ ssl3_send_alert(e) \/ SSL_renegotiate(e) \/ SSL_shutdown(e)
  PROVE  Quiet
<1>1. DOMAIN ssl[e] = FieldNames
  BY EndFields
<1>2. DOMAIN setup_key_block(ssl[e]) = FieldNames /\ setup_key_block(ssl[e]).shutdown = ssl[e].shutdown
  BY <1>1 DEF setup_key_block, FieldNames
<1>3. ASSUME change_cipher_spec(e) \/ read_change_cipher_spec(e) PROVE Quiet
  <2> DEFINE k == setup_key_block(ssl[e])
             p == [k EXCEPT !.state = IF e = C THEN "CW_FINISHED" ELSE "SW_FINISHED",
                            !.wkey = k.key_block]
             q == [k EXCEPT !.ccs = TRUE, !.rkey = k.key_block,
                            !.peer_md = final_finish_mac(k, Peer(e))]
  <2>1. Become(e, p) \/ Become(e, q)
    BY <1>3 DEF change_cipher_spec, read_change_cipher_spec
  <2>2. got' = got /\ sent' = sent
    BY <1>3 DEF change_cipher_spec, read_change_cipher_spec
  <2> HIDE DEF k
  <2>3. p.shutdown = ssl[e].shutdown /\ q.shutdown = ssl[e].shutdown
    BY <1>2 DEF k, FieldNames
  <2> HIDE DEF p, q
  <2> QED
    BY <2>1, <2>2, <2>3, QuietBecome
<1>4. ASSUME ssl3_get_finished(e) PROVE Quiet
  <2> DEFINE new == [ssl[e] EXCEPT !.state = AfterFinished(e), !.ccs = FALSE,
                       !.prev[Peer(e)] = ssl[e].peer_md, !.vkey = ssl[e].rkey]
  <2>1. new.shutdown = ssl[e].shutdown /\ DOMAIN new = FieldNames
    BY <1>1 DEF FieldNames
  <2>2. Receive(e, new)
    BY <1>4 DEF ssl3_get_finished
  <2> HIDE DEF new
  <2> QED
    BY <2>1, <2>2, QuietMove
<1>5. ASSUME flush(e) PROVE Quiet
  BY <1>1, <1>5, QuietBecome DEF flush, FieldNames
<1>6. ASSUME handshake_done(e) PROVE Quiet
  BY <1>1, <1>6, QuietBecome DEF handshake_done, FieldNames
<1>7. ASSUME ssl3_renegotiate_check(e) \/ SSL_renegotiate(e) PROVE Quiet
  BY <1>1, <1>7, QuietMove DEF ssl3_renegotiate_check, SSL_renegotiate, FieldNames
<1>8. ASSUME read_close_notify(e) PROVE Quiet
  BY <1>1, <1>8, QuietBecome DEF read_close_notify, FieldNames
<1>9. ASSUME read_fatal_alert(e) PROVE Quiet
  BY <1>1, <1>9, QuietBecome DEF read_fatal_alert, FieldNames
<1>10. ASSUME discard(e) PROVE Quiet
  BY <1>10 DEF discard, Discards, Quiet
<1>11. ASSUME ssl3_send_alert(e) PROVE Quiet
  <2>1. Become(e, [ssl[e] EXCEPT !.failed = TRUE]) /\ got' = got /\ sent' = sent
    BY <1>11 DEF ssl3_send_alert
  <2> QED
    BY <1>1, <2>1, QuietBecome DEF FieldNames
<1>12. ASSUME SSL_shutdown(e) PROVE Quiet
  <2> DEFINE both == "received" \in ssl[e].shutdown
             p == [ssl[e] EXCEPT !.shutdown = @ \cup {"sent"}, !.shut = both]
             q == [ssl[e] EXCEPT !.shut = TRUE]
  <2>1. (Become(e, p) \/ Become(e, q)) /\ got' = got /\ sent' = sent
    BY <1>12 DEF SSL_shutdown, Move
  <2> HIDE DEF both
  <2>2. p.shutdown = ssl[e].shutdown \cup {"sent"} /\ q.shutdown = ssl[e].shutdown
    BY <1>1 DEF FieldNames
  <2> HIDE DEF p, q
  <2> QED
    BY <2>1, <2>2, QuietBecome
<1> QED
  BY <1>3, <1>4, <1>5, <1>6, <1>7, <1>8, <1>9, <1>10, <1>11, <1>12

LEMMA QuietData ==
  ASSUME Inv, NEW e \in Endpoint
  PROVE  /\ SSL_read(e) => ssl' = ssl /\ sent' = sent /\ \A x \in Endpoint : x # e => got'[x] = got[x]
         /\ SSL_write(e) => ssl' = ssl /\ got' = got /\ \A x \in Endpoint : x # e => sent'[x] = sent[x]
BY DEF SSL_read, SSL_write, Inv, Counted

LEMMA Steps ==
  ASSUME Inv, [Next]_vars
  PROVE  Quiet \/ Restarts \/ \E e \in Endpoint : SSL_read(e) \/ SSL_write(e)
<1>1. CASE UNCHANGED vars
  BY <1>1 DEF vars, Quiet
<1>2. CASE Next
  <2>1. PICK e \in Endpoint : Library(e) \/ Application(e)
    BY <1>2 DEF Next
  <2>2. ASSUME Handler(e) PROVE Quiet \/ Restarts \/ SSL_read(e)
    BY <2>2, QuietClient, QuietServer, QuietEither DEF Handler
  <2>3. ASSUME Step(e) PROVE Quiet \/ Restarts
    BY <2>3, QuietClient, QuietServer, QuietEither DEF Step
  <2>4. ASSUME Library(e) PROVE Quiet \/ Restarts \/ SSL_read(e)
    BY <2>2, <2>3, <2>4, QuietEither DEF Library
  <2>5. ASSUME Application(e) PROVE Quiet \/ SSL_write(e)
    BY <2>5, QuietEither DEF Application
  <2> QED
    BY <2>1, <2>4, <2>5
<1> QED
  BY <1>1, <1>2

-----------------------------------------------------------------------------
(* What had to happen before: the second invariant.  It says what one end  *)
(* may conclude from the messages it has seen, and is needed for clients   *)
(* that renegotiate before they have the server's first Finished.          *)

Finished == <<"handshake", "Finished">>
Change == <<"ccs">>
Full(s) ==
  /\ ~s.hit
  /\ s.state \in {"CR_CERT", "CR_CERT_STATUS", "CR_KEY_EXCH", "CR_CERT_REQ", "CR_SRVR_DONE",
                  "CW_CERT", "CW_KEY_EXCH", "CW_CERT_VRFY", "CW_CHANGE", "CW_FINISHED"}

\* The client until the first Finished of either end: it reads in the clear or
\* waits for the Finished, and has sent one ClientHello at most.
ClientFirst(s) ==
  /\ s.prev[S] = None => s.rkey = None \/ s.ccs
  /\ s.prev[S] = None /\ Full(s) => s.prev[C] = None
  /\ s.prev[C] = None =>
       /\ s.state \notin {"RENEGOTIATE", "OK", "DONE", "CR_SESSION_TICKET", "CW_FLUSH",
                          "CUTTHROUGH_COMPLETE"}
       /\ s.state = "CR_FINISHED" => s.hit
       /\ IF s.state \in {"BEFORE", "CW_CLNT_HELLO"}
          THEN s.cr = 0 /\ (s.tick # None => s.sid # None)
          ELSE s.cr = 1

\* The server has both Finished messages or neither when it answers a hello.
ServerFirst(s) ==
  LET both == s.prev[C] # None /\ s.prev[S] # None
      neither == s.prev[C] = None /\ s.prev[S] = None
  IN /\ s.state \in {"ACCEPT", "RENEGOTIATE", "OK", "DONE"} => both
     /\ s.state = "SR_CLNT_HELLO" => IF s.sr > 0 THEN both ELSE neither
     /\ s.state = "SW_SRVR_HELLO" => both \/ neither
     /\ s.state = "BEFORE" => s.sr = 0 /\ neither
     /\ s.state \notin {"BEFORE", "SR_CLNT_HELLO"} => s.sr > 0
     /\ s.state \in {"SW_SESSION_TICKET", "SW_CHANGE", "SW_FINISHED"} /\ ~s.hit => s.prev[C] # None
     /\ s.state = "SR_FINISHED" /\ s.hit => s.prev[S] # None
     /\ s.state = "SW_FLUSH" /\ s.next = "DONE" => both
     /\ s.state = "SW_FLUSH" /\ s.next = "SR_FINISHED" => s.prev[S] # None

\* Data to the client are encrypted, and a ServerHello names both Finished
\* messages or neither.
Sealed ==
  /\ \A r \in Traffic(C) : r.type = "app" => r.key # None
  /\ \A r \in Traffic(C) : Tag(r) = ServerHello =>
       /\ ssl[S].sr > 0
       /\ r.body.ri[C] = None <=> r.body.ri[S] = None

\* A Finished from the client was sent by it; a ChangeCipherSpec from the server
\* follows the client's Finished, or begins with a hit.
Caused ==
  /\ (\E r \in Traffic(S) : Tag(r) = Finished) \/ ssl[S].prev[C] # None => ssl[C].prev[C] # None
  /\ (\E r \in Traffic(C) : Tag(r) = Change) \/ ssl[C].rkey # None =>
       ssl[S].prev[C] # None \/ (ssl[S].hit /\ ssl[S].sr > 0)

\* In the first handshake both ends agree whether a session is resumed, from the
\* session the client offers to the id the server answers with.
Offers(r) == r.body.sid = ssl[C].sid /\ ssl[C].sid # None
Resuming ==
  ssl[C].prev[C] = None =>
  /\ Full(ssl[C]) => ~ssl[S].hit /\ ssl[S].sr > 0
  /\ ssl[C].state = "CR_SRVR_HELLO" =>
       /\ \A r \in Traffic(S) :
            Tag(r) = Hello /\ (r.body.tick # None \/ r.body.sid # None) => Offers(r)
       /\ ssl[S].hit /\ ssl[S].sr > 0 =>
            /\ ssl[S].state = "SW_SRVR_HELLO" => ssl[S].sid = ssl[C].sid /\ ssl[C].sid # None
            /\ \A r \in Traffic(C) : Tag(r) = ServerHello => Offers(r)
Order ==
  ClientFirst(ssl[C]) /\ ServerFirst(ssl[S]) /\ Sealed /\ Caused /\ Resuming

\* Steps of one end that change nothing of that.
Bland(r) == (r.type = "app" => r.key # None) /\ Tag(r) \notin {ServerHello, Change}
ClientCalm(s, t) ==
  /\ ClientFirst(t) /\ t.prev[C] = s.prev[C] /\ t.rkey = s.rkey
  /\ t.prev[C] = None => /\ t.sid = s.sid
                         /\ Full(t) => Full(s)
                         /\ t.state = "CR_SRVR_HELLO" => s.state = "CR_SRVR_HELLO"
ServerCalm(s, t) ==
  /\ ServerFirst(t) /\ t.hit = s.hit /\ t.sr = s.sr
  /\ s.prev[C] # None => t.prev[C] # None
  /\ t.prev[C] # None => s.prev[C] # None \/ ssl[C].prev[C] # None
  /\ t.state = "SW_SRVR_HELLO" => s.state = "SW_SRVR_HELLO" /\ t.sid = s.sid

LEMMA ClientKeeps ==
  ASSUME Inv, Order, NEW t, ssl'[C] = t, ssl'[S] = ssl[S], ClientCalm(ssl[C], t),
         \A r \in Traffic(S)' : r \in Traffic(S) \/ Tag(r) \notin {Hello, Finished},
         \A r \in Traffic(C)' : r \in Traffic(C)
  PROVE  Order'
<1>1. ClientFirst(ssl[C])' /\ ServerFirst(ssl[S])'
  BY DEF Order, ClientCalm, ClientFirst, ServerFirst, Full
<1>2. Sealed'
  BY DEF Order, Sealed
<1>3. Caused'
  BY DEF Order, Caused, ClientCalm
<1>4. Resuming'
  BY DEF Order, Resuming, ClientCalm, Full, Offers
<1> QED
  BY <1>1, <1>2, <1>3, <1>4 DEF Order

LEMMA ServerKeeps ==
  ASSUME Inv, Order, NEW t, ssl'[S] = t, ssl'[C] = ssl[C], ServerCalm(ssl[S], t),
         \A r \in Traffic(C)' : r \in Traffic(C) \/ Bland(r),
         \A r \in Traffic(S)' : r \in Traffic(S)
  PROVE  Order'
<1>1. ClientFirst(ssl[C])' /\ ServerFirst(ssl[S])'
  BY DEF Order, ServerCalm, ClientFirst, ServerFirst, Full
<1>2. Sealed'
  BY DEF Order, Sealed, ServerCalm, Bland
<1>3. Caused'
  BY DEF Order, Caused, ServerCalm, Bland
<1>4. Resuming'
  BY DEF Order, Resuming, ServerCalm, Full, Offers, Bland
<1> QED
  BY <1>1, <1>2, <1>3, <1>4 DEF Order

LEMMA Changes ==
  ASSUME Inv, NEW e \in Endpoint, NEW new, Become(e, new)
  PROVE  ssl'[e] = new /\ ssl'[Peer(e)] = ssl[Peer(e)]
BY PeerFacts DEF Become, Inv, Ends

\* A step of an end as it shows in what is under way.
LEMMA Traffics ==
  ASSUME Inv, NEW e \in Endpoint
  PROVE  /\ UNCHANGED <<wire, out>> \/ Keeps =>
              \A x \in Endpoint : \A r \in Traffic(x)' : r \in Traffic(x)
         /\ wire[e] # <<>> /\ Take(e) /\ UNCHANGED out =>
              \A x \in Endpoint : \A r \in Traffic(x)' : r \in Traffic(x)
         /\ \A q : Put(e, <<q>>) =>
              /\ \A r \in Traffic(Peer(e))' : r \in Traffic(Peer(e)) \/ r = q
              /\ \A r \in Traffic(e)' : r \in Traffic(e)
<1>1. Streams
  BY DEF Inv
<1>2. ASSUME UNCHANGED <<wire, out>> \/ Keeps, NEW x \in Endpoint, NEW r \in Traffic(x)'
      PROVE  r \in Traffic(x)
  BY <1>1, <1>2, StillKeeps DEF Keeps
<1>3. ASSUME wire[e] # <<>>, Take(e), UNCHANGED out, NEW x \in Endpoint, NEW r \in Traffic(x)'
      PROVE  r \in Traffic(x)
  <2>1. Loses(e, Head1(e))
    BY <1>1, <1>3, TakeLoses
  <2> QED
    BY <1>3, <2>1, PeerFacts DEF Loses
<1>4. ASSUME NEW q, Put(e, <<q>>)
      PROVE  /\ \A r \in Traffic(Peer(e))' : r \in Traffic(Peer(e)) \/ r = q
             /\ \A r \in Traffic(e)' : r \in Traffic(e)
  <2>1. Adds(e, q)
    BY <1>1, <1>4, PutAdds
  <2> QED
    BY <2>1 DEF Adds
<1> QED
  BY <1>2, <1>3, <1>4

LEMMA CalmMac ==
  ASSUME NEW s, NEW t, NEW m, DOMAIN t = FieldNames
  PROVE  /\ ClientCalm(s, t) => ClientCalm(s, ssl3_finish_mac(t, m))
         /\ ServerCalm(s, t) => ServerCalm(s, ssl3_finish_mac(t, m))
<1> DEFINE u == ssl3_finish_mac(t, m)
<1>1. /\ u.prev = t.prev /\ u.rkey = t.rkey /\ u.state = t.state /\ u.next = t.next
      /\ u.hit = t.hit /\ u.sid = t.sid /\ u.tick = t.tick /\ u.sr = t.sr /\ u.cr = t.cr
      /\ u.ccs = t.ccs
  BY DEF ssl3_finish_mac, FieldNames
<1> HIDE DEF u
<1>2. ClientCalm(s, t) => ClientCalm(s, u)
  BY <1>1 DEF ClientCalm, ClientFirst, Full
<1>3. ServerCalm(s, t) => ServerCalm(s, u)
  BY <1>1 DEF ServerCalm, ServerFirst
<1> QED
  BY <1>2, <1>3 DEF u

LEMMA ClientMoves ==
  ASSUME Inv, Order, NEW new, DOMAIN new = FieldNames, ClientCalm(ssl[C], new)
  PROVE  /\ Move(C, new) => Order'
         /\ Receive(C, new) /\ Arrives(C, "handshake") => Order'
         /\ \A m : Send(C, new, m) /\ m.name \notin {"ClientHello", "Finished"} => Order'
         /\ Become(C, new) /\ Keeps => Order'
         /\ Become(C, new) /\ wire[C] # <<>> /\ Take(C) /\ UNCHANGED out => Order'
         /\ \A r : Become(C, new) /\ Put(C, <<r>>) /\ Tag(r) \notin {Hello, Finished} => Order'
<1>0. C \in Endpoint /\ S \in Endpoint /\ Peer(C) = S
  BY PeerFacts
<1>1. ASSUME Become(C, new), UNCHANGED <<wire, out>> \/ Keeps PROVE Order'
  BY <1>0, <1>1, Changes, Traffics, ClientKeeps
<1>2. ASSUME NEW t, ClientCalm(ssl[C], t), Become(C, t), wire[C] # <<>>, Take(C), UNCHANGED out
      PROVE  Order'
  BY <1>0, <1>2, Changes, Traffics, ClientKeeps
<1>3. ASSUME NEW t, ClientCalm(ssl[C], t), Become(C, t),
             NEW r, Put(C, <<r>>), Tag(r) \notin {Hello, Finished}
      PROVE  Order'
  BY <1>0, <1>3, Changes, Traffics, ClientKeeps
<1>4. ASSUME Receive(C, new), Arrives(C, "handshake") PROVE Order'
  <2>1. ClientCalm(ssl[C], ssl3_finish_mac(new, Message(C)))
    BY CalmMac
  <2> QED
    BY <1>2, <1>4, <2>1 DEF Receive, Arrives
<1>5. ASSUME NEW m, Send(C, new, m), m.name \notin {"ClientHello", "Finished"} PROVE Order'
  <2>1. ClientCalm(ssl[C], ssl3_finish_mac(new, m))
    BY CalmMac
  <2>2. Tag(Record(C, "handshake", m)) \notin {Hello, Finished}
    BY <1>5 DEF Tag, Record, Hello, Finished
  <2> QED
    BY <1>3, <1>5, <2>1, <2>2 DEF Send
<1> QED
  BY <1>1, <1>2, <1>3, <1>4, <1>5 DEF Move

LEMMA ServerMoves ==
  ASSUME Inv, Order, NEW new, DOMAIN new = FieldNames, ServerCalm(ssl[S], new)
  PROVE  /\ Move(S, new) => Order'
         /\ Receive(S, new) /\ Arrives(S, "handshake") => Order'
         /\ \A m : Send(S, new, m) /\ m.name # "ServerHello" => Order'
         /\ Become(S, new) /\ Keeps => Order'
         /\ Become(S, new) /\ wire[S] # <<>> /\ Take(S) /\ UNCHANGED out => Order'
         /\ \A r : Become(S, new) /\ Put(S, <<r>>) /\ Bland(r) => Order'
<1>0. C \in Endpoint /\ S \in Endpoint /\ Peer(S) = C
  BY PeerFacts
<1>1. ASSUME Become(S, new), UNCHANGED <<wire, out>> \/ Keeps PROVE Order'
  BY <1>0, <1>1, Changes, Traffics, ServerKeeps
<1>2. ASSUME NEW t, ServerCalm(ssl[S], t), Become(S, t), wire[S] # <<>>, Take(S), UNCHANGED out
      PROVE  Order'
  BY <1>0, <1>2, Changes, Traffics, ServerKeeps
<1>3. ASSUME NEW t, ServerCalm(ssl[S], t), Become(S, t), NEW r, Put(S, <<r>>), Bland(r)
      PROVE  Order'
  BY <1>0, <1>3, Changes, Traffics, ServerKeeps
<1>4. ASSUME Receive(S, new), Arrives(S, "handshake") PROVE Order'
  <2>1. ServerCalm(ssl[S], ssl3_finish_mac(new, Message(S)))
    BY CalmMac
  <2> QED
    BY <1>2, <1>4, <2>1 DEF Receive, Arrives
<1>5. ASSUME NEW m, Send(S, new, m), m.name # "ServerHello" PROVE Order'
  <2>1. ServerCalm(ssl[S], ssl3_finish_mac(new, m))
    BY CalmMac
  <2>2. Bland(Record(S, "handshake", m))
    BY <1>5 DEF Bland, Tag, Record, ServerHello, Change
  <2> QED
    BY <1>3, <1>5, <2>1, <2>2 DEF Send
<1> QED
  BY <1>1, <1>2, <1>3, <1>4, <1>5 DEF Move

\* A client under way to its first Finished has not read a ChangeCipherSpec: the
\* server does not resume and waits for that Finished.
LEMMA Unread == ASSUME Order, Full(ssl[C]), ssl[C].prev[S] = None PROVE ssl[C].rkey = None
BY DEF Order, ClientFirst, Caused, Resuming

LEMMA CountsPresent ==
  ASSUME NEW q, IsSeq(q), NEW r \in Elements(q)
  PROVE  Count(q, Tag(r)) \in Nat \ {0}
<1> DEFINE A == {i \in DOMAIN q : Tag(q[i]) = Tag(r)}
<1>1. IsFiniteSet(A) /\ Cardinality(A) \in Nat
  BY CountFacts DEF Count
<1>2. A # {}
  BY DEF Elements
<1> HIDE DEF A
<1>3. Cardinality(A) # 0
  BY <1>1, <1>2, FS_EmptySet
<1> QED
  BY <1>1, <1>3 DEF A, Count

LEMMA Present ==
  ASSUME Streams, NEW e \in Endpoint, NEW r \in Traffic(e)
  PROVE  Flying(e, Tag(r)) > 0
<1>1. IsSeq(wire[e]) /\ IsSeq(out[Peer(e)])
  BY PeerFacts DEF Streams
<1>2. ASSUME NEW q, IsSeq(q), r \in Elements(q) PROVE Count(q, Tag(r)) \in Nat \ {0}
  BY <1>2, CountsPresent
<1>3. Count(wire[e], Tag(r)) \in Nat /\ Count(out[Peer(e)], Tag(r)) \in Nat
  BY <1>1, CountFacts
<1>4. r \in Elements(wire[e]) \/ r \in Elements(out[Peer(e)])
  BY DEF Traffic
<1> QED
  BY <1>1, <1>2, <1>3, <1>4 DEF Flying

LEMMA HeadTraffic ==
  ASSUME Inv, NEW e \in Endpoint, wire[e] # <<>>
  PROVE  Head1(e) \in Traffic(e)
<1>1. IsSeq(wire[e])
  BY DEF Inv, Streams
<1> QED
  BY <1>1, TailFacts DEF Head1, Traffic

LEMMA client_hello_Order == ASSUME Inv, Order, ssl3_client_hello PROVE Order'
<1> DEFINE s == [ssl[C] EXCEPT !.cr = @ + 1, !.shutdown = {}, !.state = "CR_SRVR_HELLO",
                   !.buffered = TRUE,
                   !.master = IF ssl[C].sid = None /\ ssl[C].tick = None THEN None ELSE @]
           m == ClientHello(s)
           t == ssl3_finish_mac(s, m)
           r == Record(C, "handshake", m)
<1>1. Become(C, t) /\ Put(C, <<r>>) /\ ssl[C].state = "CW_CLNT_HELLO"
  BY DEF ssl3_client_hello, Send
<1>2. ssl'[C] = t /\ ssl'[S] = ssl[S]
  BY <1>1, Changes, PeerFacts
<1>3. /\ \A q \in Traffic(S)' : q \in Traffic(S) \/ q = r
      /\ \A q \in Traffic(C)' : q \in Traffic(C)
  BY <1>1, Traffics, PeerFacts
<1>4. /\ t.state = "CR_SRVR_HELLO" /\ t.cr = ssl[C].cr + 1 /\ t.rkey = ssl[C].rkey
      /\ t.prev = ssl[C].prev /\ t.ccs = ssl[C].ccs /\ t.sid = ssl[C].sid
  BY EndFields, PeerFacts DEF FieldNames, ssl3_finish_mac
<1>5. /\ Tag(r) = Hello /\ r.type = "handshake"
      /\ r.body.sid = IF ssl[C].new_session = 0 THEN ssl[C].sid ELSE None
      /\ r.body.tick # None => ssl[C].new_session = 0 /\ ssl[C].tick # None
  BY EndFields, PeerFacts DEF FieldNames, Tag, Record, Hello, ClientHello
<1> HIDE DEF t, s, m, r
<1>6. ASSUME ssl[C].prev[C] = None
      PROVE  /\ ssl[C].cr = 0 /\ ssl[S].sr = 0 /\ (ssl[C].tick # None => ssl[C].sid # None)
             /\ \A q \in Traffic(S) : Tag(q) # Hello
  <2>1. ssl[C].cr = 0 /\ (ssl[C].tick # None => ssl[C].sid # None)
    BY <1>1, <1>6 DEF Order, ClientFirst
  <2>2. ssl[S].sr \in Nat /\ Flying(S, Hello) \in Nat
    BY FlyingFacts, PeerFacts DEF Inv, Ends, GoodServer, Typed
  <2>3. ssl[S].sr = 0 /\ Flying(S, Hello) = 0
    BY <2>1, <2>2 DEF Inv, Hellos
  <2>4. \A q \in Traffic(S) : Tag(q) # Hello
    BY <2>3, Present, PeerFacts DEF Inv
  <2> QED
    BY <2>1, <2>3, <2>4
<1>7. ClientFirst(t) /\ ~Full(t)
  BY <1>1, <1>4, <1>6 DEF Order, ClientFirst, Full
<1>8. Sealed' /\ Caused'
  BY <1>2, <1>3, <1>4, <1>5 DEF Order, Sealed, Caused, Hello, Finished
<1>9. Resuming'
  BY <1>2, <1>3, <1>4, <1>5, <1>6, <1>7 DEF Resuming, Full, Offers
<1>10. ClientFirst(ssl[C])' /\ ServerFirst(ssl[S])'
  BY <1>2, <1>7 DEF Order, ClientFirst, ServerFirst, Full
<1> QED
  BY <1>8, <1>9, <1>10 DEF Order

LEMMA get_server_hello_Order == ASSUME Inv, Order, ssl3_get_server_hello PROVE Order'
<1> DEFINE m == Message(C)
           hit == m.sid # None /\ m.sid = ssl[C].sid
           fresh == ~hit /\ ssl[C].sid # None
           new == [ssl[C] EXCEPT
             !.state = IF hit THEN "CR_FINISHED" ELSE "CR_CERT",
             !.hit = hit, !.sid = m.sid, !.sr = m.rnd, !.new_cipher = TRUE,
             !.tick = IF fresh THEN None ELSE @,
             !.master = IF fresh THEN None ELSE @,
             !.ticket_expected = @ \/ m.ticket_ext]
           t == ssl3_finish_mac(new, m)
<1>1. /\ Become(C, t) /\ wire[C] # <<>> /\ Take(C) /\ UNCHANGED out
      /\ ssl[C].state = "CR_SRVR_HELLO" /\ m.ri = ssl[C].prev
      /\ Head1(C).type = "handshake" /\ Head1(C).body = m /\ m.name = "ServerHello"
  BY DEF ssl3_get_server_hello, Receive, IsNext, Arrives, Message
<1>2. ssl'[C] = t /\ ssl'[S] = ssl[S]
  BY <1>1, Changes, PeerFacts
<1>3. /\ \A x \in Endpoint : \A q \in Traffic(x)' : q \in Traffic(x)
      /\ Head1(C) \in Traffic(C) /\ Tag(Head1(C)) = ServerHello
  BY <1>1, Traffics, HeadTraffic, PeerFacts DEF Tag, ServerHello
<1>4. /\ t.state = (IF hit THEN "CR_FINISHED" ELSE "CR_CERT") /\ t.hit = hit
      /\ t.cr = ssl[C].cr /\ t.rkey = ssl[C].rkey
      /\ t.prev = ssl[C].prev /\ t.ccs = ssl[C].ccs
  <2> HIDE DEF hit, fresh, m
  <2> QED
    BY EndFields, PeerFacts DEF FieldNames, ssl3_finish_mac
<1> HIDE DEF t, new, m
<1>5. ssl[C].prev[S] = None => ssl[C].prev[C] = None
  BY <1>1, <1>3 DEF Order, Sealed
<1>6. ClientFirst(t)
  BY <1>1, <1>4, <1>5 DEF Order, ClientFirst, Full
<1>7. Sealed' /\ Caused'
  BY <1>2, <1>3, <1>4, PeerFacts DEF Order, Sealed, Caused
<1>8. ASSUME ssl[C].prev[C] = None, ~hit PROVE ~ssl[S].hit /\ ssl[S].sr > 0
  BY <1>1, <1>3, <1>8 DEF Order, Sealed, Resuming, Offers
<1>9. Resuming'
  BY <1>2, <1>4, <1>8 DEF Resuming, Full
<1>10. ClientFirst(ssl[C])' /\ ServerFirst(ssl[S])'
  BY <1>2, <1>6 DEF Order, ClientFirst, ServerFirst, Full
<1> QED
  BY <1>7, <1>9, <1>10 DEF Order

LEMMA client_finished_Order == ASSUME Inv, Order, client_finished PROVE Order'
<1> DEFINE md == final_finish_mac(ssl[C], C)
           new == [ssl[C] EXCEPT !.state = "CW_FLUSH", !.next = AfterFlight(ssl[C]), !.prev[C] = md]
           m == [name |-> "Finished", rnd |-> 0, md |-> md]
           t == ssl3_finish_mac(new, m)
           r == Record(C, "handshake", m)
<1>1. Become(C, t) /\ Put(C, <<r>>)
  BY DEF client_finished, Send
<1>2. ssl'[C] = t /\ ssl'[S] = ssl[S]
  BY <1>1, Changes, PeerFacts
<1>3. /\ \A q \in Traffic(S)' : q \in Traffic(S) \/ q = r
      /\ \A q \in Traffic(C)' : q \in Traffic(C)
  BY <1>1, Traffics, PeerFacts
<1>0. md # None
  BY DEF final_finish_mac, None
<1>4. /\ t.state = "CW_FLUSH" /\ t.rkey = ssl[C].rkey /\ t.ccs = ssl[C].ccs
      /\ t.prev[C] # None /\ t.prev[S] = ssl[C].prev[S]
  <2> HIDE DEF md
  <2>1. DOMAIN ssl[C].prev = Endpoint
    BY DEF Inv, Ends, GoodClient, Typed
  <2> QED
    BY <1>0, <2>1, EndFields, PeerFacts DEF FieldNames, ssl3_finish_mac
<1> HIDE DEF t, new, m, r, md
<1>5. ClientFirst(t)
  BY <1>4 DEF Order, ClientFirst, Full
<1>6. Sealed' /\ Caused'
  BY <1>2, <1>3, <1>4 DEF Order, Sealed, Caused
<1>7. Resuming'
  BY <1>2, <1>4 DEF Resuming
<1>8. ClientFirst(ssl[C])' /\ ServerFirst(ssl[S])'
  BY <1>2, <1>5 DEF Order, ClientFirst, ServerFirst, Full
<1> QED
  BY <1>6, <1>7, <1>8 DEF Order

LEMMA read_ccs_C_Order == ASSUME Inv, Order, read_change_cipher_spec(C) PROVE Order'
<1> DEFINE k == setup_key_block(ssl[C])
           t == [k EXCEPT !.ccs = TRUE, !.rkey = k.key_block, !.peer_md = final_finish_mac(k, Peer(C))]
<1>1. /\ Become(C, t) /\ wire[C] # <<>> /\ Take(C) /\ UNCHANGED out
      /\ Head1(C).type = "ccs"
  BY DEF read_change_cipher_spec, Arrives
<1>2. ssl'[C] = t /\ ssl'[S] = ssl[S]
  BY <1>1, Changes, PeerFacts
<1>3. /\ \A x \in Endpoint : \A q \in Traffic(x)' : q \in Traffic(x)
      /\ Head1(C) \in Traffic(C) /\ Tag(Head1(C)) = Change
  BY <1>1, Traffics, HeadTraffic, PeerFacts DEF Tag, Change
<1>4. /\ t.ccs = TRUE /\ t.prev = ssl[C].prev /\ t.state = ssl[C].state /\ t.hit = ssl[C].hit
      /\ t.cr = ssl[C].cr /\ t.sid = ssl[C].sid /\ t.tick = ssl[C].tick
  BY EndFields, PeerFacts DEF FieldNames, setup_key_block
<1> HIDE DEF t, k
<1>5. ClientFirst(t)
  BY <1>4 DEF Order, ClientFirst, Full
<1>6. Sealed' /\ Caused'
  BY <1>2, <1>3, <1>4, PeerFacts DEF Order, Sealed, Caused
<1>7. Resuming'
  BY <1>2, <1>3, <1>4, PeerFacts DEF Order, Resuming, Full, Offers
<1>8. ClientFirst(ssl[C])' /\ ServerFirst(ssl[S])'
  BY <1>2, <1>5 DEF Order, ClientFirst, ServerFirst, Full
<1> QED
  BY <1>6, <1>7, <1>8 DEF Order

\* The other steps of the client.
LEMMA DropsKeep == ASSUME Inv, NEW e \in Endpoint, DropBuffer(e) PROVE Keeps
BY DropKeeps DEF Inv

LEMMA OrderClient ==
  ASSUME Inv, Order, ClientHandler \/ ClientStep
  PROVE  Order'
<1>0. /\ DOMAIN ssl[C] = FieldNames /\ C \in Endpoint
      /\ ssl[C].state \in FullStates => ~ssl[C].hit
  BY EndFields, PeerFacts DEF Inv, Ends, GoodClient, Keys
<1>1. ASSUME connect_start PROVE Order'
  <2> DEFINE new == [ssl[C] EXCEPT !.state = "CW_CLNT_HELLO", !.mac = None, !.buffered = FALSE,
                  !.new_session = IF ssl[C].state = "RENEGOTIATE" THEN 1 ELSE @]
  <2>1. Become(C, new) /\ Keeps
    BY <1>0, <1>1, DropsKeep DEF connect_start
  <2>2. DOMAIN new = FieldNames /\ ClientCalm(ssl[C], new)
    BY <1>0, <1>1 DEF connect_start, Order, ClientCalm, ClientFirst, Full, FieldNames
  <2> QED
    BY <2>1, <2>2, ClientMoves
<1>2. ASSUME skip_certificate PROVE Order'
  <2> DEFINE new == [ssl[C] EXCEPT !.state = "CR_KEY_EXCH"]
  <2>1. DOMAIN new = FieldNames /\ ClientCalm(ssl[C], new)
    BY <1>0, <1>2 DEF skip_certificate, Order, ClientCalm, ClientFirst, Full, FieldNames, FullStates
  <2> QED
    BY <1>2, <2>1, ClientMoves DEF skip_certificate
<1>3. ASSUME ssl3_get_server_certificate PROVE Order'
  <2> DEFINE new == [ssl[C] EXCEPT
                       !.state = IF conf.status THEN "CR_CERT_STATUS" ELSE "CR_KEY_EXCH"]
  <2>1. DOMAIN new = FieldNames /\ ClientCalm(ssl[C], new)
    BY <1>0, <1>3
       DEF ssl3_get_server_certificate, Order, ClientCalm, ClientFirst, Full, FieldNames,
           FullStates
  <2> QED
    BY <1>3, <2>1, ClientMoves DEF ssl3_get_server_certificate, IsNext
<1>4. ASSUME ssl3_get_cert_status PROVE Order'
  <2> DEFINE new == [ssl[C] EXCEPT !.state = "CR_KEY_EXCH"]
  <2>1. DOMAIN new = FieldNames /\ ClientCalm(ssl[C], new)
    BY <1>0, <1>4
       DEF ssl3_get_cert_status, Order, ClientCalm, ClientFirst, Full, FieldNames, FullStates
  <2> QED
    BY <1>4, <2>1, ClientMoves DEF ssl3_get_cert_status, IsNext
<1>5. ASSUME ssl3_get_key_exchange PROVE Order'
  <2> DEFINE new == [ssl[C] EXCEPT !.state = "CR_CERT_REQ"]
  <2>1. DOMAIN new = FieldNames /\ ClientCalm(ssl[C], new)
    BY <1>0, <1>5
       DEF ssl3_get_key_exchange, Order, ClientCalm, ClientFirst, Full, FieldNames, FullStates
  <2> QED
    BY <1>5, <2>1, ClientMoves DEF ssl3_get_key_exchange, IsNext
<1>6. ASSUME ssl3_get_certificate_request PROVE Order'
  <2> DEFINE asked == [ssl[C] EXCEPT !.state = "CR_SRVR_DONE", !.cert_req = 1]
             not == [ssl[C] EXCEPT !.state = "CR_SRVR_DONE", !.cert_req = 0]
  <2>1. /\ DOMAIN asked = FieldNames /\ ClientCalm(ssl[C], asked)
        /\ DOMAIN not = FieldNames /\ ClientCalm(ssl[C], not)
    BY <1>0, <1>6
       DEF ssl3_get_certificate_request, Order, ClientCalm, ClientFirst, Full, FieldNames,
           FullStates
  <2> QED
    BY <1>6, <2>1, ClientMoves DEF ssl3_get_certificate_request, IsNext
<1>7. ASSUME ssl3_get_server_done PROVE Order'
  <2> DEFINE new == [ssl[C] EXCEPT
                       !.state = IF ssl[C].cert_req # 0 THEN "CW_CERT" ELSE "CW_KEY_EXCH"]
  <2>1. DOMAIN new = FieldNames /\ ClientCalm(ssl[C], new)
    BY <1>0, <1>7
       DEF ssl3_get_server_done, Order, ClientCalm, ClientFirst, Full, FieldNames, FullStates
  <2> QED
    BY <1>7, <2>1, ClientMoves DEF ssl3_get_server_done, IsNext
<1>8. ASSUME ssl3_send_client_certificate PROVE Order'
  <2> DEFINE new == [ssl[C] EXCEPT !.state = "CW_KEY_EXCH",
                !.cert_req = IF conf.auth = "cert" THEN @ ELSE 2]
  <2>1. DOMAIN new = FieldNames /\ ClientCalm(ssl[C], new)
    BY <1>0, <1>8
       DEF ssl3_send_client_certificate, Order, ClientCalm, ClientFirst, Full, FieldNames,
           FullStates
  <2> DEFINE m == [name |-> "Certificate", rnd |-> 0, empty |-> conf.auth # "cert"]
  <2>2. Send(C, new, m) /\ m.name \notin {"ClientHello", "Finished"}
    BY <1>8 DEF ssl3_send_client_certificate
  <2> HIDE DEF m, new
  <2> QED
    BY <2>1, <2>2, ClientMoves
<1>9. ASSUME ssl3_send_client_key_exchange PROVE Order'
  <2> DEFINE new == [ssl[C] EXCEPT
                !.state = IF ssl[C].cert_req = 1 THEN "CW_CERT_VRFY" ELSE "CW_CHANGE",
                !.ccs = IF ssl[C].cert_req = 1 THEN @ ELSE FALSE,
                !.master = <<ssl[C].cr, ssl[C].sr>>]
  <2>1. ssl[C].prev[S] = None => ssl[C].rkey = None
    BY <1>0, <1>9, Unread DEF ssl3_send_client_key_exchange, Full, FullStates
  <2>2. DOMAIN new = FieldNames /\ ClientCalm(ssl[C], new)
    BY <1>0, <1>9, <2>1
       DEF ssl3_send_client_key_exchange, Order, ClientCalm, ClientFirst, Full,
           FieldNames, FullStates
  <2> DEFINE m == Plain("ClientKeyExchange")
  <2>3. Send(C, new, m) /\ m.name \notin {"ClientHello", "Finished"}
    BY <1>9 DEF ssl3_send_client_key_exchange, Plain
  <2> HIDE DEF m, new
  <2> QED
    BY <2>2, <2>3, ClientMoves
<1>10. ASSUME ssl3_send_client_verify PROVE Order'
  <2> DEFINE new == [ssl[C] EXCEPT !.state = "CW_CHANGE", !.ccs = FALSE]
  <2>1. ssl[C].prev[S] = None => ssl[C].rkey = None
    BY <1>0, <1>10, Unread DEF ssl3_send_client_verify, Full, FullStates
  <2>2. DOMAIN new = FieldNames /\ ClientCalm(ssl[C], new)
    BY <1>0, <1>10, <2>1
       DEF ssl3_send_client_verify, Order, ClientCalm, ClientFirst, Full, FieldNames, FullStates
  <2> DEFINE m == [name |-> "CertificateVerify", rnd |-> 0, signed |-> ssl[C].mac]
  <2>3. Send(C, new, m) /\ m.name \notin {"ClientHello", "Finished"}
    BY <1>10 DEF ssl3_send_client_verify
  <2> HIDE DEF m, new
  <2> QED
    BY <2>2, <2>3, ClientMoves
<1>11. ASSUME cutthrough PROVE Order'
  <2> DEFINE new == [ssl[C] EXCEPT !.buffered = FALSE,
       !.state = IF ssl[C].ticket_expected THEN "CR_SESSION_TICKET" ELSE "CR_FINISHED"]
  <2>1. Become(C, new) /\ Keeps
    BY <1>0, <1>11, DropsKeep DEF cutthrough
  <2>2. DOMAIN new = FieldNames /\ ClientCalm(ssl[C], new)
    BY <1>0, <1>11 DEF cutthrough, Order, ClientCalm, ClientFirst, Full, FieldNames
  <2> QED
    BY <2>1, <2>2, ClientMoves
<1>12. ASSUME ssl3_get_new_session_ticket PROVE Order'
  <2> DEFINE taken == [ssl[C] EXCEPT !.state = "CR_FINISHED", !.tick = Message(C).tick,
                         !.sid = <<"hash", Message(C).tick>>]
             none == [ssl[C] EXCEPT !.state = "CR_FINISHED"]
  <2>1. /\ DOMAIN taken = FieldNames /\ ClientCalm(ssl[C], taken)
        /\ DOMAIN none = FieldNames /\ ClientCalm(ssl[C], none)
    BY <1>0, <1>12
       DEF ssl3_get_new_session_ticket, Order, ClientCalm, ClientFirst, Full, FieldNames
  <2> QED
    BY <1>12, <2>1, ClientMoves DEF ssl3_get_new_session_ticket, IsNext
<1>13. ASSUME read_hello_request PROVE Order'
  <2> DEFINE new == IF Reading(C) THEN [ssl[C] EXCEPT !.state = "RENEGOTIATE", !.total = @ + 1]
               ELSE ssl[C]
  <2>1. Become(C, new) /\ wire[C] # <<>> /\ Take(C) /\ UNCHANGED out
    BY <1>13 DEF read_hello_request, IsNext, Arrives
  <2>2. DOMAIN new = FieldNames /\ ClientCalm(ssl[C], new)
    BY <1>0, <1>13 DEF Reading, Order, ClientCalm, ClientFirst, Full, FieldNames
  <2> QED
    BY <2>1, <2>2, ClientMoves
<1> QED
  BY <1>1, <1>2, <1>3, <1>4, <1>5, <1>6, <1>7, <1>8, <1>9, <1>10, <1>11, <1>12, <1>13,
     client_hello_Order, get_server_hello_Order, client_finished_Order
     DEF ClientHandler, ClientStep

\* The other steps of the server.
LEMMA OrderServerReads ==
  ASSUME Inv, Order, ssl3_get_client_certificate \/ ssl3_get_client_key_exchange
                     \/ ssl3_get_cert_verify \/ read_client_hello
  PROVE  Order'
<1>0. /\ DOMAIN ssl[S] = FieldNames /\ S \in Endpoint
      /\ ssl[S].state \in FullStates => ~ssl[S].hit
  BY EndFields, PeerFacts DEF Inv, Ends, GoodServer, Keys
<1>1. ASSUME ssl3_get_client_certificate PROVE Order'
  <2> DEFINE given == [ssl[S] EXCEPT !.state = "SR_KEY_EXCH", !.peer = ~Message(S).empty]
             not == [ssl[S] EXCEPT !.state = "SR_KEY_EXCH"]
  <2>1. /\ DOMAIN given = FieldNames /\ ServerCalm(ssl[S], given)
        /\ DOMAIN not = FieldNames /\ ServerCalm(ssl[S], not)
    BY <1>0, <1>1 DEF ssl3_get_client_certificate, Order, ServerCalm, ServerFirst, FieldNames
  <2> QED
    BY <1>1, <2>1, ServerMoves DEF ssl3_get_client_certificate, IsNext
<1>2. ASSUME ssl3_get_client_key_exchange PROVE Order'
  <2> DEFINE new == [ssl[S] EXCEPT !.state = "SR_CERT_VRFY", !.master = <<ssl[S].cr, ssl[S].sr>>]
  <2>1. DOMAIN new = FieldNames /\ ServerCalm(ssl[S], new)
    BY <1>0, <1>2 DEF ssl3_get_client_key_exchange, Order, ServerCalm, ServerFirst, FieldNames
  <2> QED
    BY <1>2, <2>1, ServerMoves DEF ssl3_get_client_key_exchange, IsNext
<1>3. ASSUME ssl3_get_cert_verify PROVE Order'
  <2> DEFINE new == [ssl[S] EXCEPT !.state = "SR_FINISHED"]
  <2>1. DOMAIN new = FieldNames /\ ServerCalm(ssl[S], new)
    BY <1>0, <1>3
       DEF ssl3_get_cert_verify, Order, ServerCalm, ServerFirst, FieldNames, FullStates
  <2> QED
    BY <1>3, <2>1, ServerMoves DEF ssl3_get_cert_verify, IsNext
<1>4. ASSUME read_client_hello PROVE Order'
  <2> DEFINE new == [ssl[S] EXCEPT !.state = "ACCEPT", !.new_session = 1]
  <2>1. DOMAIN new = FieldNames /\ ServerCalm(ssl[S], new)
    BY <1>0, <1>4 DEF read_client_hello, Reading, Order, ServerCalm, ServerFirst, FieldNames
  <2> QED
    BY <1>4, <2>1, ServerMoves DEF read_client_hello
<1> QED
  BY <1>1, <1>2, <1>3, <1>4

LEMMA OrderServerSends ==
  ASSUME Inv, Order, ssl3_send_server_certificate \/ ssl3_send_cert_status
                     \/ ssl3_send_server_key_exchange \/ ssl3_send_certificate_request
                     \/ ssl3_send_server_done \/ ssl3_send_newsession_ticket
  PROVE  Order'
<1>0. DOMAIN ssl[S] = FieldNames /\ S \in Endpoint
  BY EndFields, PeerFacts
<1>7. ASSUME NEW new, DOMAIN new = FieldNames, ServerCalm(ssl[S], new),
             NEW m, Send(S, new, m), m.name # "ServerHello"
      PROVE  Order'
  BY <1>7, ServerMoves
<1>1. ASSUME ssl3_send_server_certificate PROVE Order'
  <2> DEFINE new == [ssl[S] EXCEPT !.state = IF conf.status THEN "SW_CERT_STATUS" ELSE "SW_KEY_EXCH"]
             skip == [ssl[S] EXCEPT !.state = "SW_KEY_EXCH"]
             m == [name |-> "Certificate", rnd |-> 0, empty |-> FALSE]
  <2>1. /\ DOMAIN new = FieldNames /\ ServerCalm(ssl[S], new)
        /\ DOMAIN skip = FieldNames /\ ServerCalm(ssl[S], skip)
    BY <1>0, <1>1 DEF ssl3_send_server_certificate, Order, ServerCalm, ServerFirst, FieldNames
  <2>2. Move(S, skip) \/ Send(S, new, m)
    BY <1>1 DEF ssl3_send_server_certificate
  <2>3. m.name # "ServerHello"
    OBVIOUS
  <2> HIDE DEF new, skip, m
  <2> QED
    BY <1>7, <2>1, <2>2, <2>3, ServerMoves
<1>2. ASSUME ssl3_send_cert_status PROVE Order'
  <2> DEFINE new == [ssl[S] EXCEPT !.state = "SW_KEY_EXCH"]
             m == Plain("CertificateStatus")
  <2>1. DOMAIN new = FieldNames /\ ServerCalm(ssl[S], new)
    BY <1>0, <1>2 DEF ssl3_send_cert_status, Order, ServerCalm, ServerFirst, FieldNames
  <2>2. Send(S, new, m) /\ m.name # "ServerHello"
    BY <1>2 DEF ssl3_send_cert_status, Plain
  <2> HIDE DEF new, m
  <2> QED
    BY <1>7, <2>1, <2>2
<1>3. ASSUME ssl3_send_server_key_exchange PROVE Order'
  <2> DEFINE new == [ssl[S] EXCEPT !.state = "SW_CERT_REQ"]
             m == Plain("ServerKeyExchange")
  <2>1. DOMAIN new = FieldNames /\ ServerCalm(ssl[S], new)
    BY <1>0, <1>3 DEF ssl3_send_server_key_exchange, Order, ServerCalm, ServerFirst, FieldNames
  <2>2. (Move(S, new) \/ Send(S, new, m)) /\ m.name # "ServerHello"
    BY <1>3 DEF ssl3_send_server_key_exchange, Plain
  <2> HIDE DEF new, m
  <2> QED
    BY <1>7, <2>1, <2>2, ServerMoves
<1>4. ASSUME ssl3_send_certificate_request PROVE Order'
  <2> DEFINE s == [ssl[S] EXCEPT !.state = "SW_SRVR_DONE"]
             skip == [s EXCEPT !.cert_req = 0]
             new == [s EXCEPT !.cert_req = 1]
             m == Plain("CertificateRequest")
  <2>1. /\ DOMAIN new = FieldNames /\ ServerCalm(ssl[S], new)
        /\ DOMAIN skip = FieldNames /\ ServerCalm(ssl[S], skip)
    BY <1>0, <1>4 DEF ssl3_send_certificate_request, Order, ServerCalm, ServerFirst, FieldNames
  <2>2. (Move(S, skip) \/ Send(S, new, m)) /\ m.name # "ServerHello"
    BY <1>4 DEF ssl3_send_certificate_request, Plain
  <2> HIDE DEF new, skip, m
  <2> QED
    BY <1>7, <2>1, <2>2, ServerMoves
<1>5. ASSUME ssl3_send_server_done PROVE Order'
  <2> DEFINE new == [ssl[S] EXCEPT !.state = "SW_FLUSH", !.next = "SR_CERT"]
             m == Plain("ServerHelloDone")
  <2>1. DOMAIN new = FieldNames /\ ServerCalm(ssl[S], new)
    BY <1>0, <1>5 DEF ssl3_send_server_done, Order, ServerCalm, ServerFirst, FieldNames
  <2>2. Send(S, new, m) /\ m.name # "ServerHello"
    BY <1>5 DEF ssl3_send_server_done, Plain
  <2> HIDE DEF new, m
  <2> QED
    BY <1>7, <2>1, <2>2
<1>6. ASSUME ssl3_send_newsession_ticket PROVE Order'
  <2> DEFINE new == [ssl[S] EXCEPT !.state = "SW_CHANGE"]
             m == [name |-> "NewSessionTicket", rnd |-> 0, tick |-> <<"ticket", ssl[S].sr>>]
  <2>1. DOMAIN new = FieldNames /\ ServerCalm(ssl[S], new)
    BY <1>0, <1>6 DEF ssl3_send_newsession_ticket, Order, ServerCalm, ServerFirst, FieldNames
  <2>2. Send(S, new, m) /\ m.name # "ServerHello"
    BY <1>6 DEF ssl3_send_newsession_ticket
  <2> HIDE DEF new, m
  <2> QED
    BY <1>7, <2>1, <2>2
<1> QED
  BY <1>1, <1>2, <1>3, <1>4, <1>5, <1>6

LEMMA OrderServerOthers ==
  ASSUME Inv, Order, accept_start \/ ssl3_send_hello_request \/ server_finished
  PROVE  Order'
<1>0. DOMAIN ssl[S] = FieldNames /\ S \in Endpoint /\ DOMAIN ssl[S].prev = Endpoint
  BY EndFields, PeerFacts DEF Inv, Ends, GoodServer, Typed
<1>1. ASSUME accept_start PROVE Order'
  <2> DEFINE new == [ssl[S] EXCEPT !.state = "SR_CLNT_HELLO", !.mac = None, !.buffered = TRUE]
  <2>1. Become(S, new) /\ Keeps
    BY <1>0, <1>1, DropsKeep DEF accept_start
  <2>2. DOMAIN new = FieldNames /\ ServerCalm(ssl[S], new)
    BY <1>0, <1>1 DEF accept_start, Order, ServerCalm, ServerFirst, FieldNames
  <2> QED
    BY <2>1, <2>2, ServerMoves
<1>2. ASSUME ssl3_send_hello_request PROVE Order'
  <2> DEFINE new == [ssl[S] EXCEPT !.state = "DONE", !.new_session = 1, !.shutdown = {},
                  !.mac = None]
             r == Record(S, "handshake", Plain("HelloRequest"))
  <2>1. Become(S, new) /\ Put(S, <<r>>)
    BY <1>2 DEF ssl3_send_hello_request
  <2>2. DOMAIN new = FieldNames /\ ServerCalm(ssl[S], new)
    BY <1>0, <1>2 DEF ssl3_send_hello_request, Order, ServerCalm, ServerFirst, FieldNames
  <2>3. Bland(r)
    BY DEF Bland, Tag, Record, Plain, ServerHello, Change
  <2> HIDE DEF new, r
  <2> QED
    BY <2>1, <2>2, <2>3, ServerMoves
<1>3. ASSUME server_finished PROVE Order'
  <2> DEFINE md == final_finish_mac(ssl[S], S)
             new == [ssl[S] EXCEPT !.state = "SW_FLUSH", !.prev[S] = md,
                       !.next = IF ssl[S].hit THEN "SR_FINISHED" ELSE "DONE"]
             m == [name |-> "Finished", rnd |-> 0, md |-> md]
  <2>1. md # None
    BY DEF final_finish_mac, None
  <2>2. Send(S, new, m) /\ m.name # "ServerHello"
    BY <1>3 DEF server_finished
  <2> HIDE DEF md
  <2>3. DOMAIN new = FieldNames /\ ServerCalm(ssl[S], new)
    BY <1>0, <1>3, <2>1, PeerFacts DEF server_finished, Order, ServerCalm, ServerFirst, FieldNames
  <2> HIDE DEF new, m
  <2> QED
    BY <2>2, <2>3, ServerMoves
<1> QED
  BY <1>1, <1>2, <1>3

LEMMA server_hello_Order == ASSUME Inv, Order, ssl3_send_server_hello PROVE Order'
<1> DEFINE new == [ssl[S] EXCEPT
                !.state = IF ~ssl[S].hit THEN "SW_CERT"
                          ELSE IF ssl[S].ticket_expected THEN "SW_SESSION_TICKET" ELSE "SW_CHANGE"]
           m == [name |-> "ServerHello", rnd |-> ssl[S].sr, sid |-> ssl[S].sid,
                 ticket_ext |-> ssl[S].ticket_expected, ri |-> ssl[S].prev]
           t == ssl3_finish_mac(new, m)
           r == Record(S, "handshake", m)
<1>1. Become(S, t) /\ Put(S, <<r>>) /\ ssl[S].state = "SW_SRVR_HELLO"
  BY DEF ssl3_send_server_hello, Send
<1>2. ssl'[S] = t /\ ssl'[C] = ssl[C]
  BY <1>1, Changes, PeerFacts
<1>3. /\ \A q \in Traffic(C)' : q \in Traffic(C) \/ q = r
      /\ \A q \in Traffic(S)' : q \in Traffic(S)
  BY <1>1, Traffics, PeerFacts
<1>4. /\ t.state = (IF ~ssl[S].hit THEN "SW_CERT"
                    ELSE IF ssl[S].ticket_expected THEN "SW_SESSION_TICKET" ELSE "SW_CHANGE")
      /\ t.hit = ssl[S].hit /\ t.sr = ssl[S].sr /\ t.prev = ssl[S].prev
  BY EndFields, PeerFacts DEF FieldNames, ssl3_finish_mac
<1>5. /\ r.type = "handshake" /\ Tag(r) = ServerHello
      /\ r.body.sid = ssl[S].sid /\ r.body.ri = ssl[S].prev
  BY DEF Tag, Record, ServerHello
<1> HIDE DEF t, new, m, r
<1>6. ServerFirst(t) /\ ssl[S].sr > 0 /\ (ssl[S].prev[C] = None <=> ssl[S].prev[S] = None)
  BY <1>1, <1>4 DEF Order, ServerFirst
<1>7. Sealed' /\ Caused'
  BY <1>2, <1>3, <1>4, <1>5, <1>6 DEF Order, Sealed, Caused, ServerHello, Change
<1>8. Resuming'
  BY <1>1, <1>2, <1>3, <1>4, <1>5 DEF Order, Resuming, Full, Offers
<1>9. ClientFirst(ssl[C])' /\ ServerFirst(ssl[S])'
  BY <1>2, <1>6 DEF Order, ClientFirst, ServerFirst, Full
<1> QED
  BY <1>7, <1>8, <1>9 DEF Order

\* The first ClientHello finds a client that has sent no Finished and drawn one
\* random, and a server that has drawn none.
LEMMA get_client_hello_Order == ASSUME Inv, Order, ssl3_get_client_hello PROVE Order'
<1> DEFINE m == Message(S)
           hit == Resumes(m)
           sr == ssl[S].sr + 1
           new == [ssl[S] EXCEPT
             !.state = "SW_SRVR_HELLO", !.new_session = 2, !.shutdown = {}, !.hit = hit,
             !.cr = m.rnd, !.sr = sr, !.new_cipher = TRUE,
             !.ticket_expected = TicketExpected(m),
             !.sid = IF hit THEN m.sid ELSE IF TicketExpected(m) THEN None ELSE <<"new", sr>>,
             !.master = IF hit THEN OldMaster ELSE None, !.peer = FALSE]
           t == ssl3_finish_mac(new, m)
<1>1. /\ Become(S, t) /\ wire[S] # <<>> /\ Take(S) /\ UNCHANGED out
      /\ ssl[S].state = "SR_CLNT_HELLO"
      /\ Head1(S).type = "handshake" /\ Head1(S).body = m /\ m.name = "ClientHello"
  BY DEF ssl3_get_client_hello, Receive, IsNext, Arrives, Message
<1>2. ssl'[S] = t /\ ssl'[C] = ssl[C]
  BY <1>1, Changes, PeerFacts
<1>3. /\ \A x \in Endpoint : \A q \in Traffic(x)' : q \in Traffic(x)
      /\ Head1(S) \in Traffic(S) /\ Tag(Head1(S)) = Hello
  BY <1>1, Traffics, HeadTraffic, PeerFacts DEF Tag, Hello
<1>4. /\ t.state = "SW_SRVR_HELLO" /\ t.hit = hit /\ t.sr = sr /\ t.prev = ssl[S].prev
      /\ hit => t.sid = m.sid
  <2> HIDE DEF hit, sr, m
  <2> QED
    BY EndFields, PeerFacts DEF FieldNames, ssl3_finish_mac
<1>5. hit => m.tick # None \/ m.sid # None
  BY DEF Resumes
<1>6. sr > 0 /\ ssl[S].sr \in Nat
  BY DEF Inv, Ends, GoodServer, Typed
<1> HIDE DEF t, new, hit, sr, m
<1>7. ASSUME ssl[C].prev[C] = None PROVE ssl[S].sr = 0
  <2>1. ssl[C].cr \in Nat /\ ssl[C].cr <= 1
    BY <1>7 DEF Order, ClientFirst, Inv, Ends, GoodClient, Typed
  <2>2. Flying(S, Hello) \in Nat /\ Flying(S, Hello) > 0
    BY <1>3, Present, FlyingFacts, PeerFacts DEF Inv
  <2>3. ssl[S].sr + Flying(S, Hello) <= ssl[C].cr
    BY DEF Inv, Hellos
  <2> QED
    BY <1>6, <2>1, <2>2, <2>3
<1>8. ServerFirst(t)
  BY <1>1, <1>4, <1>6 DEF Order, ServerFirst
<1>9. Sealed' /\ Caused'
  <2>1. ssl[S].sr > 0 => ssl[S].prev[C] # None
    BY <1>1 DEF Order, ServerFirst
  <2> QED
    BY <1>2, <1>3, <1>4, <1>6, <2>1, PeerFacts DEF Order, Sealed, Caused
<1>10. Resuming'
  BY <1>1, <1>2, <1>3, <1>4, <1>5, <1>6, <1>7, PeerFacts DEF Order, Sealed, Resuming, Full, Offers
<1>11. ClientFirst(ssl[C])' /\ ServerFirst(ssl[S])'
  BY <1>2, <1>8 DEF Order, ClientFirst, ServerFirst, Full
<1> QED
  BY <1>9, <1>10, <1>11 DEF Order

LEMMA change_S_Order == ASSUME Inv, Order, change_cipher_spec(S) PROVE Order'
<1> DEFINE s == setup_key_block(ssl[S])
           t == [s EXCEPT !.state = "SW_FINISHED", !.wkey = s.key_block]
           r == Record(S, "ccs", Plain("ChangeCipherSpec"))
<1>1. Become(S, t) /\ Put(S, <<r>>) /\ ssl[S].state = "SW_CHANGE"
  BY PeerFacts DEF change_cipher_spec
<1>2. ssl'[S] = t /\ ssl'[C] = ssl[C]
  BY <1>1, Changes, PeerFacts
<1>3. /\ \A q \in Traffic(C)' : q \in Traffic(C) \/ q = r
      /\ \A q \in Traffic(S)' : q \in Traffic(S)
  BY <1>1, Traffics, PeerFacts
<1>4. /\ t.state = "SW_FINISHED" /\ t.hit = ssl[S].hit /\ t.sr = ssl[S].sr
      /\ t.prev = ssl[S].prev
  BY EndFields, PeerFacts DEF FieldNames, setup_key_block
<1>5. r.type = "ccs" /\ Tag(r) # ServerHello
  BY DEF Tag, Record, ServerHello
<1> HIDE DEF t, s, r
<1>6. ServerFirst(t) /\ (ssl[S].prev[C] # None \/ (ssl[S].hit /\ ssl[S].sr > 0))
  BY <1>1, <1>4 DEF Order, ServerFirst
<1>7. Sealed' /\ Caused'
  BY <1>2, <1>3, <1>4, <1>5, <1>6 DEF Order, Sealed, Caused
<1>8. Resuming'
  BY <1>1, <1>2, <1>3, <1>4, <1>5 DEF Order, Resuming, Full, Offers
<1>9. ClientFirst(ssl[C])' /\ ServerFirst(ssl[S])'
  BY <1>2, <1>6 DEF Order, ClientFirst, ServerFirst, Full
<1> QED
  BY <1>7, <1>8, <1>9 DEF Order

\* The steps both ends make.
LEMMA OrderBoth ==
  ASSUME Inv, Order, NEW e \in Endpoint,
         change_cipher_spec(e) \/ flush(e) \/ handshake_done(e) \/ ssl3_renegotiate_check(e)
  PROVE  Order'
<1>0. /\ DOMAIN ssl[C] = FieldNames /\ DOMAIN ssl[S] = FieldNames
      /\ C \in Endpoint /\ S \in Endpoint /\ (e = C \/ e = S) /\ C # S
  BY EndFields, PeerFacts
<1>1. ASSUME change_cipher_spec(C) PROVE Order'
  <2> DEFINE s == setup_key_block(ssl[C])
             new == [s EXCEPT !.state = "CW_FINISHED", !.wkey = s.key_block]
             r == Record(C, "ccs", Plain("ChangeCipherSpec"))
  <2>1. Become(C, new) /\ Put(C, <<r>>) /\ ssl[C].state = "CW_CHANGE"
    BY <1>1 DEF change_cipher_spec
  <2>2. DOMAIN new = FieldNames /\ ClientCalm(ssl[C], new)
    BY <1>0, <2>1 DEF setup_key_block, Order, ClientCalm, ClientFirst, Full, FieldNames
  <2>3. Tag(r) \notin {Hello, Finished}
    BY DEF Tag, Record, Hello, Finished
  <2> HIDE DEF new, r
  <2> QED
    BY <2>1, <2>2, <2>3, ClientMoves
<1>2. ASSUME flush(C) PROVE Order'
  <2> DEFINE new == [ssl[C] EXCEPT !.state = ssl[C].next]
  <2>1. Become(C, new) /\ Keeps /\ ssl[C].state = "CW_FLUSH"
    BY <1>0, <1>2, FlushKeeps DEF flush, Inv
  <2>2. ssl[C].next \in {"DONE", "CUTTHROUGH_COMPLETE", "CR_SESSION_TICKET", "CR_FINISHED"}
    BY <2>1 DEF Inv, Ends, GoodClient, ClientKeys
  <2>3. DOMAIN new = FieldNames /\ ClientCalm(ssl[C], new)
    BY <1>0, <2>1, <2>2 DEF Order, ClientCalm, ClientFirst, Full, FieldNames
  <2> QED
    BY <2>1, <2>3, ClientMoves
<1>3. ASSUME flush(S) PROVE Order'
  <2> DEFINE new == [ssl[S] EXCEPT !.state = ssl[S].next]
  <2>1. Become(S, new) /\ Keeps /\ ssl[S].state = "SW_FLUSH"
    BY <1>0, <1>3, FlushKeeps DEF flush, Inv
  <2>2. ssl[S].next \in {"SR_CERT", "SR_FINISHED", "DONE"}
    BY <2>1 DEF Inv, Ends, GoodServer, ServerKeys
  <2>3. DOMAIN new = FieldNames /\ ServerCalm(ssl[S], new)
    BY <1>0, <2>1, <2>2 DEF Order, ServerCalm, ServerFirst, FieldNames
  <2> QED
    BY <2>1, <2>3, ServerMoves
<1>4. ASSUME handshake_done(C) PROVE Order'
  <2> DEFINE new == [ssl[C] EXCEPT !.state = "OK", !.key_block = None, !.buffered = FALSE,
                       !.new_session = 0, !.good = @ + 1]
  <2>1. Become(C, new) /\ Keeps /\ ssl[C].state = "DONE"
    BY <1>0, <1>4, DropsKeep DEF handshake_done
  <2>2. DOMAIN new = FieldNames /\ ClientCalm(ssl[C], new)
    BY <1>0, <2>1 DEF Order, ClientCalm, ClientFirst, Full, FieldNames
  <2> QED
    BY <2>1, <2>2, ClientMoves
<1>5. ASSUME handshake_done(S) PROVE Order'
  <2> DEFINE new == [ssl[S] EXCEPT !.state = "OK", !.key_block = None, !.buffered = FALSE,
         !.new_session = IF ssl[S].new_session # 2 THEN @ ELSE 0,
         !.good = IF ssl[S].new_session # 2 THEN @ ELSE @ + 1]
  <2>1. Become(S, new) /\ Keeps /\ ssl[S].state = "DONE"
    BY <1>0, <1>5, DropsKeep DEF handshake_done
  <2>2. DOMAIN new = FieldNames /\ ServerCalm(ssl[S], new)
    BY <1>0, <2>1 DEF Order, ServerCalm, ServerFirst, FieldNames
  <2> QED
    BY <2>1, <2>2, ServerMoves
<1>6. ASSUME ssl3_renegotiate_check(C) PROVE Order'
  <2> DEFINE new == [ssl[C] EXCEPT !.state = "RENEGOTIATE", !.renegotiate = FALSE, !.total = @ + 1]
  <2>1. Move(C, new)
    BY <1>6 DEF ssl3_renegotiate_check
  <2>2. ssl[C].state = "OK" \/ (ssl[C].state \in {"CR_SESSION_TICKET", "CR_FINISHED"} /\ ~ssl[C].hit)
    BY <1>6 DEF ssl3_renegotiate_check, SSL_in_init, cutthrough_complete
  <2>3. DOMAIN new = FieldNames /\ ClientCalm(ssl[C], new)
    BY <1>0, <2>2 DEF Order, ClientCalm, ClientFirst, Full, FieldNames
  <2> QED
    BY <2>1, <2>3, ClientMoves
<1>7. ASSUME ssl3_renegotiate_check(S) PROVE Order'
  <2> DEFINE new == [ssl[S] EXCEPT !.state = "RENEGOTIATE", !.renegotiate = FALSE, !.total = @ + 1]
  <2>1. Move(S, new) /\ ssl[S].state = "OK"
    BY <1>0, <1>7 DEF ssl3_renegotiate_check, SSL_in_init, cutthrough_complete
  <2>2. DOMAIN new = FieldNames /\ ServerCalm(ssl[S], new)
    BY <1>0, <2>1 DEF Order, ServerCalm, ServerFirst, FieldNames
  <2> QED
    BY <2>1, <2>2, ServerMoves
<1> QED
  BY <1>0, <1>1, <1>2, <1>3, <1>4, <1>5, <1>6, <1>7, change_S_Order

LEMMA finished_Order ==
  ASSUME Inv, Order, NEW e \in Endpoint, ssl3_get_finished(e)
  PROVE  Order'
<1> DEFINE new == [ssl[e] EXCEPT !.state = AfterFinished(e), !.ccs = FALSE,
                     !.prev[Peer(e)] = ssl[e].peer_md, !.vkey = ssl[e].rkey]
<1>1. /\ Receive(e, new) /\ Arrives(e, "handshake") /\ ssl[e].ccs
      /\ ssl[e].state = IF e = C THEN "CR_FINISHED" ELSE "SR_FINISHED"
      /\ Message(e).name = "Finished"
  BY DEF ssl3_get_finished, IsNext, FinishedOk
<1>2. /\ DOMAIN ssl[e] = FieldNames /\ DOMAIN ssl[e].prev = Endpoint /\ Peer(e) \in Endpoint
      /\ ssl[e].peer_md # None
  BY <1>1, EndFields, PeerFacts DEF Inv, Ends, GoodClient, GoodServer, Typed, Keys
<1>3. /\ new.prev[Peer(e)] # None /\ new.prev[e] = ssl[e].prev[e] /\ new.state = AfterFinished(e)
      /\ DOMAIN new = FieldNames /\ new.ccs = FALSE
      /\ new.hit = ssl[e].hit /\ new.sid = ssl[e].sid /\ new.tick = ssl[e].tick
      /\ new.sr = ssl[e].sr /\ new.cr = ssl[e].cr /\ new.rkey = ssl[e].rkey
  BY <1>2, PeerFacts DEF FieldNames
<1> HIDE DEF new
<1>4. CASE e = C
  <2>1. ClientCalm(ssl[C], new)
    BY <1>1, <1>3, <1>4, PeerFacts DEF AfterFinished, Order, ClientCalm, ClientFirst, Full
  <2> QED
    BY <1>1, <1>3, <1>4, <2>1, ClientMoves
<1>5. CASE e = S
  <2>1. Head1(S) \in Traffic(S) /\ Tag(Head1(S)) = Finished
    BY <1>1, <1>5, HeadTraffic DEF Arrives, Message, Tag, Finished
  <2>2. ssl[C].prev[C] # None
    BY <2>1 DEF Order, Caused
  <2>3. ServerCalm(ssl[S], new)
    BY <1>1, <1>3, <1>5, <2>2, PeerFacts DEF AfterFinished, Order, ServerCalm, ServerFirst
  <2> QED
    BY <1>1, <1>3, <1>5, <2>3, ServerMoves
<1> QED
  BY <1>4, <1>5, PeerFacts

\* Steps that change none of the fields the second invariant is about.
Same(s, t) ==
  /\ t.state = s.state /\ t.next = s.next /\ t.hit = s.hit /\ t.sid = s.sid /\ t.tick = s.tick
  /\ t.cr = s.cr /\ t.sr = s.sr /\ t.prev = s.prev /\ t.rkey = s.rkey
  /\ s.prev[S] # None \/ t.ccs = s.ccs

LEMMA SameCalm ==
  ASSUME Order, NEW t
  PROVE  /\ Same(ssl[C], t) => ClientCalm(ssl[C], t)
         /\ Same(ssl[S], t) => ServerCalm(ssl[S], t)
BY DEF Same, Order, ClientCalm, ClientFirst, ServerCalm, ServerFirst, Full

LEMMA SameOrder ==
  ASSUME Inv, Order, NEW e \in Endpoint, Same(ssl[e], ssl'[e]), ssl'[Peer(e)] = ssl[Peer(e)],
         NEW r, Bland(r), Tag(r) \notin {Hello, Finished},
         \A x \in Endpoint : \A q \in Traffic(x)' : q \in Traffic(x) \/ (q = r /\ x = Peer(e))
  PROVE  Order'
<1>1. CASE e = C
  <2>1. \A q \in Traffic(C)' : q \in Traffic(C)
    BY <1>1, PeerFacts
  <2>2. \A q \in Traffic(S)' : q \in Traffic(S) \/ Tag(q) \notin {Hello, Finished}
    BY <1>1, PeerFacts
  <2> QED
    BY <1>1, <2>1, <2>2, SameCalm, ClientKeeps, PeerFacts
<1>2. CASE e = S
  <2>1. \A q \in Traffic(S)' : q \in Traffic(S)
    BY <1>2, PeerFacts
  <2>2. \A q \in Traffic(C)' : q \in Traffic(C) \/ Bland(q)
    BY <1>2, PeerFacts
  <2> QED
    BY <1>2, <2>1, <2>2, SameCalm, ServerKeeps, PeerFacts
<1> QED
  BY <1>1, <1>2, PeerFacts

LEMMA SameMoves ==
  ASSUME Inv, Order, NEW e \in Endpoint, NEW new, Same(ssl[e], new)
  PROVE  /\ Move(e, new) => Order'
         /\ Become(e, new) /\ wire[e] # <<>> /\ Take(e) /\ UNCHANGED out => Order'
         /\ \A r : Become(e, new) /\ Put(e, <<r>>) /\ Bland(r) /\ Tag(r) \notin {Hello, Finished} => Order'
         /\ \A r : Become(e, new) /\ Adds(e, r) /\ Bland(r) /\ Tag(r) \notin {Hello, Finished} => Order'
<1> DEFINE none == [type |-> "none"]
<1>1. Bland(none) /\ Tag(none) \notin {Hello, Finished}
  BY DEF Bland, Tag, Hello, Finished, ServerHello, Change
<1> HIDE DEF none
<1>2. Become(e, new) => Same(ssl[e], ssl'[e]) /\ ssl'[Peer(e)] = ssl[Peer(e)]
  BY Changes
<1>3. ASSUME Move(e, new) PROVE Order'
  BY <1>1, <1>2, <1>3, Traffics, SameOrder DEF Move
<1>4. ASSUME Become(e, new), wire[e] # <<>>, Take(e), UNCHANGED out PROVE Order'
  BY <1>1, <1>2, <1>4, Traffics, SameOrder
<1>5. ASSUME Become(e, new), NEW r, Put(e, <<r>>), Bland(r), Tag(r) \notin {Hello, Finished}
      PROVE  Order'
  <2>1. \A x \in Endpoint : \A q \in Traffic(x)' : q \in Traffic(x) \/ (q = r /\ x = Peer(e))
    BY <1>5, Traffics, PeerFacts
  <2> QED
    BY <1>2, <1>5, <2>1, SameOrder
<1>6. ASSUME Become(e, new), NEW r, Adds(e, r), Bland(r), Tag(r) \notin {Hello, Finished}
      PROVE  Order'
  <2>1. \A x \in Endpoint : \A q \in Traffic(x)' : q \in Traffic(x) \/ (q = r /\ x = Peer(e))
    BY <1>6, PeerFacts DEF Adds
  <2> QED
    BY <1>2, <1>6, <2>1, SameOrder
<1> QED
  BY <1>3, <1>4, <1>5, <1>6

LEMMA Plainly ==
  ASSUME NEW e, NEW type \in {"app", "close_notify", "fatal"}, NEW m,
         type = "app" => ssl[e].wkey # None
  PROVE  Bland(Record(e, type, m)) /\ Tag(Record(e, type, m)) \notin {Hello, Finished}
BY DEF Bland, Tag, Record, Hello, Finished, ServerHello, Change

LEMMA OrderData == ASSUME Inv, Order, NEW e \in Endpoint, SSL_read(e) \/ SSL_write(e) \/ discard(e)
                   PROVE  Order'
<1>1. UNCHANGED ssl
  BY DEF SSL_read, SSL_write, discard, Discards
<1>2. Same(ssl[e], ssl'[e]) /\ ssl'[Peer(e)] = ssl[Peer(e)]
  BY <1>1 DEF Same
<1> DEFINE none == [type |-> "none"]
<1>3. Bland(none) /\ Tag(none) \notin {Hello, Finished}
  BY DEF Bland, Tag, Hello, Finished, ServerHello, Change
<1> HIDE DEF none
<1>4. CASE SSL_read(e) \/ discard(e)
  <2>1. wire[e] # <<>> /\ Take(e) /\ UNCHANGED out
    BY <1>4 DEF SSL_read, discard, Discards, Arrives
  <2> QED
    BY <1>2, <1>3, <2>1, Traffics, SameOrder
<1>5. CASE SSL_write(e)
  <2> DEFINE r == Record(e, "app", Plain("data"))
  <2>1. Put(e, <<r>>)
    BY <1>5 DEF SSL_write
  <2>2. e = S => ssl[S].wkey # None
    <3>1. e = S => ssl[S].state = "OK"
      BY <1>5, PeerFacts DEF SSL_write, SSL_in_init, cutthrough_complete
    <3> QED
      BY <3>1 DEF Inv, Ends, GoodServer, Keys, Settled, Vouched
  <2>3. Tag(r) \notin {Hello, Finished} /\ (e = S => Bland(r))
    BY <2>2, Plainly DEF Tag, Record, Hello, Finished
  <2> HIDE DEF r
  <2>4. CASE e = C
    <3>1. \A q \in Traffic(S)' : q \in Traffic(S) \/ Tag(q) \notin {Hello, Finished}
      BY <2>1, <2>3, <2>4, Traffics, PeerFacts
    <3>2. \A q \in Traffic(C)' : q \in Traffic(C)
      BY <2>1, <2>4, Traffics, PeerFacts
    <3>3. ClientCalm(ssl[C], ssl'[C])
      BY <1>2, <2>4, SameCalm
    <3> QED
      BY <1>1, <3>1, <3>2, <3>3, ClientKeeps
  <2>5. CASE e = S
    <3>1. \A x \in Endpoint : \A q \in Traffic(x)' : q \in Traffic(x) \/ (q = r /\ x = Peer(e))
      BY <2>1, Traffics, PeerFacts
    <3> QED
      BY <1>2, <2>3, <2>5, <3>1, SameOrder
  <2> QED
    BY <2>4, <2>5, PeerFacts
<1> QED
  BY <1>4, <1>5

LEMMA OrderAlerts ==
  ASSUME Inv, Order, NEW e \in Endpoint,
         read_close_notify(e) \/ read_fatal_alert(e) \/ ssl3_send_alert(e)
         \/ SSL_renegotiate(e) \/ SSL_shutdown(e)
  PROVE  Order'
<1>0. DOMAIN ssl[e] = FieldNames
  BY EndFields
<1>1. ASSUME read_close_notify(e) PROVE Order'
  <2> DEFINE new == [ssl[e] EXCEPT !.shutdown = @ \cup {"received"}]
  <2>1. Same(ssl[e], new)
    BY <1>0 DEF Same, FieldNames
  <2>2. Become(e, new) /\ wire[e] # <<>> /\ Take(e) /\ UNCHANGED out
    BY <1>1 DEF read_close_notify, Arrives
  <2> QED
    BY <2>1, <2>2, SameMoves
<1>2. ASSUME read_fatal_alert(e) PROVE Order'
  <2> DEFINE new == [ssl[e] EXCEPT !.failed = TRUE, !.shutdown = @ \cup {"received"}]
  <2>1. Same(ssl[e], new)
    BY <1>0 DEF Same, FieldNames
  <2>2. Become(e, new) /\ wire[e] # <<>> /\ Take(e) /\ UNCHANGED out
    BY <1>2 DEF read_fatal_alert, Arrives
  <2> QED
    BY <2>1, <2>2, SameMoves
<1>3. ASSUME ssl3_send_alert(e) PROVE Order'
  <2> DEFINE new == [ssl[e] EXCEPT !.failed = TRUE]
             r == Record(e, "fatal", Plain("alert"))
  <2>1. Same(ssl[e], new)
    BY <1>0 DEF Same, FieldNames
  <2>2. Become(e, new)
    BY <1>3 DEF ssl3_send_alert
  <2>3. Adds(e, r)
    BY <1>3, FatalAdds DEF ssl3_send_alert, Inv
  <2>4. Bland(r) /\ Tag(r) \notin {Hello, Finished}
    BY Plainly
  <2> HIDE DEF new, r
  <2> QED
    BY <2>1, <2>2, <2>3, <2>4, SameMoves
<1>4. ASSUME SSL_renegotiate(e) PROVE Order'
  <2> DEFINE new == [ssl[e] EXCEPT !.renegotiate = TRUE,
                       !.new_session = IF ssl[e].new_session = 0 THEN 1 ELSE @]
  <2>1. Same(ssl[e], new)
    BY <1>0 DEF Same, FieldNames
  <2> QED
    BY <1>4, <2>1, SameMoves DEF SSL_renegotiate
<1>5. ASSUME SSL_shutdown(e) PROVE Order'
  <2> DEFINE done == [ssl[e] EXCEPT !.shut = TRUE]
             new == [ssl[e] EXCEPT !.shutdown = @ \cup {"sent"},
                       !.shut = "received" \in ssl[e].shutdown]
             r == Record(e, "close_notify", Plain("close_notify"))
  <2>1. Same(ssl[e], done) /\ Same(ssl[e], new)
    BY <1>0 DEF Same, FieldNames
  <2>2. Move(e, done) \/ (Become(e, new) /\ Put(e, <<r>>))
    BY <1>5 DEF SSL_shutdown
  <2>3. Bland(r) /\ Tag(r) \notin {Hello, Finished}
    BY Plainly
  <2> HIDE DEF done, new, r
  <2> QED
    BY <2>1, <2>2, <2>3, SameMoves
<1> QED
  BY <1>1, <1>2, <1>3, <1>4, <1>5

LEMMA read_ccs_S_Order == ASSUME Inv, Order, read_change_cipher_spec(S) PROVE Order'
<1> DEFINE k == setup_key_block(ssl[S])
           new == [k EXCEPT !.ccs = TRUE, !.rkey = k.key_block, !.peer_md = final_finish_mac(k, Peer(S))]
<1>1. Become(S, new) /\ wire[S] # <<>> /\ Take(S) /\ UNCHANGED out
  BY DEF read_change_cipher_spec, Arrives
<1>2. DOMAIN new = FieldNames /\ ServerCalm(ssl[S], new)
  BY EndFields, PeerFacts
     DEF setup_key_block, Order, ServerCalm, ServerFirst, FieldNames
<1> HIDE DEF new
<1> QED
  BY <1>1, <1>2, ServerMoves

LEMMA OrderHandler == ASSUME Inv, Order, NEW e \in Endpoint, Handler(e) PROVE Order'
<1>1. ASSUME ServerHandler PROVE Order'
  BY <1>1, OrderServerReads, get_client_hello_Order DEF ServerHandler
<1>2. ASSUME read_change_cipher_spec(e) PROVE Order'
  BY <1>2, read_ccs_C_Order, read_ccs_S_Order, PeerFacts
<1> QED
  BY <1>1, <1>2, OrderClient, finished_Order, OrderData, OrderAlerts DEF Handler

LEMMA OrderStep == ASSUME Inv, Order, NEW e \in Endpoint, Step(e) PROVE Order'
<1>1. ASSUME ServerStep PROVE Order'
  BY <1>1, OrderServerSends, OrderServerOthers, server_hello_Order DEF ServerStep
<1> QED
  BY <1>1, OrderClient, OrderBoth DEF Step

LEMMA Order_Next == ASSUME Inv, Order, [Next]_vars PROVE Order'
<1>1. ASSUME NEW e \in Endpoint, Library(e) PROVE Order'
  BY <1>1, OrderHandler, OrderStep, OrderBoth, OrderAlerts DEF Library
<1>2. ASSUME NEW e \in Endpoint, Application(e) PROVE Order'
  BY <1>2, OrderData, OrderAlerts DEF Application
<1>3. ASSUME UNCHANGED vars PROVE Order'
  <2>1. Same(ssl[C], ssl'[C]) /\ ssl'[S] = ssl[S] /\ C \in Endpoint
    BY <1>3, PeerFacts DEF vars, Same
  <2>2. \A x \in Endpoint : Traffic(x)' = Traffic(x)
    BY <1>3 DEF vars, Traffic
  <2>3. ClientCalm(ssl[C], ssl'[C])
    BY <2>1, SameCalm
  <2> QED
    BY <2>1, <2>2, <2>3, PeerFacts, ClientKeeps
<1> QED
  BY <1>1, <1>2, <1>3 DEF Next

LEMMA Order_Init == ASSUME Init PROVE Order
<1>1. /\ ssl[C] = Offered(conf) /\ ssl[S] = Fresh
      /\ \A e \in Endpoint : Traffic(e) = {}
  BY PeerFacts, EmptyFacts DEF Init, Traffic
<1>2. /\ ssl[C].state = "BEFORE" /\ ssl[C].cr = 0 /\ (ssl[C].tick # None => ssl[C].sid # None)
      /\ ssl[C].prev = [e \in Endpoint |-> None] /\ ssl[C].rkey = None
  BY <1>1 DEF Offered, Fresh, None
<1>3. /\ ssl[S].state = "BEFORE" /\ ssl[S].sr = 0 /\ ssl[S].hit = FALSE
      /\ ssl[S].prev = [e \in Endpoint |-> None]
  BY <1>1 DEF Fresh
<1>4. ClientFirst(ssl[C]) /\ ServerFirst(ssl[S])
  BY <1>2, <1>3, PeerFacts DEF ClientFirst, ServerFirst, Full
<1>5. Sealed /\ Caused
  BY <1>1, <1>2, <1>3, PeerFacts DEF Sealed, Caused
<1>6. Resuming
  BY <1>2 DEF Resuming, Full
<1> QED
  BY <1>4, <1>5, <1>6 DEF Order

\* What either end may conclude from what it has read so far (Protected needs it).
THEOREM Ordered == Spec => []Order
<1>1. Init => Order
  BY Order_Init
<1>2. Inv /\ Order /\ [Next]_vars => Order'
  BY Order_Next
<1> QED
  BY <1>1, <1>2, Invariant, PTL DEF Spec

-----------------------------------------------------------------------------
(* What the ends have told each other: the third invariant.  Agreement     *)
(* follows from it.  A Finished is <<label, master secret, transcript>>;   *)
(* the transcript names the two hellos by their randoms, which number      *)
(* the handshakes of a connection.                                         *)

HelloOf(md) == md[3][1][2]
AnswerOf(md) == md[3][2][2]
Has(mac, name) == \E i \in DOMAIN mac : mac[i][1] = name
Exchange == "ClientKeyExchange"
Ticket == "NewSessionTicket"

\* A transcript of the handshake end s is in, of a full one or a resumed one.
Begins(mac, s) ==
  /\ IsSeq(mac) /\ Len(mac) > 1
  /\ mac[1] = <<"ClientHello", s.cr>> /\ mac[2] = <<"ServerHello", s.sr>>
Tells(mac, s) == Begins(mac, s) /\ (Has(mac, Exchange) <=> ~s.hit)
Names(md, x, s) == md = <<x, s.master, md[3]>> /\ Tells(md[3], s)

\* The keys of the handshake s is in, and whether they have been made.
Secret(s) == <<s.master, s.cr, s.sr>>
NoKeys(s) == s.key_block = None /\ ~s.ccs
NewKeys(s) == s.key_block = Secret(s)

\* A client that renegotiates before it has the server's first Finished. The
\* server will not answer it, or with a ServerHello it refuses.
Abandons(s) == s.prev[S] = None /\ s.prev[C] # None

\* The client. A ChangeCipherSpec that comes too early makes keys of this
\* handshake, under which no message of the server's flight opens.
ClientEarly == {"CR_CERT", "CR_CERT_STATUS", "CR_KEY_EXCH", "CR_CERT_REQ", "CR_SRVR_DONE"}
ClientFlight == {"CW_CERT", "CW_KEY_EXCH", "CW_CERT_VRFY", "CW_CHANGE", "CW_FINISHED"}
ClientSent == {"CW_FLUSH", "CUTTHROUGH_COMPLETE", "CR_SESSION_TICKET", "CR_FINISHED"}
ClientNumbers(s) ==
  LET idle == s.state \in {"BEFORE", "RENEGOTIATE", "CW_CLNT_HELLO"}
      lost == s.state \in {"RENEGOTIATE", "CW_CLNT_HELLO", "CR_SRVR_HELLO"} /\ Abandons(s)
  IN /\ IF s.state = "CR_SRVR_HELLO" THEN s.cr = s.sr + 1 ELSE s.cr = s.sr
     /\ ~lost => s.cr = IF idle \/ s.state = "OK" THEN s.good ELSE s.good + 1
     /\ (idle \/ s.state = "OK") /\ ~lost => NoKeys(s)
     /\ (s.state = "CR_SRVR_HELLO" /\ ~lost) \/ s.state \in ClientEarly
          => NoKeys(s) \/ (s.ccs /\ s.rkey[2] = s.cr)
     /\ s.wkey # None => s.wkey[3] \in 0 .. s.sr
ClientRun(s) ==
  /\ s.state \in {"CW_CERT", "CW_KEY_EXCH", "CW_CERT_VRFY"} \/ (s.state = "CW_CHANGE" /\ ~s.hit)
       => NoKeys(s)
  /\ s.state = "CR_FINISHED" /\ s.hit => NoKeys(s) \/ NewKeys(s)
  /\ s.state \in {"CW_FINISHED", "DONE"} \/ (s.state \in ClientSent /\ ~s.hit)
     \/ (s.state \in {"CW_CHANGE", "CW_FLUSH"} /\ s.hit) => NewKeys(s)
  /\ s.state \in {"CW_FINISHED", "CW_FLUSH", "CUTTHROUGH_COMPLETE"} => ~s.ccs
  /\ s.state \in {"DONE", "OK"} => s.rkey = Secret(s)
  /\ s.wkey # None /\ (s.state \in ClientEarly \cup (ClientFlight \ {"CW_FINISHED"})
                       \/ (s.state = "CR_FINISHED" /\ s.hit)) => s.wkey[3] < s.sr
ClientTalk(s) ==
  /\ IsSeq(s.mac)
  /\ s.state = "CW_CLNT_HELLO" => s.mac = <<>>
  /\ s.state = "CR_SRVR_HELLO" => s.mac = <<<<"ClientHello", s.cr>>>>
  /\ s.state \in ClientEarly \cup {"CW_CERT", "CW_KEY_EXCH"} => Begins(s.mac, s) /\ ~Has(s.mac, Exchange)
  /\ s.state \in {"CW_CERT_VRFY", "CW_CHANGE", "CW_FINISHED"} \cup ClientSent => Tells(s.mac, s)
  /\ s.state \in {"CR_FINISHED", "CW_CHANGE", "CW_FINISHED"} /\ s.hit => ~Has(s.mac, Ticket)
  /\ s.state \in {"CR_SESSION_TICKET", "CR_FINISHED"} /\ s.ccs => Names(s.peer_md, S, s)
ClientTold(s) ==
  /\ s.state \in {"DONE", "OK"} \/ (s.state \in ClientSent /\ ~s.hit)
     \/ (s.state = "CW_FLUSH" /\ s.hit) => Names(s.prev[C], C, s)
  /\ s.state \in {"DONE", "OK"} \/ (s.state \in {"CW_CHANGE", "CW_FINISHED", "CW_FLUSH"} /\ s.hit)
       => Names(s.prev[S], S, s)
  /\ s.prev = [x \in Endpoint |-> s.prev[x]]
  /\ s.prev[C] # None => HelloOf(s.prev[C]) \in 0 .. s.cr
  /\ s.prev[C] # None
     /\ (s.state \in {"CR_SRVR_HELLO"} \cup ClientEarly \cup ClientFlight
         \/ (s.state = "CR_FINISHED" /\ s.hit)) => HelloOf(s.prev[C]) < s.cr
ClientSide(s) == ClientNumbers(s) /\ ClientRun(s) /\ ClientTalk(s) /\ ClientTold(s)

\* The server.
ServerEarly == {"SW_CERT", "SW_CERT_STATUS", "SW_KEY_EXCH", "SW_CERT_REQ", "SW_SRVR_DONE"}
ServerIdle == {"ACCEPT", "RENEGOTIATE", "OK", "SR_CLNT_HELLO"}
Answers(s) == s.state \in ServerEarly \/ (s.state = "SW_FLUSH" /\ s.next = "SR_CERT")
Finishes(s) == s.state = "SW_FLUSH" /\ s.next # "SR_CERT"
ServerNumbers(s) ==
  /\ s.sr = IF s.new_session = 2 THEN s.good + 1 ELSE s.good
  /\ s.state \in ServerIdle \cup {"BEFORE"} => s.new_session # 2 /\ NoKeys(s)
  /\ s.state \notin ServerIdle \cup {"BEFORE", "DONE"} => s.new_session = 2
  /\ s.state = "BEFORE" => s.sr = 0
  /\ s.state \notin {"BEFORE", "SR_CLNT_HELLO"} => s.sr > 0
  /\ s.sr = 0 => ~s.new_cipher
  /\ s.sr > 0 /\ s.state \in ServerIdle \cup {"DONE"} => s.rkey = Secret(s)
  /\ s.wkey # None => s.wkey[2] \in 0 .. s.cr
  /\ s.wkey # None /\ s.state \in ServerEarly \cup {"SW_SRVR_HELLO"} => s.wkey[2] < s.cr
ServerRun(s) ==
  /\ s.state = "DONE" /\ s.new_session # 2 => NoKeys(s)
  /\ s.state = "SW_SRVR_HELLO" \/ Answers(s)
     \/ (s.state \in {"SW_SESSION_TICKET", "SW_CHANGE"} /\ s.hit) => NoKeys(s)
  /\ s.state \in {"SR_CERT", "SR_KEY_EXCH"} => NoKeys(s) \/ (s.ccs /\ s.rkey[3] = s.sr)
  /\ s.state = "SR_CERT_VRFY" \/ (s.state = "SR_FINISHED" /\ ~s.hit) => NoKeys(s) \/ NewKeys(s)
  /\ s.state = "SW_FINISHED" \/ Finishes(s) \/ (s.state = "SR_FINISHED" /\ s.hit)
     \/ (s.state \in {"SW_SESSION_TICKET", "SW_CHANGE"} /\ ~s.hit) => NewKeys(s)
  /\ s.state \in {"SW_FINISHED", "SW_FLUSH"} => ~s.ccs
ServerTalk(s) ==
  /\ IsSeq(s.mac)
  /\ s.state = "SR_CLNT_HELLO" => s.mac = <<>>
  /\ s.state = "SW_SRVR_HELLO" => s.mac = <<<<"ClientHello", s.cr>>>>
  /\ Answers(s) \/ s.state \in {"SR_CERT", "SR_KEY_EXCH"} => Begins(s.mac, s) /\ ~Has(s.mac, Exchange)
  /\ Finishes(s) \/ s.state \in {"SR_CERT_VRFY", "SR_FINISHED", "SW_SESSION_TICKET",
                                 "SW_CHANGE", "SW_FINISHED"} => Tells(s.mac, s)
  /\ (Finishes(s) \/ s.state \in {"SW_CHANGE", "SW_FINISHED", "SR_FINISHED"})
     /\ s.hit /\ s.ticket_expected => Has(s.mac, Ticket)
  /\ s.state \in {"SR_CERT_VRFY", "SR_FINISHED"} /\ s.ccs => Names(s.peer_md, C, s)
  /\ s.state = "SR_FINISHED" /\ s.ccs /\ s.hit /\ s.ticket_expected => Has(s.peer_md[3], Ticket)
ServerTold(s) ==
  /\ (s.sr > 0 /\ s.state \in ServerIdle) \/ s.state = "DONE"
     \/ (s.state \in {"SW_SESSION_TICKET", "SW_CHANGE", "SW_FINISHED"} /\ ~s.hit)
     \/ (s.state = "SW_FLUSH" /\ s.next = "DONE") => Names(s.prev[C], C, s)
  /\ (s.sr > 0 /\ s.state \in ServerIdle) \/ s.state = "DONE" \/ Finishes(s)
     \/ (s.state = "SR_FINISHED" /\ s.hit) => Names(s.prev[S], S, s)
  /\ s.prev = [x \in Endpoint |-> s.prev[x]]
  /\ s.prev[S] # None => AnswerOf(s.prev[S]) \in 0 .. s.sr
  /\ s.prev[S] # None
     /\ (Answers(s) \/ s.state \in {"SW_SRVR_HELLO", "SR_CERT", "SR_KEY_EXCH", "SR_CERT_VRFY",
                                    "SW_SESSION_TICKET", "SW_CHANGE", "SW_FINISHED"}
         \/ (s.state = "SR_FINISHED" /\ ~s.hit)) => AnswerOf(s.prev[S]) < s.sr

\* Whom the server knows by a certificate.
Asks == conf.auth # "no" /\ conf.kx # "anon"
Known == conf.auth = "cert" /\ conf.kx # "anon"
Unknown(s) == s.sr = 0 \/ s.hit \/ Answers(s) \/ s.state \in {"SW_SRVR_HELLO", "SR_CERT"}
ServerKnows(s) ==
  /\ s.state = "SW_SRVR_DONE" \/ (s.state = "SW_FLUSH" /\ s.next = "SR_CERT") \/ s.state = "SR_CERT"
       => s.cert_req = IF Asks THEN 1 ELSE 0
  /\ s.peer <=> ~Unknown(s) /\ Known
ServerSide(s) ==
  ServerNumbers(s) /\ ServerRun(s) /\ ServerTalk(s) /\ ServerTold(s) /\ ServerKnows(s)

\* Each hello on its way is newer than the last one read, and each answer is;
\* there is never more than one.
Answering == IF ssl[S].state = "SW_SRVR_HELLO" THEN 1 ELSE 0
Numbered ==
  /\ \A r \in Traffic(C) : Tag(r) = ServerHello => r.body.rnd > ssl[C].sr
  /\ \A r \in Traffic(S) : Tag(r) = Hello => r.body.rnd > ssl[S].cr
  /\ ssl[C].sr + Flying(C, ServerHello) + Answering <= ssl[S].sr
  /\ ssl[S].sr <= ssl[S].cr

\* A flight goes out under the keys of an earlier handshake, if under any.
ServerFlight == {"ServerHello", "Certificate", "CertificateStatus", "ServerKeyExchange",
                 "CertificateRequest", "ServerHelloDone"}
ClientFlies == {"Certificate", "ClientKeyExchange", "CertificateVerify"}
FromServer(r) ==
  r.key # None /\ r.type = "handshake" /\ r.body.name \in ServerFlight =>
    r.key[2] \in 0 .. ssl[S].cr - 1
FromClient(r) ==
  /\ r.key # None /\ (r.type = "ccs" \/ (r.type = "handshake" /\ r.body.name \in ClientFlies)) =>
       r.key[3] \in 0 .. ssl[C].sr - 1
  /\ Tag(r) = <<"handshake", "Certificate">> => (r.body.empty <=> conf.auth # "cert")
Keyed == (\A r \in Traffic(C) : FromServer(r)) /\ (\A r \in Traffic(S) : FromClient(r))

\* A Finished of the handshake its sender is in is the last one it has sent.
OfClient(md) ==
  /\ md # None /\ HelloOf(md) \in 0 .. ssl[C].cr
  /\ HelloOf(md) = ssl[C].cr => md = ssl[C].prev[C]
OfServer(md) ==
  /\ md # None /\ AnswerOf(md) \in 0 .. ssl[S].sr
  /\ AnswerOf(md) = ssl[S].sr => md = ssl[S].prev[S]
Bound ==
  /\ \A r \in Traffic(S) : Tag(r) = Finished =>
       OfClient(r.body.md) /\ (Has(r.body.md[3], Ticket) => Has(r.body.md[3], Exchange))
  /\ \A r \in Traffic(C) : Tag(r) = Finished => OfServer(r.body.md)
  /\ ssl[S].prev[C] # None => OfClient(ssl[S].prev[C])
  /\ ssl[C].prev[S] # None => OfServer(ssl[C].prev[S])

Talk == ClientSide(ssl[C]) /\ ServerSide(ssl[S]) /\ Numbered /\ Keyed /\ Bound

-----------------------------------------------------------------------------
(* Transcripts.                                                            *)

\* One entry more.
Longer(p, q, x) ==
  /\ IsSeq(p) /\ Len(q) \in Nat /\ Len(p) = Len(q) + 1
  /\ \A i \in 1 .. Len(q) : p[i] = q[i]
  /\ p[Len(q) + 1] = x
  /\ \A n : Has(p, n) <=> Has(q, n) \/ x[1] = n

LEMMA Hashing == ASSUME NEW q, IsSeq(q), NEW x PROVE Longer(Append(q, x), q, x)
<1> DEFINE T == Elements(q) \cup {x}
           p == Append(q, x)
<1>1. q \in Seq(T)
  BY SeqMonotonic DEF IsSeq, T
<1>2. /\ p \in Seq(T) /\ Len(p) = Len(q) + 1 /\ Len(q) \in Nat
      /\ \A i \in 1 .. Len(q) : p[i] = q[i]
      /\ p[Len(q) + 1] = x
      /\ DOMAIN p = 1 .. Len(q) + 1 /\ DOMAIN q = 1 .. Len(q)
  BY <1>1, AppendProperties, LenProperties
<1> HIDE DEF p
<1>3. Elements(p) = T
  <2>1. \A i \in DOMAIN p : p[i] \in T
    BY <1>2 DEF Elements
  <2>2. \A i \in DOMAIN q : i \in DOMAIN p /\ p[i] = q[i]
    BY <1>2
  <2>3. Len(q) + 1 \in DOMAIN p /\ p[Len(q) + 1] = x
    BY <1>2
  <2> QED
    BY <2>1, <2>2, <2>3 DEF Elements
<1>4. IsSeq(p)
  BY <1>2, <1>3 DEF IsSeq
<1>5. ASSUME NEW n PROVE Has(p, n) <=> Has(q, n) \/ x[1] = n
  <2>1. ASSUME NEW i \in DOMAIN p, p[i][1] = n PROVE Has(q, n) \/ x[1] = n
    <3>1. i \in DOMAIN q \/ i = Len(q) + 1
      BY <1>2
    <3> QED
      BY <2>1, <3>1, <1>2 DEF Has
  <2>2. ASSUME NEW i \in DOMAIN q, q[i][1] = n PROVE Has(p, n)
    <3>1. i \in DOMAIN p /\ p[i] = q[i]
      BY <1>2
    <3> QED
      BY <2>2, <3>1 DEF Has
  <2>3. x[1] = n => Has(p, n)
    <3>1. Len(q) + 1 \in DOMAIN p
      BY <1>2
    <3> QED
      BY <3>1, <1>2 DEF Has
  <2> QED
    BY <2>1, <2>2, <2>3 DEF Has
<1> QED
  BY <1>2, <1>4, <1>5 DEF Longer, p

LEMMA NewTranscript ==
  ASSUME NEW x, NEW y
  PROVE  /\ IsSeq(<<x>>) /\ \A n : Has(<<x>>, n) <=> x[1] = n
         /\ Append(<<>>, x) = <<x>>
         /\ IsSeq(Append(<<x>>, y)) /\ Len(Append(<<x>>, y)) = 2
         /\ Append(<<x>>, y)[1] = x /\ Append(<<x>>, y)[2] = y
         /\ \A n : Has(Append(<<x>>, y), n) <=> x[1] = n \/ y[1] = n
<1>1. IsSeq(<<x>>) /\ Len(<<x>>) = 1 /\ <<x>>[1] = x /\ DOMAIN <<x>> = {1}
  BY OneFacts
<1>2. \A n : Has(<<x>>, n) <=> x[1] = n
  BY <1>1 DEF Has
<1>3. Append(<<>>, x) = <<x>>
  OBVIOUS
<1> DEFINE q == <<x>>
<1> HIDE DEF q
<1>4. /\ IsSeq(Append(q, y)) /\ Len(Append(q, y)) = 2 /\ Append(q, y)[1] = x /\ Append(q, y)[2] = y
      /\ \A n : Has(Append(q, y), n) <=> x[1] = n \/ y[1] = n
  <2> DEFINE p == Append(q, y)
  <2>1. IsSeq(q) /\ Len(q) = 1 /\ q[1] = x /\ \A n : Has(q, n) <=> x[1] = n
    BY <1>1, <1>2 DEF q
  <2>2. Longer(p, q, y)
    BY <2>1, Hashing
  <2> HIDE DEF p
  <2>3. /\ IsSeq(p) /\ Len(p) = 2 /\ p[1] = x /\ p[2] = y
        /\ \A n : Has(p, n) <=> x[1] = n \/ y[1] = n
    BY <2>1, <2>2 DEF Longer
  <2> QED
    BY <2>3 DEF p
<1> QED
  BY <1>1, <1>2, <1>3, <1>4 DEF q

\* The fields ssl3_finish_mac leaves alone, and what it adds to the transcript.
Told(t, s, m) ==
  /\ \A f \in FieldNames \ {"mac"} : t[f] = s[f]
  /\ DOMAIN t = FieldNames /\ t.mac = Append(s.mac, <<m.name, m.rnd>>) /\ IsSeq(t.mac)
  /\ \A n : Has(t.mac, n) <=> Has(s.mac, n) \/ m.name = n
  /\ \A u : Begins(s.mac, u) => Begins(t.mac, u)

LEMMA Hashed ==
  ASSUME NEW s, DOMAIN s = FieldNames, IsSeq(s.mac), NEW m
  PROVE  Told(ssl3_finish_mac(s, m), s, m)
<1> DEFINE t == ssl3_finish_mac(s, m)
           x == <<m.name, m.rnd>>
<1>1. /\ \A f \in FieldNames \ {"mac"} : t[f] = s[f]
      /\ DOMAIN t = FieldNames /\ t.mac = Append(s.mac, x)
  BY DEF ssl3_finish_mac, FieldNames
<1>4. x[1] = m.name
  OBVIOUS
<1> HIDE DEF t, x
<1>5. Longer(t.mac, s.mac, x)
  BY <1>1, Hashing
<1>2. IsSeq(t.mac) /\ \A n : Has(t.mac, n) <=> Has(s.mac, n) \/ m.name = n
  BY <1>4, <1>5 DEF Longer
<1>3. ASSUME NEW u, Begins(s.mac, u) PROVE Begins(t.mac, u)
  <2>1. Len(s.mac) > 1
    BY <1>3 DEF Begins
  <2>2. /\ Len(t.mac) > 1 /\ t.mac[1] = s.mac[1] /\ t.mac[2] = s.mac[2]
    BY <2>1, <1>5 DEF Longer
  <2> QED
    BY <1>2, <1>3, <2>2 DEF Begins
<1> QED
  BY <1>1, <1>2, <1>3 DEF Told, t, x

\* What is said of a transcript depends on the handshake its end is in.
LEMMA SameTranscript ==
  ASSUME NEW s, NEW t, t.cr = s.cr, t.sr = s.sr
  PROVE  /\ \A q : Begins(q, t) <=> Begins(q, s)
         /\ t.hit = s.hit => \A q : Tells(q, t) <=> Tells(q, s)
         /\ t.hit = s.hit /\ t.master = s.master => \A md, x : Names(md, x, t) <=> Names(md, x, s)
         /\ t.master = s.master => Secret(t) = Secret(s)
BY DEF Begins, Tells, Names, Secret

LEMMA SameKeys ==
  ASSUME NEW s, NEW t, t.key_block = s.key_block
  PROVE  /\ t.ccs = s.ccs => (NoKeys(t) <=> NoKeys(s))
         /\ t.cr = s.cr /\ t.sr = s.sr /\ t.master = s.master => (NewKeys(t) <=> NewKeys(s))
BY DEF NoKeys, NewKeys, Secret

-----------------------------------------------------------------------------
(* Steps of one end that leave the other where it is.                      *)

\* A Finished an end has read is one that was on its way.
ClientSteady(s, t) ==
  /\ ClientSide(t) /\ t.cr = s.cr /\ t.sr = s.sr /\ t.prev[C] = s.prev[C]
  /\ t.prev[S] = s.prev[S] \/ OfServer(t.prev[S])
ServerSteady(s, t) ==
  /\ ServerSide(t) /\ t.cr = s.cr /\ t.sr = s.sr /\ t.prev[S] = s.prev[S]
  /\ t.prev[C] = s.prev[C] \/ OfClient(t.prev[C])
  /\ t.state = "SW_SRVR_HELLO" => s.state = "SW_SRVR_HELLO"
ClientRecord(r) == FromClient(r) /\ Tag(r) \notin {Hello, Finished}
ServerRecord(r) == FromServer(r) /\ Tag(r) \notin {ServerHello, Finished}

\* How a step changes what is under way.
LEMMA Flights ==
  ASSUME Inv, NEW e \in Endpoint
  PROVE  /\ UNCHANGED <<wire, out>> \/ Keeps \/ (wire[e] # <<>> /\ Take(e) /\ UNCHANGED out) =>
              \A x \in Endpoint : \A t : Flying(x, t)' \in Nat /\ Flying(x, t)' <= Flying(x, t)
         /\ \A q : Put(e, <<q>>) \/ Adds(e, q) =>
              \A t : /\ Flying(Peer(e), t)' = Flying(Peer(e), t) + (IF Tag(q) = t THEN 1 ELSE 0)
                     /\ Flying(e, t)' = Flying(e, t)
<1>0. Streams /\ \A x \in Endpoint : \A t : Flying(x, t) \in Nat
  BY FlyingFacts DEF Inv
<1>1. ASSUME UNCHANGED <<wire, out>> \/ Keeps, NEW x \in Endpoint, NEW t
      PROVE  Flying(x, t)' \in Nat /\ Flying(x, t)' <= Flying(x, t)
  BY <1>0, <1>1, StillKeeps DEF Keeps
<1>2. ASSUME wire[e] # <<>>, Take(e), UNCHANGED out, NEW x \in Endpoint, NEW t
      PROVE  Flying(x, t)' \in Nat /\ Flying(x, t)' <= Flying(x, t)
  <2>1. Loses(e, Head1(e))
    BY <1>0, <1>2, TakeLoses
  <2>2. /\ Flying(e, t) = Flying(e, t)' + (IF Tag(Head1(e)) = t THEN 1 ELSE 0) /\ Flying(e, t)' \in Nat
        /\ Flying(Peer(e), t)' = Flying(Peer(e), t)
    BY <2>1 DEF Loses
  <2>3. x = e \/ x = Peer(e)
    BY PeerFacts
  <2> QED
    BY <1>0, <2>2, <2>3
<1>3. ASSUME NEW q, Put(e, <<q>>) \/ Adds(e, q), NEW t
      PROVE  /\ Flying(Peer(e), t)' = Flying(Peer(e), t) + (IF Tag(q) = t THEN 1 ELSE 0)
             /\ Flying(e, t)' = Flying(e, t)
  <2>1. Adds(e, q)
    BY <1>0, <1>3, PutAdds
  <2> QED
    BY <2>1 DEF Adds
<1> QED
  BY <1>1, <1>2, <1>3

LEMMA Natural ==
  ASSUME Inv
  PROVE  /\ ssl[C].cr \in Nat /\ ssl[C].sr \in Nat /\ ssl[C].good \in Nat
         /\ ssl[S].cr \in Nat /\ ssl[S].sr \in Nat /\ ssl[S].good \in Nat
         /\ Answering \in {0, 1} /\ \A e \in Endpoint : \A t : Flying(e, t) \in Nat
BY FlyingFacts DEF Inv, Ends, GoodClient, GoodServer, Typed, Answering

LEMMA ClientStays ==
  ASSUME Inv, Talk, NEW t, ssl'[C] = t, ssl'[S] = ssl[S], conf' = conf, ClientSteady(ssl[C], t),
         \A r \in Traffic(S)' : r \in Traffic(S) \/ ClientRecord(r),
         \A r \in Traffic(C)' : r \in Traffic(C),
         Flying(C, ServerHello)' \in Nat, Flying(C, ServerHello)' <= Flying(C, ServerHello)
  PROVE  Talk'
<1>0. /\ t.cr = ssl[C].cr /\ t.sr = ssl[C].sr /\ t.prev[C] = ssl[C].prev[C]
      /\ t.prev[S] = ssl[C].prev[S] \/ OfServer(t.prev[S])
  BY DEF ClientSteady
<1>1. ClientSide(ssl[C])' /\ ServerSide(ssl[S])'
  <2>1. ClientSide(ssl[C])'
    BY DEF ClientSteady
  <2>2. ServerSide(ssl[S])
    BY DEF Talk
  <2>3. ServerSide(ssl[S])'
    BY <2>2 DEF ServerSide, ServerNumbers, ServerRun, ServerTalk, ServerTold, ServerKnows, Asks, Known
  <2> QED
    BY <2>1, <2>3
<1>2. Numbered'
  BY <1>0, Natural, PeerFacts DEF Talk, Numbered, Answering, ClientRecord
<1>3. Keyed'
  BY <1>0 DEF Talk, Keyed, FromServer, FromClient, ClientRecord
<1>4. Bound'
  BY <1>0 DEF Talk, Bound, OfClient, OfServer, ClientRecord
<1> QED
  BY <1>1, <1>2, <1>3, <1>4 DEF Talk

LEMMA ServerStays ==
  ASSUME Inv, Talk, NEW t, ssl'[S] = t, ssl'[C] = ssl[C], conf' = conf, ServerSteady(ssl[S], t),
         \A r \in Traffic(C)' : r \in Traffic(C) \/ ServerRecord(r),
         \A r \in Traffic(S)' : r \in Traffic(S),
         Flying(C, ServerHello)' \in Nat, Flying(C, ServerHello)' <= Flying(C, ServerHello)
  PROVE  Talk'
<1>0. /\ t.cr = ssl[S].cr /\ t.sr = ssl[S].sr /\ t.prev[S] = ssl[S].prev[S]
      /\ t.prev[C] = ssl[S].prev[C] \/ OfClient(t.prev[C])
  BY DEF ServerSteady
<1>1. ClientSide(ssl[C])' /\ ServerSide(ssl[S])'
  <2>1. ClientSide(ssl[C])'
    BY DEF Talk
  <2>2. ServerSide(t)
    BY DEF ServerSteady
  <2>3. ServerSide(ssl[S])'
    BY <2>2 DEF ServerSide, ServerNumbers, ServerRun, ServerTalk, ServerTold, ServerKnows, Asks, Known
  <2> QED
    BY <2>1, <2>3
<1>2. Numbered'
  <2>1. Answering' \in {0, 1} /\ Answering' <= Answering
    BY DEF Answering, ServerSteady
  <2> QED
    BY <1>0, <2>1, Natural, PeerFacts DEF Talk, Numbered, ServerRecord
<1>3. Keyed'
  BY <1>0 DEF Talk, Keyed, FromServer, FromClient, ServerRecord
<1>4. Bound'
  BY <1>0 DEF Talk, Bound, OfClient, OfServer, ServerRecord
<1> QED
  BY <1>1, <1>2, <1>3, <1>4 DEF Talk

LEMMA ClientTalks ==
  ASSUME Inv, Talk, NEW t, Become(C, t), conf' = conf, ClientSteady(ssl[C], t)
  PROVE  /\ UNCHANGED <<wire, out>> \/ Keeps => Talk'
         /\ wire[C] # <<>> /\ Take(C) /\ UNCHANGED out => Talk'
         /\ \A r : (Put(C, <<r>>) \/ Adds(C, r)) /\ ClientRecord(r) => Talk'
<1>0. C \in Endpoint /\ S \in Endpoint /\ Peer(C) = S
  BY PeerFacts
<1>1. ssl'[C] = t /\ ssl'[S] = ssl[S]
  BY <1>0, Changes
<1>2. ASSUME UNCHANGED <<wire, out>> \/ Keeps \/ (wire[C] # <<>> /\ Take(C) /\ UNCHANGED out) PROVE Talk'
  <2>1. \A x \in Endpoint : \A r \in Traffic(x)' : r \in Traffic(x)
    BY <1>0, <1>2, Traffics
  <2>2. Flying(C, ServerHello)' \in Nat /\ Flying(C, ServerHello)' <= Flying(C, ServerHello)
    BY <1>0, <1>2, Flights
  <2> QED
    BY <1>0, <1>1, <2>1, <2>2, ClientStays
<1>3. ASSUME NEW r, Put(C, <<r>>) \/ Adds(C, r), ClientRecord(r) PROVE Talk'
  <2>1. /\ \A q \in Traffic(S)' : q \in Traffic(S) \/ ClientRecord(q)
        /\ \A q \in Traffic(C)' : q \in Traffic(C)
    BY <1>0, <1>3, Traffics DEF Adds
  <2>2. Flying(C, ServerHello)' = Flying(C, ServerHello) /\ Flying(C, ServerHello) \in Nat
    BY <1>0, <1>3, Flights, Natural
  <2>3. Flying(C, ServerHello)' \in Nat /\ Flying(C, ServerHello)' <= Flying(C, ServerHello)
    BY <2>2
  <2> QED
    BY <1>1, <2>1, <2>3, ClientStays
<1> QED
  BY <1>2, <1>3

LEMMA ServerTalks ==
  ASSUME Inv, Talk, NEW t, Become(S, t), conf' = conf, ServerSteady(ssl[S], t)
  PROVE  /\ UNCHANGED <<wire, out>> \/ Keeps => Talk'
         /\ wire[S] # <<>> /\ Take(S) /\ UNCHANGED out => Talk'
         /\ \A r : (Put(S, <<r>>) \/ Adds(S, r)) /\ ServerRecord(r) => Talk'
<1>0. C \in Endpoint /\ S \in Endpoint /\ Peer(S) = C
  BY PeerFacts
<1>1. ssl'[S] = t /\ ssl'[C] = ssl[C]
  BY <1>0, Changes
<1>2. ASSUME UNCHANGED <<wire, out>> \/ Keeps \/ (wire[S] # <<>> /\ Take(S) /\ UNCHANGED out) PROVE Talk'
  <2>1. \A x \in Endpoint : \A r \in Traffic(x)' : r \in Traffic(x)
    BY <1>0, <1>2, Traffics
  <2>2. Flying(C, ServerHello)' \in Nat /\ Flying(C, ServerHello)' <= Flying(C, ServerHello)
    BY <1>0, <1>2, Flights
  <2> QED
    BY <1>0, <1>1, <2>1, <2>2, ServerStays
<1>3. ASSUME NEW r, Put(S, <<r>>) \/ Adds(S, r), ServerRecord(r) PROVE Talk'
  <2>1. /\ \A q \in Traffic(C)' : q \in Traffic(C) \/ ServerRecord(q)
        /\ \A q \in Traffic(S)' : q \in Traffic(S)
    BY <1>0, <1>3, Traffics DEF Adds
  <2>2. Flying(C, ServerHello)' = Flying(C, ServerHello) + 0 /\ Flying(C, ServerHello) \in Nat
    BY <1>0, <1>3, Flights, Natural DEF ServerRecord
  <2>3. Flying(C, ServerHello)' \in Nat /\ Flying(C, ServerHello)' <= Flying(C, ServerHello)
    BY <2>2
  <2> QED
    BY <1>1, <2>1, <2>3, ServerStays
<1> QED
  BY <1>2, <1>3

\* A message more in the transcript.
LEMMA SameFields ==
  ASSUME NEW s, NEW t, \A f \in FieldNames \ {"mac"} : t[f] = s[f]
  PROVE  /\ t.state = s.state /\ t.next = s.next /\ t.hit = s.hit /\ t.ccs = s.ccs
         /\ t.ticket_expected = s.ticket_expected /\ t.cert_req = s.cert_req
         /\ t.new_session = s.new_session /\ t.new_cipher = s.new_cipher /\ t.peer = s.peer
         /\ t.master = s.master /\ t.cr = s.cr /\ t.sr = s.sr /\ t.good = s.good
         /\ t.rkey = s.rkey /\ t.wkey = s.wkey /\ t.key_block = s.key_block
         /\ t.peer_md = s.peer_md /\ t.prev = s.prev /\ t.sid = s.sid /\ t.tick = s.tick
BY DEF FieldNames

LEMMA ClientHashed ==
  ASSUME NEW s, DOMAIN s = FieldNames, ClientSide(s), NEW m, m.name # Exchange,
         m.name = Ticket => ~s.hit, s.state \notin {"CW_CLNT_HELLO", "CR_SRVR_HELLO"}
  PROVE  ClientSide(ssl3_finish_mac(s, m))
<1> DEFINE t == ssl3_finish_mac(s, m)
<1>1. IsSeq(s.mac)
  BY DEF ClientSide, ClientTalk
<1>0. Told(t, s, m)
  BY <1>1, Hashed
<1> HIDE DEF t
<1>2. /\ \A f \in FieldNames \ {"mac"} : t[f] = s[f]
      /\ IsSeq(t.mac) /\ \A n : Has(t.mac, n) <=> Has(s.mac, n) \/ m.name = n
      /\ \A u : Begins(s.mac, u) => Begins(t.mac, u)
  BY <1>0 DEF Told
<1>3. /\ t.state = s.state /\ t.hit = s.hit /\ t.ccs = s.ccs
      /\ t.master = s.master /\ t.cr = s.cr /\ t.sr = s.sr /\ t.good = s.good
      /\ t.rkey = s.rkey /\ t.wkey = s.wkey /\ t.key_block = s.key_block
      /\ t.peer_md = s.peer_md /\ t.prev = s.prev
  BY <1>2, SameFields
<1>4. /\ Secret(t) = Secret(s) /\ (NoKeys(t) <=> NoKeys(s)) /\ (NewKeys(t) <=> NewKeys(s))
      /\ (Abandons(t) <=> Abandons(s))
      /\ \A q : Begins(q, t) <=> Begins(q, s)
      /\ \A md, x : Names(md, x, t) <=> Names(md, x, s)
      /\ Begins(s.mac, s) => Begins(t.mac, t)
      /\ Tells(s.mac, s) => Tells(t.mac, t)
  <2>1. /\ \A q : Begins(q, t) <=> Begins(q, s)
        /\ \A md, x : Names(md, x, t) <=> Names(md, x, s)
        /\ Secret(t) = Secret(s) /\ (NoKeys(t) <=> NoKeys(s)) /\ (NewKeys(t) <=> NewKeys(s))
    BY <1>3, SameTranscript, SameKeys
  <2>2. Tells(s.mac, s) => Tells(t.mac, t)
    BY <1>2, <1>3, <2>1 DEF Tells
  <2> QED
    BY <1>2, <1>3, <2>1, <2>2 DEF Abandons
<1>5. ClientNumbers(t) /\ ClientRun(t)
  BY <1>3, <1>4 DEF ClientSide, ClientNumbers, ClientRun
<1>6. ClientTalk(t)
  BY <1>2, <1>3, <1>4 DEF ClientSide, ClientTalk, Exchange, Ticket
<1>7. ClientTold(t)
  BY <1>3, <1>4 DEF ClientSide, ClientTold
<1> QED
  BY <1>5, <1>6, <1>7 DEF ClientSide, t

LEMMA ServerHashed ==
  ASSUME NEW s, DOMAIN s = FieldNames, ServerSide(s), NEW m, m.name # Exchange,
         s.state \notin {"SR_CLNT_HELLO", "SW_SRVR_HELLO"}
  PROVE  ServerSide(ssl3_finish_mac(s, m))
<1> DEFINE t == ssl3_finish_mac(s, m)
<1>1. IsSeq(s.mac)
  BY DEF ServerSide, ServerTalk
<1>0. Told(t, s, m)
  BY <1>1, Hashed
<1> HIDE DEF t
<1>2. /\ \A f \in FieldNames \ {"mac"} : t[f] = s[f]
      /\ IsSeq(t.mac) /\ \A n : Has(t.mac, n) <=> Has(s.mac, n) \/ m.name = n
      /\ \A u : Begins(s.mac, u) => Begins(t.mac, u)
  BY <1>0 DEF Told
<1>3. /\ t.state = s.state /\ t.next = s.next /\ t.hit = s.hit /\ t.ccs = s.ccs
      /\ t.ticket_expected = s.ticket_expected /\ t.cert_req = s.cert_req
      /\ t.new_session = s.new_session /\ t.new_cipher = s.new_cipher /\ t.peer = s.peer
      /\ t.master = s.master /\ t.cr = s.cr /\ t.sr = s.sr /\ t.good = s.good
      /\ t.rkey = s.rkey /\ t.wkey = s.wkey /\ t.key_block = s.key_block
      /\ t.peer_md = s.peer_md /\ t.prev = s.prev
  BY <1>2, SameFields
<1>4. /\ Secret(t) = Secret(s) /\ (NoKeys(t) <=> NoKeys(s)) /\ (NewKeys(t) <=> NewKeys(s))
      /\ \A q : Begins(q, t) <=> Begins(q, s)
      /\ \A md, x : Names(md, x, t) <=> Names(md, x, s)
      /\ Begins(s.mac, s) => Begins(t.mac, t)
      /\ Tells(s.mac, s) => Tells(t.mac, t)
  <2>1. /\ \A q : Begins(q, t) <=> Begins(q, s)
        /\ \A md, x : Names(md, x, t) <=> Names(md, x, s)
        /\ Secret(t) = Secret(s) /\ (NoKeys(t) <=> NoKeys(s)) /\ (NewKeys(t) <=> NewKeys(s))
    BY <1>3, SameTranscript, SameKeys
  <2>2. Tells(s.mac, s) => Tells(t.mac, t)
    BY <1>2, <1>3, <2>1 DEF Tells
  <2> QED
    BY <1>2, <1>3, <2>1, <2>2
<1>8. (Answers(t) <=> Answers(s)) /\ (Finishes(t) <=> Finishes(s)) /\ (Unknown(t) <=> Unknown(s))
  BY <1>3 DEF Answers, Finishes, Unknown
<1>5. ServerNumbers(t) /\ ServerRun(t) /\ ServerKnows(t)
  BY <1>3, <1>4, <1>8 DEF ServerSide, ServerNumbers, ServerRun, ServerKnows
<1>6. ServerTalk(t)
  BY <1>2, <1>3, <1>4, <1>8 DEF ServerSide, ServerTalk, Exchange
<1>7. ServerTold(t)
  BY <1>3, <1>4, <1>8 DEF ServerSide, ServerTold
<1> QED
  BY <1>5, <1>6, <1>7 DEF ServerSide, t

-----------------------------------------------------------------------------
(* The client's steps that say nothing about the handshake.                *)

ClientAlike(s, t) ==
  /\ t.cr = s.cr /\ t.sr = s.sr /\ t.good = s.good /\ t.prev = s.prev /\ t.hit = s.hit
  /\ t.master = s.master /\ t.rkey = s.rkey /\ t.wkey = s.wkey /\ t.key_block = s.key_block
  /\ t.ccs = s.ccs /\ t.mac = s.mac /\ t.peer_md = s.peer_md
ClientPass(s, t) ==
  \/ t.state = s.state
  \/ s.state \in ClientEarly /\ t.state \in ClientEarly
  \/ s.state = "CR_SRVR_DONE" /\ NoKeys(s) /\ t.state \in {"CW_CERT", "CW_KEY_EXCH"}
  \/ s.state = "CW_CERT" /\ t.state = "CW_KEY_EXCH"
  \/ s.state = "CW_CERT_VRFY" /\ t.state = "CW_CHANGE" /\ ~s.hit
  \/ /\ s.state \in {"CW_FLUSH", "CUTTHROUGH_COMPLETE", "CR_SESSION_TICKET"} /\ ~s.hit
     /\ \/ t.state \in {"CR_SESSION_TICKET", "CR_FINISHED"}
        \/ t.state = "CUTTHROUGH_COMPLETE" /\ s.state = "CW_FLUSH"
  \/ s.state = "CW_FLUSH" /\ s.hit /\ s.rkey = s.key_block /\ t.state = "DONE"
  \/ s.state = "OK" /\ t.state = "RENEGOTIATE"
  \/ /\ s.state \in {"CR_SESSION_TICKET", "CR_FINISHED"} /\ ~s.hit /\ s.prev[S] = None
     /\ t.state = "RENEGOTIATE"

LEMMA ClientPasses ==
  ASSUME NEW s, NEW t, ClientSide(s), ClientAlike(s, t), ClientPass(s, t)
  PROVE  ClientSide(t)
<1>1. /\ t.cr = s.cr /\ t.sr = s.sr /\ t.good = s.good /\ t.prev = s.prev /\ t.hit = s.hit
      /\ t.master = s.master /\ t.rkey = s.rkey /\ t.wkey = s.wkey /\ t.key_block = s.key_block
      /\ t.ccs = s.ccs /\ t.mac = s.mac /\ t.peer_md = s.peer_md
  BY DEF ClientAlike
<1>2. /\ Secret(t) = Secret(s) /\ (NoKeys(t) <=> NoKeys(s)) /\ (NewKeys(t) <=> NewKeys(s))
      /\ (Abandons(t) <=> Abandons(s))
      /\ \A q : Begins(q, t) <=> Begins(q, s)
      /\ \A q : Tells(q, t) <=> Tells(q, s)
      /\ \A md, x : Names(md, x, t) <=> Names(md, x, s)
  BY <1>1, SameTranscript, SameKeys DEF Abandons
<1>3. NewKeys(s) /\ s.rkey = s.key_block => s.rkey = Secret(s)
  BY DEF NewKeys
<1>4. \A md, x : Names(md, x, s) => md # None
  BY DEF Names, None
<1>5. ClientNumbers(t)
  BY <1>1, <1>2, <1>4
     DEF ClientSide, ClientNumbers, ClientTold, ClientPass, ClientEarly, ClientSent, Abandons
<1>6. ClientRun(t)
  BY <1>1, <1>2, <1>3
     DEF ClientSide, ClientRun, ClientNumbers, ClientPass, ClientEarly, ClientSent, ClientFlight
<1>7. ClientTalk(t)
  BY <1>1, <1>2 DEF ClientSide, ClientTalk, ClientRun, ClientPass, ClientEarly, ClientSent
<1>8. ClientTold(t)
  BY <1>1, <1>2 DEF ClientSide, ClientTold, ClientPass, ClientEarly, ClientSent, ClientFlight
<1> QED
  BY <1>5, <1>6, <1>7, <1>8 DEF ClientSide

LEMMA ClientAlong ==
  ASSUME Inv, Talk, NEW t, DOMAIN t = FieldNames, ClientAlike(ssl[C], t), ClientPass(ssl[C], t),
         conf' = conf
  PROVE  /\ Become(C, t) /\ (UNCHANGED <<wire, out>> \/ Keeps) => Talk'
         /\ Become(C, t) /\ wire[C] # <<>> /\ Take(C) /\ UNCHANGED out => Talk'
         /\ \A r : Become(C, t) /\ (Put(C, <<r>>) \/ Adds(C, r)) /\ ClientRecord(r) => Talk'
         /\ /\ Receive(C, t) /\ Arrives(C, "handshake")
            /\ Message(C).name # Exchange /\ (Message(C).name = Ticket => ~t.hit)
            /\ t.state \notin {"CW_CLNT_HELLO", "CR_SRVR_HELLO"}
            => Talk'
         /\ \A m : /\ Send(C, t, m) /\ ClientRecord(Record(C, "handshake", m))
                   /\ m.name \notin {Exchange, Ticket}
                   /\ t.state \notin {"CW_CLNT_HELLO", "CR_SRVR_HELLO"}
                   => Talk'
<1>1. ClientSteady(ssl[C], t)
  <2>1. ClientSide(ssl[C])
    BY DEF Talk
  <2>2. ClientSide(t)
    BY <2>1, ClientPasses
  <2> QED
    BY <2>2 DEF ClientSteady, ClientAlike
<1>2. ASSUME NEW m, m.name # Exchange, m.name = Ticket => ~t.hit,
             t.state \notin {"CW_CLNT_HELLO", "CR_SRVR_HELLO"}
      PROVE  ClientSteady(ssl[C], ssl3_finish_mac(t, m))
  <2> DEFINE u == ssl3_finish_mac(t, m)
  <2>1. ClientSide(u)
    BY <1>1, <1>2, ClientHashed DEF ClientSteady
  <2>2. u.cr = t.cr /\ u.sr = t.sr /\ u.prev = t.prev
    BY DEF ssl3_finish_mac, FieldNames
  <2> HIDE DEF u
  <2> QED
    BY <1>1, <2>1, <2>2 DEF ClientSteady, u
<1>3. ASSUME Receive(C, t), Arrives(C, "handshake"),
             Message(C).name # Exchange, Message(C).name = Ticket => ~t.hit,
             t.state \notin {"CW_CLNT_HELLO", "CR_SRVR_HELLO"}
      PROVE  Talk'
  <2>1. ClientSteady(ssl[C], ssl3_finish_mac(t, Message(C)))
    BY <1>2, <1>3
  <2> QED
    BY <1>3, <2>1, ClientTalks DEF Receive, Arrives
<1>4. ASSUME NEW m, Send(C, t, m), ClientRecord(Record(C, "handshake", m)),
             m.name \notin {Exchange, Ticket}, t.state \notin {"CW_CLNT_HELLO", "CR_SRVR_HELLO"}
      PROVE  Talk'
  <2>1. ClientSteady(ssl[C], ssl3_finish_mac(t, m))
    BY <1>2, <1>4
  <2> QED
    BY <1>4, <2>1, ClientTalks DEF Send
<1> QED
  BY <1>1, <1>3, <1>4, ClientTalks

\* The keys of the client's flight are older than the handshake.
LEMMA ClientUnder ==
  ASSUME Inv, Talk, ssl[C].state \in {"CW_CERT", "CW_KEY_EXCH", "CW_CERT_VRFY"},
         NEW m, m.name = "Certificate" => (m.empty <=> conf.auth # "cert")
  PROVE  FromClient(Record(C, "handshake", m))
<1> DEFINE r == Record(C, "handshake", m)
<1>1. ssl[C].wkey # None => ssl[C].wkey[3] \in 0 .. ssl[C].sr - 1
  <2>1. ssl[C].wkey # None => ssl[C].wkey[3] \in 0 .. ssl[C].sr /\ ssl[C].wkey[3] < ssl[C].sr
    BY DEF Talk, ClientSide, ClientNumbers, ClientRun, ClientFlight
  <2> QED
    BY <2>1, Natural
<1>2. r.key = ssl[C].wkey /\ r.body = m /\ Tag(r) = <<"handshake", m.name>>
  BY DEF Record, Tag
<1> HIDE DEF r
<1>3. Tag(r) = <<"handshake", "Certificate">> => m.name = "Certificate"
  BY <1>2
<1>4. Tag(r) = <<"handshake", "Certificate">> => (r.body.empty <=> conf.auth # "cert")
  BY <1>2, <1>3
<1>5. FromClient(r)
  BY <1>1, <1>2, <1>4 DEF FromClient
<1> QED
  BY <1>5 DEF r

LEMMA TalkClient ==
  ASSUME Inv, Talk,
         \/ skip_certificate \/ ssl3_get_server_certificate \/ ssl3_get_cert_status
         \/ ssl3_get_key_exchange \/ ssl3_get_certificate_request
         \/ ssl3_send_client_certificate \/ ssl3_send_client_verify \/ cutthrough
         \/ ssl3_get_new_session_ticket \/ read_hello_request
  PROVE  Talk'
<1>0. /\ DOMAIN ssl[C] = FieldNames /\ C \in Endpoint
      /\ ssl[C].state \in FullStates => ~ssl[C].hit
  BY EndFields, PeerFacts DEF Inv, Ends, GoodClient, Keys
<1>1. ASSUME skip_certificate PROVE Talk'
  <2> DEFINE new == [ssl[C] EXCEPT !.state = "CR_KEY_EXCH"]
  <2>1. DOMAIN new = FieldNames /\ ClientAlike(ssl[C], new) /\ ClientPass(ssl[C], new)
    BY <1>0, <1>1 DEF skip_certificate, ClientAlike, ClientPass, ClientEarly, FieldNames
  <2> QED
    BY <1>1, <2>1, ClientAlong DEF skip_certificate, Move
<1>2. ASSUME ssl3_get_server_certificate PROVE Talk'
  <2> DEFINE new == [ssl[C] EXCEPT
                       !.state = IF conf.status THEN "CR_CERT_STATUS" ELSE "CR_KEY_EXCH"]
  <2>1. /\ DOMAIN new = FieldNames /\ ClientAlike(ssl[C], new) /\ ClientPass(ssl[C], new)
        /\ new.state \in {"CR_CERT_STATUS", "CR_KEY_EXCH"}
    BY <1>0, <1>2 DEF ssl3_get_server_certificate, ClientAlike, ClientPass, ClientEarly, FieldNames
  <2>2. /\ Receive(C, new) /\ Arrives(C, "handshake") /\ Message(C).name \notin {Exchange, Ticket}
        /\ conf' = conf
    BY <1>2 DEF ssl3_get_server_certificate, IsNext, Receive, Exchange, Ticket
  <2> HIDE DEF new
  <2> QED
    BY <2>1, <2>2, ClientAlong
<1>3. ASSUME ssl3_get_cert_status PROVE Talk'
  <2> DEFINE new == [ssl[C] EXCEPT !.state = "CR_KEY_EXCH"]
  <2>1. /\ DOMAIN new = FieldNames /\ ClientAlike(ssl[C], new) /\ ClientPass(ssl[C], new)
        /\ new.state = "CR_KEY_EXCH"
    BY <1>0, <1>3 DEF ssl3_get_cert_status, ClientAlike, ClientPass, ClientEarly, FieldNames
  <2>2. /\ Receive(C, new) /\ Arrives(C, "handshake") /\ Message(C).name \notin {Exchange, Ticket}
        /\ conf' = conf
    BY <1>3 DEF ssl3_get_cert_status, IsNext, Receive, Exchange, Ticket
  <2> HIDE DEF new
  <2> QED
    BY <2>1, <2>2, ClientAlong
<1>4. ASSUME ssl3_get_key_exchange PROVE Talk'
  <2> DEFINE new == [ssl[C] EXCEPT !.state = "CR_CERT_REQ"]
  <2>1. /\ DOMAIN new = FieldNames /\ ClientAlike(ssl[C], new) /\ ClientPass(ssl[C], new)
        /\ new.state = "CR_CERT_REQ"
    BY <1>0, <1>4 DEF ssl3_get_key_exchange, ClientAlike, ClientPass, ClientEarly, FieldNames
  <2>2. \/ Move(C, new)
        \/ Receive(C, new) /\ Arrives(C, "handshake") /\ Message(C).name \notin {Exchange, Ticket}
    BY <1>4 DEF ssl3_get_key_exchange, IsNext, Exchange, Ticket
  <2> HIDE DEF new
  <2> QED
    BY <2>1, <2>2, ClientAlong DEF Move, Receive
<1>5. ASSUME ssl3_get_certificate_request PROVE Talk'
  <2> DEFINE asked == [ssl[C] EXCEPT !.state = "CR_SRVR_DONE", !.cert_req = 1]
             not == [ssl[C] EXCEPT !.state = "CR_SRVR_DONE", !.cert_req = 0]
  <2>1. /\ DOMAIN asked = FieldNames /\ ClientAlike(ssl[C], asked) /\ ClientPass(ssl[C], asked)
        /\ DOMAIN not = FieldNames /\ ClientAlike(ssl[C], not) /\ ClientPass(ssl[C], not)
        /\ asked.state = "CR_SRVR_DONE"
    BY <1>0, <1>5 DEF ssl3_get_certificate_request, ClientAlike, ClientPass, ClientEarly, FieldNames
  <2>2. \/ Move(C, not)
        \/ Receive(C, asked) /\ Arrives(C, "handshake") /\ Message(C).name \notin {Exchange, Ticket}
    BY <1>5 DEF ssl3_get_certificate_request, IsNext, Exchange, Ticket
  <2> HIDE DEF asked, not
  <2> QED
    BY <2>1, <2>2, ClientAlong DEF Move, Receive
<1>6. ASSUME ssl3_send_client_certificate PROVE Talk'
  <2> DEFINE new == [ssl[C] EXCEPT !.state = "CW_KEY_EXCH",
                !.cert_req = IF conf.auth = "cert" THEN @ ELSE 2]
             m == [name |-> "Certificate", rnd |-> 0, empty |-> conf.auth # "cert"]
  <2>1. /\ DOMAIN new = FieldNames /\ ClientAlike(ssl[C], new) /\ ClientPass(ssl[C], new)
        /\ new.state = "CW_KEY_EXCH" /\ ssl[C].state = "CW_CERT"
    BY <1>0, <1>6 DEF ssl3_send_client_certificate, ClientAlike, ClientPass, FieldNames
  <2>2. Send(C, new, m) /\ m.name \notin {Exchange, Ticket} /\ (m.empty <=> conf.auth # "cert")
    BY <1>6 DEF ssl3_send_client_certificate, Exchange, Ticket
  <2>3. Tag(Record(C, "handshake", m)) \notin {Hello, Finished}
    BY DEF Tag, Record, Hello, Finished
  <2> HIDE DEF new, m
  <2>4. ClientRecord(Record(C, "handshake", m)) /\ conf' = conf
    <3>1. FromClient(Record(C, "handshake", m))
      BY <2>1, <2>2, <2>3, ClientUnder
    <3> QED
      BY <2>2, <2>3, <3>1 DEF ClientRecord, Send
  <2> QED
    BY <2>1, <2>2, <2>4, ClientAlong
<1>7. ASSUME ssl3_send_client_verify PROVE Talk'
  <2> DEFINE new == [ssl[C] EXCEPT !.state = "CW_CHANGE", !.ccs = FALSE]
             m == [name |-> "CertificateVerify", rnd |-> 0, signed |-> ssl[C].mac]
  <2>0. ~ssl[C].ccs /\ ssl[C].ccs \in BOOLEAN
    BY <1>7 DEF ssl3_send_client_verify, Talk, ClientSide, ClientRun, NoKeys, Inv, Ends, GoodClient, Typed
  <2>1. /\ DOMAIN new = FieldNames /\ ClientAlike(ssl[C], new) /\ ClientPass(ssl[C], new)
        /\ new.state = "CW_CHANGE" /\ ssl[C].state = "CW_CERT_VRFY"
    BY <1>0, <1>7, <2>0 DEF ssl3_send_client_verify, ClientAlike, ClientPass, FieldNames, FullStates
  <2>2. Send(C, new, m) /\ m.name \notin {Exchange, Ticket}
    BY <1>7 DEF ssl3_send_client_verify, Exchange, Ticket
  <2>3. Tag(Record(C, "handshake", m)) \notin {Hello, Finished} /\ m.name # "Certificate"
    BY DEF Tag, Record, Hello, Finished
  <2> HIDE DEF new, m
  <2>4. ClientRecord(Record(C, "handshake", m)) /\ conf' = conf
    <3>1. FromClient(Record(C, "handshake", m))
      BY <2>1, <2>2, <2>3, ClientUnder
    <3> QED
      BY <2>2, <2>3, <3>1 DEF ClientRecord, Send
  <2> QED
    BY <2>1, <2>2, <2>4, ClientAlong
<1>8. ASSUME cutthrough PROVE Talk'
  <2> DEFINE new == [ssl[C] EXCEPT !.buffered = FALSE,
       !.state = IF ssl[C].ticket_expected THEN "CR_SESSION_TICKET" ELSE "CR_FINISHED"]
  <2>1. Become(C, new) /\ Keeps /\ conf' = conf
    BY <1>0, <1>8, DropsKeep DEF cutthrough
  <2>2. DOMAIN new = FieldNames /\ ClientAlike(ssl[C], new) /\ ClientPass(ssl[C], new)
    BY <1>0, <1>8 DEF cutthrough, ClientAlike, ClientPass, FieldNames, FullStates
  <2> HIDE DEF new
  <2> QED
    BY <2>1, <2>2, ClientAlong
<1>9. ASSUME ssl3_get_new_session_ticket PROVE Talk'
  <2> DEFINE taken == [ssl[C] EXCEPT !.state = "CR_FINISHED", !.tick = Message(C).tick,
                         !.sid = <<"hash", Message(C).tick>>]
             none == [ssl[C] EXCEPT !.state = "CR_FINISHED"]
  <2>1. /\ DOMAIN taken = FieldNames /\ ClientAlike(ssl[C], taken) /\ ClientPass(ssl[C], taken)
        /\ DOMAIN none = FieldNames /\ ClientAlike(ssl[C], none) /\ ClientPass(ssl[C], none)
        /\ taken.state = "CR_FINISHED" /\ ~taken.hit
    BY <1>0, <1>9 DEF ssl3_get_new_session_ticket, ClientAlike, ClientPass, FieldNames, FullStates
  <2>2. \/ Move(C, none)
        \/ Receive(C, taken) /\ Arrives(C, "handshake") /\ Message(C).name # Exchange
    BY <1>9 DEF ssl3_get_new_session_ticket, IsNext, Exchange
  <2> HIDE DEF taken, none
  <2> QED
    BY <2>1, <2>2, ClientAlong DEF Move, Receive
<1>10. ASSUME read_hello_request PROVE Talk'
  <2> DEFINE new == IF Reading(C) THEN [ssl[C] EXCEPT !.state = "RENEGOTIATE", !.total = @ + 1]
               ELSE ssl[C]
  <2>1. Become(C, new) /\ wire[C] # <<>> /\ Take(C) /\ UNCHANGED out /\ conf' = conf
    BY <1>10 DEF read_hello_request, IsNext, Arrives
  <2>2. DOMAIN new = FieldNames /\ ClientAlike(ssl[C], new) /\ ClientPass(ssl[C], new)
    BY <1>0 DEF Reading, ClientAlike, ClientPass, FieldNames
  <2> HIDE DEF new
  <2> QED
    BY <2>1, <2>2, ClientAlong
<1> QED
  BY <1>1, <1>2, <1>3, <1>4, <1>5, <1>6, <1>7, <1>8, <1>9, <1>10

-----------------------------------------------------------------------------
(* The server's steps that say nothing about the handshake.                *)

ServerAlike(s, t) ==
  /\ t.cr = s.cr /\ t.sr = s.sr /\ t.good = s.good /\ t.prev = s.prev /\ t.hit = s.hit
  /\ t.master = s.master /\ t.rkey = s.rkey /\ t.wkey = s.wkey /\ t.key_block = s.key_block
  /\ t.ccs = s.ccs /\ t.mac = s.mac /\ t.peer_md = s.peer_md
  /\ t.ticket_expected = s.ticket_expected /\ t.new_cipher = s.new_cipher
ServerOnward(s, t) ==
  \/ /\ s.state \in ServerEarly /\ t.state \in ServerEarly
     /\ t.state = "SW_SRVR_DONE" => t.cert_req = IF Asks THEN 1 ELSE 0
  \/ /\ s.state = "SW_SRVR_DONE" /\ t.state = "SW_FLUSH" /\ t.next = "SR_CERT"
     /\ t.cert_req = s.cert_req
  \/ /\ s.state = "SW_FLUSH" /\ t.state = s.next /\ t.cert_req = s.cert_req
     /\ \/ s.next = "SR_CERT"
        \/ s.next = "SR_FINISHED" /\ s.hit
        \/ s.next = "DONE" /\ ~s.hit /\ s.rkey = s.key_block
  \/ s.state = "SR_CERT_VRFY" /\ t.state = "SR_FINISHED" /\ ~s.hit
  \/ s.state = "OK" /\ t.state = "RENEGOTIATE"
ServerPass(s, t) ==
  \/ /\ t.state = s.state /\ t.next = s.next /\ t.peer = s.peer /\ t.cert_req = s.cert_req
     /\ t.new_session = 2 <=> s.new_session = 2
  \/ t.new_session = s.new_session /\ t.peer = s.peer /\ ServerOnward(s, t)
  \/ /\ s.state = "SR_CERT" /\ ~s.hit /\ t.state = "SR_KEY_EXCH"
     /\ t.new_session = s.new_session /\ (t.peer <=> Known)
  \/ s.state = "OK" /\ t.state = "ACCEPT" /\ t.new_session = 1 /\ t.peer = s.peer

LEMMA ServerPasses ==
  ASSUME NEW s, NEW t, ServerSide(s), ServerAlike(s, t), ServerPass(s, t)
  PROVE  ServerSide(t)
<1>1. /\ t.cr = s.cr /\ t.sr = s.sr /\ t.good = s.good /\ t.prev = s.prev /\ t.hit = s.hit
      /\ t.master = s.master /\ t.rkey = s.rkey /\ t.wkey = s.wkey /\ t.key_block = s.key_block
      /\ t.ccs = s.ccs /\ t.mac = s.mac /\ t.peer_md = s.peer_md
      /\ t.ticket_expected = s.ticket_expected /\ t.new_cipher = s.new_cipher
  BY DEF ServerAlike
<1>2. /\ Secret(t) = Secret(s) /\ (NoKeys(t) <=> NoKeys(s)) /\ (NewKeys(t) <=> NewKeys(s))
      /\ \A q : Begins(q, t) <=> Begins(q, s)
      /\ \A q : Tells(q, t) <=> Tells(q, s)
      /\ \A md, x : Names(md, x, t) <=> Names(md, x, s)
  BY <1>1, SameTranscript, SameKeys
<1>3. NewKeys(s) /\ s.rkey = s.key_block => s.rkey = Secret(s)
  BY DEF NewKeys
<1>4. ServerNumbers(t)
  BY <1>1, <1>2, <1>3
     DEF ServerSide, ServerNumbers, ServerRun, ServerPass, ServerOnward, ServerEarly, ServerIdle, Finishes
<1>5. ServerRun(t)
  BY <1>1, <1>2
     DEF ServerSide, ServerNumbers, ServerRun, ServerPass, ServerOnward, ServerEarly, ServerIdle,
         Answers, Finishes, NoKeys
<1>6. ServerTalk(t)
  BY <1>1, <1>2
     DEF ServerSide, ServerTalk, ServerRun, ServerPass, ServerOnward, ServerEarly, Answers, Finishes
<1>7. ServerTold(t)
  BY <1>1, <1>2
     DEF ServerSide, ServerTold, ServerNumbers, ServerPass, ServerOnward, ServerEarly, ServerIdle,
         Answers, Finishes
<1>8. ServerKnows(t)
  BY <1>1
     DEF ServerSide, ServerKnows, ServerNumbers, ServerPass, ServerOnward, ServerEarly, ServerIdle,
         Answers, Unknown
<1> QED
  BY <1>4, <1>5, <1>6, <1>7, <1>8 DEF ServerSide

LEMMA ServerAlong ==
  ASSUME Inv, Talk, NEW t, DOMAIN t = FieldNames, ServerAlike(ssl[S], t), ServerPass(ssl[S], t),
         t.state # "SW_SRVR_HELLO" \/ ssl[S].state = "SW_SRVR_HELLO", conf' = conf
  PROVE  /\ Become(S, t) /\ (UNCHANGED <<wire, out>> \/ Keeps) => Talk'
         /\ Become(S, t) /\ wire[S] # <<>> /\ Take(S) /\ UNCHANGED out => Talk'
         /\ \A r : Become(S, t) /\ (Put(S, <<r>>) \/ Adds(S, r)) /\ ServerRecord(r) => Talk'
         /\ /\ Receive(S, t) /\ Arrives(S, "handshake") /\ Message(S).name # Exchange
            /\ t.state \notin {"SR_CLNT_HELLO", "SW_SRVR_HELLO"}
            => Talk'
         /\ \A m : /\ Send(S, t, m) /\ ServerRecord(Record(S, "handshake", m)) /\ m.name # Exchange
                   /\ t.state \notin {"SR_CLNT_HELLO", "SW_SRVR_HELLO"}
                   => Talk'
<1>1. ServerSteady(ssl[S], t)
  <2>1. ServerSide(ssl[S])
    BY DEF Talk
  <2>2. ServerSide(t)
    BY <2>1, ServerPasses
  <2> QED
    BY <2>2 DEF ServerSteady, ServerAlike
<1>2. ASSUME NEW m, m.name # Exchange, t.state \notin {"SR_CLNT_HELLO", "SW_SRVR_HELLO"}
      PROVE  ServerSteady(ssl[S], ssl3_finish_mac(t, m))
  <2> DEFINE u == ssl3_finish_mac(t, m)
  <2>1. ServerSide(u)
    BY <1>1, <1>2, ServerHashed DEF ServerSteady
  <2>2. u.cr = t.cr /\ u.sr = t.sr /\ u.prev = t.prev /\ u.state = t.state
    BY DEF ssl3_finish_mac, FieldNames
  <2> HIDE DEF u
  <2> QED
    BY <1>1, <2>1, <2>2 DEF ServerSteady, u
<1>3. ASSUME Receive(S, t), Arrives(S, "handshake"), Message(S).name # Exchange,
             t.state \notin {"SR_CLNT_HELLO", "SW_SRVR_HELLO"}
      PROVE  Talk'
  <2>1. ServerSteady(ssl[S], ssl3_finish_mac(t, Message(S)))
    BY <1>2, <1>3
  <2> QED
    BY <1>3, <2>1, ServerTalks DEF Receive, Arrives
<1>4. ASSUME NEW m, Send(S, t, m), ServerRecord(Record(S, "handshake", m)), m.name # Exchange,
             t.state \notin {"SR_CLNT_HELLO", "SW_SRVR_HELLO"}
      PROVE  Talk'
  <2>1. ServerSteady(ssl[S], ssl3_finish_mac(t, m))
    BY <1>2, <1>4
  <2> QED
    BY <1>4, <2>1, ServerTalks DEF Send
<1> QED
  BY <1>1, <1>3, <1>4, ServerTalks

\* The keys of the server's flight are older than the handshake.
LEMMA ServerUnder ==
  ASSUME Inv, Talk, ssl[S].state \in ServerEarly \cup {"SW_SRVR_HELLO"}, NEW m
  PROVE  FromServer(Record(S, "handshake", m))
<1> DEFINE r == Record(S, "handshake", m)
<1>1. ssl[S].wkey # None => ssl[S].wkey[2] \in 0 .. ssl[S].cr - 1
  <2>1. ssl[S].wkey # None => ssl[S].wkey[2] \in 0 .. ssl[S].cr /\ ssl[S].wkey[2] < ssl[S].cr
    BY DEF Talk, ServerSide, ServerNumbers
  <2> QED
    BY <2>1, Natural
<1>2. r.key = ssl[S].wkey
  BY DEF Record
<1> HIDE DEF r
<1>3. FromServer(r)
  BY <1>1, <1>2 DEF FromServer
<1> QED
  BY <1>3 DEF r

LEMMA ServerFlies ==
  ASSUME Inv, Talk, ssl[S].state \in ServerEarly, NEW m, m.name \notin {"ServerHello", "Finished"}
  PROVE  ServerRecord(Record(S, "handshake", m))
<1>1. FromServer(Record(S, "handshake", m))
  BY ServerUnder
<1>2. Tag(Record(S, "handshake", m)) \notin {ServerHello, Finished}
  BY DEF Tag, Record, ServerHello, Finished
<1> QED
  BY <1>1, <1>2 DEF ServerRecord

LEMMA TalkServer ==
  ASSUME Inv, Talk,
         \/ ssl3_send_server_certificate \/ ssl3_send_cert_status \/ ssl3_send_server_key_exchange
         \/ ssl3_send_certificate_request \/ ssl3_send_server_done
         \/ ssl3_get_client_certificate \/ ssl3_get_cert_verify \/ read_client_hello
  PROVE  Talk'
<1>0. /\ DOMAIN ssl[S] = FieldNames /\ S \in Endpoint
      /\ ssl[S].state \in FullStates => ~ssl[S].hit
  BY EndFields, PeerFacts DEF Inv, Ends, GoodServer, Keys
<1>9. ASSUME NEW new, DOMAIN new = FieldNames, ServerAlike(ssl[S], new), ServerPass(ssl[S], new),
             new.state \notin {"SR_CLNT_HELLO", "SW_SRVR_HELLO"}, ssl[S].state \in ServerEarly,
             NEW m, Send(S, new, m), m.name \notin {"ServerHello", "Finished", Exchange}
      PROVE  Talk'
  BY <1>9, ServerAlong, ServerFlies DEF Send
<1>1. ASSUME ssl3_send_server_certificate PROVE Talk'
  <2> DEFINE new == [ssl[S] EXCEPT !.state = IF conf.status THEN "SW_CERT_STATUS" ELSE "SW_KEY_EXCH"]
             skip == [ssl[S] EXCEPT !.state = "SW_KEY_EXCH"]
             m == [name |-> "Certificate", rnd |-> 0, empty |-> FALSE]
  <2>1. /\ DOMAIN new = FieldNames /\ ServerAlike(ssl[S], new) /\ ServerPass(ssl[S], new)
        /\ new.state \in {"SW_CERT_STATUS", "SW_KEY_EXCH"}
    BY <1>0, <1>1 DEF ssl3_send_server_certificate, ServerAlike, ServerPass, ServerOnward, ServerEarly, FieldNames
  <2>2. /\ DOMAIN skip = FieldNames /\ ServerAlike(ssl[S], skip) /\ ServerPass(ssl[S], skip)
        /\ skip.state = "SW_KEY_EXCH"
    BY <1>0, <1>1 DEF ssl3_send_server_certificate, ServerAlike, ServerPass, ServerOnward, ServerEarly, FieldNames
  <2>3. (Move(S, skip) \/ Send(S, new, m)) /\ ssl[S].state \in ServerEarly
    BY <1>1 DEF ssl3_send_server_certificate, ServerEarly
  <2>4. m.name \notin {"ServerHello", "Finished", Exchange}
    BY DEF Exchange
  <2> HIDE DEF new, skip, m
  <2>5. CASE Move(S, skip)
    BY <2>2, <2>5, ServerAlong DEF Move
  <2>6. CASE Send(S, new, m)
    BY <1>9, <2>1, <2>3, <2>4, <2>6
  <2> QED
    BY <2>3, <2>5, <2>6
<1>2. ASSUME ssl3_send_cert_status PROVE Talk'
  <2> DEFINE new == [ssl[S] EXCEPT !.state = "SW_KEY_EXCH"]
             m == Plain("CertificateStatus")
  <2>1. /\ DOMAIN new = FieldNames /\ ServerAlike(ssl[S], new) /\ ServerPass(ssl[S], new)
        /\ new.state = "SW_KEY_EXCH"
    BY <1>0, <1>2 DEF ssl3_send_cert_status, ServerAlike, ServerPass, ServerOnward, ServerEarly, FieldNames
  <2>2. Send(S, new, m) /\ m.name \notin {"ServerHello", "Finished", Exchange} /\ ssl[S].state \in ServerEarly
    BY <1>2 DEF ssl3_send_cert_status, Plain, ServerEarly, Exchange
  <2> HIDE DEF new, m
  <2> QED
    BY <1>9, <2>1, <2>2
<1>3. ASSUME ssl3_send_server_key_exchange PROVE Talk'
  <2> DEFINE new == [ssl[S] EXCEPT !.state = "SW_CERT_REQ"]
             m == Plain("ServerKeyExchange")
  <2>1. /\ DOMAIN new = FieldNames /\ ServerAlike(ssl[S], new) /\ ServerPass(ssl[S], new)
        /\ new.state = "SW_CERT_REQ"
    BY <1>0, <1>3 DEF ssl3_send_server_key_exchange, ServerAlike, ServerPass, ServerOnward, ServerEarly, FieldNames
  <2>2. /\ Move(S, new) \/ Send(S, new, m)
        /\ m.name \notin {"ServerHello", "Finished", Exchange} /\ ssl[S].state \in ServerEarly
    BY <1>3 DEF ssl3_send_server_key_exchange, Plain, ServerEarly, Exchange
  <2> HIDE DEF new, m
  <2>5. CASE Move(S, new)
    BY <2>1, <2>5, ServerAlong DEF Move
  <2> QED
    BY <1>9, <2>1, <2>2, <2>5
<1>4. ASSUME ssl3_send_certificate_request PROVE Talk'
  <2> DEFINE s == [ssl[S] EXCEPT !.state = "SW_SRVR_DONE"]
             skip == [s EXCEPT !.cert_req = 0]
             new == [s EXCEPT !.cert_req = 1]
             m == Plain("CertificateRequest")
  <2>1. /\ Asks => DOMAIN new = FieldNames /\ ServerAlike(ssl[S], new) /\ ServerPass(ssl[S], new)
        /\ new.state = "SW_SRVR_DONE"
    BY <1>0, <1>4 DEF ssl3_send_certificate_request, ServerAlike, ServerPass, ServerOnward, ServerEarly, FieldNames
  <2>2. /\ ~Asks => DOMAIN skip = FieldNames /\ ServerAlike(ssl[S], skip) /\ ServerPass(ssl[S], skip)
        /\ skip.state = "SW_SRVR_DONE"
    BY <1>0, <1>4 DEF ssl3_send_certificate_request, ServerAlike, ServerPass, ServerOnward, ServerEarly, FieldNames
  <2>3. /\ (~Asks /\ Move(S, skip)) \/ (Asks /\ Send(S, new, m))
        /\ m.name \notin {"ServerHello", "Finished", Exchange} /\ ssl[S].state \in ServerEarly
    BY <1>4 DEF ssl3_send_certificate_request, Plain, ServerEarly, Exchange, Asks
  <2> HIDE DEF new, skip, m
  <2>5. CASE ~Asks /\ Move(S, skip)
    BY <2>2, <2>5, ServerAlong DEF Move
  <2> QED
    BY <1>9, <2>1, <2>3, <2>5
<1>5. ASSUME ssl3_send_server_done PROVE Talk'
  <2> DEFINE new == [ssl[S] EXCEPT !.state = "SW_FLUSH", !.next = "SR_CERT"]
             m == Plain("ServerHelloDone")
  <2>1. /\ DOMAIN new = FieldNames /\ ServerAlike(ssl[S], new) /\ ServerPass(ssl[S], new)
        /\ new.state = "SW_FLUSH"
    BY <1>0, <1>5 DEF ssl3_send_server_done, ServerAlike, ServerPass, ServerOnward, ServerEarly, FieldNames
  <2>2. Send(S, new, m) /\ m.name \notin {"ServerHello", "Finished", Exchange} /\ ssl[S].state \in ServerEarly
    BY <1>5 DEF ssl3_send_server_done, Plain, ServerEarly, Exchange
  <2> HIDE DEF new, m
  <2> QED
    BY <1>9, <2>1, <2>2
<1>6. ASSUME ssl3_get_client_certificate PROVE Talk'
  <2> DEFINE given == [ssl[S] EXCEPT !.state = "SR_KEY_EXCH", !.peer = ~Message(S).empty]
             not == [ssl[S] EXCEPT !.state = "SR_KEY_EXCH"]
  <2>0. /\ ssl[S].state = "SR_CERT" /\ ~ssl[S].hit /\ ssl[S].cert_req = IF Asks THEN 1 ELSE 0
        /\ ~ssl[S].peer
    BY <1>0, <1>6 DEF ssl3_get_client_certificate, FullStates, Talk, ServerSide, ServerKnows, Unknown
  <2>1. /\ DOMAIN given = FieldNames /\ ServerAlike(ssl[S], given) /\ given.state = "SR_KEY_EXCH"
        /\ given.new_session = ssl[S].new_session /\ (given.peer <=> ~Message(S).empty)
    BY <1>0 DEF ServerAlike, FieldNames
  <2>2. /\ DOMAIN not = FieldNames /\ ServerAlike(ssl[S], not) /\ not.state = "SR_KEY_EXCH"
        /\ not.new_session = ssl[S].new_session /\ not.peer = ssl[S].peer
    BY <1>0 DEF ServerAlike, FieldNames
  <2>3. /\ ssl[S].cert_req = 0 /\ Move(S, not)
        \/ /\ ssl[S].cert_req = 1 /\ Receive(S, given)
           /\ Arrives(S, "handshake") /\ Message(S).name = "Certificate"
    BY <1>6 DEF ssl3_get_client_certificate, IsNext
  <2> HIDE DEF given, not
  <2>4. CASE ssl[S].cert_req = 0 /\ Move(S, not)
    <3>1. ~Known
      BY <2>0, <2>4 DEF Asks, Known
    <3>2. ServerPass(ssl[S], not)
      BY <2>0, <2>2, <3>1 DEF ServerPass
    <3> QED
      BY <2>2, <2>4, <3>2, ServerAlong DEF Move
  <2>5. CASE ssl[S].cert_req = 1 /\ Receive(S, given) /\ Arrives(S, "handshake") /\ Message(S).name = "Certificate"
    <3>1. Head1(S) \in Traffic(S) /\ Tag(Head1(S)) = <<"handshake", "Certificate">>
      BY <1>0, <2>5, HeadTraffic DEF Arrives, Message, Tag
    <3>2. Message(S).empty <=> conf.auth # "cert"
      BY <3>1 DEF Talk, Keyed, FromClient, Message
    <3>3. Asks
      BY <2>0, <2>5
    <3>4. given.peer <=> Known
      BY <2>1, <3>2, <3>3 DEF Asks, Known
    <3>5. ServerPass(ssl[S], given)
      BY <2>0, <2>1, <3>4 DEF ServerPass
    <3> QED
      BY <2>1, <2>5, <3>5, ServerAlong DEF Receive, Exchange
  <2> QED
    BY <2>3, <2>4, <2>5
<1>7. ASSUME ssl3_get_cert_verify PROVE Talk'
  <2> DEFINE new == [ssl[S] EXCEPT !.state = "SR_FINISHED"]
  <2>1. /\ DOMAIN new = FieldNames /\ ServerAlike(ssl[S], new) /\ ServerPass(ssl[S], new)
        /\ new.state = "SR_FINISHED"
    BY <1>0, <1>7 DEF ssl3_get_cert_verify, FullStates, ServerAlike, ServerPass, ServerOnward, FieldNames
  <2>2. \/ Move(S, new)
        \/ Receive(S, new) /\ Arrives(S, "handshake") /\ Message(S).name # Exchange
    BY <1>7 DEF ssl3_get_cert_verify, IsNext, Exchange
  <2> HIDE DEF new
  <2> QED
    BY <2>1, <2>2, ServerAlong DEF Move, Receive
<1>8. ASSUME read_client_hello PROVE Talk'
  <2> DEFINE new == [ssl[S] EXCEPT !.state = "ACCEPT", !.new_session = 1]
  <2>1. /\ DOMAIN new = FieldNames /\ ServerAlike(ssl[S], new) /\ ServerPass(ssl[S], new)
        /\ new.state = "ACCEPT"
    BY <1>0, <1>8 DEF read_client_hello, Reading, ServerAlike, ServerPass, FieldNames
  <2>2. Move(S, new)
    BY <1>8 DEF read_client_hello
  <2> HIDE DEF new
  <2> QED
    BY <2>1, <2>2, ServerAlong DEF Move
<1> QED
  BY <1>1, <1>2, <1>3, <1>4, <1>5, <1>6, <1>7, <1>8

-----------------------------------------------------------------------------
(* The steps of either end that say nothing about the handshake.           *)

Alike(s, t) ==
  /\ ServerAlike(s, t)
  /\ t.state = s.state /\ t.next = s.next /\ t.peer = s.peer /\ t.cert_req = s.cert_req
  /\ t.new_session = 2 <=> s.new_session = 2

LEMMA Aside ==
  ASSUME NEW e, NEW type \in {"app", "close_notify", "fatal"}, NEW m
  PROVE  ClientRecord(Record(e, type, m)) /\ ServerRecord(Record(e, type, m))
BY DEF ClientRecord, ServerRecord, FromClient, FromServer, Tag, Record, Hello, Finished, ServerHello

LEMMA AlikeTalks ==
  ASSUME Inv, Talk, NEW e \in Endpoint, NEW t, DOMAIN t = FieldNames, Alike(ssl[e], t),
         Become(e, t), conf' = conf
  PROVE  /\ UNCHANGED <<wire, out>> \/ Keeps => Talk'
         /\ wire[e] # <<>> /\ Take(e) /\ UNCHANGED out => Talk'
         /\ \A r : (Put(e, <<r>>) \/ Adds(e, r)) /\ ClientRecord(r) /\ ServerRecord(r) => Talk'
<1>1. CASE e = C
  <2>1. ClientAlike(ssl[C], t) /\ ClientPass(ssl[C], t)
    BY <1>1 DEF Alike, ServerAlike, ClientAlike, ClientPass
  <2> QED
    BY <1>1, <2>1, ClientAlong
<1>2. CASE e = S
  <2>1. /\ ServerAlike(ssl[S], t) /\ ServerPass(ssl[S], t)
        /\ t.state # "SW_SRVR_HELLO" \/ ssl[S].state = "SW_SRVR_HELLO"
    BY <1>2 DEF Alike, ServerPass
  <2> QED
    BY <1>2, <2>1, ServerAlong
<1> QED
  BY <1>1, <1>2, PeerFacts

LEMMA TalkStays ==
  ASSUME Inv, Talk, NEW e \in Endpoint, ssl' = ssl, conf' = conf
  PROVE  /\ UNCHANGED <<wire, out>> \/ Keeps => Talk'
         /\ wire[e] # <<>> /\ Take(e) /\ UNCHANGED out => Talk'
         /\ \A r : (Put(e, <<r>>) \/ Adds(e, r)) /\ ClientRecord(r) /\ ServerRecord(r) => Talk'
<1>1. ClientSteady(ssl[C], ssl[C]) /\ ServerSteady(ssl[S], ssl[S])
  BY DEF Talk, ClientSteady, ServerSteady
<1>2. ASSUME UNCHANGED <<wire, out>> \/ Keeps \/ (wire[e] # <<>> /\ Take(e) /\ UNCHANGED out) PROVE Talk'
  <2>1. \A x \in Endpoint : \A r \in Traffic(x)' : r \in Traffic(x)
    BY <1>2, Traffics
  <2>2. Flying(C, ServerHello)' \in Nat /\ Flying(C, ServerHello)' <= Flying(C, ServerHello)
    BY <1>2, Flights, PeerFacts
  <2> QED
    BY <1>1, <2>1, <2>2, ClientStays, PeerFacts
<1>3. ASSUME NEW r, Put(e, <<r>>) \/ Adds(e, r), ClientRecord(r), ServerRecord(r) PROVE Talk'
  <2>1. /\ \A q \in Traffic(Peer(e))' : q \in Traffic(Peer(e)) \/ q = r
        /\ \A q \in Traffic(e)' : q \in Traffic(e)
    BY <1>3, Traffics DEF Adds
  <2>2. Flying(C, ServerHello)' = Flying(C, ServerHello) /\ Flying(C, ServerHello) \in Nat
    <3>1. Tag(r) # ServerHello
      BY <1>3 DEF ServerRecord
    <3>2. \A x \in Endpoint : Flying(x, ServerHello) \in Nat
      BY Natural
    <3>3. /\ Flying(Peer(e), ServerHello)' = Flying(Peer(e), ServerHello) + 0
          /\ Flying(e, ServerHello)' = Flying(e, ServerHello)
      BY <1>3, <3>1, Flights
    <3>4. C = e \/ C = Peer(e)
      BY PeerFacts
    <3> QED
      BY <3>2, <3>3, <3>4, PeerFacts
  <2>3. Flying(C, ServerHello)' \in Nat /\ Flying(C, ServerHello)' <= Flying(C, ServerHello)
    BY <2>2
  <2>4. CASE e = C
    <3>1. /\ \A q \in Traffic(S)' : q \in Traffic(S) \/ ClientRecord(q)
          /\ \A q \in Traffic(C)' : q \in Traffic(C)
      BY <1>3, <2>1, <2>4, PeerFacts
    <3> QED
      BY <1>1, <2>3, <3>1, ClientStays
  <2>5. CASE e = S
    <3>1. /\ \A q \in Traffic(C)' : q \in Traffic(C) \/ ServerRecord(q)
          /\ \A q \in Traffic(S)' : q \in Traffic(S)
      BY <1>3, <2>1, <2>5, PeerFacts
    <3> QED
      BY <1>1, <2>3, <3>1, ServerStays
  <2> QED
    BY <2>4, <2>5, PeerFacts
<1> QED
  BY <1>2, <1>3

LEMMA TalkData ==
  ASSUME Inv, Talk, NEW e \in Endpoint, SSL_read(e) \/ SSL_write(e) \/ discard(e)
  PROVE  Talk'
<1>1. ssl' = ssl /\ conf' = conf
  BY DEF SSL_read, SSL_write, discard, Discards
<1>2. CASE SSL_read(e) \/ discard(e)
  <2>1. wire[e] # <<>> /\ Take(e) /\ UNCHANGED out
    BY <1>2 DEF SSL_read, discard, Discards, Arrives
  <2> QED
    BY <1>1, <2>1, TalkStays
<1>3. CASE SSL_write(e)
  <2>1. Put(e, <<Record(e, "app", Plain("data"))>>)
    BY <1>3 DEF SSL_write
  <2> QED
    BY <1>1, <2>1, TalkStays, Aside
<1> QED
  BY <1>2, <1>3

LEMMA TalkAlerts ==
  ASSUME Inv, Talk, NEW e \in Endpoint,
         read_close_notify(e) \/ read_fatal_alert(e) \/ ssl3_send_alert(e)
         \/ SSL_renegotiate(e) \/ SSL_shutdown(e)
  PROVE  Talk'
<1>0. DOMAIN ssl[e] = FieldNames
  BY EndFields
<1>1. ASSUME read_close_notify(e) PROVE Talk'
  <2> DEFINE new == [ssl[e] EXCEPT !.shutdown = @ \cup {"received"}]
  <2>1. DOMAIN new = FieldNames /\ Alike(ssl[e], new)
    BY <1>0 DEF Alike, ServerAlike, FieldNames
  <2>2. Become(e, new) /\ wire[e] # <<>> /\ Take(e) /\ UNCHANGED out /\ conf' = conf
    BY <1>1 DEF read_close_notify, Arrives
  <2> HIDE DEF new
  <2> QED
    BY <2>1, <2>2, AlikeTalks
<1>2. ASSUME read_fatal_alert(e) PROVE Talk'
  <2> DEFINE new == [ssl[e] EXCEPT !.failed = TRUE, !.shutdown = @ \cup {"received"}]
  <2>1. DOMAIN new = FieldNames /\ Alike(ssl[e], new)
    BY <1>0 DEF Alike, ServerAlike, FieldNames
  <2>2. Become(e, new) /\ wire[e] # <<>> /\ Take(e) /\ UNCHANGED out /\ conf' = conf
    BY <1>2 DEF read_fatal_alert, Arrives
  <2> HIDE DEF new
  <2> QED
    BY <2>1, <2>2, AlikeTalks
<1>3. ASSUME ssl3_send_alert(e) PROVE Talk'
  <2> DEFINE new == [ssl[e] EXCEPT !.failed = TRUE]
             r == Record(e, "fatal", Plain("alert"))
  <2>1. DOMAIN new = FieldNames /\ Alike(ssl[e], new)
    BY <1>0 DEF Alike, ServerAlike, FieldNames
  <2>2. Become(e, new) /\ conf' = conf
    BY <1>3 DEF ssl3_send_alert
  <2>3. Adds(e, r)
    BY <1>3, FatalAdds DEF ssl3_send_alert, Inv
  <2>4. ClientRecord(r) /\ ServerRecord(r)
    BY Aside
  <2> HIDE DEF new, r
  <2> QED
    BY <2>1, <2>2, <2>3, <2>4, AlikeTalks
<1>4. ASSUME SSL_renegotiate(e) PROVE Talk'
  <2> DEFINE new == [ssl[e] EXCEPT !.renegotiate = TRUE,
                       !.new_session = IF ssl[e].new_session = 0 THEN 1 ELSE @]
  <2>1. DOMAIN new = FieldNames /\ Alike(ssl[e], new)
    BY <1>0 DEF Alike, ServerAlike, FieldNames
  <2>2. Move(e, new)
    BY <1>4 DEF SSL_renegotiate
  <2> HIDE DEF new
  <2> QED
    BY <2>1, <2>2, AlikeTalks DEF Move
<1>5. ASSUME SSL_shutdown(e) PROVE Talk'
  <2> DEFINE done == [ssl[e] EXCEPT !.shut = TRUE]
             new == [ssl[e] EXCEPT !.shutdown = @ \cup {"sent"},
                       !.shut = "received" \in ssl[e].shutdown]
             r == Record(e, "close_notify", Plain("close_notify"))
  <2>1. /\ DOMAIN done = FieldNames /\ Alike(ssl[e], done)
        /\ DOMAIN new = FieldNames /\ Alike(ssl[e], new)
    BY <1>0 DEF Alike, ServerAlike, FieldNames
  <2>2. Move(e, done) \/ (Become(e, new) /\ Put(e, <<r>>) /\ conf' = conf)
    BY <1>5 DEF SSL_shutdown
  <2>3. ClientRecord(r) /\ ServerRecord(r)
    BY Aside
  <2> HIDE DEF done, new, r
  <2> QED
    BY <2>1, <2>2, <2>3, AlikeTalks DEF Move
<1> QED
  BY <1>1, <1>2, <1>3, <1>4, <1>5

LEMMA TalkFlush ==
  ASSUME Inv, Talk, NEW e \in Endpoint, flush(e) \/ ssl3_renegotiate_check(e)
  PROVE  Talk'
<1>0. DOMAIN ssl[e] = FieldNames
  BY EndFields
<1>1. ASSUME e = C, flush(C) PROVE Talk'
  <2> DEFINE new == [ssl[C] EXCEPT !.state = ssl[C].next]
  <2>1. Become(C, new) /\ Keeps /\ ssl[C].state = "CW_FLUSH" /\ conf' = conf
    BY <1>0, <1>1, FlushKeeps DEF flush, Inv
  <2>2. /\ ssl[C].hit \in BOOLEAN
        /\ ssl[C].hit => ssl[C].next = "DONE" /\ ssl[C].rkey = ssl[C].key_block
        /\ ~ssl[C].hit => ssl[C].next \in {"CUTTHROUGH_COMPLETE", "CR_SESSION_TICKET", "CR_FINISHED"}
    BY <2>1 DEF Inv, Ends, GoodClient, ClientKeys, ReadsNew, Typed
  <2>3. DOMAIN new = FieldNames /\ ClientAlike(ssl[C], new) /\ ClientPass(ssl[C], new)
    BY <1>0, <1>1, <2>1, <2>2 DEF ClientAlike, ClientPass, FieldNames
  <2> HIDE DEF new
  <2> QED
    BY <2>1, <2>3, ClientAlong
<1>2. ASSUME e = S, flush(S) PROVE Talk'
  <2> DEFINE new == [ssl[S] EXCEPT !.state = ssl[S].next]
  <2>1. Become(S, new) /\ Keeps /\ ssl[S].state = "SW_FLUSH" /\ conf' = conf
    BY <1>0, <1>2, FlushKeeps, PeerFacts DEF flush, Inv
  <2>2. \/ ssl[S].next = "SR_CERT"
        \/ ssl[S].next = "SR_FINISHED" /\ ssl[S].hit
        \/ ssl[S].next = "DONE" /\ ~ssl[S].hit /\ ssl[S].rkey = ssl[S].key_block
    BY <2>1 DEF Inv, Ends, GoodServer, ServerKeys, ReadsNew
  <2>3. /\ DOMAIN new = FieldNames /\ ServerAlike(ssl[S], new) /\ new.state = ssl[S].next
        /\ new.cert_req = ssl[S].cert_req /\ new.new_session = ssl[S].new_session
        /\ new.peer = ssl[S].peer
    BY <1>0, <1>2 DEF ServerAlike, FieldNames
  <2> HIDE DEF new
  <2>4. ServerPass(ssl[S], new) /\ new.state # "SW_SRVR_HELLO"
    BY <2>1, <2>2, <2>3 DEF ServerPass, ServerOnward
  <2> QED
    BY <2>1, <2>3, <2>4, ServerAlong
<1>3. ASSUME e = C, ssl3_renegotiate_check(C) PROVE Talk'
  <2> DEFINE new == [ssl[C] EXCEPT !.state = "RENEGOTIATE", !.renegotiate = FALSE, !.total = @ + 1]
  <2>1. Move(C, new)
    BY <1>3 DEF ssl3_renegotiate_check
  <2>2. \/ ssl[C].state = "OK"
        \/ /\ ssl[C].state \in {"CR_SESSION_TICKET", "CR_FINISHED"} /\ ~ssl[C].hit
           /\ ssl[C].prev[S] = None
    BY <1>3 DEF ssl3_renegotiate_check, SSL_in_init, cutthrough_complete
  <2>3. DOMAIN new = FieldNames /\ ClientAlike(ssl[C], new) /\ ClientPass(ssl[C], new)
    BY <1>0, <1>3, <2>2 DEF ClientAlike, ClientPass, FieldNames
  <2> HIDE DEF new
  <2> QED
    BY <2>1, <2>3, ClientAlong DEF Move
<1>4. ASSUME e = S, ssl3_renegotiate_check(S) PROVE Talk'
  <2> DEFINE new == [ssl[S] EXCEPT !.state = "RENEGOTIATE", !.renegotiate = FALSE, !.total = @ + 1]
  <2>1. Move(S, new) /\ ssl[S].state = "OK"
    BY <1>4, PeerFacts DEF ssl3_renegotiate_check, SSL_in_init, cutthrough_complete
  <2>2. /\ DOMAIN new = FieldNames /\ ServerAlike(ssl[S], new) /\ ServerPass(ssl[S], new)
        /\ new.state = "RENEGOTIATE"
    BY <1>0, <1>4, <2>1 DEF ServerAlike, ServerPass, ServerOnward, FieldNames
  <2> HIDE DEF new
  <2> QED
    BY <2>1, <2>2, ServerAlong DEF Move
<1> QED
  BY <1>1, <1>2, <1>3, <1>4, PeerFacts

-----------------------------------------------------------------------------
(* Where a handshake begins and ends.                                      *)

\* The fields that say what handshake an end is in, and the last Finished of
\* both ends.
Within(s, t) ==
  /\ t.cr = s.cr /\ t.sr = s.sr /\ t.hit = s.hit /\ t.master = s.master /\ t.prev = s.prev

LEMMA WithinSays ==
  ASSUME NEW s, NEW t, Within(s, t)
  PROVE  /\ Secret(t) = Secret(s) /\ (Abandons(t) <=> Abandons(s))
         /\ \A q : Begins(q, t) <=> Begins(q, s)
         /\ \A q : Tells(q, t) <=> Tells(q, s)
         /\ \A md, x : Names(md, x, t) <=> Names(md, x, s)
BY DEF Within, Begins, Tells, Names, Secret, Abandons

LEMMA TalkStarts ==
  ASSUME Inv, Talk, connect_start \/ accept_start \/ ssl3_send_hello_request
  PROVE  Talk'
<1>0. DOMAIN ssl[C] = FieldNames /\ DOMAIN ssl[S] = FieldNames /\ C \in Endpoint /\ S \in Endpoint
  BY EndFields, PeerFacts
<1>00. IsSeq(None)
  BY EmptyFacts DEF None
<1>1. ASSUME connect_start PROVE Talk'
  <2> DEFINE s == ssl[C]
             new == [ssl[C] EXCEPT !.state = "CW_CLNT_HELLO", !.mac = None, !.buffered = FALSE,
                       !.new_session = IF ssl[C].state = "RENEGOTIATE" THEN 1 ELSE @]
  <2>1. Become(C, new) /\ Keeps /\ conf' = conf /\ s.state \in {"BEFORE", "RENEGOTIATE"}
    BY <1>0, <1>1, DropsKeep DEF connect_start
  <2>2. /\ new.state = "CW_CLNT_HELLO" /\ new.mac = None /\ Within(s, new)
        /\ new.good = s.good /\ new.key_block = s.key_block /\ new.ccs = s.ccs
        /\ new.wkey = s.wkey
    BY <1>0 DEF FieldNames, Within
  <2> HIDE DEF new
  <2>3. Abandons(new) <=> Abandons(s)
    BY <2>2, WithinSays
  <2>4. ClientSide(s)
    BY DEF Talk
  <2> HIDE DEF s
  <2>5. ClientNumbers(new)
    BY <2>1, <2>2, <2>3, <2>4 DEF ClientSide, ClientNumbers, ClientEarly, NoKeys, Within
  <2>6. ClientRun(new)
    BY <2>2 DEF ClientRun, ClientEarly, ClientSent, ClientFlight
  <2>7. ClientTalk(new)
    BY <1>00, <2>2 DEF ClientTalk, ClientEarly, ClientSent, None
  <2>8. ClientTold(new)
    BY <2>2, <2>4 DEF ClientSide, ClientTold, ClientEarly, ClientSent, ClientFlight, Within
  <2>9. ClientSteady(s, new)
    BY <2>2, <2>5, <2>6, <2>7, <2>8 DEF ClientSteady, ClientSide, Within
  <2> QED
    BY <2>1, <2>9, ClientTalks DEF s
<1>2. ASSUME accept_start PROVE Talk'
  <2> DEFINE s == ssl[S]
             new == [ssl[S] EXCEPT !.state = "SR_CLNT_HELLO", !.mac = None, !.buffered = TRUE]
  <2>1. Become(S, new) /\ Keeps /\ conf' = conf /\ s.state \in {"BEFORE", "ACCEPT"}
    BY <1>0, <1>2, DropsKeep DEF accept_start
  <2>2. /\ new.state = "SR_CLNT_HELLO" /\ new.mac = None /\ Within(s, new)
        /\ new.good = s.good /\ new.key_block = s.key_block /\ new.ccs = s.ccs
        /\ new.rkey = s.rkey /\ new.wkey = s.wkey /\ new.new_session = s.new_session
        /\ new.new_cipher = s.new_cipher /\ new.peer = s.peer
    BY <1>0 DEF FieldNames, Within
  <2> HIDE DEF new
  <2>3. /\ Secret(new) = Secret(s) /\ \A md, x : Names(md, x, new) <=> Names(md, x, s)
    BY <2>2, WithinSays
  <2>4. ServerSide(s)
    BY DEF Talk
  <2> HIDE DEF s
  <2>5. ServerNumbers(new)
    BY <2>1, <2>2, <2>3, <2>4
       DEF ServerSide, ServerNumbers, ServerIdle, ServerEarly, NoKeys, Within
  <2>6. ServerRun(new) /\ ServerKnows(new)
    BY <2>1, <2>2, <2>4
       DEF ServerSide, ServerRun, ServerKnows, ServerNumbers, Answers, Finishes, Unknown,
           ServerEarly, Within
  <2>7. ServerTalk(new)
    BY <1>00, <2>2 DEF ServerTalk, Answers, Finishes, ServerEarly, None
  <2>8. ServerTold(new)
    BY <2>1, <2>2, <2>3, <2>4
       DEF ServerSide, ServerTold, ServerNumbers, ServerIdle, Answers, Finishes, ServerEarly, Within
  <2>9. ServerSteady(s, new)
    BY <2>2, <2>5, <2>6, <2>7, <2>8 DEF ServerSteady, ServerSide, Within
  <2> QED
    BY <2>1, <2>9, ServerTalks DEF s
<1>3. ASSUME ssl3_send_hello_request PROVE Talk'
  <2> DEFINE s == ssl[S]
             new == [ssl[S] EXCEPT !.state = "DONE", !.new_session = 1, !.shutdown = {},
                       !.mac = None]
             r == Record(S, "handshake", Plain("HelloRequest"))
  <2>1. Become(S, new) /\ Put(S, <<r>>) /\ conf' = conf /\ s.state = "RENEGOTIATE"
    BY <1>3 DEF ssl3_send_hello_request
  <2>2. /\ new.state = "DONE" /\ new.mac = None /\ Within(s, new) /\ new.new_session = 1
        /\ new.good = s.good /\ new.key_block = s.key_block /\ new.ccs = s.ccs
        /\ new.rkey = s.rkey /\ new.wkey = s.wkey
        /\ new.new_cipher = s.new_cipher /\ new.peer = s.peer
    BY <1>0 DEF FieldNames, Within
  <2>0. ServerRecord(r)
    BY DEF ServerRecord, FromServer, ServerFlight, Record, Plain, Tag, ServerHello, Finished
  <2> HIDE DEF new, r
  <2>3. /\ Secret(new) = Secret(s) /\ \A md, x : Names(md, x, new) <=> Names(md, x, s)
    BY <2>2, WithinSays
  <2>4. ServerSide(s)
    BY DEF Talk
  <2> HIDE DEF s
  <2>5. ServerNumbers(new)
    BY <2>1, <2>2, <2>3, <2>4
       DEF ServerSide, ServerNumbers, ServerIdle, ServerEarly, NoKeys, Within
  <2>6. ServerRun(new) /\ ServerKnows(new)
    BY <2>1, <2>2, <2>4
       DEF ServerSide, ServerRun, ServerKnows, ServerNumbers, ServerIdle, Answers, Finishes,
           Unknown, ServerEarly, NoKeys, Within
  <2>7. ServerTalk(new)
    BY <1>00, <2>2 DEF ServerTalk, Answers, Finishes, ServerEarly, None
  <2>8. ServerTold(new)
    BY <2>1, <2>2, <2>3, <2>4
       DEF ServerSide, ServerTold, ServerNumbers, ServerIdle, Answers, Finishes, ServerEarly, Within
  <2>9. ServerSteady(s, new)
    BY <2>2, <2>5, <2>6, <2>7, <2>8 DEF ServerSteady, ServerSide, Within
  <2> QED
    BY <2>0, <2>1, <2>9, ServerTalks DEF s
<1> QED
  BY <1>1, <1>2, <1>3

LEMMA TalkDone == ASSUME Inv, Talk, NEW e \in Endpoint, handshake_done(e) PROVE Talk'
<1>0. DOMAIN ssl[C] = FieldNames /\ DOMAIN ssl[S] = FieldNames /\ C \in Endpoint /\ S \in Endpoint
  BY EndFields, PeerFacts
<1>1. ASSUME handshake_done(C) PROVE Talk'
  <2> DEFINE s == ssl[C]
             new == [ssl[C] EXCEPT !.state = "OK", !.key_block = None, !.buffered = FALSE,
                       !.new_session = 0, !.good = @ + 1]
  <2>1. Become(C, new) /\ Keeps /\ conf' = conf /\ s.state = "DONE"
    BY <1>0, <1>1, DropsKeep DEF handshake_done
  <2>2. /\ new.state = "OK" /\ new.mac = s.mac /\ Within(s, new)
        /\ new.good = s.good + 1 /\ new.key_block = None /\ new.ccs = s.ccs
        /\ new.rkey = s.rkey /\ new.wkey = s.wkey
    BY <1>0 DEF FieldNames, Within
  <2>3. ~s.ccs /\ s.good \in Nat
    BY <2>1 DEF Inv, Ends, GoodClient, Keys, Settled, Typed
  <2> HIDE DEF new
  <2>4. /\ Secret(new) = Secret(s) /\ \A md, x : Names(md, x, new) <=> Names(md, x, s)
    BY <2>2, WithinSays
  <2>5. ClientSide(s)
    BY DEF Talk
  <2> HIDE DEF s
  <2>6. ClientNumbers(new) /\ ClientRun(new)
    BY <2>1, <2>2, <2>3, <2>4, <2>5
       DEF ClientSide, ClientNumbers, ClientRun, ClientEarly, ClientSent, ClientFlight, NoKeys, Within
  <2>7. ClientTalk(new) /\ ClientTold(new)
    BY <2>1, <2>2, <2>4, <2>5
       DEF ClientSide, ClientTalk, ClientTold, ClientEarly, ClientSent, ClientFlight, Within
  <2>8. ClientSteady(s, new)
    BY <2>2, <2>6, <2>7 DEF ClientSteady, ClientSide, Within
  <2> QED
    BY <2>1, <2>8, ClientTalks DEF s
<1>2. ASSUME handshake_done(S) PROVE Talk'
  <2> DEFINE s == ssl[S]
             new == [ssl[S] EXCEPT !.state = "OK", !.key_block = None, !.buffered = FALSE,
                       !.new_session = IF ssl[S].new_session # 2 THEN @ ELSE 0,
                       !.good = IF ssl[S].new_session # 2 THEN @ ELSE @ + 1]
  <2>1. Become(S, new) /\ Keeps /\ conf' = conf /\ s.state = "DONE"
    BY <1>0, <1>2, DropsKeep DEF handshake_done
  <2>2. /\ new.state = "OK" /\ new.mac = s.mac /\ Within(s, new)
        /\ IF s.new_session = 2 THEN new.good = s.good + 1 /\ new.new_session = 0
           ELSE new.good = s.good /\ new.new_session = s.new_session
        /\ new.key_block = None /\ new.ccs = s.ccs
        /\ new.rkey = s.rkey /\ new.wkey = s.wkey /\ new.new_cipher = s.new_cipher
        /\ new.peer = s.peer
    BY <1>0 DEF FieldNames, Within
  <2>3. ~s.ccs /\ s.good \in Nat
    BY <2>1 DEF Inv, Ends, GoodServer, Keys, Settled, Typed
  <2> HIDE DEF new
  <2>4. /\ Secret(new) = Secret(s) /\ \A md, x : Names(md, x, new) <=> Names(md, x, s)
    BY <2>2, WithinSays
  <2>5. ServerSide(s)
    BY DEF Talk
  <2> HIDE DEF s
  <2>6. ServerNumbers(new) /\ ServerRun(new) /\ ServerKnows(new)
    BY <2>1, <2>2, <2>3, <2>4, <2>5
       DEF ServerSide, ServerNumbers, ServerRun, ServerKnows, ServerIdle, ServerEarly, NoKeys,
           Answers, Finishes, Unknown, Within
  <2>7. ServerTalk(new) /\ ServerTold(new)
    BY <2>1, <2>2, <2>4, <2>5
       DEF ServerSide, ServerTalk, ServerTold, ServerIdle, ServerEarly, Answers, Finishes, Within
  <2>8. ServerSteady(s, new)
    BY <2>2, <2>6, <2>7 DEF ServerSteady, ServerSide, Within
  <2> QED
    BY <2>1, <2>8, ServerTalks DEF s
<1> QED
  BY <1>1, <1>2, PeerFacts

-----------------------------------------------------------------------------
(* The keys.                                                               *)

LEMMA KeysMade ==
  ASSUME NEW s, DOMAIN s = FieldNames
  PROVE  LET k == setup_key_block(s)
         IN /\ \A f \in FieldNames \ {"key_block"} : k[f] = s[f]
            /\ DOMAIN k = FieldNames
            /\ k.key_block = IF s.key_block = None THEN Secret(s) ELSE s.key_block
BY DEF setup_key_block, Secret, FieldNames

LEMMA TalkChanges == ASSUME Inv, Talk, NEW e \in Endpoint, change_cipher_spec(e) PROVE Talk'
<1>0. DOMAIN ssl[C] = FieldNames /\ DOMAIN ssl[S] = FieldNames /\ C \in Endpoint /\ S \in Endpoint
  BY EndFields, PeerFacts
<1>1. ASSUME change_cipher_spec(C) PROVE Talk'
  <2> DEFINE s == ssl[C]
             k == setup_key_block(s)
             new == [k EXCEPT !.state = "CW_FINISHED", !.wkey = k.key_block]
             r == Record(C, "ccs", Plain("ChangeCipherSpec"))
  <2>1. Become(C, new) /\ Put(C, <<r>>) /\ conf' = conf /\ s.state = "CW_CHANGE"
    BY <1>1, PeerFacts DEF change_cipher_spec
  <2>2. k.key_block = Secret(s) /\ ~s.ccs
    <3>1. NoKeys(s) \/ (NewKeys(s) /\ ~s.ccs)
      BY <2>1 DEF Talk, ClientSide, ClientRun, Inv, Ends, GoodClient, ClientKeys, ReadsNew, Typed
    <3>2. Secret(s) # None
      BY DEF Secret, None
    <3> QED
      BY <1>0, <3>1, <3>2, KeysMade DEF NoKeys, NewKeys
  <2>3. /\ new.state = "CW_FINISHED" /\ new.mac = s.mac /\ Within(s, new)
        /\ new.good = s.good /\ new.key_block = Secret(s) /\ ~new.ccs
        /\ new.rkey = s.rkey /\ new.wkey = Secret(s)
    BY <1>0, <2>2 DEF FieldNames, Within, setup_key_block
  <2> HIDE DEF k, new
  <2>4. s.wkey # None => s.wkey[3] \in 0 .. s.sr /\ s.wkey[3] < s.sr
    BY <2>1 DEF Talk, ClientSide, ClientNumbers, ClientRun, ClientFlight
  <2>5. ClientRecord(r)
    <3>1. r.key # None => r.key[3] \in 0 .. s.sr - 1
      BY <2>4, Natural DEF Record
    <3>2. Tag(r) = <<"ccs">>
      BY DEF Record, Tag
    <3> HIDE DEF r
    <3> QED
      BY <3>1, <3>2 DEF ClientRecord, FromClient, Hello, Finished
  <2> HIDE DEF r
  <2>6. /\ Secret(new) = Secret(s) /\ Secret(s)[3] = s.sr /\ s.sr \in Nat
        /\ \A q : Tells(q, new) <=> Tells(q, s)
        /\ \A md, x : Names(md, x, new) <=> Names(md, x, s)
    BY <2>3, WithinSays, Natural DEF Secret
  <2>7. ClientSide(s)
    BY DEF Talk
  <2> HIDE DEF s
  <2>8. ClientNumbers(new) /\ ClientRun(new)
    BY <2>1, <2>3, <2>6, <2>7
       DEF ClientSide, ClientNumbers, ClientRun, ClientEarly, ClientSent, ClientFlight, NewKeys, Within
  <2>9. ClientTalk(new) /\ ClientTold(new)
    BY <2>1, <2>3, <2>6, <2>7
       DEF ClientSide, ClientTalk, ClientTold, ClientEarly, ClientSent, ClientFlight, Within
  <2>10. ClientSteady(s, new)
    BY <2>3, <2>8, <2>9 DEF ClientSteady, ClientSide, Within
  <2> QED
    BY <2>1, <2>5, <2>10, ClientTalks DEF s
<1>2. ASSUME change_cipher_spec(S) PROVE Talk'
  <2> DEFINE s == ssl[S]
             k == setup_key_block(s)
             new == [k EXCEPT !.state = "SW_FINISHED", !.wkey = k.key_block]
             r == Record(S, "ccs", Plain("ChangeCipherSpec"))
  <2>1. Become(S, new) /\ Put(S, <<r>>) /\ conf' = conf /\ s.state = "SW_CHANGE"
    BY <1>2, PeerFacts DEF change_cipher_spec
  <2>2. k.key_block = Secret(s) /\ ~s.ccs
    <3>1. NoKeys(s) \/ (NewKeys(s) /\ ~s.ccs)
      BY <2>1 DEF Talk, ServerSide, ServerRun, Inv, Ends, GoodServer, ServerKeys, ReadsNew, Typed
    <3>2. Secret(s) # None
      BY DEF Secret, None
    <3> QED
      BY <1>0, <3>1, <3>2, KeysMade DEF NoKeys, NewKeys
  <2>3. /\ new.state = "SW_FINISHED" /\ new.mac = s.mac /\ Within(s, new)
        /\ new.good = s.good /\ new.key_block = Secret(s) /\ ~new.ccs
        /\ new.rkey = s.rkey /\ new.wkey = Secret(s) /\ new.new_cipher = s.new_cipher
        /\ new.peer = s.peer /\ new.new_session = s.new_session
        /\ new.ticket_expected = s.ticket_expected
    BY <1>0, <2>2 DEF FieldNames, Within, setup_key_block
  <2> HIDE DEF k, new
  <2>5. ServerRecord(r)
    BY DEF ServerRecord, FromServer, Record, Tag, ServerHello, Finished
  <2> HIDE DEF r
  <2>6. /\ Secret(new) = Secret(s) /\ Secret(s)[2] = s.cr /\ s.cr \in Nat
        /\ \A q : Tells(q, new) <=> Tells(q, s)
        /\ \A md, x : Names(md, x, new) <=> Names(md, x, s)
    BY <2>3, WithinSays, Natural DEF Secret
  <2>7. ServerSide(s)
    BY DEF Talk
  <2> HIDE DEF s
  <2>8. ServerNumbers(new) /\ ServerRun(new) /\ ServerKnows(new)
    BY <2>1, <2>3, <2>6, <2>7
       DEF ServerSide, ServerNumbers, ServerRun, ServerKnows, ServerIdle, ServerEarly, NewKeys,
           Answers, Finishes, Unknown, Within
  <2>9. ServerTalk(new) /\ ServerTold(new)
    BY <2>1, <2>3, <2>6, <2>7
       DEF ServerSide, ServerTalk, ServerTold, ServerIdle, ServerEarly, Answers, Finishes, Within
  <2>10. ServerSteady(s, new)
    BY <2>3, <2>8, <2>9 DEF ServerSteady, ServerSide, Within
  <2> QED
    BY <2>1, <2>5, <2>10, ServerTalks DEF s
<1> QED
  BY <1>1, <1>2, PeerFacts

\* A message of a flight does not open under keys made too early.
LEMMA Opened ==
  ASSUME Inv, Talk, NEW e \in Endpoint, Arrives(e, "handshake"),
         IF e = C THEN Message(C).name \in ServerFlight ELSE Message(S).name \in ClientFlies,
         NoKeys(ssl[e]) \/ (ssl[e].ccs /\ ssl[e].rkey[IF e = C THEN 2 ELSE 3]
                                          = IF e = C THEN ssl[C].cr ELSE ssl[S].sr)
  PROVE  NoKeys(ssl[e])
<1>1. /\ Head1(e) \in Traffic(e) /\ Head1(e).type = "handshake" /\ Head1(e).key = ssl[e].rkey
      /\ Head1(e).body = Message(e)
  BY HeadTraffic DEF Arrives, Message
<1>2. ssl[e].ccs => ssl[e].rkey # None
  BY PeerFacts DEF Inv, Ends, GoodClient, GoodServer, Keys
<1>3. ssl[S].cr <= ssl[C].cr /\ ssl[C].sr <= ssl[S].sr
  BY DEF Inv, Hellos
<1>4. CASE e = C /\ ssl[C].ccs /\ ssl[C].rkey[2] = ssl[C].cr
  <2>1. FromServer(Head1(C))
    BY <1>1, <1>4 DEF Talk, Keyed
  <2>2. ssl[C].rkey[2] \in 0 .. ssl[S].cr - 1
    BY <1>1, <1>2, <1>4, <2>1 DEF FromServer
  <2> QED
    BY <1>3, <1>4, <2>2, Natural
<1>5. CASE e = S /\ ssl[S].ccs /\ ssl[S].rkey[3] = ssl[S].sr
  <2>1. FromClient(Head1(S))
    BY <1>1, <1>5 DEF Talk, Keyed
  <2>2. ssl[S].rkey[3] \in 0 .. ssl[C].sr - 1
    BY <1>1, <1>2, <1>5, <2>1, PeerFacts DEF FromClient
  <2> QED
    BY <1>3, <1>5, <2>2, Natural
<1> QED
  BY <1>4, <1>5, PeerFacts

LEMMA TalkServerDone == ASSUME Inv, Talk, ssl3_get_server_done PROVE Talk'
<1> DEFINE new == [ssl[C] EXCEPT
                     !.state = IF ssl[C].cert_req # 0 THEN "CW_CERT" ELSE "CW_KEY_EXCH"]
<1>0. DOMAIN ssl[C] = FieldNames /\ C \in Endpoint
  BY EndFields, PeerFacts
<1>1. /\ Receive(C, new) /\ Arrives(C, "handshake") /\ ssl[C].state = "CR_SRVR_DONE"
      /\ Message(C).name = "ServerHelloDone" /\ conf' = conf
  BY DEF ssl3_get_server_done, IsNext, Receive
<1>2. NoKeys(ssl[C])
  <2>1. NoKeys(ssl[C]) \/ (ssl[C].ccs /\ ssl[C].rkey[2] = ssl[C].cr)
    BY <1>1 DEF Talk, ClientSide, ClientNumbers, ClientEarly
  <2>2. Message(C).name \in ServerFlight
    BY <1>1 DEF ServerFlight
  <2> QED
    BY <1>0, <1>1, <2>1, <2>2, Opened
<1>3. /\ DOMAIN new = FieldNames /\ ClientAlike(ssl[C], new) /\ ClientPass(ssl[C], new)
      /\ new.state \in {"CW_CERT", "CW_KEY_EXCH"}
  BY <1>0, <1>1, <1>2 DEF ClientAlike, ClientPass, FieldNames
<1>4. Message(C).name # Exchange /\ Message(C).name # Ticket
  BY <1>1 DEF Exchange, Ticket
<1> HIDE DEF new
<1> QED
  BY <1>1, <1>3, <1>4, ClientAlong

LEMMA TalkExchange == ASSUME Inv, Talk, ssl3_send_client_key_exchange PROVE Talk'
<1> DEFINE s == ssl[C]
           new == [ssl[C] EXCEPT
                !.state = IF ssl[C].cert_req = 1 THEN "CW_CERT_VRFY" ELSE "CW_CHANGE",
                !.ccs = IF ssl[C].cert_req = 1 THEN @ ELSE FALSE,
                !.master = <<ssl[C].cr, ssl[C].sr>>]
           m == Plain("ClientKeyExchange")
           t == ssl3_finish_mac(new, m)
           r == Record(C, "handshake", m)
<1>0. DOMAIN s = FieldNames /\ C \in Endpoint /\ (s.state \in FullStates => ~s.hit)
  BY EndFields, PeerFacts DEF Inv, Ends, GoodClient, Keys
<1>1. Become(C, t) /\ Put(C, <<r>>) /\ conf' = conf /\ s.state = "CW_KEY_EXCH"
  BY DEF ssl3_send_client_key_exchange, Send
<1>2. NoKeys(s) /\ IsSeq(s.mac) /\ Begins(s.mac, s)
  BY <1>1 DEF Talk, ClientSide, ClientRun, ClientTalk
<1>3. ~s.hit
  BY <1>0, <1>1 DEF FullStates
<1>4. /\ DOMAIN new = FieldNames /\ new.state \in {"CW_CERT_VRFY", "CW_CHANGE"}
      /\ new.mac = s.mac /\ new.hit = s.hit /\ new.cr = s.cr /\ new.sr = s.sr
      /\ new.prev = s.prev /\ new.good = s.good /\ new.key_block = s.key_block
      /\ new.rkey = s.rkey /\ new.wkey = s.wkey
      /\ (new.ccs => s.ccs)
  BY <1>0 DEF FieldNames
<1>5. m.name = Exchange
  BY DEF Plain, Exchange
<1>6. ClientRecord(r)
  <2>1. FromClient(r)
    BY <1>1, ClientUnder DEF Plain
  <2>2. Tag(r) \notin {Hello, Finished}
    BY DEF Tag, Record, Plain, Hello, Finished
  <2> QED
    BY <2>1, <2>2 DEF ClientRecord
<1> HIDE DEF new, m, r
<1>7. Told(t, new, m)
  BY <1>2, <1>4, Hashed
<1> HIDE DEF t
<1>8. /\ t.state = new.state /\ t.hit = s.hit /\ t.cr = s.cr /\ t.sr = s.sr
      /\ t.prev = s.prev /\ t.good = s.good /\ NoKeys(t) /\ t.rkey = s.rkey /\ t.wkey = s.wkey
      /\ IsSeq(t.mac) /\ Has(t.mac, Exchange) /\ Begins(t.mac, s)
  <2>1. \A f \in FieldNames \ {"mac"} : t[f] = new[f]
    BY <1>7 DEF Told
  <2>2. /\ t.state = new.state /\ t.hit = new.hit /\ t.cr = new.cr /\ t.sr = new.sr
        /\ t.prev = new.prev /\ t.good = new.good /\ t.rkey = new.rkey /\ t.wkey = new.wkey
        /\ t.key_block = new.key_block /\ t.ccs = new.ccs
    BY <2>1, SameFields
  <2>3. IsSeq(t.mac) /\ Has(t.mac, Exchange) /\ Begins(t.mac, s)
    BY <1>2, <1>4, <1>5, <1>7 DEF Told
  <2> QED
    BY <1>2, <1>4, <2>2, <2>3 DEF NoKeys
<1>9. Tells(t.mac, t)
  BY <1>3, <1>8 DEF Tells, Begins
<1>10. ClientSide(s)
  BY DEF Talk
<1> HIDE DEF s
<1>11. ClientNumbers(t) /\ ClientRun(t)
  BY <1>1, <1>3, <1>4, <1>8, <1>10
     DEF ClientSide, ClientNumbers, ClientRun, ClientEarly, ClientSent, ClientFlight, Abandons
<1>12. ClientTalk(t) /\ ClientTold(t)
  BY <1>1, <1>3, <1>4, <1>8, <1>9, <1>10
     DEF ClientSide, ClientTalk, ClientTold, ClientEarly, ClientSent, ClientFlight
<1>13. ClientSteady(s, t)
  BY <1>8, <1>11, <1>12 DEF ClientSteady, ClientSide
<1> QED
  BY <1>1, <1>6, <1>13, ClientTalks DEF s

LEMMA TalkExchanged == ASSUME Inv, Talk, ssl3_get_client_key_exchange PROVE Talk'
<1> DEFINE s == ssl[S]
           new == [ssl[S] EXCEPT !.state = "SR_CERT_VRFY", !.master = <<ssl[S].cr, ssl[S].sr>>]
           m == Message(S)
           t == ssl3_finish_mac(new, m)
<1>0. DOMAIN s = FieldNames /\ S \in Endpoint /\ S # C /\ (s.state \in FullStates => ~s.hit)
  BY EndFields, PeerFacts DEF Inv, Ends, GoodServer, Keys
<1>1. /\ Become(S, t) /\ wire[S] # <<>> /\ Take(S) /\ UNCHANGED out /\ conf' = conf
      /\ s.state = "SR_KEY_EXCH" /\ Arrives(S, "handshake") /\ m.name = "ClientKeyExchange"
  BY DEF ssl3_get_client_key_exchange, Receive, IsNext, Arrives
<1>2. NoKeys(s) /\ IsSeq(s.mac) /\ Begins(s.mac, s)
  <2>1. NoKeys(s) \/ (s.ccs /\ s.rkey[3] = s.sr)
    BY <1>1 DEF Talk, ServerSide, ServerRun
  <2>2. Message(S).name \in ClientFlies
    BY <1>1 DEF ClientFlies
  <2>3. NoKeys(s)
    BY <1>0, <1>1, <2>1, <2>2, Opened
  <2> QED
    BY <1>1, <2>3 DEF Talk, ServerSide, ServerTalk
<1>3. ~s.hit
  BY <1>0, <1>1 DEF FullStates
<1>4. /\ DOMAIN new = FieldNames /\ new.state = "SR_CERT_VRFY"
      /\ new.mac = s.mac /\ new.hit = s.hit /\ new.cr = s.cr /\ new.sr = s.sr
      /\ new.prev = s.prev /\ new.good = s.good /\ new.key_block = s.key_block
      /\ new.rkey = s.rkey /\ new.wkey = s.wkey /\ new.ccs = s.ccs /\ new.peer = s.peer
      /\ new.new_session = s.new_session /\ new.new_cipher = s.new_cipher
  BY <1>0 DEF FieldNames
<1>5. m.name = Exchange
  BY <1>1 DEF Exchange
<1> HIDE DEF new, m
<1>7. Told(t, new, m)
  BY <1>2, <1>4, Hashed
<1> HIDE DEF t
<1>8. /\ t.state = "SR_CERT_VRFY" /\ t.hit = s.hit /\ t.cr = s.cr /\ t.sr = s.sr
      /\ t.prev = s.prev /\ t.good = s.good /\ NoKeys(t) /\ t.rkey = s.rkey /\ t.wkey = s.wkey
      /\ t.peer = s.peer /\ t.new_session = s.new_session /\ t.new_cipher = s.new_cipher
      /\ IsSeq(t.mac) /\ Has(t.mac, Exchange) /\ Begins(t.mac, s)
  <2>1. \A f \in FieldNames \ {"mac"} : t[f] = new[f]
    BY <1>7 DEF Told
  <2>2. /\ t.state = new.state /\ t.hit = new.hit /\ t.cr = new.cr /\ t.sr = new.sr
        /\ t.prev = new.prev /\ t.good = new.good /\ t.rkey = new.rkey /\ t.wkey = new.wkey
        /\ t.key_block = new.key_block /\ t.ccs = new.ccs /\ t.peer = new.peer
        /\ t.new_session = new.new_session /\ t.new_cipher = new.new_cipher
    BY <2>1, SameFields
  <2>3. IsSeq(t.mac) /\ Has(t.mac, Exchange) /\ Begins(t.mac, s)
    BY <1>2, <1>4, <1>5, <1>7 DEF Told
  <2> QED
    BY <1>2, <1>4, <2>2, <2>3 DEF NoKeys
<1>9. Tells(t.mac, t)
  BY <1>3, <1>8 DEF Tells, Begins
<1>10. ServerSide(s)
  BY DEF Talk
<1> HIDE DEF s
<1>11. ServerNumbers(t) /\ ServerRun(t) /\ ServerKnows(t)
  BY <1>1, <1>3, <1>8, <1>10
     DEF ServerSide, ServerNumbers, ServerRun, ServerKnows, ServerIdle, ServerEarly, Answers,
         Finishes, Unknown
<1>12. ServerTalk(t) /\ ServerTold(t)
  BY <1>1, <1>3, <1>8, <1>9, <1>10
     DEF ServerSide, ServerTalk, ServerTold, ServerIdle, ServerEarly, Answers, Finishes, NoKeys
<1>13. ServerSteady(s, t)
  BY <1>8, <1>11, <1>12 DEF ServerSteady, ServerSide
<1> QED
  BY <1>1, <1>13, ServerTalks DEF s

\* What an end remembers of the flight it has answered: the transcript the
\* other's Finished has to be made from.
LEMMA TalkReadChangeC == ASSUME Inv, Talk, read_change_cipher_spec(C) PROVE Talk'
<1> DEFINE s == ssl[C]
           k == setup_key_block(s)
           t == [k EXCEPT !.ccs = TRUE, !.rkey = k.key_block, !.peer_md = final_finish_mac(k, Peer(C))]
<1>0. DOMAIN s = FieldNames /\ C \in Endpoint /\ Peer(C) = S
  BY EndFields, PeerFacts
<1>1. /\ Become(C, t) /\ wire[C] # <<>> /\ Take(C) /\ UNCHANGED out /\ conf' = conf
      /\ s.state \in Reads /\ ~s.ccs
  BY DEF read_change_cipher_spec, Arrives, Inv, Ends, GoodClient, Typed
<1>2. s.state \in ClientReads
  BY <1>1 DEF Reads, Inv, Ends, GoodClient, ClientCalls
<1>3. /\ t.state = s.state /\ Within(s, t) /\ t.good = s.good /\ t.mac = s.mac
      /\ t.key_block = k.key_block /\ t.rkey = t.key_block /\ t.wkey = s.wkey
      /\ t.ccs /\ t.peer_md = <<S, s.master, s.mac>>
      /\ k.key_block = IF s.key_block = None THEN Secret(s) ELSE s.key_block
  BY <1>0 DEF Within, FieldNames, setup_key_block, final_finish_mac, Secret
<1> HIDE DEF k, t
<1>4. /\ Secret(t) = Secret(s) /\ Secret(s)[2] = s.cr /\ (Abandons(t) <=> Abandons(s))
      /\ NoKeys(s) \/ NewKeys(s) => NewKeys(t)
      /\ \A q : Begins(q, t) <=> Begins(q, s)
      /\ \A q : Tells(q, t) <=> Tells(q, s)
      /\ \A md, x : Names(md, x, t) <=> Names(md, x, s)
  <2>1. Secret(s) # None /\ Secret(s)[2] = s.cr
    BY DEF Secret, None
  <2> QED
    BY <1>3, <2>1, WithinSays DEF NoKeys, NewKeys
<1>5. Tells(s.mac, s) => Names(t.peer_md, S, t)
  <2>1. t.peer_md = <<S, s.master, s.mac>> /\ t.peer_md[3] = s.mac
    BY <1>3
  <2> QED
    BY <1>4, <2>1 DEF Names
<1>6. ClientSide(s)
  BY DEF Talk
<1> HIDE DEF s
<1>7. ClientNumbers(t)
  BY <1>1, <1>2, <1>3, <1>4, <1>6
     DEF ClientSide, ClientNumbers, ClientReads, ClientEarly, NoKeys, NewKeys, Within
<1>8. ClientRun(t)
  BY <1>1, <1>2, <1>3, <1>4, <1>6
     DEF ClientSide, ClientRun, ClientReads, ClientEarly, ClientSent, ClientFlight, Within
<1>9. ClientTalk(t) /\ ClientTold(t)
  BY <1>1, <1>2, <1>3, <1>4, <1>5, <1>6
     DEF ClientSide, ClientTalk, ClientTold, ClientReads, ClientEarly, ClientSent, ClientFlight, Within
<1>10. ClientSteady(s, t)
  BY <1>3, <1>7, <1>8, <1>9 DEF ClientSteady, ClientSide, Within
<1> QED
  BY <1>1, <1>10, ClientTalks DEF s

LEMMA TalkReadChangeS == ASSUME Inv, Talk, read_change_cipher_spec(S) PROVE Talk'
<1> DEFINE s == ssl[S]
           k == setup_key_block(s)
           t == [k EXCEPT !.ccs = TRUE, !.rkey = k.key_block, !.peer_md = final_finish_mac(k, Peer(S))]
<1>0. DOMAIN s = FieldNames /\ S \in Endpoint /\ Peer(S) = C
  BY EndFields, PeerFacts
<1>1. /\ Become(S, t) /\ wire[S] # <<>> /\ Take(S) /\ UNCHANGED out /\ conf' = conf
      /\ s.state \in Reads /\ ~s.ccs /\ s.new_cipher
      /\ Head1(S).type = "ccs" /\ Head1(S).key = s.rkey
  BY DEF read_change_cipher_spec, Arrives, Inv, Ends, GoodServer, Typed
<1>2. s.state \in ServerReads
  BY <1>1 DEF Reads, Inv, Ends, GoodServer, ServerCalls
<1>21. s.state # "SR_CLNT_HELLO"
  <2>1. SUFFICES ASSUME s.state = "SR_CLNT_HELLO" PROVE FALSE
    OBVIOUS
  <2>2. s.rkey = Secret(s)
    <3>1. s.sr > 0
      BY <1>1, Natural DEF Talk, ServerSide, ServerNumbers
    <3> QED
      BY <2>1, <3>1 DEF Talk, ServerSide, ServerNumbers, ServerIdle
  <2>3. s.rkey # None /\ s.rkey[3] = s.sr
    BY <2>2 DEF Secret, None
  <2>4. FromClient(Head1(S))
    BY <1>0, <1>1, HeadTraffic DEF Talk, Keyed
  <2>5. s.rkey[3] \in 0 .. ssl[C].sr - 1
    BY <1>1, <2>3, <2>4 DEF FromClient
  <2>6. ssl[C].sr <= s.sr
    BY DEF Inv, Hellos
  <2> QED
    BY <2>3, <2>5, <2>6, Natural
<1>3. /\ t.state = s.state /\ t.next = s.next /\ Within(s, t) /\ t.good = s.good /\ t.mac = s.mac
      /\ t.key_block = k.key_block /\ t.rkey = t.key_block /\ t.wkey = s.wkey
      /\ t.ccs /\ t.peer_md = <<C, s.master, s.mac>> /\ t.peer = s.peer /\ t.cert_req = s.cert_req
      /\ t.new_session = s.new_session /\ t.new_cipher = s.new_cipher
      /\ t.ticket_expected = s.ticket_expected
      /\ k.key_block = IF s.key_block = None THEN Secret(s) ELSE s.key_block
  BY <1>0 DEF Within, FieldNames, setup_key_block, final_finish_mac, Secret
<1> HIDE DEF k, t
<1>4. /\ Secret(t) = Secret(s) /\ Secret(s)[3] = s.sr
      /\ NoKeys(s) \/ NewKeys(s) => NewKeys(t)
      /\ \A q : Begins(q, t) <=> Begins(q, s)
      /\ \A q : Tells(q, t) <=> Tells(q, s)
      /\ \A md, x : Names(md, x, t) <=> Names(md, x, s)
  <2>1. Secret(s) # None /\ Secret(s)[3] = s.sr
    BY DEF Secret, None
  <2> QED
    BY <1>3, <2>1, WithinSays DEF NoKeys, NewKeys
<1>5. t.peer_md[3] = s.mac /\ (Tells(s.mac, s) => Names(t.peer_md, C, t))
  <2>1. t.peer_md = <<C, s.master, s.mac>> /\ t.peer_md[3] = s.mac
    BY <1>3
  <2> QED
    BY <1>4, <2>1 DEF Names
<1>6. ServerSide(s)
  BY DEF Talk
<1> HIDE DEF s
<1>7. ServerNumbers(t) /\ ServerKnows(t)
  BY <1>1, <1>2, <1>21, <1>3, <1>4, <1>6
     DEF ServerSide, ServerNumbers, ServerKnows, ServerReads, ServerIdle, ServerEarly, Unknown,
         Answers, Within
<1>8. ServerRun(t)
  BY <1>1, <1>2, <1>21, <1>3, <1>4, <1>6
     DEF ServerSide, ServerRun, ServerReads, ServerEarly, Answers, Finishes, Within, NoKeys, NewKeys
<1>9. ServerTalk(t) /\ ServerTold(t)
  BY <1>1, <1>2, <1>21, <1>3, <1>4, <1>5, <1>6
     DEF ServerSide, ServerTalk, ServerTold, ServerReads, ServerEarly, ServerIdle, Answers,
         Finishes, Within
<1>10. ServerSteady(s, t)
  BY <1>3, <1>7, <1>8, <1>9 DEF ServerSteady, ServerSide, Within
<1> QED
  BY <1>1, <1>10, ServerTalks DEF s

\* A Finished in the transcript.
LEMMA TalkGotFinishedC == ASSUME Inv, Talk, ssl3_get_finished(C) PROVE Talk'
<1> DEFINE s == ssl[C]
           new == [s EXCEPT !.state = AfterFinished(C), !.ccs = FALSE,
                     !.prev[Peer(C)] = s.peer_md, !.vkey = s.rkey]
           m == Message(C)
           t == ssl3_finish_mac(new, m)
<1>0. /\ DOMAIN s = FieldNames /\ C \in Endpoint /\ S \in Endpoint /\ Peer(C) = S /\ C # S
      /\ DOMAIN s.prev = Endpoint /\ s.hit \in BOOLEAN
  BY EndFields, PeerFacts DEF Inv, Ends, GoodClient, Typed
<1>1. /\ Become(C, t) /\ wire[C] # <<>> /\ Take(C) /\ UNCHANGED out /\ conf' = conf
      /\ s.state = "CR_FINISHED" /\ m.name = "Finished" /\ s.ccs /\ m.md = s.peer_md
      /\ Head1(C).type = "handshake" /\ Head1(C).body = m
  BY DEF ssl3_get_finished, Receive, IsNext, Arrives, FinishedOk, Message
<1>2. /\ DOMAIN new = FieldNames /\ new.state = (IF s.hit THEN "CW_CHANGE" ELSE "DONE")
      /\ new.mac = s.mac /\ new.hit = s.hit /\ new.cr = s.cr /\ new.sr = s.sr
      /\ new.master = s.master
      /\ new.prev[C] = s.prev[C] /\ new.prev[S] = s.peer_md
      /\ new.prev = [x \in Endpoint |-> new.prev[x]]
      /\ new.good = s.good /\ new.key_block = s.key_block /\ ~new.ccs
      /\ new.rkey = s.rkey /\ new.wkey = s.wkey
  BY <1>0 DEF FieldNames, AfterFinished
<1>3. OfServer(s.peer_md)
  <2>1. Head1(C) \in Traffic(C) /\ Tag(Head1(C)) = Finished
    BY <1>0, <1>1, HeadTraffic DEF Tag, Finished
  <2> QED
    BY <1>1, <2>1 DEF Talk, Bound
<1>4. m.name # Exchange /\ m.name # Ticket
  BY <1>1 DEF Exchange, Ticket
<1>5. ClientSide(s) /\ IsSeq(s.mac)
  BY DEF Talk, ClientSide, ClientTalk
<1>6. /\ NewKeys(s) /\ s.rkey = Secret(s)
  <2>1. s.ccs => s.rkey = s.key_block
    BY DEF Inv, Ends, GoodClient, Keys
  <2>2. NewKeys(s)
    BY <1>1, <1>5 DEF ClientSide, ClientRun, ClientSent, NoKeys
  <2> QED
    BY <1>1, <2>1, <2>2 DEF NewKeys
<1> HIDE DEF new, m
<1>7. Told(t, new, m)
  BY <1>2, <1>5, Hashed
<1> HIDE DEF t, s
<1>8. /\ t.state = (IF s.hit THEN "CW_CHANGE" ELSE "DONE")
      /\ t.hit = s.hit /\ t.cr = s.cr /\ t.sr = s.sr /\ t.master = s.master
      /\ t.prev[C] = s.prev[C] /\ t.prev[S] = s.peer_md /\ t.prev = [x \in Endpoint |-> t.prev[x]]
      /\ t.good = s.good /\ t.key_block = s.key_block /\ ~t.ccs
      /\ t.rkey = s.rkey /\ t.wkey = s.wkey
      /\ IsSeq(t.mac) /\ (\A n : Has(t.mac, n) <=> Has(s.mac, n) \/ m.name = n)
      /\ (Begins(s.mac, s) => Begins(t.mac, s))
  <2>1. \A f \in FieldNames \ {"mac"} : t[f] = new[f]
    BY <1>7 DEF Told
  <2>2. /\ t.state = new.state /\ t.hit = new.hit /\ t.cr = new.cr /\ t.sr = new.sr
        /\ t.prev = new.prev /\ t.good = new.good /\ t.rkey = new.rkey /\ t.wkey = new.wkey
        /\ t.key_block = new.key_block /\ t.ccs = new.ccs /\ t.master = new.master
    BY <2>1, SameFields
  <2> QED
    BY <1>2, <1>7, <2>2 DEF Told
<1>9. /\ Secret(t) = Secret(s)
      /\ \A q : Begins(q, t) <=> Begins(q, s)
      /\ \A q : Tells(q, t) <=> Tells(q, s)
      /\ \A md, x : Names(md, x, t) <=> Names(md, x, s)
  BY <1>8, SameTranscript
<1>10. Tells(s.mac, s) => Tells(t.mac, t)
  BY <1>4, <1>8, <1>9 DEF Tells
<1>11. ClientNumbers(t)
  BY <1>0, <1>1, <1>5, <1>8 DEF ClientSide, ClientNumbers, ClientEarly
<1>12. ClientRun(t)
  BY <1>0, <1>1, <1>5, <1>6, <1>8, <1>9
     DEF ClientSide, ClientRun, ClientEarly, ClientSent, ClientFlight, NewKeys
<1>13. ClientTalk(t)
  BY <1>0, <1>1, <1>4, <1>5, <1>8, <1>10 DEF ClientSide, ClientTalk, ClientEarly, ClientSent
<1>14. ClientTold(t)
  BY <1>0, <1>1, <1>5, <1>8, <1>9
     DEF ClientSide, ClientTold, ClientTalk, ClientEarly, ClientSent, ClientFlight
<1>15. ClientSteady(s, t)
  BY <1>3, <1>8, <1>11, <1>12, <1>13, <1>14 DEF ClientSteady, ClientSide
<1> QED
  BY <1>1, <1>15, ClientTalks DEF s

LEMMA TalkGotFinishedS == ASSUME Inv, Talk, ssl3_get_finished(S) PROVE Talk'
<1> DEFINE s == ssl[S]
           new == [s EXCEPT !.state = AfterFinished(S), !.ccs = FALSE,
                     !.prev[Peer(S)] = s.peer_md, !.vkey = s.rkey]
           m == Message(S)
           t == ssl3_finish_mac(new, m)
<1>0. /\ DOMAIN s = FieldNames /\ C \in Endpoint /\ S \in Endpoint /\ Peer(S) = C /\ C # S
      /\ DOMAIN s.prev = Endpoint /\ s.hit \in BOOLEAN /\ s.ticket_expected \in BOOLEAN
  BY EndFields, PeerFacts DEF Inv, Ends, GoodServer, Typed
<1>1. /\ Become(S, t) /\ wire[S] # <<>> /\ Take(S) /\ UNCHANGED out /\ conf' = conf
      /\ s.state = "SR_FINISHED" /\ m.name = "Finished" /\ s.ccs /\ m.md = s.peer_md
      /\ Head1(S).type = "handshake" /\ Head1(S).body = m
  BY PeerFacts DEF ssl3_get_finished, Receive, IsNext, Arrives, FinishedOk, Message
<1>5. ServerSide(s) /\ IsSeq(s.mac)
  BY DEF Talk, ServerSide, ServerTalk
<1>3. OfClient(s.peer_md) /\ ~(s.hit /\ s.ticket_expected)
  <2>1. Head1(S) \in Traffic(S) /\ Tag(Head1(S)) = Finished
    BY <1>0, <1>1, HeadTraffic DEF Tag, Finished
  <2>2. OfClient(s.peer_md) /\ (Has(s.peer_md[3], Ticket) => Has(s.peer_md[3], Exchange))
    BY <1>1, <2>1 DEF Talk, Bound
  <2>3. Tells(s.peer_md[3], s)
    BY <1>1, <1>5 DEF ServerSide, ServerTalk, Names
  <2>4. s.hit /\ s.ticket_expected => Has(s.peer_md[3], Ticket)
    BY <1>1, <1>5 DEF ServerSide, ServerTalk
  <2> QED
    BY <2>2, <2>3, <2>4 DEF Tells
<1>2. /\ DOMAIN new = FieldNames
      /\ new.state = (IF s.hit THEN "DONE" ELSE IF s.ticket_expected THEN "SW_SESSION_TICKET" ELSE "SW_CHANGE")
      /\ new.mac = s.mac /\ new.hit = s.hit /\ new.cr = s.cr /\ new.sr = s.sr
      /\ new.master = s.master /\ new.next = s.next /\ new.peer = s.peer
      /\ new.new_session = s.new_session /\ new.new_cipher = s.new_cipher
      /\ new.ticket_expected = s.ticket_expected
      /\ new.prev[S] = s.prev[S] /\ new.prev[C] = s.peer_md
      /\ new.prev = [x \in Endpoint |-> new.prev[x]]
      /\ new.good = s.good /\ new.key_block = s.key_block /\ ~new.ccs
      /\ new.rkey = s.rkey /\ new.wkey = s.wkey
  BY <1>0, <1>3 DEF FieldNames, AfterFinished
<1>4. m.name # Exchange
  BY <1>1 DEF Exchange
<1>6. /\ NewKeys(s) /\ s.rkey = Secret(s)
  <2>1. s.ccs => s.rkey = s.key_block
    BY DEF Inv, Ends, GoodServer, Keys
  <2>2. NewKeys(s)
    BY <1>1, <1>5 DEF ServerSide, ServerRun, NoKeys
  <2> QED
    BY <1>1, <2>1, <2>2 DEF NewKeys
<1> HIDE DEF new, m
<1>7. Told(t, new, m)
  BY <1>2, <1>5, Hashed
<1> HIDE DEF t, s
<1>8. /\ t.state = (IF s.hit THEN "DONE" ELSE IF s.ticket_expected THEN "SW_SESSION_TICKET" ELSE "SW_CHANGE")
      /\ t.hit = s.hit /\ t.cr = s.cr /\ t.sr = s.sr /\ t.master = s.master
      /\ t.next = s.next /\ t.peer = s.peer
      /\ t.new_session = s.new_session /\ t.new_cipher = s.new_cipher
      /\ t.ticket_expected = s.ticket_expected
      /\ t.prev[S] = s.prev[S] /\ t.prev[C] = s.peer_md /\ t.prev = [x \in Endpoint |-> t.prev[x]]
      /\ t.good = s.good /\ t.key_block = s.key_block /\ ~t.ccs
      /\ t.rkey = s.rkey /\ t.wkey = s.wkey
      /\ IsSeq(t.mac) /\ (\A n : Has(t.mac, n) <=> Has(s.mac, n) \/ m.name = n)
      /\ (Begins(s.mac, s) => Begins(t.mac, s))
  <2>1. \A f \in FieldNames \ {"mac"} : t[f] = new[f]
    BY <1>7 DEF Told
  <2>2. /\ t.state = new.state /\ t.hit = new.hit /\ t.cr = new.cr /\ t.sr = new.sr
        /\ t.prev = new.prev /\ t.good = new.good /\ t.rkey = new.rkey /\ t.wkey = new.wkey
        /\ t.key_block = new.key_block /\ t.ccs = new.ccs /\ t.master = new.master
        /\ t.next = new.next /\ t.peer = new.peer /\ t.new_session = new.new_session
        /\ t.new_cipher = new.new_cipher /\ t.ticket_expected = new.ticket_expected
    BY <2>1, SameFields
  <2> QED
    BY <1>2, <1>7, <2>2 DEF Told
<1>9. /\ Secret(t) = Secret(s)
      /\ \A q : Begins(q, t) <=> Begins(q, s)
      /\ \A q : Tells(q, t) <=> Tells(q, s)
      /\ \A md, x : Names(md, x, t) <=> Names(md, x, s)
  BY <1>8, SameTranscript
<1>10. Tells(s.mac, s) => Tells(t.mac, t)
  BY <1>4, <1>8, <1>9 DEF Tells
<1>11. ServerNumbers(t) /\ ServerKnows(t)
  BY <1>0, <1>1, <1>5, <1>6, <1>8, <1>9
     DEF ServerSide, ServerNumbers, ServerKnows, ServerEarly, ServerIdle, Unknown, Answers
<1>12. ServerRun(t)
  BY <1>0, <1>1, <1>5, <1>6, <1>8, <1>9
     DEF ServerSide, ServerRun, ServerNumbers, ServerEarly, ServerIdle, Answers, Finishes, NewKeys
<1>13. ServerTalk(t)
  BY <1>0, <1>1, <1>5, <1>8, <1>10 DEF ServerSide, ServerTalk, ServerEarly, Answers, Finishes
<1>14. ServerTold(t)
  BY <1>0, <1>1, <1>5, <1>8, <1>9
     DEF ServerSide, ServerTold, ServerTalk, ServerEarly, ServerIdle, Answers, Finishes
<1>15. ServerSteady(s, t)
  BY <1>3, <1>8, <1>11, <1>12, <1>13, <1>14 DEF ServerSteady, ServerSide
<1> QED
  BY <1>1, <1>15, ServerTalks DEF s

LEMMA TalkTicket == ASSUME Inv, Talk, ssl3_send_newsession_ticket PROVE Talk'
<1> DEFINE s == ssl[S]
           new == [s EXCEPT !.state = "SW_CHANGE"]
           m == [name |-> "NewSessionTicket", rnd |-> 0, tick |-> <<"ticket", s.sr>>]
           t == ssl3_finish_mac(new, m)
           r == Record(S, "handshake", m)
<1>0. DOMAIN s = FieldNames
  BY EndFields, PeerFacts
<1>1. Become(S, t) /\ Put(S, <<r>>) /\ conf' = conf /\ s.state = "SW_SESSION_TICKET"
  BY DEF ssl3_send_newsession_ticket, Send
<1>2. /\ DOMAIN new = FieldNames /\ new.state = "SW_CHANGE" /\ new.mac = s.mac /\ Within(s, new)
      /\ new.peer = s.peer /\ new.new_session = s.new_session /\ new.new_cipher = s.new_cipher
      /\ new.ticket_expected = s.ticket_expected
      /\ new.good = s.good /\ new.key_block = s.key_block /\ new.ccs = s.ccs
      /\ new.rkey = s.rkey /\ new.wkey = s.wkey
  BY <1>0 DEF FieldNames, Within
<1>3. m.name = Ticket /\ m.name # Exchange
  BY DEF Exchange, Ticket
<1>4. ServerRecord(r)
  BY DEF ServerRecord, FromServer, ServerFlight, Record, Tag, ServerHello, Finished
<1>5. ServerSide(s) /\ IsSeq(s.mac)
  BY DEF Talk, ServerSide, ServerTalk
<1> HIDE DEF new, m, r
<1>7. Told(t, new, m)
  BY <1>2, <1>5, Hashed
<1> HIDE DEF t, s
<1>8. /\ t.state = "SW_CHANGE" /\ Within(s, t)
      /\ t.peer = s.peer /\ t.new_session = s.new_session /\ t.new_cipher = s.new_cipher
      /\ t.ticket_expected = s.ticket_expected
      /\ t.good = s.good /\ t.key_block = s.key_block /\ t.ccs = s.ccs
      /\ t.rkey = s.rkey /\ t.wkey = s.wkey
      /\ IsSeq(t.mac) /\ (\A n : Has(t.mac, n) <=> Has(s.mac, n) \/ m.name = n)
      /\ (Begins(s.mac, s) => Begins(t.mac, s))
  <2>1. \A f \in FieldNames \ {"mac"} : t[f] = new[f]
    BY <1>7 DEF Told
  <2>2. /\ t.state = new.state /\ t.hit = new.hit /\ t.cr = new.cr /\ t.sr = new.sr
        /\ t.prev = new.prev /\ t.good = new.good /\ t.rkey = new.rkey /\ t.wkey = new.wkey
        /\ t.key_block = new.key_block /\ t.ccs = new.ccs /\ t.master = new.master
        /\ t.peer = new.peer /\ t.new_session = new.new_session
        /\ t.new_cipher = new.new_cipher /\ t.ticket_expected = new.ticket_expected
    BY <2>1, SameFields
  <2> QED
    BY <1>2, <1>7, <2>2 DEF Told, Within
<1>9. /\ Secret(t) = Secret(s)
      /\ \A q : Begins(q, t) <=> Begins(q, s)
      /\ \A q : Tells(q, t) <=> Tells(q, s)
      /\ \A md, x : Names(md, x, t) <=> Names(md, x, s)
  BY <1>8, WithinSays
<1>10. Tells(s.mac, s) => Tells(t.mac, t)
  BY <1>3, <1>8, <1>9 DEF Tells, Within
<1>11. ServerNumbers(t) /\ ServerRun(t) /\ ServerKnows(t)
  BY <1>1, <1>5, <1>8, <1>9
     DEF ServerSide, ServerNumbers, ServerRun, ServerKnows, ServerEarly, ServerIdle, Unknown,
         Answers, Finishes, NoKeys, NewKeys, Within
<1>12. ServerTalk(t)
  BY <1>1, <1>3, <1>5, <1>8, <1>10 DEF ServerSide, ServerTalk, ServerEarly, Answers, Finishes
<1>13. ServerTold(t)
  BY <1>1, <1>5, <1>8, <1>9
     DEF ServerSide, ServerTold, ServerEarly, ServerIdle, Answers, Finishes, Within
<1>14. ServerSteady(s, t)
  BY <1>8, <1>11, <1>12, <1>13 DEF ServerSteady, ServerSide, Within
<1> QED
  BY <1>1, <1>4, <1>14, ServerTalks DEF s

-----------------------------------------------------------------------------
(* The steps that both ends' numbers and Finished messages hang on.        *)

\* An end as it is, whatever the other does.
LEMMA OtherSide ==
  ASSUME Talk, conf' = conf
  PROVE  /\ ssl'[S] = ssl[S] => ServerSide(ssl[S])'
         /\ ssl'[C] = ssl[C] => ClientSide(ssl[C])'
         /\ ServerSide(ssl'[S]) => ServerSide(ssl[S])'
         /\ ClientSide(ssl'[C]) => ClientSide(ssl[C])'
<1>1. ClientSide(ssl[C]) /\ ServerSide(ssl[S])
  BY DEF Talk
<1>3. ServerSide(ssl'[S]) => ServerSide(ssl[S])'
  BY DEF ServerSide, ServerNumbers, ServerRun, ServerTalk, ServerTold, ServerKnows, Asks, Known
<1>4. ClientSide(ssl'[C]) => ClientSide(ssl[C])'
  OBVIOUS
<1> QED
  BY <1>1, <1>3, <1>4

LEMMA TalkClientFinished == ASSUME Inv, Talk, client_finished PROVE Talk'
<1> DEFINE s == ssl[C]
           md == final_finish_mac(s, C)
           new == [s EXCEPT !.state = "CW_FLUSH", !.next = AfterFlight(s), !.prev[C] = md]
           m == [name |-> "Finished", rnd |-> 0, md |-> md]
           t == ssl3_finish_mac(new, m)
           r == Record(C, "handshake", m)
<1>0. /\ DOMAIN s = FieldNames /\ C \in Endpoint /\ S \in Endpoint /\ Peer(C) = S /\ C # S
      /\ DOMAIN s.prev = Endpoint /\ s.hit \in BOOLEAN
  BY EndFields, PeerFacts DEF Inv, Ends, GoodClient, Typed
<1>1. Become(C, t) /\ Put(C, <<r>>) /\ conf' = conf /\ s.state = "CW_FINISHED"
  BY DEF client_finished, Send
<1>2. /\ DOMAIN new = FieldNames /\ new.state = "CW_FLUSH" /\ new.mac = s.mac
      /\ new.hit = s.hit /\ new.cr = s.cr /\ new.sr = s.sr /\ new.master = s.master
      /\ new.prev[C] = md /\ new.prev[S] = s.prev[S] /\ new.prev = [x \in Endpoint |-> new.prev[x]]
      /\ new.good = s.good /\ new.key_block = s.key_block /\ new.ccs = s.ccs
      /\ new.rkey = s.rkey /\ new.wkey = s.wkey
  BY <1>0 DEF FieldNames
<1>3. /\ md = <<C, s.master, s.mac>> /\ md[3] = s.mac /\ md # None
  BY DEF final_finish_mac, None
<1>4. /\ m.name = "Finished" /\ m.name # Exchange /\ m.name # Ticket
      /\ Tag(r) = Finished /\ r.type = "handshake" /\ r.body.name = "Finished" /\ r.body.md = md
  BY DEF Exchange, Ticket, Tag, Record, Finished
<1>5. ClientSide(s) /\ IsSeq(s.mac) /\ Tells(s.mac, s) /\ (s.hit => ~Has(s.mac, Ticket))
      /\ NewKeys(s) /\ ~s.ccs
  BY <1>1 DEF Talk, ClientSide, ClientTalk, ClientRun, ClientSent
<1>51. /\ ssl'[C] = t /\ ssl'[S] = ssl[S]
       /\ \A q \in Traffic(S)' : q \in Traffic(S) \/ q = r
       /\ \A q \in Traffic(C)' : q \in Traffic(C)
       /\ Flying(C, ServerHello)' = Flying(C, ServerHello)
  BY <1>0, <1>1, Changes, Traffics, Flights
<1> HIDE DEF new, m, r, md
<1>7. Told(t, new, m)
  BY <1>2, <1>5, Hashed
<1> HIDE DEF t
<1>8. /\ t.state = "CW_FLUSH"
      /\ t.hit = s.hit /\ t.cr = s.cr /\ t.sr = s.sr /\ t.master = s.master
      /\ t.prev[C] = md /\ t.prev[S] = s.prev[S] /\ t.prev = [x \in Endpoint |-> t.prev[x]]
      /\ t.good = s.good /\ t.key_block = s.key_block /\ ~t.ccs
      /\ t.rkey = s.rkey /\ t.wkey = s.wkey
      /\ IsSeq(t.mac) /\ (\A n : Has(t.mac, n) <=> Has(s.mac, n) \/ m.name = n)
      /\ (Begins(s.mac, s) => Begins(t.mac, s))
  <2>1. \A f \in FieldNames \ {"mac"} : t[f] = new[f]
    BY <1>7 DEF Told
  <2>2. /\ t.state = new.state /\ t.hit = new.hit /\ t.cr = new.cr /\ t.sr = new.sr
        /\ t.prev = new.prev /\ t.good = new.good /\ t.rkey = new.rkey /\ t.wkey = new.wkey
        /\ t.key_block = new.key_block /\ t.ccs = new.ccs /\ t.master = new.master
    BY <2>1, SameFields
  <2> QED
    BY <1>2, <1>5, <1>7, <2>2 DEF Told
<1>9. /\ Secret(t) = Secret(s)
      /\ \A q : Begins(q, t) <=> Begins(q, s)
      /\ \A q : Tells(q, t) <=> Tells(q, s)
      /\ \A d, x : Names(d, x, t) <=> Names(d, x, s)
  BY <1>8, SameTranscript
<1>10. Tells(t.mac, t) /\ Names(md, C, t) /\ HelloOf(md) = s.cr /\ s.cr \in Nat
  <2>1. Names(md, C, s)
    BY <1>3, <1>5 DEF Names
  <2>2. HelloOf(md) = s.cr
    BY <1>3, <1>5 DEF Tells, Begins, HelloOf
  <2> QED
    BY <1>4, <1>5, <1>8, <1>9, <2>1, <2>2, Natural DEF Tells
<1>11. ClientNumbers(t)
  BY <1>1, <1>5, <1>8 DEF ClientSide, ClientNumbers, ClientEarly
<1>12. ClientRun(t)
  BY <1>1, <1>5, <1>8, <1>9 DEF ClientRun, ClientEarly, ClientSent, ClientFlight, NewKeys
<1>13. ClientTalk(t)
  BY <1>8, <1>10 DEF ClientTalk, ClientEarly, ClientSent
<1>14. ClientTold(t)
  BY <1>0, <1>1, <1>5, <1>8, <1>9, <1>10
     DEF ClientSide, ClientTold, ClientEarly, ClientSent, ClientFlight
<1>15. ClientSide(ssl[C])' /\ ServerSide(ssl[S])'
  BY <1>1, <1>11, <1>12, <1>13, <1>14, <1>51, OtherSide DEF ClientSide
<1>16. Numbered'
  <2>1. Answering' = Answering
    BY <1>51 DEF Answering
  <2>2. Tag(r) # Hello
    BY <1>4 DEF Hello, Finished
  <2> QED
    BY <1>8, <1>51, <2>1, <2>2 DEF Talk, Numbered
<1>17. Keyed'
  BY <1>1, <1>4, <1>8, <1>51 DEF Talk, Keyed, FromClient, FromServer, ClientFlies, Finished
<1>18. Bound'
  <2>1. s.prev[C] # None => HelloOf(s.prev[C]) < s.cr
    BY <1>1, <1>5 DEF ClientSide, ClientTold, ClientFlight
  <2>2. \A d : OfClient(d) => OfClient(d)'
    BY <1>8, <1>10, <1>51, <2>1 DEF OfClient
  <2>3. \A d : d = md => OfClient(d)'
    <3>1. ssl'[C].cr = s.cr /\ ssl'[C].prev[C] = md
      BY <1>8, <1>51
    <3>2. \A d : d = md => d # None /\ HelloOf(d) \in 0 .. s.cr
      BY <1>3, <1>10
    <3> QED
      BY <3>1, <3>2 DEF OfClient
  <2>4. \A d : OfServer(d) => OfServer(d)'
    BY <1>51 DEF OfServer
  <2>5. Has(md[3], Ticket) => Has(md[3], Exchange)
    BY <1>0, <1>3, <1>5 DEF Tells
  <2>6. ASSUME NEW q \in Traffic(S)', Tag(q) = Finished
        PROVE  OfClient(q.body.md)' /\ (Has(q.body.md[3], Ticket) => Has(q.body.md[3], Exchange))
    <3>1. CASE q = r
      BY <1>4, <2>3, <2>5, <3>1
    <3>2. CASE q \in Traffic(S)
      BY <2>2, <2>6, <3>2 DEF Talk, Bound
    <3> QED
      BY <1>51, <3>1, <3>2
  <2>7. ASSUME NEW q \in Traffic(C)', Tag(q) = Finished PROVE OfServer(q.body.md)'
    BY <1>51, <2>4, <2>7 DEF Talk, Bound
  <2>8. /\ (ssl[S].prev[C] # None => OfClient(ssl[S].prev[C]))'
        /\ (ssl[C].prev[S] # None => OfServer(ssl[C].prev[S]))'
    BY <1>8, <1>51, <2>2, <2>4 DEF Talk, Bound, OfClient, OfServer
  <2> QED
    BY <2>6, <2>7, <2>8 DEF Bound
<1> QED
  BY <1>15, <1>16, <1>17, <1>18 DEF Talk

LEMMA TalkServerFinished == ASSUME Inv, Talk, server_finished PROVE Talk'
<1> DEFINE s == ssl[S]
           md == final_finish_mac(s, S)
           new == [s EXCEPT !.state = "SW_FLUSH", !.prev[S] = md,
                     !.next = IF s.hit THEN "SR_FINISHED" ELSE "DONE"]
           m == [name |-> "Finished", rnd |-> 0, md |-> md]
           t == ssl3_finish_mac(new, m)
           r == Record(S, "handshake", m)
<1>0. /\ DOMAIN s = FieldNames /\ C \in Endpoint /\ S \in Endpoint /\ Peer(S) = C /\ C # S
      /\ DOMAIN s.prev = Endpoint /\ s.hit \in BOOLEAN
  BY EndFields, PeerFacts DEF Inv, Ends, GoodServer, Typed
<1>1. Become(S, t) /\ Put(S, <<r>>) /\ conf' = conf /\ s.state = "SW_FINISHED"
  BY DEF server_finished, Send
<1>2. /\ DOMAIN new = FieldNames /\ new.state = "SW_FLUSH" /\ new.mac = s.mac
      /\ new.next = (IF s.hit THEN "SR_FINISHED" ELSE "DONE")
      /\ new.hit = s.hit /\ new.cr = s.cr /\ new.sr = s.sr /\ new.master = s.master
      /\ new.peer = s.peer /\ new.new_session = s.new_session /\ new.new_cipher = s.new_cipher
      /\ new.ticket_expected = s.ticket_expected
      /\ new.prev[S] = md /\ new.prev[C] = s.prev[C] /\ new.prev = [x \in Endpoint |-> new.prev[x]]
      /\ new.good = s.good /\ new.key_block = s.key_block /\ new.ccs = s.ccs
      /\ new.rkey = s.rkey /\ new.wkey = s.wkey
  BY <1>0 DEF FieldNames
<1>3. /\ md = <<S, s.master, s.mac>> /\ md[3] = s.mac /\ md # None
  BY DEF final_finish_mac, None
<1>4. /\ m.name = "Finished" /\ m.name # Exchange
      /\ Tag(r) = Finished /\ r.type = "handshake" /\ r.body.name = "Finished" /\ r.body.md = md
      /\ Tag(r) # ServerHello
  BY DEF Exchange, Tag, Record, Finished, ServerHello
<1>5. ServerSide(s) /\ IsSeq(s.mac) /\ Tells(s.mac, s) /\ NewKeys(s) /\ ~s.ccs
      /\ (s.hit /\ s.ticket_expected => Has(s.mac, Ticket))
  BY <1>1 DEF Talk, ServerSide, ServerTalk, ServerRun
<1>51. /\ ssl'[S] = t /\ ssl'[C] = ssl[C]
       /\ \A q \in Traffic(C)' : q \in Traffic(C) \/ q = r
       /\ \A q \in Traffic(S)' : q \in Traffic(S)
       /\ Flying(C, ServerHello)' = Flying(C, ServerHello) + 0
  BY <1>0, <1>1, <1>4, Changes, Traffics, Flights
<1> HIDE DEF new, m, r, md
<1>7. Told(t, new, m)
  BY <1>2, <1>5, Hashed
<1> HIDE DEF t
<1>8. /\ t.state = "SW_FLUSH" /\ t.next = (IF s.hit THEN "SR_FINISHED" ELSE "DONE")
      /\ t.hit = s.hit /\ t.cr = s.cr /\ t.sr = s.sr /\ t.master = s.master
      /\ t.peer = s.peer /\ t.new_session = s.new_session /\ t.new_cipher = s.new_cipher
      /\ t.ticket_expected = s.ticket_expected
      /\ t.prev[S] = md /\ t.prev[C] = s.prev[C] /\ t.prev = [x \in Endpoint |-> t.prev[x]]
      /\ t.good = s.good /\ t.key_block = s.key_block /\ ~t.ccs
      /\ t.rkey = s.rkey /\ t.wkey = s.wkey
      /\ IsSeq(t.mac) /\ (\A n : Has(t.mac, n) <=> Has(s.mac, n) \/ m.name = n)
      /\ (Begins(s.mac, s) => Begins(t.mac, s))
  <2>1. \A f \in FieldNames \ {"mac"} : t[f] = new[f]
    BY <1>7 DEF Told
  <2>2. /\ t.state = new.state /\ t.hit = new.hit /\ t.cr = new.cr /\ t.sr = new.sr
        /\ t.prev = new.prev /\ t.good = new.good /\ t.rkey = new.rkey /\ t.wkey = new.wkey
        /\ t.key_block = new.key_block /\ t.ccs = new.ccs /\ t.master = new.master
        /\ t.next = new.next /\ t.peer = new.peer /\ t.new_session = new.new_session
        /\ t.new_cipher = new.new_cipher /\ t.ticket_expected = new.ticket_expected
    BY <2>1, SameFields
  <2> QED
    BY <1>2, <1>5, <1>7, <2>2 DEF Told
<1>9. /\ Secret(t) = Secret(s)
      /\ \A q : Begins(q, t) <=> Begins(q, s)
      /\ \A q : Tells(q, t) <=> Tells(q, s)
      /\ \A d, x : Names(d, x, t) <=> Names(d, x, s)
  BY <1>8, SameTranscript
<1>10. Tells(t.mac, t) /\ Names(md, S, t) /\ AnswerOf(md) = s.sr /\ s.sr \in Nat
  <2>1. Names(md, S, s)
    BY <1>3, <1>5 DEF Names
  <2>2. AnswerOf(md) = s.sr
    BY <1>3, <1>5 DEF Tells, Begins, AnswerOf
  <2> QED
    BY <1>4, <1>5, <1>8, <1>9, <2>1, <2>2, Natural DEF Tells
<1>11. ServerNumbers(t) /\ ServerRun(t) /\ ServerKnows(t)
  BY <1>1, <1>5, <1>8, <1>9
     DEF ServerSide, ServerNumbers, ServerRun, ServerKnows, ServerEarly, ServerIdle, Unknown,
         Answers, Finishes, NewKeys
<1>13. ServerTalk(t)
  BY <1>5, <1>8, <1>10 DEF ServerTalk, ServerEarly, Answers, Finishes
<1>14. ServerTold(t)
  BY <1>0, <1>1, <1>5, <1>8, <1>9, <1>10
     DEF ServerSide, ServerTold, ServerEarly, ServerIdle, Answers, Finishes
<1>15. ClientSide(ssl[C])' /\ ServerSide(ssl[S])'
  <2>1. ServerSide(t)
    BY <1>11, <1>13, <1>14 DEF ServerSide
  <2> QED
    BY <1>1, <1>51, <2>1, OtherSide
<1>16. Numbered'
  <2>1. Answering = 0 /\ Answering' = 0
    BY <1>1, <1>8, <1>51 DEF Answering
  <2>2. \A q \in Traffic(C)' : Tag(q) = ServerHello => q.body.rnd > ssl'[C].sr
    BY <1>4, <1>51 DEF Talk, Numbered
  <2>3. \A q \in Traffic(S)' : Tag(q) = Hello => q.body.rnd > ssl'[S].cr
    BY <1>8, <1>51 DEF Talk, Numbered
  <2>4. ssl'[C].sr + Flying(C, ServerHello)' + Answering' <= ssl'[S].sr
    <3>1. ssl[C].sr + Flying(C, ServerHello) + Answering <= ssl[S].sr
      BY DEF Talk, Numbered
    <3>2. Flying(C, ServerHello)' = Flying(C, ServerHello)
      BY <1>0, <1>51, Natural
    <3> QED
      BY <1>8, <1>51, <2>1, <3>1, <3>2
  <2>5. ssl'[S].sr <= ssl'[S].cr
    BY <1>8, <1>51 DEF Talk, Numbered
  <2> QED
    BY <2>2, <2>3, <2>4, <2>5 DEF Numbered
<1>17. Keyed'
  BY <1>1, <1>4, <1>8, <1>51 DEF Talk, Keyed, FromClient, FromServer, ServerFlight
<1>18. Bound'
  <2>1. s.prev[S] # None => AnswerOf(s.prev[S]) < s.sr
    BY <1>1, <1>5 DEF ServerSide, ServerTold
  <2>2. \A d : OfServer(d) => OfServer(d)'
    BY <1>8, <1>10, <1>51, <2>1 DEF OfServer
  <2>3. \A d : d = md => OfServer(d)'
    <3>1. ssl'[S].sr = s.sr /\ ssl'[S].prev[S] = md
      BY <1>8, <1>51
    <3>2. \A d : d = md => d # None /\ AnswerOf(d) \in 0 .. s.sr
      BY <1>3, <1>10
    <3> QED
      BY <3>1, <3>2 DEF OfServer
  <2>4. \A d : OfClient(d) => OfClient(d)'
    BY <1>51 DEF OfClient
  <2>6. ASSUME NEW q \in Traffic(C)', Tag(q) = Finished PROVE OfServer(q.body.md)'
    <3>1. CASE q = r
      BY <1>4, <2>3, <3>1
    <3>2. CASE q \in Traffic(C)
      BY <2>2, <2>6, <3>2 DEF Talk, Bound
    <3> QED
      BY <1>51, <3>1, <3>2
  <2>7. ASSUME NEW q \in Traffic(S)', Tag(q) = Finished
        PROVE  OfClient(q.body.md)' /\ (Has(q.body.md[3], Ticket) => Has(q.body.md[3], Exchange))
    BY <1>51, <2>4, <2>7 DEF Talk, Bound
  <2>8. /\ (ssl[S].prev[C] # None => OfClient(ssl[S].prev[C]))'
        /\ (ssl[C].prev[S] # None => OfServer(ssl[C].prev[S]))'
    BY <1>8, <1>51, <2>2, <2>4 DEF Talk, Bound, OfClient, OfServer
  <2> QED
    BY <2>6, <2>7, <2>8 DEF Bound
<1> QED
  BY <1>15, <1>16, <1>17, <1>18 DEF Talk

-----------------------------------------------------------------------------
(* The hellos.                                                             *)

LEMMA TalkClientHello == ASSUME Inv, Talk, ssl3_client_hello PROVE Talk'
<1> DEFINE s == ssl[C]
           new == [s EXCEPT !.cr = @ + 1, !.shutdown = {}, !.state = "CR_SRVR_HELLO",
                     !.buffered = TRUE,
                     !.master = IF s.sid = None /\ s.tick = None THEN None ELSE @]
           m == ClientHello(new)
           t == ssl3_finish_mac(new, m)
           r == Record(C, "handshake", m)
<1>0. /\ DOMAIN s = FieldNames /\ C \in Endpoint /\ S \in Endpoint /\ Peer(C) = S /\ C # S
      /\ s.cr \in Nat /\ s.sr \in Nat /\ s.good \in Nat
  BY EndFields, PeerFacts, Natural
<1>1. Become(C, t) /\ Put(C, <<r>>) /\ conf' = conf /\ s.state = "CW_CLNT_HELLO"
  BY DEF ssl3_client_hello, Send
<1>2. /\ DOMAIN new = FieldNames /\ new.state = "CR_SRVR_HELLO" /\ new.mac = s.mac
      /\ new.cr = s.cr + 1 /\ new.sr = s.sr /\ new.prev = s.prev
      /\ new.good = s.good /\ new.key_block = s.key_block /\ new.ccs = s.ccs
      /\ new.rkey = s.rkey /\ new.wkey = s.wkey
  BY <1>0 DEF FieldNames
<1>3. ClientSide(s) /\ s.mac = <<>> /\ IsSeq(s.mac)
  BY <1>1 DEF Talk, ClientSide, ClientTalk
<1>4. m.name = "ClientHello" /\ m.rnd = s.cr + 1
  BY <1>2 DEF ClientHello
<1>5. /\ Tag(r) = Hello /\ r.type = "handshake" /\ r.body.name = "ClientHello"
      /\ r.body.rnd = s.cr + 1
  BY <1>4 DEF Tag, Record, Hello
<1>6. t.mac = <<<<"ClientHello", s.cr + 1>>>> /\ IsSeq(t.mac)
  <2>1. t.mac = Append(s.mac, <<m.name, m.rnd>>)
    BY <1>2 DEF ssl3_finish_mac, FieldNames
  <2> HIDE DEF m, t
  <2> QED
    BY <1>3, <1>4, <2>1, NewTranscript
<1>51. /\ ssl'[C] = t /\ ssl'[S] = ssl[S]
       /\ \A q \in Traffic(S)' : q \in Traffic(S) \/ q = r
       /\ \A q \in Traffic(C)' : q \in Traffic(C)
       /\ Flying(C, ServerHello)' = Flying(C, ServerHello)
  BY <1>0, <1>1, Changes, Traffics, Flights
<1> HIDE DEF new, m, r
<1>7. Told(t, new, m)
  BY <1>2, <1>3, Hashed
<1> HIDE DEF t
<1>8. /\ t.state = "CR_SRVR_HELLO" /\ t.cr = s.cr + 1 /\ t.sr = s.sr
      /\ t.prev = s.prev /\ t.good = s.good /\ t.key_block = s.key_block /\ t.ccs = s.ccs
      /\ t.rkey = s.rkey /\ t.wkey = s.wkey
  <2>1. \A f \in FieldNames \ {"mac"} : t[f] = new[f]
    BY <1>7 DEF Told
  <2>2. /\ t.state = new.state /\ t.cr = new.cr /\ t.sr = new.sr
        /\ t.prev = new.prev /\ t.good = new.good /\ t.rkey = new.rkey /\ t.wkey = new.wkey
        /\ t.key_block = new.key_block /\ t.ccs = new.ccs
    BY <2>1, SameFields
  <2> QED
    BY <1>2, <2>2
<1>11. ClientNumbers(t) /\ ClientRun(t)
  BY <1>0, <1>1, <1>3, <1>8
     DEF ClientSide, ClientNumbers, ClientRun, ClientEarly, ClientSent, ClientFlight, NoKeys, Abandons
<1>13. ClientTalk(t)
  BY <1>6, <1>8 DEF ClientTalk, ClientEarly, ClientSent
<1>14. ClientTold(t)
  BY <1>0, <1>1, <1>3, <1>8 DEF ClientSide, ClientTold, ClientEarly, ClientSent, ClientFlight
<1>15. ClientSide(ssl[C])' /\ ServerSide(ssl[S])'
  BY <1>1, <1>11, <1>13, <1>14, <1>51, OtherSide DEF ClientSide
<1>16. Numbered'
  <2>1. Answering' = Answering
    BY <1>51 DEF Answering
  <2>2. s.cr + 1 > ssl[S].cr
    BY <1>0, Natural DEF Inv, Hellos
  <2> QED
    BY <1>5, <1>8, <1>51, <2>1, <2>2 DEF Talk, Numbered
<1>17. Keyed'
  BY <1>0, <1>1, <1>5, <1>8, <1>51 DEF Talk, Keyed, FromClient, FromServer, ClientFlies, Hello
<1>18. Bound'
  <2>2. \A d : OfClient(d) => OfClient(d)'
    BY <1>0, <1>8, <1>51 DEF OfClient
  <2>4. \A d : OfServer(d) => OfServer(d)'
    BY <1>8, <1>51 DEF OfServer
  <2>5. Tag(r) # Finished
    BY <1>5 DEF Hello, Finished
  <2>6. /\ (ssl[S].prev[C] # None => OfClient(ssl[S].prev[C]))'
        /\ (ssl[C].prev[S] # None => OfServer(ssl[C].prev[S]))'
    BY <1>8, <1>51, <2>2, <2>4 DEF Talk, Bound, OfClient, OfServer
  <2> QED
    BY <1>51, <2>2, <2>4, <2>5, <2>6 DEF Talk, Bound
<1> QED
  BY <1>15, <1>16, <1>17, <1>18 DEF Talk

LEMMA TalkServerHello == ASSUME Inv, Talk, ssl3_send_server_hello PROVE Talk'
<1> DEFINE s == ssl[S]
           new == [s EXCEPT
                     !.state = IF ~s.hit THEN "SW_CERT"
                               ELSE IF s.ticket_expected THEN "SW_SESSION_TICKET" ELSE "SW_CHANGE"]
           m == [name |-> "ServerHello", rnd |-> s.sr, sid |-> s.sid,
                 ticket_ext |-> s.ticket_expected, ri |-> s.prev]
           t == ssl3_finish_mac(new, m)
           r == Record(S, "handshake", m)
<1>0. /\ DOMAIN s = FieldNames /\ C \in Endpoint /\ S \in Endpoint /\ Peer(S) = C /\ C # S
      /\ s.cr \in Nat /\ s.sr \in Nat /\ s.good \in Nat /\ s.hit \in BOOLEAN
      /\ s.ticket_expected \in BOOLEAN
  BY EndFields, PeerFacts, Natural DEF Inv, Ends, GoodServer, Typed
<1>1. Become(S, t) /\ Put(S, <<r>>) /\ conf' = conf /\ s.state = "SW_SRVR_HELLO"
  BY DEF ssl3_send_server_hello, Send
<1>2. /\ DOMAIN new = FieldNames
      /\ new.state = (IF ~s.hit THEN "SW_CERT"
                      ELSE IF s.ticket_expected THEN "SW_SESSION_TICKET" ELSE "SW_CHANGE")
      /\ new.mac = s.mac /\ Within(s, new)
      /\ new.peer = s.peer /\ new.new_session = s.new_session /\ new.new_cipher = s.new_cipher
      /\ new.ticket_expected = s.ticket_expected
      /\ new.good = s.good /\ new.key_block = s.key_block /\ new.ccs = s.ccs
      /\ new.rkey = s.rkey /\ new.wkey = s.wkey
  BY <1>0 DEF FieldNames, Within
<1>3. ServerSide(s) /\ s.mac = <<<<"ClientHello", s.cr>>>> /\ IsSeq(s.mac)
  BY <1>1 DEF Talk, ServerSide, ServerTalk
<1>4. m.name = "ServerHello" /\ m.rnd = s.sr
  OBVIOUS
<1>5. /\ Tag(r) = ServerHello /\ r.type = "handshake" /\ r.body.rnd = s.sr
  BY DEF Tag, Record, ServerHello
<1>51. /\ ssl'[S] = t /\ ssl'[C] = ssl[C]
       /\ \A q \in Traffic(C)' : q \in Traffic(C) \/ q = r
       /\ \A q \in Traffic(S)' : q \in Traffic(S)
       /\ Flying(C, ServerHello)' = Flying(C, ServerHello) + 1
  BY <1>0, <1>1, <1>5, Changes, Traffics, Flights
<1>52. FromServer(r)
  BY <1>1, ServerUnder
<1>6. /\ IsSeq(t.mac) /\ Begins(t.mac, s)
      /\ \A n : Has(t.mac, n) <=> n = "ClientHello" \/ n = "ServerHello"
  <2>1. t.mac = Append(s.mac, <<m.name, m.rnd>>)
    BY <1>2 DEF ssl3_finish_mac, FieldNames
  <2> HIDE DEF m, t
  <2>2. t.mac = Append(<<<<"ClientHello", s.cr>>>>, <<"ServerHello", s.sr>>)
    BY <1>3, <1>4, <2>1
  <2>3. /\ IsSeq(t.mac) /\ Len(t.mac) = 2 /\ t.mac[1] = <<"ClientHello", s.cr>>
        /\ t.mac[2] = <<"ServerHello", s.sr>>
        /\ \A n : Has(t.mac, n) <=> <<"ClientHello", s.cr>>[1] = n \/ <<"ServerHello", s.sr>>[1] = n
    BY <2>2, NewTranscript
  <2> QED
    BY <2>3 DEF Begins
<1> HIDE DEF new, m, r
<1>7. Told(t, new, m)
  BY <1>2, <1>3, Hashed
<1> HIDE DEF t
<1>8. /\ t.state = (IF ~s.hit THEN "SW_CERT"
                    ELSE IF s.ticket_expected THEN "SW_SESSION_TICKET" ELSE "SW_CHANGE")
      /\ Within(s, t)
      /\ t.peer = s.peer /\ t.new_session = s.new_session /\ t.new_cipher = s.new_cipher
      /\ t.ticket_expected = s.ticket_expected
      /\ t.good = s.good /\ t.key_block = s.key_block /\ t.ccs = s.ccs
      /\ t.rkey = s.rkey /\ t.wkey = s.wkey
  <2>1. \A f \in FieldNames \ {"mac"} : t[f] = new[f]
    BY <1>7 DEF Told
  <2>2. /\ t.state = new.state /\ t.hit = new.hit /\ t.cr = new.cr /\ t.sr = new.sr
        /\ t.prev = new.prev /\ t.good = new.good /\ t.rkey = new.rkey /\ t.wkey = new.wkey
        /\ t.key_block = new.key_block /\ t.ccs = new.ccs /\ t.master = new.master
        /\ t.peer = new.peer /\ t.new_session = new.new_session
        /\ t.new_cipher = new.new_cipher /\ t.ticket_expected = new.ticket_expected
    BY <2>1, SameFields
  <2> QED
    BY <1>2, <2>2 DEF Within
<1>9. /\ Begins(t.mac, t) /\ ~Has(t.mac, Exchange)
      /\ s.hit => Tells(t.mac, t)
  BY <1>6, <1>8, WithinSays DEF Tells, Exchange, Within
<1>11. ServerNumbers(t) /\ ServerRun(t) /\ ServerKnows(t)
  BY <1>0, <1>1, <1>3, <1>8
     DEF ServerSide, ServerNumbers, ServerRun, ServerKnows, ServerEarly, ServerIdle, Unknown,
         Answers, Finishes, NoKeys, Within
<1>12. ServerTalk(t)
  BY <1>0, <1>6, <1>8, <1>9 DEF ServerTalk, ServerEarly, Answers, Finishes, Within
<1>13. ServerTold(t)
  BY <1>0, <1>1, <1>3, <1>8
     DEF ServerSide, ServerTold, ServerEarly, ServerIdle, Answers, Finishes, Within
<1>15. ClientSide(ssl[C])' /\ ServerSide(ssl[S])'
  <2>1. ServerSide(t)
    BY <1>11, <1>12, <1>13 DEF ServerSide
  <2> QED
    BY <1>1, <1>51, <2>1, OtherSide
<1>16. Numbered'
  <2>1. Answering = 1 /\ Answering' = 0
    BY <1>1, <1>8, <1>51 DEF Answering
  <2>2. ssl[C].sr + Flying(C, ServerHello) + 1 <= s.sr
    BY <2>1 DEF Talk, Numbered
  <2>3. s.sr > ssl[C].sr
    BY <1>0, <2>2, Natural
  <2>4. \A q \in Traffic(C)' : Tag(q) = ServerHello => q.body.rnd > ssl'[C].sr
    BY <1>5, <1>51, <2>3 DEF Talk, Numbered
  <2>5. \A q \in Traffic(S)' : Tag(q) = Hello => q.body.rnd > ssl'[S].cr
    BY <1>8, <1>51 DEF Talk, Numbered, Within
  <2>6. ssl'[C].sr + Flying(C, ServerHello)' + Answering' <= ssl'[S].sr
    BY <1>0, <1>8, <1>51, <2>1, <2>2, Natural DEF Within
  <2>7. ssl'[S].sr <= ssl'[S].cr
    BY <1>8, <1>51 DEF Talk, Numbered, Within
  <2> QED
    BY <2>4, <2>5, <2>6, <2>7 DEF Numbered
<1>17. Keyed'
  BY <1>1, <1>8, <1>51, <1>52 DEF Talk, Keyed, FromClient, FromServer, Within
<1>18. Bound'
  <2>1. Tag(r) # Finished
    BY <1>5 DEF ServerHello, Finished
  <2>2. \A d : OfServer(d) => OfServer(d)'
    BY <1>8, <1>51 DEF OfServer, Within
  <2>3. \A d : OfClient(d) => OfClient(d)'
    BY <1>51 DEF OfClient
  <2>4. /\ (ssl[S].prev[C] # None => OfClient(ssl[S].prev[C]))'
        /\ (ssl[C].prev[S] # None => OfServer(ssl[C].prev[S]))'
    BY <1>8, <1>51, <2>2, <2>3 DEF Talk, Bound, OfClient, OfServer, Within
  <2> QED
    BY <1>51, <2>1, <2>2, <2>3, <2>4 DEF Talk, Bound
<1> QED
  BY <1>15, <1>16, <1>17, <1>18 DEF Talk

LEMMA StillPresent ==
  ASSUME Streams', NEW e \in Endpoint, NEW r, r \in Traffic(e)'
  PROVE  Flying(e, Tag(r))' > 0
<1>1. IsSeq(wire'[e]) /\ IsSeq(out'[Peer(e)])
  BY PeerFacts DEF Streams
<1>2. Count(wire'[e], Tag(r)) \in Nat /\ Count(out'[Peer(e)], Tag(r)) \in Nat
  BY <1>1, CountFacts
<1>3. r \in Elements(wire'[e]) \/ r \in Elements(out'[Peer(e)])
  BY DEF Traffic
<1>4. Flying(e, Tag(r))' = Count(wire'[e], Tag(r)) + Count(out'[Peer(e)], Tag(r))
  BY DEF Flying
<1>5. Count(wire'[e], Tag(r)) # 0 \/ Count(out'[Peer(e)], Tag(r)) # 0
  BY <1>1, <1>3, CountsPresent
<1> QED
  BY <1>2, <1>4, <1>5

\* The ServerHello a client reads is the answer to its last ClientHello, and the
\* only one there is.
LEMMA Answered ==
  ASSUME Inv, Order, Talk, ssl3_get_server_hello
  PROVE  /\ Message(C).rnd = ssl[C].cr /\ ssl[C].cr = ssl[C].sr + 1 /\ Message(C).rnd <= ssl[S].sr
         /\ ~Abandons(ssl[C]) /\ NoKeys(ssl[C]) /\ Answering = 0
         /\ Streams' /\ Flying(C, ServerHello)' = 0
         /\ \A q \in Traffic(C)' : q \in Traffic(C) /\ Tag(q) # ServerHello
         /\ \A q \in Traffic(S)' : q \in Traffic(S)
<1> DEFINE m == Message(C)
<1>0. C \in Endpoint /\ S \in Endpoint /\ Peer(C) = S /\ C # S
  BY PeerFacts
<1>1. /\ ssl[C].state = "CR_SRVR_HELLO" /\ Arrives(C, "handshake") /\ m.name = "ServerHello"
      /\ m.ri = ssl[C].prev /\ wire[C] # <<>> /\ Take(C) /\ UNCHANGED out
  BY DEF ssl3_get_server_hello, Receive, IsNext, Arrives
<1>2. /\ Head1(C) \in Traffic(C) /\ Tag(Head1(C)) = ServerHello /\ Head1(C).body = m
  BY <1>0, <1>1, HeadTraffic DEF Arrives, Tag, ServerHello, Message
<1> HIDE DEF m
<1>3. m.rnd > ssl[C].sr /\ m.rnd \in 0 .. ssl[S].sr
  BY <1>2 DEF Inv, Hellos, Talk, Numbered
<1>4. ssl[C].cr = ssl[C].sr + 1
  BY <1>1 DEF Talk, ClientSide, ClientNumbers
<1>5. ssl[S].sr <= ssl[S].cr /\ ssl[S].cr <= ssl[C].cr
  BY DEF Inv, Hellos, Talk, Numbered
<1>6. m.rnd = ssl[C].cr /\ ssl[S].sr = ssl[C].cr
  BY <1>3, <1>4, <1>5, Natural
<1>7. ~Abandons(ssl[C])
  BY <1>1, <1>2 DEF Order, Sealed, Abandons
<1>8. NoKeys(ssl[C])
  <2>1. NoKeys(ssl[C]) \/ (ssl[C].ccs /\ ssl[C].rkey[2] = ssl[C].cr)
    BY <1>1, <1>7 DEF Talk, ClientSide, ClientNumbers
  <2>2. Message(C).name \in ServerFlight
    BY <1>1 DEF ServerFlight, m
  <2> QED
    BY <1>0, <1>1, <2>1, <2>2, Opened
<1>9. Loses(C, Head1(C))
  BY <1>0, <1>1, TakeLoses DEF Inv
<1>10. Answering = 0 /\ Flying(C, ServerHello)' = 0
  <2>1. Flying(C, ServerHello) = Flying(C, ServerHello)' + 1 /\ Flying(C, ServerHello)' \in Nat
    BY <1>2, <1>9 DEF Loses
  <2>2. ssl[C].sr + Flying(C, ServerHello) + Answering <= ssl[S].sr
    BY DEF Talk, Numbered
  <2> QED
    BY <1>4, <1>6, <2>1, <2>2, Natural
<1>11. \A q \in Traffic(C)' : q \in Traffic(C) /\ Tag(q) # ServerHello
  <2>1. ASSUME NEW q \in Traffic(C)' PROVE q \in Traffic(C) /\ Tag(q) # ServerHello
    <3>1. q \in Traffic(C)
      BY <1>9 DEF Loses
    <3>2. Flying(C, Tag(q))' > 0
      BY <1>0, <1>9, StillPresent DEF Loses
    <3> QED
      BY <1>10, <3>1, <3>2
  <2> QED
    BY <2>1
<1>12. Streams' /\ \A q \in Traffic(S)' : q \in Traffic(S)
  BY <1>0, <1>9 DEF Loses
<1> QED
  BY <1>3, <1>4, <1>6, <1>7, <1>8, <1>10, <1>11, <1>12, Natural DEF m

LEMMA TalkGotServerHello == ASSUME Inv, Order, Talk, ssl3_get_server_hello PROVE Talk'
<1> DEFINE s == ssl[C]
           m == Message(C)
           hit == m.sid # None /\ m.sid = s.sid
           fresh == ~hit /\ s.sid # None
           state == IF hit THEN "CR_FINISHED" ELSE "CR_CERT"
           sid == m.sid
           rnd == m.rnd
           tick == IF fresh THEN None ELSE s.tick
           master == IF fresh THEN None ELSE s.master
           expected == s.ticket_expected \/ m.ticket_ext
           new == [s EXCEPT
             !.state = state, !.hit = hit, !.sid = sid, !.sr = rnd, !.new_cipher = TRUE,
             !.tick = tick, !.master = master, !.ticket_expected = expected]
           t == ssl3_finish_mac(new, m)
<1>0. /\ DOMAIN s = FieldNames /\ C \in Endpoint /\ S \in Endpoint /\ Peer(C) = S /\ C # S
      /\ s.cr \in Nat /\ s.sr \in Nat /\ s.good \in Nat
  BY EndFields, PeerFacts, Natural
<1>1. /\ Become(C, t) /\ conf' = conf /\ s.state = "CR_SRVR_HELLO" /\ m.name = "ServerHello"
  BY DEF ssl3_get_server_hello, Receive, IsNext
<1>3. ClientSide(s) /\ s.mac = <<<<"ClientHello", s.cr>>>> /\ IsSeq(s.mac)
  BY <1>1 DEF Talk, ClientSide, ClientTalk
<1>4. /\ m.rnd = s.cr /\ s.cr = s.sr + 1 /\ m.rnd <= ssl[S].sr /\ ~Abandons(s) /\ NoKeys(s)
      /\ Answering = 0 /\ Flying(C, ServerHello)' = 0
      /\ \A q \in Traffic(C)' : q \in Traffic(C) /\ Tag(q) # ServerHello
      /\ \A q \in Traffic(S)' : q \in Traffic(S)
  BY Answered
<1>51. ssl'[C] = t /\ ssl'[S] = ssl[S]
  BY <1>0, <1>1, Changes
<1>21. rnd = m.rnd /\ state = IF hit THEN "CR_FINISHED" ELSE "CR_CERT"
  OBVIOUS
<1> HIDE DEF m, hit, fresh, state, sid, rnd, tick, master, expected
<1>2. /\ DOMAIN new = FieldNames /\ new.hit = hit
      /\ new.state = state
      /\ new.mac = s.mac /\ new.cr = s.cr /\ new.sr = rnd /\ new.prev = s.prev
      /\ new.good = s.good /\ new.key_block = s.key_block /\ new.ccs = s.ccs
      /\ new.rkey = s.rkey /\ new.wkey = s.wkey
  <2> DEFINE changed == {"state", "hit", "sid", "sr", "new_cipher", "tick", "master", "ticket_expected"}
  <2>0. DOMAIN s = FieldNames
    BY <1>0
  <2> HIDE DEF s
  <2>1. DOMAIN new = FieldNames /\ \A f \in FieldNames \ changed : new[f] = s[f]
    BY <2>0
  <2>2. new.state = state /\ new.hit = hit /\ new.sr = rnd
    BY <2>0 DEF FieldNames
  <2> HIDE DEF new
  <2> QED
    BY <2>1, <2>2 DEF FieldNames
<1>6. /\ IsSeq(t.mac) /\ Len(t.mac) = 2 /\ t.mac[1] = <<"ClientHello", s.cr>>
      /\ t.mac[2] = <<"ServerHello", s.cr>>
      /\ \A n : Has(t.mac, n) <=> n = "ClientHello" \/ n = "ServerHello"
  <2>1. t.mac = Append(s.mac, <<m.name, m.rnd>>)
    <3> HIDE DEF new
    <3> QED
      BY <1>2 DEF ssl3_finish_mac, FieldNames
  <2> HIDE DEF t
  <2>2. t.mac = Append(<<<<"ClientHello", s.cr>>>>, <<"ServerHello", s.cr>>)
    BY <1>1, <1>3, <1>4, <2>1
  <2>3. /\ IsSeq(t.mac) /\ Len(t.mac) = 2 /\ t.mac[1] = <<"ClientHello", s.cr>>
        /\ t.mac[2] = <<"ServerHello", s.cr>>
        /\ \A n : Has(t.mac, n) <=> <<"ClientHello", s.cr>>[1] = n \/ <<"ServerHello", s.cr>>[1] = n
    BY <2>2, NewTranscript
  <2> QED
    BY <2>3
<1> HIDE DEF new
<1>7. Told(t, new, m)
  BY <1>2, <1>3, Hashed
<1> HIDE DEF t
<1>8. /\ t.state = (IF hit THEN "CR_FINISHED" ELSE "CR_CERT") /\ t.hit = hit
      /\ t.cr = s.cr /\ t.sr = s.cr
      /\ t.prev = s.prev /\ t.good = s.good /\ t.key_block = s.key_block /\ t.ccs = s.ccs
      /\ t.rkey = s.rkey /\ t.wkey = s.wkey
  <2>1. \A f \in FieldNames \ {"mac"} : t[f] = new[f]
    BY <1>7 DEF Told
  <2>2. /\ t.state = new.state /\ t.hit = new.hit /\ t.cr = new.cr /\ t.sr = new.sr
        /\ t.prev = new.prev /\ t.good = new.good /\ t.rkey = new.rkey /\ t.wkey = new.wkey
        /\ t.key_block = new.key_block /\ t.ccs = new.ccs
    BY <2>1, SameFields
  <2> QED
    BY <1>2, <1>21, <1>4, <2>2
<1>9. /\ Begins(t.mac, t) /\ ~Has(t.mac, Exchange) /\ ~Has(t.mac, Ticket)
      /\ hit => Tells(t.mac, t)
  <2>1. Begins(t.mac, t) /\ ~Has(t.mac, Exchange) /\ ~Has(t.mac, Ticket)
    BY <1>6, <1>8 DEF Begins, Exchange, Ticket
  <2> QED
    BY <1>8, <2>1 DEF Tells
<1>11. ClientNumbers(t)
  <2>1. s.wkey # None => s.wkey[3] \in 0 .. s.sr
    BY <1>3 DEF ClientSide, ClientNumbers
  <2>2. s.cr = s.good + 1
    BY <1>1, <1>3, <1>4 DEF ClientSide, ClientNumbers
  <2> QED
    BY <1>0, <1>4, <1>8, <2>1, <2>2 DEF ClientNumbers, ClientEarly, NoKeys
<1>12. ClientRun(t)
  <2>1. s.wkey # None => s.wkey[3] < s.cr
    BY <1>0, <1>3, <1>4 DEF ClientSide, ClientNumbers
  <2> QED
    BY <1>4, <1>8, <2>1 DEF ClientRun, ClientEarly, ClientSent, ClientFlight, NoKeys
<1>13. ClientTalk(t)
  BY <1>4, <1>6, <1>8, <1>9 DEF ClientTalk, ClientEarly, ClientSent, NoKeys
<1>14. ClientTold(t)
  BY <1>1, <1>3, <1>8 DEF ClientSide, ClientTold, ClientEarly, ClientSent, ClientFlight
<1>15. ClientSide(ssl[C])' /\ ServerSide(ssl[S])'
  BY <1>1, <1>11, <1>12, <1>13, <1>14, <1>51, OtherSide DEF ClientSide
<1>16. Numbered'
  <2>1. Answering' = 0
    BY <1>4, <1>51 DEF Answering
  <2> QED
    BY <1>0, <1>4, <1>8, <1>51, <2>1, Natural DEF Talk, Numbered
<1>17. Keyed'
  <2>1. \A q \in Traffic(C)' : FromServer(q)'
    BY <1>4, <1>51 DEF Talk, Keyed, FromServer
  <2>2. ASSUME NEW q \in Traffic(S)' PROVE FromClient(q)'
    <3>1. FromClient(q)
      BY <1>4 DEF Talk, Keyed
    <3>2. q.key[3] \in 0 .. s.sr - 1 => q.key[3] \in 0 .. s.cr - 1
      BY <1>0, <1>4
    <3> QED
      BY <1>1, <1>8, <1>51, <3>1, <3>2 DEF FromClient
  <2> QED
    BY <2>1, <2>2 DEF Keyed
<1>18. Bound'
  <2>1. \A d : OfServer(d) => OfServer(d)'
    BY <1>51 DEF OfServer
  <2>2. \A d : OfClient(d) => OfClient(d)'
    BY <1>8, <1>51 DEF OfClient
  <2>3. /\ (ssl[S].prev[C] # None => OfClient(ssl[S].prev[C]))'
        /\ (ssl[C].prev[S] # None => OfServer(ssl[C].prev[S]))'
    BY <1>8, <1>51, <2>1, <2>2 DEF Talk, Bound, OfClient, OfServer
  <2> QED
    BY <1>4, <2>1, <2>2, <2>3 DEF Talk, Bound
<1> QED
  BY <1>15, <1>16, <1>17, <1>18 DEF Talk

\* The ClientHello a server reads is newer than any before, and the only one
\* there is.
LEMMA Asked ==
  ASSUME Inv, Talk, ssl3_get_client_hello
  PROVE  /\ Message(S).rnd \in Nat /\ Message(S).rnd > ssl[S].cr
         /\ Streams' /\ Flying(S, Hello)' = 0
         /\ Flying(C, ServerHello)' = Flying(C, ServerHello)
         /\ \A q \in Traffic(S)' : q \in Traffic(S) /\ Tag(q) # Hello
         /\ \A q \in Traffic(C)' : q \in Traffic(C)
<1> DEFINE m == Message(S)
<1>0. C \in Endpoint /\ S \in Endpoint /\ Peer(S) = C /\ C # S
  BY PeerFacts
<1>1. /\ Arrives(S, "handshake") /\ m.name = "ClientHello" /\ wire[S] # <<>> /\ Take(S) /\ UNCHANGED out
  BY DEF ssl3_get_client_hello, Receive, IsNext, Arrives
<1>2. /\ Head1(S) \in Traffic(S) /\ Tag(Head1(S)) = Hello /\ Head1(S).body = m
  BY <1>0, <1>1, HeadTraffic DEF Arrives, Tag, Hello, Message
<1> HIDE DEF m
<1>3. m.rnd > ssl[S].cr /\ m.rnd \in 0 .. ssl[C].cr
  BY <1>2 DEF Inv, Hellos, Talk, Numbered
<1>4. ssl[C].cr = ssl[C].sr \/ ssl[C].cr = ssl[C].sr + 1
  BY DEF Talk, ClientSide, ClientNumbers
<1>5. Loses(S, Head1(S))
  BY <1>0, <1>1, TakeLoses DEF Inv
<1>6. Flying(S, Hello)' = 0
  <2>1. Flying(S, Hello) = Flying(S, Hello)' + 1 /\ Flying(S, Hello)' \in Nat
    BY <1>2, <1>5 DEF Loses
  <2>2. ssl[S].sr + Flying(S, Hello) <= ssl[C].cr /\ ssl[C].sr <= ssl[S].sr
    BY DEF Inv, Hellos
  <2> QED
    BY <1>4, <2>1, <2>2, Natural
<1>7. \A q \in Traffic(S)' : q \in Traffic(S) /\ Tag(q) # Hello
  <2>1. ASSUME NEW q \in Traffic(S)' PROVE q \in Traffic(S) /\ Tag(q) # Hello
    <3>1. q \in Traffic(S)
      BY <1>5 DEF Loses
    <3>2. Flying(S, Tag(q))' > 0
      BY <1>0, <1>5, StillPresent DEF Loses
    <3> QED
      BY <1>6, <3>1, <3>2
  <2> QED
    BY <2>1
<1>8. /\ Streams' /\ \A q \in Traffic(C)' : q \in Traffic(C)
      /\ Flying(C, ServerHello)' = Flying(C, ServerHello)
  BY <1>0, <1>5 DEF Loses
<1>9. m.rnd \in Nat
  BY <1>3, Natural
<1> QED
  BY <1>3, <1>6, <1>7, <1>8, <1>9 DEF m

LEMMA TalkGotClientHello == ASSUME Inv, Talk, ssl3_get_client_hello PROVE Talk'
<1> DEFINE s == ssl[S]
           m == Message(S)
           hit == Resumes(m)
           sr == s.sr + 1
           rnd == m.rnd
           expected == TicketExpected(m)
           sid == IF hit THEN m.sid ELSE IF expected THEN None ELSE <<"new", sr>>
           master == IF hit THEN OldMaster ELSE None
           new == [s EXCEPT
             !.state = "SW_SRVR_HELLO", !.new_session = 2, !.shutdown = {}, !.hit = hit,
             !.cr = rnd, !.sr = sr, !.new_cipher = TRUE, !.ticket_expected = expected,
             !.sid = sid, !.master = master, !.peer = FALSE]
           t == ssl3_finish_mac(new, m)
<1>0. /\ DOMAIN s = FieldNames /\ C \in Endpoint /\ S \in Endpoint /\ Peer(S) = C /\ C # S
      /\ s.cr \in Nat /\ s.sr \in Nat /\ s.good \in Nat
  BY EndFields, PeerFacts, Natural
<1>1. Become(S, t) /\ conf' = conf /\ s.state = "SR_CLNT_HELLO" /\ m.name = "ClientHello"
  BY DEF ssl3_get_client_hello, Receive, IsNext
<1>3. ServerSide(s) /\ s.mac = <<>> /\ IsSeq(s.mac)
  BY <1>1 DEF Talk, ServerSide, ServerTalk
<1>4. /\ rnd \in Nat /\ rnd > s.cr /\ rnd = m.rnd /\ sr = s.sr + 1
      /\ Flying(C, ServerHello)' = Flying(C, ServerHello)
      /\ \A q \in Traffic(S)' : q \in Traffic(S) /\ Tag(q) # Hello
      /\ \A q \in Traffic(C)' : q \in Traffic(C)
  BY Asked
<1>51. ssl'[S] = t /\ ssl'[C] = ssl[C]
  BY <1>0, <1>1, Changes
<1> HIDE DEF m, hit, sr, rnd, expected, sid, master
<1>2. /\ DOMAIN new = FieldNames /\ new.state = "SW_SRVR_HELLO" /\ new.new_session = 2
      /\ new.mac = s.mac /\ new.cr = rnd /\ new.sr = sr /\ new.prev = s.prev
      /\ new.new_cipher = TRUE /\ new.peer = FALSE
      /\ new.good = s.good /\ new.key_block = s.key_block /\ new.ccs = s.ccs
      /\ new.rkey = s.rkey /\ new.wkey = s.wkey
  <2> DEFINE changed == {"state", "new_session", "shutdown", "hit", "cr", "sr", "new_cipher",
                         "ticket_expected", "sid", "master", "peer"}
  <2>0. DOMAIN s = FieldNames
    BY <1>0
  <2> HIDE DEF s
  <2>1. DOMAIN new = FieldNames /\ \A f \in FieldNames \ changed : new[f] = s[f]
    <3>1. DOMAIN new = DOMAIN s
      OBVIOUS
    <3>2. \A f \in DOMAIN s \ changed : new[f] = s[f]
      OBVIOUS
    <3> QED
      BY <2>0, <3>1, <3>2
  <2>2. /\ new.state = "SW_SRVR_HELLO" /\ new.new_session = 2 /\ new.cr = rnd /\ new.sr = sr
        /\ new.new_cipher = TRUE /\ new.peer = FALSE
    BY <2>0 DEF FieldNames
  <2> HIDE DEF new
  <2> QED
    BY <2>1, <2>2 DEF FieldNames
<1>6. t.mac = <<<<"ClientHello", rnd>>>> /\ IsSeq(t.mac)
  <2>1. t.mac = Append(s.mac, <<m.name, m.rnd>>)
    <3> HIDE DEF new
    <3> QED
      BY <1>2 DEF ssl3_finish_mac, FieldNames
  <2> HIDE DEF t
  <2> QED
    BY <1>1, <1>3, <1>4, <2>1, NewTranscript
<1> HIDE DEF new
<1>7. Told(t, new, m)
  BY <1>2, <1>3, Hashed
<1> HIDE DEF t
<1>8. /\ t.state = "SW_SRVR_HELLO" /\ t.new_session = 2 /\ t.cr = rnd /\ t.sr = s.sr + 1
      /\ t.new_cipher = TRUE /\ t.peer = FALSE
      /\ t.prev = s.prev /\ t.good = s.good /\ t.key_block = s.key_block /\ t.ccs = s.ccs
      /\ t.rkey = s.rkey /\ t.wkey = s.wkey
  <2>1. \A f \in FieldNames \ {"mac"} : t[f] = new[f]
    BY <1>7 DEF Told
  <2>2. /\ t.state = new.state /\ t.cr = new.cr /\ t.sr = new.sr
        /\ t.prev = new.prev /\ t.good = new.good /\ t.rkey = new.rkey /\ t.wkey = new.wkey
        /\ t.key_block = new.key_block /\ t.ccs = new.ccs /\ t.peer = new.peer
        /\ t.new_session = new.new_session /\ t.new_cipher = new.new_cipher
    BY <2>1, SameFields
  <2> QED
    BY <1>2, <1>4, <2>2
<1>11. ServerNumbers(t)
  <2>1. s.wkey # None => s.wkey[2] \in 0 .. s.cr
    BY <1>3 DEF ServerSide, ServerNumbers
  <2>2. s.sr = s.good
    BY <1>1, <1>3 DEF ServerSide, ServerNumbers, ServerIdle
  <2>3. s.wkey # None => s.wkey[2] \in 0 .. rnd /\ s.wkey[2] < rnd
    BY <1>0, <1>4, <2>1
  <2> QED
    BY <1>0, <1>8, <2>2, <2>3 DEF ServerNumbers, ServerEarly, ServerIdle
<1>12. ServerRun(t) /\ ServerKnows(t)
  BY <1>1, <1>3, <1>8
     DEF ServerSide, ServerNumbers, ServerRun, ServerKnows, ServerIdle, ServerEarly, Answers,
         Finishes, Unknown, NoKeys
<1>13. ServerTalk(t)
  BY <1>6, <1>8 DEF ServerTalk, ServerEarly, Answers, Finishes
<1>14. ServerTold(t)
  BY <1>0, <1>3, <1>8 DEF ServerSide, ServerTold, ServerEarly, ServerIdle, Answers, Finishes
<1>15. ClientSide(ssl[C])' /\ ServerSide(ssl[S])'
  <2>1. ServerSide(t)
    BY <1>11, <1>12, <1>13, <1>14 DEF ServerSide
  <2> QED
    BY <1>1, <1>51, <2>1, OtherSide
<1>16. Numbered'
  <2>1. Answering = 0 /\ Answering' = 1
    BY <1>1, <1>8, <1>51 DEF Answering
  <2>2. ssl[C].sr + Flying(C, ServerHello) + 0 <= s.sr /\ s.sr <= s.cr
    BY <2>1 DEF Talk, Numbered
  <2>3. ssl'[C].sr + Flying(C, ServerHello)' + Answering' <= ssl'[S].sr
    BY <1>0, <1>4, <1>8, <1>51, <2>1, <2>2, Natural
  <2>4. ssl'[S].sr <= ssl'[S].cr
    BY <1>0, <1>4, <1>8, <1>51, <2>2
  <2>5. \A q \in Traffic(C)' : Tag(q) = ServerHello => q.body.rnd > ssl'[C].sr
    BY <1>4, <1>51 DEF Talk, Numbered
  <2> QED
    BY <1>4, <2>3, <2>4, <2>5 DEF Numbered
<1>17. Keyed'
  <2>1. \A q \in Traffic(S)' : FromClient(q)'
    BY <1>1, <1>4, <1>51 DEF Talk, Keyed, FromClient
  <2>2. ASSUME NEW q \in Traffic(C)' PROVE FromServer(q)'
    <3>1. FromServer(q)
      BY <1>4 DEF Talk, Keyed
    <3>2. q.key[2] \in 0 .. s.cr - 1 => q.key[2] \in 0 .. rnd - 1
      BY <1>0, <1>4
    <3> QED
      BY <1>8, <1>51, <3>1, <3>2 DEF FromServer
  <2> QED
    BY <2>1, <2>2 DEF Keyed
<1>18. Bound'
  <2>1. \A d : OfServer(d) => OfServer(d)'
    BY <1>0, <1>8, <1>51 DEF OfServer
  <2>2. \A d : OfClient(d) => OfClient(d)'
    BY <1>51 DEF OfClient
  <2>3. /\ (ssl[S].prev[C] # None => OfClient(ssl[S].prev[C]))'
        /\ (ssl[C].prev[S] # None => OfServer(ssl[C].prev[S]))'
    BY <1>8, <1>51, <2>1, <2>2 DEF Talk, Bound, OfClient, OfServer
  <2> QED
    BY <1>4, <2>1, <2>2, <2>3 DEF Talk, Bound
<1> QED
  BY <1>15, <1>16, <1>17, <1>18 DEF Talk

-----------------------------------------------------------------------------
(* Every step, and what follows.                                           *)

LEMMA TalkHandler == ASSUME Inv, Order, Talk, NEW e \in Endpoint, Handler(e) PROVE Talk'
<1>1. ASSUME ClientHandler PROVE Talk'
  BY <1>1, TalkClient, TalkGotServerHello, TalkServerDone DEF ClientHandler
<1>2. ASSUME ServerHandler PROVE Talk'
  BY <1>2, TalkServer, TalkGotClientHello, TalkExchanged DEF ServerHandler
<1>3. ASSUME ssl3_get_finished(e) \/ read_change_cipher_spec(e) PROVE Talk'
  BY <1>3, TalkGotFinishedC, TalkGotFinishedS, TalkReadChangeC, TalkReadChangeS, PeerFacts
<1> QED
  BY <1>1, <1>2, <1>3, TalkData, TalkAlerts DEF Handler

LEMMA TalkStep == ASSUME Inv, Order, Talk, NEW e \in Endpoint, Step(e) PROVE Talk'
<1>1. ASSUME ClientStep PROVE Talk'
  BY <1>1, TalkClient, TalkStarts, TalkClientHello, TalkExchange, TalkClientFinished DEF ClientStep
<1>2. ASSUME ServerStep PROVE Talk'
  BY <1>2, TalkServer, TalkStarts, TalkServerHello, TalkTicket, TalkServerFinished DEF ServerStep
<1> QED
  BY <1>1, <1>2, TalkChanges, TalkFlush, TalkDone DEF Step

LEMMA Talk_Next == ASSUME Inv, Order, Talk, [Next]_vars PROVE Talk'
<1>1. ASSUME NEW e \in Endpoint, Library(e) PROVE Talk'
  BY <1>1, TalkHandler, TalkStep, TalkFlush, TalkAlerts DEF Library
<1>2. ASSUME NEW e \in Endpoint, Application(e) PROVE Talk'
  BY <1>2, TalkData, TalkAlerts DEF Application
<1>3. ASSUME UNCHANGED vars PROVE Talk'
  <2>1. ssl' = ssl /\ conf' = conf /\ UNCHANGED <<wire, out>> /\ C \in Endpoint
    BY <1>3, PeerFacts DEF vars
  <2> QED
    BY <2>1, TalkStays
<1> QED
  BY <1>1, <1>2, <1>3 DEF Next

LEMMA Talk_Init == ASSUME Init PROVE Talk
<1>1. /\ ssl[C] = Offered(conf) /\ ssl[S] = Fresh
      /\ \A e \in Endpoint : Traffic(e) = {}
      /\ \A e \in Endpoint : \A t : Flying(e, t) = 0
  BY PeerFacts, EmptyFacts DEF Init, Traffic, Flying
<1>2. /\ ssl[C].state = "BEFORE" /\ ssl[C].cr = 0 /\ ssl[C].sr = 0 /\ ssl[C].good = 0
      /\ ssl[C].key_block = None /\ ~ssl[C].ccs /\ ssl[C].wkey = None /\ ssl[C].mac = None
      /\ ssl[C].prev = [e \in Endpoint |-> None]
  BY <1>1 DEF Offered, Fresh
<1>3. /\ ssl[S].state = "BEFORE" /\ ssl[S].cr = 0 /\ ssl[S].sr = 0 /\ ssl[S].good = 0
      /\ ssl[S].key_block = None /\ ~ssl[S].ccs /\ ssl[S].wkey = None /\ ssl[S].mac = None
      /\ ssl[S].prev = [e \in Endpoint |-> None] /\ ssl[S].new_session = 0
      /\ ~ssl[S].new_cipher /\ ~ssl[S].peer
  BY <1>1 DEF Fresh
<1>4. IsSeq(None) /\ None = <<>>
  BY EmptyFacts DEF None
<1>5. ClientSide(ssl[C])
  <2>1. ClientNumbers(ssl[C]) /\ ClientRun(ssl[C])
    BY <1>2 DEF ClientNumbers, ClientRun, ClientEarly, ClientSent, ClientFlight, NoKeys
  <2>2. ClientTalk(ssl[C]) /\ ClientTold(ssl[C])
    BY <1>2, <1>4, PeerFacts DEF ClientTalk, ClientTold, ClientEarly, ClientSent, ClientFlight
  <2> QED
    BY <2>1, <2>2 DEF ClientSide
<1>6. ServerSide(ssl[S])
  <2>1. ServerNumbers(ssl[S]) /\ ServerRun(ssl[S]) /\ ServerKnows(ssl[S])
    BY <1>3 DEF ServerNumbers, ServerRun, ServerKnows, ServerEarly, ServerIdle, Answers, Finishes,
               Unknown, NoKeys
  <2>2. ServerTalk(ssl[S]) /\ ServerTold(ssl[S])
    BY <1>3, <1>4, PeerFacts DEF ServerTalk, ServerTold, ServerEarly, ServerIdle, Answers, Finishes
  <2> QED
    BY <2>1, <2>2 DEF ServerSide
<1>7. Numbered
  BY <1>1, <1>2, <1>3, PeerFacts DEF Numbered, Answering
<1>8. Keyed /\ Bound
  BY <1>1, <1>2, <1>3, PeerFacts DEF Keyed, Bound
<1> QED
  BY <1>5, <1>6, <1>7, <1>8 DEF Talk

LEMMA TalkAgreement == ASSUME Inv, Talk PROVE Agreement
<1> DEFINE c == ssl[C]
           s == ssl[S]
<1> SUFFICES ASSUME c.state = "OK", s.state = "OK", c.good = s.good
             PROVE  /\ c.master = s.master /\ c.hit = s.hit /\ c.prev = s.prev
                    /\ c.rkey = s.wkey /\ s.rkey = c.wkey
                    /\ c.rkey # None => c.rkey = <<c.master, c.cr, c.sr>>
                    /\ s.peer <=> /\ s.good > 0 /\ ~s.hit
                                  /\ conf.auth = "cert" /\ conf.kx # "anon"
  BY PeerFacts DEF Agreement
<1>1. ClientSide(c) /\ ServerSide(s)
  BY DEF Talk
<1>2. c.cr = c.good /\ c.sr = c.cr
  BY <1>1 DEF ClientSide, ClientNumbers
<1>3. s.sr = s.good /\ s.sr > 0
  BY <1>1 DEF ServerSide, ServerNumbers, ServerIdle
<1>4. s.sr <= s.cr /\ s.cr <= c.cr
  BY DEF Inv, Hellos, Talk, Numbered
<1>5. s.cr = c.cr /\ s.sr = c.sr
  BY <1>2, <1>3, <1>4, Natural
<1>6. /\ Names(c.prev[C], C, c) /\ Names(c.prev[S], S, c) /\ c.rkey = Secret(c)
      /\ c.prev = [x \in Endpoint |-> c.prev[x]]
  BY <1>1 DEF ClientSide, ClientTold, ClientRun
<1>7. /\ Names(s.prev[C], C, s) /\ Names(s.prev[S], S, s) /\ s.rkey = Secret(s)
      /\ s.prev = [x \in Endpoint |-> s.prev[x]]
  BY <1>1, <1>3 DEF ServerSide, ServerTold, ServerNumbers, ServerIdle
<1>8. /\ c.rkey = c.wkey /\ s.rkey = s.wkey /\ c.hit \in BOOLEAN /\ s.hit \in BOOLEAN
  BY DEF Inv, Ends, GoodClient, GoodServer, Typed, Keys, Settled, Vouched
<1>9. ASSUME NEW md, NEW x, NEW u, Names(md, x, u)
      PROVE  md # None /\ HelloOf(md) = u.cr /\ AnswerOf(md) = u.sr
  <2>1. md = <<x, u.master, md[3]>> /\ Begins(md[3], u)
    BY <1>9 DEF Names, Tells
  <2>2. md # None
    BY <2>1 DEF None
  <2> QED
    BY <2>1, <2>2 DEF Begins, HelloOf, AnswerOf
<1>10. s.prev[C] = c.prev[C]
  BY <1>5, <1>7, <1>9 DEF Talk, Bound, OfClient
<1>11. c.prev[S] = s.prev[S]
  BY <1>5, <1>6, <1>9 DEF Talk, Bound, OfServer
<1>12. c.prev = s.prev
  BY <1>6, <1>7, <1>10, <1>11, PeerFacts
<1>13. c.master = s.master /\ (c.hit <=> s.hit)
  <2> DEFINE d == c.prev[C]
  <2>1. d = <<C, c.master, d[3]>> /\ d = <<C, s.master, d[3]>>
    BY <1>6, <1>7, <1>10 DEF Names
  <2>2. (Has(d[3], Exchange) <=> ~c.hit) /\ (Has(d[3], Exchange) <=> ~s.hit)
    BY <1>6, <1>7, <1>10 DEF Names, Tells
  <2> HIDE DEF d
  <2>3. c.master = s.master
    BY <2>1
  <2> QED
    BY <2>2, <2>3
<1>14. s.peer <=> ~s.hit /\ conf.auth = "cert" /\ conf.kx # "anon"
  BY <1>1, <1>3 DEF ServerSide, ServerKnows, Unknown, Known, Answers, ServerEarly
<1> HIDE DEF c, s
<1>15. c.hit = s.hit
  BY <1>8, <1>13
<1>16. Secret(c) = <<c.master, c.cr, c.sr>> /\ Secret(s) = Secret(c)
  BY <1>5, <1>13 DEF Secret
<1> QED
  BY <1>3, <1>6, <1>7, <1>8, <1>12, <1>13, <1>14, <1>15, <1>16

\* The transcripts, randoms, keys and Finished messages of both ends and of the
\* records between them are those of one handshake (Agreement needs it).
THEOREM Talking == Spec => []Talk
<1>1. Init => Talk
  BY Talk_Init
<1>2. Inv /\ Order /\ Talk /\ [Next]_vars => Talk'
  BY Talk_Next
<1> QED
  BY <1>1, <1>2, Invariant, Ordered, PTL DEF Spec

\* Ends at rest after as many handshakes have the same session, resumed for both
\* or for neither, the same two Finished messages, and the keys of that session in
\* both directions; and the server has the client's certificate exactly when
\* ssl3_accept asked for one in a full handshake and the client has one.
THEOREM Agreed == Spec => []Agreement
<1>1. Inv /\ Talk => Agreement
  BY TalkAgreement
<1> QED
  BY <1>1, Invariant, Talking, PTL

-----------------------------------------------------------------------------
(* The theorems.                                                           *)

LEMMA InvTypeOK == ASSUME Inv PROVE TypeOK
<1>1. /\ ssl[C].total <= 2 * MaxRenego /\ ssl[C].cr <= ssl[C].total + 1
      /\ ssl[S].total <= MaxRenego /\ ssl[C].good <= ssl[C].cr /\ ssl[S].good <= ssl[S].sr
  <2>1. ClientCounts(ssl[C]) /\ ServerCounts(ssl[S]) /\ ssl[C].good \in Nat /\ ssl[S].good \in Nat
    BY DEF Inv, Ends, GoodClient, GoodServer, Typed
  <2> QED
    BY <2>1, Numerals DEF ClientCounts, ServerCounts
<1>2. ssl[C].good \in Nat /\ ssl[S].good \in Nat
  BY DEF Inv, Ends, GoodClient, GoodServer, Typed
<1>3. \A e \in Endpoint : {ssl[e].cr, ssl[e].sr, ssl[e].total, ssl[e].good} \subseteq Numbers
  <2>1. {ssl[C].cr, ssl[C].sr, ssl[C].total, ssl[C].good} \subseteq Numbers
    BY <1>1, <1>2, Numerals DEF Numbers
  <2>2. {ssl[S].cr, ssl[S].sr, ssl[S].total, ssl[S].good} \subseteq Numbers
    BY <1>1, <1>2, Numerals DEF Numbers
  <2> QED
    BY <2>1, <2>2, PeerFacts
<1>4. \A e \in Endpoint : Typed(ssl[e])
  BY PeerFacts DEF Inv, Ends, GoodClient, GoodServer
<1>5. ASSUME NEW e \in Endpoint
      PROVE  /\ sent[e] \in 0 .. MaxData /\ got[e] \in 0 .. sent[Peer(e)]
  <2>1. /\ sent[e] \in 0 .. MaxData /\ sent[Peer(e)] \in 0 .. MaxData /\ got[e] \in Nat
        /\ got[e] + Flying(e, App) <= sent[Peer(e)] /\ Flying(e, App) \in Nat
    BY FlyingFacts, PeerFacts DEF Inv, Counted
  <2> QED
    BY <2>1, ConfigAssumption
<1>6. ASSUME NEW e \in Endpoint
      PROVE  /\ \A i \in DOMAIN wire[e] : wire[e][i].type \in RecordTypes
             /\ \A i \in DOMAIN out[e] : out[e][i].type \in RecordTypes
  <2>1. \A i \in DOMAIN wire[e] : wire[e][i] \in Traffic(e)
    BY DEF Traffic, Elements
  <2>2. \A i \in DOMAIN out[e] : out[e][i] \in Traffic(Peer(e))
    BY PeerFacts DEF Traffic, Elements
  <2> QED
    BY <2>1, <2>2, PeerFacts DEF Inv, Records
<1>7. conf \in Configs
  BY DEF Inv
<1>8. ASSUME NEW e \in Endpoint
      PROVE  /\ ssl[e].state \in States /\ ssl[e].next \in States
             /\ {ssl[e].buffered, ssl[e].hit, ssl[e].ticket_expected, ssl[e].renegotiate,
                 ssl[e].new_cipher, ssl[e].peer, ssl[e].ccs, ssl[e].failed, ssl[e].shut}
                  \subseteq BOOLEAN
             /\ {ssl[e].cert_req, ssl[e].new_session} \subseteq 0 .. 2
             /\ ssl[e].shutdown \subseteq {"sent", "received"}
  BY <1>4 DEF Typed
<1> QED
  BY <1>3, <1>5, <1>6, <1>7, <1>8 DEF TypeOK

\* Every field and every record of a connection has its type, and the counters
\* stay within what the renegotiations asked for account for: the client's
\* hellos within its own and the server's requests.
THEOREM TypeCorrect == Spec => []TypeOK
<1>1. Inv => TypeOK
  BY InvTypeOK
<1> QED
  BY <1>1, Invariant, PTL

LEMMA ReadVouched ==
  ASSUME Inv, Order, NEW e \in Endpoint, SSL_read(e)
  PROVE  Vouched(ssl[e])
<1>1. ~ssl[e].ccs
  BY DEF SSL_read, Arrives
<1>2. CASE Reading(e)
  BY <1>2, PeerFacts DEF Reading, Inv, Ends, GoodClient, GoodServer, Keys, Settled
<1>3. CASE e = C /\ ssl[C].state = "CR_SRVR_HELLO" /\ ssl[C].total # 0
  <2>1. Head1(C) \in Traffic(C) /\ Head1(C).type = "app" /\ Head1(C).key = ssl[C].rkey
    BY <1>3, HeadTraffic DEF SSL_read, Arrives
  <2>2. ssl[C].prev[S] # None
    BY <1>1, <1>3, <2>1 DEF Order, Sealed, ClientFirst
  <2> QED
    BY <1>1, <1>3, <2>2 DEF Inv, Ends, GoodClient, ClientWindow
<1> QED
  BY <1>2, <1>3 DEF SSL_read

LEMMA WriteSettled ==
  ASSUME Inv, NEW e \in Endpoint, SSL_write(e)
  PROVE  Settled(ssl[e]) \/ (e = C /\ conf.cut /\ ssl[C].good = 0)
<1>1. CASE ssl[e].state = "OK"
  BY <1>1, PeerFacts DEF Inv, Ends, GoodClient, GoodServer, Keys
<1>2. CASE cutthrough_complete(e)
  BY <1>2 DEF cutthrough_complete, Inv, Ends, GoodClient, Typed, ClientKeys
<1> QED
  BY <1>1, <1>2 DEF SSL_write, SSL_in_init

\* SSL_read returns data only under keys that a verified Finished has vouched
\* for, also when a renegotiation has begun and the ServerHello has not come;
\* SSL_write sends under such keys but for the first flight of a client in
\* SSL_MODE_HANDSHAKE_CUTTHROUGH.
THEOREM Protected == Spec => DataAfterFinished
<1>1. ASSUME Inv, Order, [Next]_vars
      PROVE  \A e \in Endpoint :
               /\ got'[e] # got[e] => ssl[e].rkey # None /\ ssl[e].rkey = ssl[e].vkey
               /\ sent'[e] # sent[e] =>
                    \/ ssl[e].wkey # None /\ ssl[e].wkey = ssl[e].vkey
                    \/ e = C /\ conf.cut /\ ssl[C].good = 0
  <2>1. Quiet \/ Restarts \/ \E e \in Endpoint : SSL_read(e) \/ SSL_write(e)
    BY <1>1, Steps
  <2>3. CASE Quiet \/ Restarts
    <3>1. got' = got /\ sent' = sent
      BY <2>3
         DEF Quiet, Restarts, ssl3_client_hello, ssl3_send_hello_request,
             ssl3_get_client_hello, Send, Receive
    <3> QED
      BY <3>1
  <2>4. ASSUME NEW e \in Endpoint, SSL_read(e)
        PROVE  /\ sent' = sent
               /\ \A x \in Endpoint : got'[x] # got[x] => ssl[x].rkey # None /\ ssl[x].rkey = ssl[x].vkey
    BY <1>1, <2>4, QuietData, ReadVouched DEF Vouched
  <2>5. ASSUME NEW e \in Endpoint, SSL_write(e)
        PROVE  /\ got' = got
               /\ \A x \in Endpoint : sent'[x] # sent[x] =>
                    \/ ssl[x].wkey # None /\ ssl[x].wkey = ssl[x].vkey
                    \/ x = C /\ conf.cut /\ ssl[C].good = 0
    <3>1. (ssl[e].wkey # None /\ ssl[e].wkey = ssl[e].vkey) \/ (e = C /\ conf.cut /\ ssl[C].good = 0)
      BY <1>1, <2>5, WriteSettled DEF Settled, Vouched
    <3> QED
      BY <1>1, <2>5, <3>1, QuietData
  <2> QED
    BY <2>1, <2>3, <2>4, <2>5
<1> QED
  BY <1>1, Invariant, Ordered, PTL DEF Spec, DataAfterFinished

\* An end that has sent close_notify has sent it for good: no handshake begins
\* that would clear the flag, where the applications keep closing and
\* renegotiating apart.
THEOREM Final ==
  ASSUME \A c \in Configs : Apart(c)
  PROVE  Spec => CloseIsFinal
<1>1. ASSUME Inv, [Next]_vars
      PROVE  \A e \in Endpoint : "sent" \in ssl[e].shutdown => "sent" \in ssl'[e].shutdown
  <2>1. Quiet \/ Restarts \/ \E e \in Endpoint : SSL_read(e) \/ SSL_write(e)
    BY <1>1, Steps
  <2>2. Apart(conf)
    BY <1>1 DEF Inv
  <2>3. CASE Quiet
    BY <2>3 DEF Quiet
  <2>4. CASE \E e \in Endpoint : SSL_read(e) \/ SSL_write(e)
    BY <1>1, <2>4, QuietData
  <2>5. CASE ssl3_client_hello
    <3>1. "sent" \notin ssl[C].shutdown
      BY <1>1, <2>2, <2>5
         DEF ssl3_client_hello, Inv, Ends, GoodClient, ClientCalls, Apart
    <3>2. ssl'[S] = ssl[S]
      BY <1>1, <2>5 DEF ssl3_client_hello, Send, Become, Inv, Ends
    <3> QED
      BY <3>1, <3>2, PeerFacts
  <2>6. CASE ssl3_send_hello_request \/ ssl3_get_client_hello
    <3>1. "sent" \notin ssl[S].shutdown
      BY <1>1, <2>2, <2>6
         DEF ssl3_send_hello_request, ssl3_get_client_hello, Inv, Ends, GoodServer,
             ServerCalls
    <3>2. ssl'[C] = ssl[C]
      <4>1. \E new : Become(S, new)
        BY <2>6 DEF ssl3_send_hello_request, ssl3_get_client_hello, Receive
      <4> QED
        BY <1>1, <4>1 DEF Become, Inv, Ends
    <3> QED
      BY <3>1, <3>2, PeerFacts
  <2> QED
    BY <2>1, <2>3, <2>4, <2>5, <2>6 DEF Restarts
<1> QED
  BY <1>1, Invariant, PTL DEF Spec, CloseIsFinal

\* When SSL_shutdown returns 1 both ends have sent close_notify and the caller
\* has read the other's.
THEOREM Complete ==
  ASSUME \A c \in Configs : Apart(c) /\ NoHurry(c)
  PROVE  Spec => []ShutdownComplete
<1>1. Inv => ShutdownComplete
  BY DEF Inv, Closed, ShutdownComplete
<1> QED
  BY <1>1, Invariant, PTL

LEMMA DataIsCount == ASSUME NEW q PROVE Data(q) = Count(q, App)
<1>1. {i \in DOMAIN q : q[i].type = "app"} = {i \in DOMAIN q : Tag(q[i]) = App}
  BY DEF Tag, App
<1> QED
  BY <1>1 DEF Data, Count

\* What one application has written the other has read or still can: neither
\* the buffering BIO nor a change of keys loses a record of data.
THEOREM NothingLost ==
  ASSUME \A c \in Configs : Apart(c)
  PROVE  Spec => []NoDataLost
<1>1. ASSUME Inv PROVE NoDataLost
  <2>1. Apart(conf)
    BY <1>1 DEF Inv
  <2>2. ASSUME NEW e \in Endpoint, "sent" \notin ssl[e].shutdown
        PROVE  got[e] + Data(wire[e]) + Data(out[Peer(e)]) = sent[Peer(e)]
    <3>1. got[e] + (Data(wire[e]) + Data(out[Peer(e)])) = sent[Peer(e)] /\ got[e] \in Nat
      BY <1>1, <2>1, <2>2, DataIsCount DEF Inv, Counted, Flying
    <3>2. Data(wire[e]) \in Nat /\ Data(out[Peer(e)]) \in Nat
      BY <1>1, DataIsCount, FlyingFacts, PeerFacts DEF Inv
    <3> QED
      BY <3>1, <3>2
  <2> QED
    BY <2>2 DEF NoDataLost
<1> QED
  BY <1>1, Invariant, PTL

-----------------------------------------------------------------------------
(* What the theorems assume.                                               *)

\* Applications that renegotiate and shut down outside handshakes only, and not
\* against each other, and no ticket renewed in a resumption, which the client
\* of this library does not expect.
Calm(k) ==
  /\ k.calls \subseteq Endpoint \X {"renegotiate", "shutdown", "shutdown_in_init"}
  /\ Apart(k) /\ k.offer # "renew"

-----------------------------------------------------------------------------
(* Where the ends are.  In the definitions and lemmas k is a configuration, *)
(* c the client, s the server, p the records on the way to the client and  *)
(* q those on the way to the server, so that no lemma is about a step.     *)

\* The records on the way to e, in the order they will be read.
Line(e) == wire[e] \o out[Peer(e)]

\* The records of a handshake are numbered in the order of the protocol, in each
\* direction by itself; z is the number of what is sent at rest.
ToClient(r, z) ==
  IF r.type = "ccs" THEN 8
  ELSE IF r.type # "handshake" THEN z
  ELSE IF r.body.name = "ServerHello" THEN 1 ELSE IF r.body.name = "Certificate" THEN 2
  ELSE IF r.body.name = "CertificateStatus" THEN 3
  ELSE IF r.body.name = "ServerKeyExchange" THEN 4
  ELSE IF r.body.name = "CertificateRequest" THEN 5
  ELSE IF r.body.name = "ServerHelloDone" THEN 6
  ELSE IF r.body.name = "NewSessionTicket" THEN 7
  ELSE IF r.body.name = "Finished" THEN 9 ELSE z
ToServer(r) ==
  IF r.type = "ccs" THEN 5
  ELSE IF r.type # "handshake" THEN 7
  ELSE IF r.body.name = "Certificate" THEN 2 ELSE IF r.body.name = "ClientKeyExchange" THEN 3
  ELSE IF r.body.name = "CertificateVerify" THEN 4 ELSE IF r.body.name = "Finished" THEN 6
  ELSE IF r.body.name = "ClientHello" THEN 8 ELSE 7
Rank(e, r, z) == IF e = C THEN ToClient(r, z) ELSE ToServer(r)

\* The client takes data of before the handshake while it waits for the
\* ServerHello, and those of after it then.
Idle(c) == IF c.state = "CR_SRVR_HELLO" THEN 0 ELSE 10

\* Which numbers there are in the handshake the server is in.
Certified(k) == k.kx # "anon"
Requested(k) == k.auth # "no" /\ k.kx # "anon"
Proven(k) == k.auth = "cert" /\ k.kx # "anon"
ServerSends(k, s) ==
  {n \in 1 .. 9 :
     \/ n \in {1, 8, 9}
     \/ /\ ~s.hit
        /\ \/ n = 6 \/ (n = 2 /\ Certified(k)) \/ (n = 3 /\ Certified(k) /\ k.status)
           \/ (n = 4 /\ k.kx # "rsa") \/ (n = 5 /\ Requested(k)) \/ (n = 7 /\ s.ticket_expected)}
ClientSends(k, s) ==
  {n \in 1 .. 8 :
     \/ n \in {5, 6, 8}
     \/ ~s.hit /\ (n = 3 \/ (n = 2 /\ Requested(k)) \/ (n = 4 /\ Proven(k)))}

\* The client waits for a server that has not read its ClientHello.
Waiting(c, s) == c.state = "CR_SRVR_HELLO" /\ s.cr # c.cr

\* The least number an end may still read.
ClientReadsFrom(c) ==
  IF c.state = "CR_SRVR_HELLO" THEN 0
  ELSE IF c.state = "CR_CERT" THEN 2 ELSE IF c.state = "CR_CERT_STATUS" THEN 3
  ELSE IF c.state = "CR_KEY_EXCH" THEN 4 ELSE IF c.state = "CR_CERT_REQ" THEN 5
  ELSE IF c.state = "CR_SRVR_DONE" THEN 6
  ELSE IF c.state \in {"CW_CERT", "CW_KEY_EXCH", "CW_CERT_VRFY", "CUTTHROUGH_COMPLETE",
                       "CR_SESSION_TICKET"} THEN 7
  ELSE IF c.state \in {"CW_CHANGE", "CW_FINISHED", "CW_FLUSH"} /\ ~c.hit THEN 7
  ELSE IF c.state = "CR_FINISHED" THEN IF c.ccs THEN 9 ELSE 8
  ELSE 10
ServerReadsFrom(s) ==
  IF s.state = "SW_SRVR_HELLO" THEN IF s.hit THEN 5 ELSE 2
  ELSE IF s.state \in {"SW_CERT", "SW_CERT_STATUS", "SW_KEY_EXCH", "SW_CERT_REQ",
                       "SW_SRVR_DONE", "SR_CERT"} THEN 2
  ELSE IF s.state = "SW_FLUSH"
       THEN IF s.next = "SR_CERT" THEN 2 ELSE IF s.next = "SR_FINISHED" THEN 5 ELSE 7
  ELSE IF s.state = "SR_KEY_EXCH" THEN 3
  ELSE IF s.state = "SR_CERT_VRFY" THEN IF s.ccs THEN 6 ELSE 4
  ELSE IF s.state = "SR_FINISHED" THEN IF s.ccs THEN 6 ELSE 5
  ELSE IF s.state \in {"SW_SESSION_TICKET", "SW_CHANGE", "SW_FINISHED"} /\ s.hit THEN 5
  ELSE 7

\* The number below which an end has written all of the handshake.
ServerWritesFrom(s) ==
  IF s.state = "SW_SRVR_HELLO" THEN 1
  ELSE IF s.state = "SW_CERT" THEN 2 ELSE IF s.state = "SW_CERT_STATUS" THEN 3
  ELSE IF s.state = "SW_KEY_EXCH" THEN 4 ELSE IF s.state = "SW_CERT_REQ" THEN 5
  ELSE IF s.state = "SW_SRVR_DONE" THEN 6
  ELSE IF s.state = "SW_FLUSH" THEN IF s.next = "SR_CERT" THEN 7 ELSE 11
  ELSE IF s.state \in {"SR_CERT", "SR_KEY_EXCH", "SR_CERT_VRFY", "SW_SESSION_TICKET"} THEN 7
  ELSE IF s.state = "SR_FINISHED" THEN IF s.hit THEN 11 ELSE 7
  ELSE IF s.state = "SW_CHANGE" THEN 8 ELSE IF s.state = "SW_FINISHED" THEN 9
  ELSE 11
ToClientBelow(c, s) == IF Waiting(c, s) THEN 1 ELSE ServerWritesFrom(s)
ToServerBelow(c, s) ==
  IF c.state = "CR_SRVR_HELLO" THEN IF Waiting(c, s) THEN 9 ELSE IF s.hit THEN 5 ELSE 2
  ELSE IF c.state \in {"CR_CERT", "CR_CERT_STATUS", "CR_KEY_EXCH", "CR_CERT_REQ",
                       "CR_SRVR_DONE", "CW_CERT"} THEN 2
  ELSE IF c.state = "CW_KEY_EXCH" THEN 3 ELSE IF c.state = "CW_CERT_VRFY" THEN 4
  ELSE IF c.state = "CW_CHANGE" THEN 5 ELSE IF c.state = "CW_FINISHED" THEN 6
  ELSE IF c.state = "CR_FINISHED" /\ c.hit THEN 5
  ELSE 8

-----------------------------------------------------------------------------
(* Queues of numbered records.                                             *)

\* Numbers rise, but for z, which may be repeated.
Rising(e, q, z) ==
  \A i, j \in DOMAIN q : i < j =>
    \/ Rank(e, q[i], z) < Rank(e, q[j], z)
    \/ Rank(e, q[i], z) = z /\ Rank(e, q[j], z) = z

\* A queue of records from lo on and below hi, of those in N or at rest; nothing
\* has been read that was not written.
Queued(e, q, lo, hi, N, z) ==
  /\ IsSeq(q) /\ Rising(e, q, z)
  /\ \A r \in Elements(q) :
       lo <= Rank(e, r, z) /\ Rank(e, r, z) < hi /\ Rank(e, r, z) \in N \cup {z}
  /\ \A n \in N : ~(hi <= n /\ n < lo)

\* None of those in N is missing.
AllThere(e, q, lo, hi, N, z) ==
  \A n \in N : lo <= n /\ n < hi => \E r \in Elements(q) : Rank(e, r, z) = n
Between(lo, n, hi) == lo <= n /\ n < hi

-----------------------------------------------------------------------------
(* What the ends have hashed.                                              *)

AfterHello(a, b) == Append(<<<<"ClientHello", a>>>>, <<"ServerHello", b>>)
Heard(q, on, name) == IF on THEN Append(q, <<name, 0>>) ELSE q
AfterCert(k, a, b) == Heard(AfterHello(a, b), Certified(k), "Certificate")
AfterStatus(k, a, b) ==
  Heard(AfterCert(k, a, b), Certified(k) /\ k.status, "CertificateStatus")
AfterKeys(k, a, b) == Heard(AfterStatus(k, a, b), k.kx # "rsa", "ServerKeyExchange")
AfterRequest(k, a, b) == Heard(AfterKeys(k, a, b), Requested(k), "CertificateRequest")
AfterDone(k, a, b) == Heard(AfterRequest(k, a, b), TRUE, "ServerHelloDone")
AfterClientCert(k, a, b) == Heard(AfterDone(k, a, b), Requested(k), "Certificate")
AfterExchange(k, a, b) == Heard(AfterClientCert(k, a, b), TRUE, "ClientKeyExchange")
AfterVerify(k, a, b) == Heard(AfterExchange(k, a, b), Proven(k), "CertificateVerify")
AfterClient(k, a, b) == Heard(AfterVerify(k, a, b), TRUE, "Finished")
AfterTicket(k, a, b, t) == Heard(AfterClient(k, a, b), t, "NewSessionTicket")
AfterServer(a, b) == Heard(AfterHello(a, b), TRUE, "Finished")

\* What each Finished covers, in the handshake x is in, and the master secret and
\* the keys of it.
ClientCovers(k, x) == IF x.hit THEN AfterServer(x.cr, x.sr) ELSE AfterVerify(k, x.cr, x.sr)
ServerCovers(k, x) ==
  IF x.hit THEN AfterHello(x.cr, x.sr) ELSE AfterTicket(k, x.cr, x.sr, x.ticket_expected)
Master(x) == IF x.hit THEN OldMaster ELSE <<x.cr, x.sr>>
RunKey(x) == <<Master(x), x.cr, x.sr>>

-----------------------------------------------------------------------------
(* The invariant.                                                          *)

\* The client by its state: what it has hashed and what it will do next.
ClientHeard(k, c) ==
  /\ c.state = "CR_CERT" => c.mac = AfterHello(c.cr, c.sr)
  /\ c.state = "CR_CERT_STATUS" => c.mac = AfterCert(k, c.cr, c.sr) /\ Certified(k) /\ k.status
  /\ c.state = "CR_KEY_EXCH" => c.mac = AfterStatus(k, c.cr, c.sr)
  /\ c.state = "CR_CERT_REQ" => c.mac = AfterKeys(k, c.cr, c.sr)
  /\ c.state = "CR_SRVR_DONE" =>
       c.mac = AfterRequest(k, c.cr, c.sr) /\ c.cert_req = (IF Requested(k) THEN 1 ELSE 0)
  /\ c.state = "CW_CERT" => c.mac = AfterDone(k, c.cr, c.sr) /\ Requested(k) /\ c.cert_req = 1
  /\ c.state = "CW_KEY_EXCH" =>
       c.mac = AfterClientCert(k, c.cr, c.sr) /\ (c.cert_req = 1 <=> Proven(k))
  /\ c.state = "CW_CERT_VRFY" => c.mac = AfterExchange(k, c.cr, c.sr) /\ Proven(k)
  /\ c.state \in {"CW_CHANGE", "CW_FINISHED"} => c.mac = ClientCovers(k, c)
  /\ c.state \in {"CW_FLUSH", "CUTTHROUGH_COMPLETE", "CR_SESSION_TICKET"} /\ ~c.hit
       => c.mac = AfterClient(k, c.cr, c.sr)
  /\ c.state = "CR_FINISHED" => c.mac = ServerCovers(k, c)
ClientWill(k, c) ==
  /\ c.state = "CR_SESSION_TICKET" => c.ticket_expected
  /\ c.state = "CW_FLUSH" /\ c.next = "CR_SESSION_TICKET" => c.ticket_expected
  /\ c.state = "CW_FLUSH" /\ c.next = "CR_FINISHED" => ~c.ticket_expected
  /\ c.state \in {"CW_CERT_VRFY", "CW_CHANGE", "CW_FINISHED", "DONE", "OK"} \cup ClientSent
       => c.master = Master(c)
  /\ c.ccs => c.state = "CR_FINISHED" /\ c.peer_md = <<S, c.master, c.mac>>
  /\ c.state \notin {"BEFORE", "RENEGOTIATE", "CW_CLNT_HELLO", "CR_SRVR_HELLO"} => c.new_cipher
  /\ c.renegotiate => c.good > 0
  /\ "sent" \in c.shutdown => c.state = "OK"
  /\ c.cr = 0 => c.new_session = 0 /\ c.state \in {"BEFORE", "CW_CLNT_HELLO"}
  /\ c.state = "BEFORE" \/ (c.state = "CW_CLNT_HELLO" /\ c.new_session = 0) => c.cr = 0
  /\ \A n \in Nat : n > c.sr => c.sid # <<"new", n>>

\* The server by its state.
ServerHeard(k, s) ==
  /\ s.state = "SW_CERT" => s.mac = AfterHello(s.cr, s.sr)
  /\ s.state = "SW_CERT_STATUS" => s.mac = AfterCert(k, s.cr, s.sr) /\ Certified(k) /\ k.status
  /\ s.state = "SW_KEY_EXCH" => s.mac = AfterStatus(k, s.cr, s.sr)
  /\ s.state = "SW_CERT_REQ" => s.mac = AfterKeys(k, s.cr, s.sr)
  /\ s.state = "SW_SRVR_DONE" => s.mac = AfterRequest(k, s.cr, s.sr)
  /\ s.state = "SR_CERT" \/ (s.state = "SW_FLUSH" /\ s.next = "SR_CERT")
       => s.mac = AfterDone(k, s.cr, s.sr)
  /\ s.state = "SR_KEY_EXCH" => s.mac = AfterClientCert(k, s.cr, s.sr)
  /\ s.state = "SR_CERT_VRFY" => s.mac = AfterExchange(k, s.cr, s.sr)
  /\ s.state = "SR_FINISHED" => s.mac = ClientCovers(k, s)
  /\ s.state = "SW_SESSION_TICKET" => s.mac = AfterClient(k, s.cr, s.sr)
  /\ s.state \in {"SW_CHANGE", "SW_FINISHED"} => s.mac = ServerCovers(k, s)
  /\ s.state = "SW_FLUSH" /\ s.next = "SR_FINISHED" => s.mac = AfterServer(s.cr, s.sr)
ServerWill(k, s) ==
  /\ s.state = "SW_SESSION_TICKET" => s.ticket_expected
  /\ s.state \in {"SR_CERT_VRFY", "SR_FINISHED", "SW_SESSION_TICKET", "SW_CHANGE", "SW_FINISHED"}
     \/ Finishes(s) => s.master = Master(s)
  /\ s.state \in {"SW_SRVR_HELLO", "SW_CERT", "SW_CERT_STATUS", "SW_KEY_EXCH", "SW_CERT_REQ",
                  "SW_SRVR_DONE"} /\ s.hit => s.master = Master(s)
  /\ s.ccs => s.state \in {"SR_CERT_VRFY", "SR_FINISHED"} /\ s.peer_md = <<C, s.master, s.mac>>
  /\ s.state = "SR_CERT_VRFY" /\ s.ccs => ~Proven(k)
  /\ s.hit => ~s.ticket_expected
  /\ s.ticket_expected => k.tickets
  /\ s.cr > 0 => s.new_cipher
  /\ s.state = "BEFORE" => s.cr = 0
  /\ s.sid \in {None, <<"old">>, <<"new", s.sr>>}

\* The ends are in the same handshake, or the server has yet to read the hello.
SameRun(c, s) ==
  /\ c.state # "CR_SRVR_HELLO" =>
       c.cr = s.cr /\ c.sr = s.sr /\ c.hit = s.hit /\ c.ticket_expected = s.ticket_expected
  /\ Waiting(c, s) =>
       /\ c.cr = s.cr + 1 /\ c.sr = s.sr /\ c.ticket_expected = s.ticket_expected
       /\ ServerWritesFrom(s) = 11
  /\ c.state = "CR_SRVR_HELLO" /\ ~Waiting(c, s) =>
       /\ s.sr = c.sr + 1 /\ (c.ticket_expected => s.ticket_expected)
       /\ s.hit <=> (s.sid # None /\ s.sid = c.sid)
       /\ s.hit => c.master = OldMaster

\* Before the server has read the first hello, and before it reads another.
Starting(k, c, s, p, q) ==
  /\ s.cr = 0 =>
       /\ s.new_session = 0 /\ s.state \in {"BEFORE", "SR_CLNT_HELLO"} /\ Elements(p) = {}
       /\ ~s.ticket_expected
       /\ c.sid = Offered(k).sid /\ c.tick = Offered(k).tick
       /\ k.offer # "none" => c.master = OldMaster
  /\ s.state \in {"BEFORE", "ACCEPT", "SR_CLNT_HELLO"} =>
       /\ Waiting(c, s) \/ c.cr = 0
       /\ \A r \in Elements(q) : ToServer(r) = 8
  /\ c.cr = 1 /\ c.state = "CR_SRVR_HELLO" => \A r \in Elements(p) : r.type # "app"

\* A record to the client says what the server knew.
ServerSaid(k, c, s, r) ==
  /\ r.type \in {"handshake", "ccs", "app", "close_notify"}
  /\ r.key = IF ToClient(r, Idle(c)) <= 8 THEN c.rkey ELSE s.wkey
  /\ r.type = "handshake" =>
       /\ r.body.name \in {"HelloRequest", "NewSessionTicket", "Finished"} \cup ServerFlight
       /\ r.body.name # "ServerHello" => r.body.rnd = 0
       /\ r.body.name = "ServerHello" =>
            /\ r.body.rnd = s.sr /\ r.body.ticket_ext = s.ticket_expected
            /\ r.body.ri = c.prev /\ r.body.sid = s.sid
       /\ r.body.name = "Finished" =>
            r.body.md = s.prev[S] /\ r.body.md = <<S, Master(s), ServerCovers(k, s)>>
ClientSaid(k, c, s, r) ==
  /\ r.type \in {"handshake", "ccs", "app", "close_notify"}
  /\ r.key = IF ToServer(r) <= 5 THEN s.rkey ELSE c.wkey
  /\ r.type = "handshake" =>
       /\ r.body.name \in {"ClientHello", "Finished"} \cup ClientFlies
       /\ r.body.name # "ClientHello" => r.body.rnd = 0
       /\ r.body.name = "ClientHello" =>
            /\ r.body.rnd = c.cr /\ r.body.ticket_ext = k.tickets /\ r.body.ri = c.prev[C]
            /\ r.body.scsv <=> c.cr = 1
            /\ r.body.sid = IF c.cr = 1 THEN Offered(k).sid ELSE None
            /\ r.body.tick = IF c.cr = 1 /\ k.tickets THEN Offered(k).tick ELSE None
       /\ r.body.name = "CertificateVerify" => r.body.signed = AfterExchange(k, s.cr, s.sr)
       /\ r.body.name = "Finished" =>
            r.body.md = c.prev[C] /\ r.body.md = <<C, Master(s), ClientCovers(k, s)>>

\* The records on the way to the client.  The keys change with number 8, and
\* the server's Finished is number 9.
ToClientOk(k, c, s, p) ==
  LET lo == ClientReadsFrom(c)
      hi == ToClientBelow(c, s)
  IN /\ Queued(C, p, lo, hi, ServerSends(k, s), Idle(c))
     /\ AllThere(C, p, lo, hi, ServerSends(k, s), Idle(c))
     /\ \A r \in Elements(p) : ServerSaid(k, c, s, r)
     /\ IF Between(lo, 8, hi) THEN s.wkey = RunKey(s) ELSE c.rkey = s.wkey
     /\ Between(lo, 9, hi) \/ c.prev[S] = s.prev[S]

\* The records on the way to the server, with numbers 5 and 6.  A server that has
\* closed throws away what it reads.
ToServerOk(k, c, s, q) ==
  LET lo == ServerReadsFrom(s)
      hi == ToServerBelow(c, s)
  IN /\ Queued(S, q, lo, hi, ClientSends(k, s), 7)
     /\ "sent" \notin s.shutdown => AllThere(S, q, lo, hi, ClientSends(k, s), 7)
     /\ \A r \in Elements(q) : ClientSaid(k, c, s, r)
     /\ IF Between(lo, 5, hi) THEN c.wkey = RunKey(s) ELSE s.rkey = c.wkey
     /\ Between(lo, 6, hi) \/ s.prev[C] = c.prev[C]

Locked(k, c, s, p, q) ==
  /\ ClientHeard(k, c) /\ ClientWill(k, c) /\ ServerHeard(k, s) /\ ServerWill(k, s)
  /\ SameRun(c, s) /\ Starting(k, c, s, p, q)
  /\ ToClientOk(k, c, s, p) /\ ToServerOk(k, c, s, q)

\* A buffer holds something only while a flight is written.
ClientFills == ClientWrites \ {"CW_CLNT_HELLO", "CUTTHROUGH_COMPLETE"}
ServerFills == ServerWrites \ {"ACCEPT"}
Buffers ==
  /\ \A e \in Endpoint : out[e] # <<>> => ssl[e].buffered
  /\ out[C] # <<>> => ssl[C].state \in ClientFills
  /\ out[S] # <<>> => ssl[S].state \in ServerFills
  /\ ssl[C].state = "CW_CLNT_HELLO" => ~ssl[C].buffered
  /\ ssl[S].state = "RENEGOTIATE" => ~ssl[S].buffered

Lockstep == NoAlert /\ Buffers /\ Locked(conf, ssl[C], ssl[S], Line(C), Line(S))

-----------------------------------------------------------------------------
(* Queues.                                                                 *)

LEMMA AppendFacts ==
  ASSUME NEW q, IsSeq(q), NEW r
  PROVE  /\ IsSeq(Append(q, r)) /\ Elements(Append(q, r)) = Elements(q) \cup {r}
         /\ Len(q) \in Nat /\ DOMAIN q = 1 .. Len(q) /\ DOMAIN Append(q, r) = 1 .. Len(q) + 1
         /\ \A i \in 1 .. Len(q) : Append(q, r)[i] = q[i]
         /\ Append(q, r)[Len(q) + 1] = r
<1> DEFINE T == Elements(q) \cup {r}
           p == Append(q, r)
<1>1. q \in Seq(T)
  BY SeqMonotonic DEF IsSeq, T
<1>2. /\ p \in Seq(T) /\ Len(p) = Len(q) + 1 /\ Len(q) \in Nat
      /\ \A i \in 1 .. Len(q) : p[i] = q[i]
      /\ p[Len(q) + 1] = r
      /\ DOMAIN p = 1 .. Len(q) + 1 /\ DOMAIN q = 1 .. Len(q)
  BY <1>1, AppendProperties, LenProperties
<1> HIDE DEF p
<1>3. Elements(p) = T
  <2>1. \A i \in DOMAIN p : p[i] \in T
    BY <1>2 DEF Elements
  <2>2. \A i \in DOMAIN q : i \in DOMAIN p /\ p[i] = q[i]
    BY <1>2
  <2>3. Len(q) + 1 \in DOMAIN p /\ p[Len(q) + 1] = r
    BY <1>2
  <2> QED
    BY <2>1, <2>2, <2>3 DEF Elements
<1>4. IsSeq(p)
  BY <1>2, <1>3 DEF IsSeq
<1> QED
  BY <1>2, <1>3, <1>4 DEF p

LEMMA TailElements ==
  ASSUME NEW q, IsSeq(q), q # <<>>
  PROVE  /\ IsSeq(Tail(q)) /\ Elements(q) = Elements(Tail(q)) \cup {Head(q)}
         /\ Len(q) \in Nat \ {0} /\ DOMAIN q = 1 .. Len(q) /\ DOMAIN Tail(q) = 1 .. Len(q) - 1
         /\ \A i \in 1 .. Len(q) - 1 : Tail(q)[i] = q[i + 1]
         /\ Head(q) = q[1]
<1> DEFINE Q == Elements(q)
           r == Tail(q)
<1>1. /\ Head(q) \in Q /\ r \in Seq(Q) /\ Len(r) = Len(q) - 1
      /\ \A i \in 1 .. Len(r) : r[i] = q[i + 1]
  BY HeadTailProperties DEF IsSeq, Elements
<1>2. Len(q) \in Nat \ {0} /\ DOMAIN q = 1 .. Len(q) /\ DOMAIN r = 1 .. Len(r) /\ q[1] = Head(q)
  BY <1>1, SeqFacts, LenProperties
<1>3. IsSeq(r)
  BY TailFacts
<1> HIDE DEF r
<1>4. \A i \in DOMAIN q : i = 1 \/ (i - 1 \in DOMAIN r /\ q[i] = r[i - 1])
  BY <1>1, <1>2
<1>5. \A i \in DOMAIN r : i + 1 \in DOMAIN q /\ r[i] = q[i + 1]
  BY <1>1, <1>2
<1>6. Elements(q) = Elements(r) \cup {Head(q)}
  <2>1. \A x \in Elements(q) : x \in Elements(r) \/ x = Head(q)
    BY <1>2, <1>4 DEF Elements
  <2>2. \A x \in Elements(r) : x \in Elements(q)
    BY <1>5 DEF Elements
  <2> QED
    BY <1>1, <2>1, <2>2 DEF Q
<1> QED
  BY <1>1, <1>2, <1>3, <1>6 DEF r

LEMMA RankNat ==
  ASSUME NEW e, NEW r, NEW z \in Nat
  PROVE  Rank(e, r, z) \in Nat /\ ToClient(r, z) \in Nat /\ ToServer(r) \in Nat
BY DEF Rank, ToClient, ToServer

LEMMA Empty == ASSUME NEW q, IsSeq(q) PROVE q = <<>> <=> Elements(q) = {}
<1>1. Len(q) \in Nat /\ DOMAIN q = 1 .. Len(q) /\ (q = <<>> <=> Len(q) = 0)
  BY SeqFacts
<1>2. CASE q = <<>>
  BY <1>2, EmptyFacts
<1>3. CASE q # <<>>
  <2>1. 1 \in DOMAIN q
    BY <1>1, <1>3
  <2> QED
    BY <1>3, <2>1 DEF Elements
<1> QED
  BY <1>2, <1>3

\* The queue of an end that reads on or whose peer writes on without a record.
LEMMA Shifted ==
  ASSUME NEW e, NEW q, NEW lo \in Nat, NEW hi \in Nat, NEW N \in SUBSET Nat, NEW z \in Nat,
         Queued(e, q, lo, hi, N, z), NEW lo2 \in Nat, NEW hi2 \in Nat, lo <= lo2, hi <= hi2,
         \A n \in N : ~(lo <= n /\ n < lo2) /\ ~(hi <= n /\ n < hi2),
         ~(lo <= z /\ z < lo2 /\ z < hi)
  PROVE  /\ Queued(e, q, lo2, hi2, N, z)
         /\ AllThere(e, q, lo, hi, N, z) => AllThere(e, q, lo2, hi2, N, z)
<1>1. \A r \in Elements(q) : Rank(e, r, z) \in Nat
  BY RankNat
<1>2. \A r \in Elements(q) :
        lo2 <= Rank(e, r, z) /\ Rank(e, r, z) < hi2 /\ Rank(e, r, z) \in N \cup {z}
  BY <1>1 DEF Queued
<1>3. \A n \in N : ~(hi2 <= n /\ n < lo2)
  BY DEF Queued
<1>4. AllThere(e, q, lo, hi, N, z) => AllThere(e, q, lo2, hi2, N, z)
  BY DEF AllThere
<1> QED
  BY <1>2, <1>3, <1>4 DEF Queued

\* A record is written.
LEMMA Pushed ==
  ASSUME NEW e, NEW q, NEW lo \in Nat, NEW hi \in Nat, NEW N \in SUBSET Nat, NEW z \in Nat,
         Queued(e, q, lo, hi, N, z), NEW r, NEW n, n = Rank(e, r, z), NEW hi2 \in Nat,
         hi <= hi2, lo <= n, n < hi2, n \in N \cup {z}, hi <= n \/ (n = z /\ hi <= z + 1),
         \A x \in N : hi <= x /\ x < hi2 => x = n
  PROVE  /\ Queued(e, Append(q, r), lo, hi2, N, z)
         /\ AllThere(e, q, lo, hi, N, z) => AllThere(e, Append(q, r), lo, hi2, N, z)
<1> DEFINE a == Append(q, r)
           l == Len(q)
<1>1. /\ IsSeq(a) /\ Elements(a) = Elements(q) \cup {r}
      /\ l \in Nat /\ DOMAIN q = 1 .. l /\ DOMAIN a = 1 .. l + 1
      /\ \A i \in 1 .. l : a[i] = q[i]
      /\ a[l + 1] = r
  BY AppendFacts DEF Queued
<1> HIDE DEF a, l
<1>2. \A x \in Elements(q) \cup {r} : Rank(e, x, z) \in Nat
  BY RankNat
<1>3. n \in Nat
  BY <1>2
<1>4. \A x \in Elements(q) : Rank(e, x, z) < n \/ (Rank(e, x, z) = z /\ n = z)
  BY <1>2, <1>3 DEF Queued
<1>5. Rising(e, a, z)
  <2> SUFFICES ASSUME NEW i \in DOMAIN a, NEW j \in DOMAIN a, i < j
               PROVE  \/ Rank(e, a[i], z) < Rank(e, a[j], z)
                      \/ Rank(e, a[i], z) = z /\ Rank(e, a[j], z) = z
    BY DEF Rising
  <2>1. i \in 1 .. l /\ (j \in 1 .. l \/ j = l + 1)
    BY <1>1
  <2>2. CASE j \in 1 .. l
    BY <1>1, <2>1, <2>2 DEF Queued, Rising
  <2>3. CASE j = l + 1
    <3>1. a[i] \in Elements(q) /\ a[j] = r
      BY <1>1, <2>1, <2>3 DEF Elements
    <3> QED
      BY <1>4, <3>1
  <2> QED
    BY <2>1, <2>2, <2>3
<1>6. \A x \in Elements(a) :
        lo <= Rank(e, x, z) /\ Rank(e, x, z) < hi2 /\ Rank(e, x, z) \in N \cup {z}
  BY <1>1, <1>2 DEF Queued
<1>7. \A x \in N : ~(hi2 <= x /\ x < lo)
  BY DEF Queued
<1>8. AllThere(e, q, lo, hi, N, z) => AllThere(e, a, lo, hi2, N, z)
  BY <1>1 DEF AllThere
<1> QED
  BY <1>1, <1>5, <1>6, <1>7, <1>8 DEF Queued, a

\* A record is read.
LEMMA Popped ==
  ASSUME NEW e, NEW q, NEW lo \in Nat, NEW hi \in Nat, NEW N \in SUBSET Nat, NEW z \in Nat,
         Queued(e, q, lo, hi, N, z), q # <<>>, NEW n, n = Rank(e, Head(q), z), NEW lo2 \in Nat,
         lo <= lo2, n = z => lo2 <= z,
         \A x \in N : ~(lo <= x /\ x < lo2 /\ x # n),
         lo <= z /\ z < lo2 => z <= n
  PROVE  /\ Queued(e, Tail(q), lo2, hi, N, z)
         /\ n < lo2 \/ n \notin N =>
              (AllThere(e, q, lo, hi, N, z) => AllThere(e, Tail(q), lo2, hi, N, z))
         /\ \A r \in Elements(Tail(q)) : n < Rank(e, r, z) \/ (n = z /\ Rank(e, r, z) = z)
         /\ n \in Nat /\ lo <= n /\ n < hi /\ n \in N \cup {z}
<1> DEFINE t == Tail(q)
           l == Len(q)
<1>1. /\ IsSeq(t) /\ Elements(q) = Elements(t) \cup {Head(q)}
      /\ l \in Nat \ {0} /\ DOMAIN q = 1 .. l /\ DOMAIN t = 1 .. l - 1
      /\ \A i \in 1 .. l - 1 : t[i] = q[i + 1]
      /\ Head(q) = q[1]
  BY TailElements DEF Queued
<1> HIDE DEF t, l
<1>2. \A x \in Elements(q) : Rank(e, x, z) \in Nat
  BY RankNat
<1>3. n \in Nat /\ lo <= n /\ n < hi /\ n \in N \cup {z}
  BY <1>1, <1>2 DEF Queued
<1>4. \A r \in Elements(t) : n < Rank(e, r, z) \/ (n = z /\ Rank(e, r, z) = z)
  <2> SUFFICES ASSUME NEW r \in Elements(t)
               PROVE  n < Rank(e, r, z) \/ (n = z /\ Rank(e, r, z) = z)
    OBVIOUS
  <2>1. PICK i \in DOMAIN t : r = t[i]
    BY DEF Elements
  <2>2. 1 \in DOMAIN q /\ i + 1 \in DOMAIN q /\ 1 < i + 1 /\ r = q[i + 1]
    BY <1>1, <2>1
  <2> QED
    BY <1>1, <2>2 DEF Queued, Rising
<1>5. Rising(e, t, z)
  <2> SUFFICES ASSUME NEW i \in DOMAIN t, NEW j \in DOMAIN t, i < j
               PROVE  \/ Rank(e, t[i], z) < Rank(e, t[j], z)
                      \/ Rank(e, t[i], z) = z /\ Rank(e, t[j], z) = z
    BY DEF Rising
  <2>1. i + 1 \in DOMAIN q /\ j + 1 \in DOMAIN q /\ i + 1 < j + 1
        /\ t[i] = q[i + 1] /\ t[j] = q[j + 1]
    BY <1>1
  <2> QED
    BY <2>1 DEF Queued, Rising
<1>6. ASSUME NEW x \in Elements(t)
      PROVE  lo2 <= Rank(e, x, z) /\ Rank(e, x, z) < hi /\ Rank(e, x, z) \in N \cup {z}
  <2>1. /\ x \in Elements(q) /\ Rank(e, x, z) \in Nat /\ lo <= Rank(e, x, z)
        /\ Rank(e, x, z) < hi /\ Rank(e, x, z) \in N \cup {z}
    BY <1>1, <1>2 DEF Queued
  <2>2. n < Rank(e, x, z) \/ (n = z /\ Rank(e, x, z) = z)
    BY <1>4
  <2>3. lo2 <= Rank(e, x, z)
    <3>1. CASE Rank(e, x, z) \in N /\ n < Rank(e, x, z)
      BY <1>3, <2>1, <3>1
    <3>2. CASE Rank(e, x, z) = z
      BY <1>3, <2>1, <2>2, <3>2
    <3> QED
      BY <2>1, <2>2, <3>1, <3>2
  <2> QED
    BY <2>1, <2>3
<1>7. \A x \in N : ~(hi <= x /\ x < lo2)
  BY <1>3 DEF Queued
<1>8. ASSUME n < lo2 \/ n \notin N, AllThere(e, q, lo, hi, N, z)
      PROVE  AllThere(e, t, lo2, hi, N, z)
  <2> SUFFICES ASSUME NEW x \in N, lo2 <= x, x < hi
               PROVE  \E r \in Elements(t) : Rank(e, r, z) = x
    BY DEF AllThere
  <2>1. PICK r \in Elements(q) : Rank(e, r, z) = x
    BY <1>8 DEF AllThere
  <2>2. x # n
    BY <1>3, <1>8
  <2> QED
    BY <1>1, <2>1, <2>2
<1> QED
  BY <1>1, <1>3, <1>4, <1>5, <1>6, <1>7, <1>8 DEF Queued, t

\* The record at the head is the first that must be there.
LEMMA First ==
  ASSUME NEW e, NEW q, NEW lo \in Nat, NEW hi \in Nat, NEW N \in SUBSET Nat, NEW z \in Nat,
         Queued(e, q, lo, hi, N, z), AllThere(e, q, lo, hi, N, z), q # <<>>,
         NEW x \in N, lo <= x, x < hi
  PROVE  Rank(e, Head(q), z) <= x
<1>1. PICK r \in Elements(q) : Rank(e, r, z) = x
  BY DEF AllThere
<1>2. PICK i \in DOMAIN q : r = q[i]
  BY DEF Elements
<1>3. Len(q) \in Nat \ {0} /\ DOMAIN q = 1 .. Len(q) /\ Head(q) = q[1]
  BY TailElements DEF Queued
<1>4. i = 1 \/ (1 \in DOMAIN q /\ 1 < i)
  BY <1>2, <1>3
<1>5. Rank(e, Head(q), z) \in Nat
  BY RankNat
<1> QED
  BY <1>1, <1>2, <1>3, <1>4, <1>5 DEF Queued, Rising

=============================================================================
