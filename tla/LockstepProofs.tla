---------------------------- MODULE LockstepProofs ----------------------------
(***************************************************************************)
(* That the ends of Handshake keep in step: each takes every record the    *)
(* other sends, and they never wait for each other.  From that, that a     *)
(* connection is the channel of SecureChannel.                             *)
(***************************************************************************)
EXTENDS HandshakeProofs

USE DEF C, S

-----------------------------------------------------------------------------
(* The records on the way while an end goes on.                            *)

LEMMA Tables ==
  ASSUME NEW k, NEW c, NEW s
  PROVE  /\ ClientReadsFrom(c) \in 0 .. 10 /\ ServerReadsFrom(s) \in 2 .. 7
         /\ ServerWritesFrom(s) \in 1 .. 9 \cup {11}
         /\ ToClientBelow(c, s) \in 1 .. 9 \cup {11} /\ ToServerBelow(c, s) \in 2 .. 9
         /\ Idle(c) \in {0, 10}
         /\ ServerSends(k, s) \in SUBSET (1 .. 9) /\ ClientSends(k, s) \in SUBSET ((1 .. 8) \ {7})
         /\ {1, 8, 9} \subseteq ServerSends(k, s) /\ {5, 6, 8} \subseteq ClientSends(k, s)
<1>1. ClientReadsFrom(c) \in 0 .. 10
  BY DEF ClientReadsFrom
<1>2. ServerReadsFrom(s) \in 2 .. 7
  BY DEF ServerReadsFrom
<1>3. ServerWritesFrom(s) \in 1 .. 9 \cup {11}
  BY DEF ServerWritesFrom
<1>4. ToClientBelow(c, s) \in 1 .. 9 \cup {11}
  BY <1>3 DEF ToClientBelow
<1>5. ToServerBelow(c, s) \in 2 .. 9
  BY DEF ToServerBelow
<1>6. /\ ServerSends(k, s) \in SUBSET (1 .. 9) /\ ClientSends(k, s) \in SUBSET ((1 .. 8) \ {7})
      /\ {1, 8, 9} \subseteq ServerSends(k, s) /\ {5, 6, 8} \subseteq ClientSends(k, s)
  BY DEF ServerSends, ClientSends
<1> QED
  BY <1>1, <1>2, <1>3, <1>4, <1>5, <1>6 DEF Idle

LEMMA Figures ==
  ASSUME NEW k, NEW c, NEW s
  PROVE  /\ ClientReadsFrom(c) \in Nat /\ ServerReadsFrom(s) \in Nat /\ Idle(c) \in Nat
         /\ ToClientBelow(c, s) \in Nat /\ ToServerBelow(c, s) \in Nat
         /\ ServerSends(k, s) \in SUBSET Nat /\ ClientSends(k, s) \in SUBSET Nat
         /\ 8 \in ServerSends(k, s) /\ 9 \in ServerSends(k, s)
         /\ 5 \in ClientSends(k, s) /\ 6 \in ClientSends(k, s) /\ 7 \notin ClientSends(k, s)
<1>1. ServerSends(k, s) \in SUBSET Nat /\ ClientSends(k, s) \in SUBSET Nat
  <2>1. 1 .. 9 \subseteq Nat /\ (1 .. 8) \ {7} \subseteq Nat
    OBVIOUS
  <2>2. ServerSends(k, s) \subseteq 1 .. 9 /\ ClientSends(k, s) \subseteq (1 .. 8) \ {7}
    BY Tables, Zenon
  <2> QED
    BY <2>1, <2>2, Zenon
<1>2. 7 \notin ClientSends(k, s)
  BY Tables
<1>3. 8 \in ServerSends(k, s) /\ 9 \in ServerSends(k, s)
  BY Tables
<1>4. 5 \in ClientSends(k, s) /\ 6 \in ClientSends(k, s)
  BY Tables
<1>5. ClientReadsFrom(c) \in Nat /\ ServerReadsFrom(s) \in Nat /\ Idle(c) \in Nat
  BY Tables
<1>6. ToClientBelow(c, s) \in Nat /\ ToServerBelow(c, s) \in Nat
  BY Tables
<1> QED
  BY <1>1, <1>2, <1>3, <1>4, <1>5, <1>6

\* The fields the records on the way are about.
SameClient(c, t) ==
  /\ t.rkey = c.rkey /\ t.wkey = c.wkey /\ t.prev = c.prev
  /\ t.cr = c.cr /\ t.sr = c.sr /\ t.hit = c.hit /\ t.ticket_expected = c.ticket_expected
  /\ t.state = "CR_SRVR_HELLO" <=> c.state = "CR_SRVR_HELLO"
SameServer(s, t) ==
  /\ t.rkey = s.rkey /\ t.wkey = s.wkey /\ t.prev = s.prev
  /\ t.cr = s.cr /\ t.sr = s.sr /\ t.hit = s.hit /\ t.ticket_expected = s.ticket_expected
  /\ t.sid = s.sid

LEMMA SameSays ==
  ASSUME NEW k, NEW c, NEW c2, SameClient(c, c2), NEW s, NEW s2, SameServer(s, s2), NEW r
  PROVE  /\ ServerSaid(k, c, s, r) => ServerSaid(k, c2, s2, r)
         /\ ClientSaid(k, c, s, r) => ClientSaid(k, c2, s2, r)
         /\ Idle(c2) = Idle(c) /\ Waiting(c2, s2) = Waiting(c, s)
         /\ ServerSends(k, s2) = ServerSends(k, s) /\ ClientSends(k, s2) = ClientSends(k, s)
         /\ RunKey(s2) = RunKey(s) /\ RunKey(c2) = RunKey(c) /\ Master(s2) = Master(s)
<1>1. Idle(c2) = Idle(c) /\ Waiting(c2, s2) = Waiting(c, s)
  BY DEF SameClient, SameServer, Idle, Waiting
<1>2. /\ Master(s2) = Master(s) /\ RunKey(s2) = RunKey(s) /\ RunKey(c2) = RunKey(c)
      /\ ServerCovers(k, s2) = ServerCovers(k, s) /\ ClientCovers(k, s2) = ClientCovers(k, s)
  BY DEF SameServer, SameClient, Master, RunKey, ServerCovers, ClientCovers
<1>3. ServerSends(k, s2) = ServerSends(k, s) /\ ClientSends(k, s2) = ClientSends(k, s)
  BY DEF SameServer, ServerSends, ClientSends
<1>4. ServerSaid(k, c, s, r) => ServerSaid(k, c2, s2, r)
  BY <1>1, <1>2 DEF SameServer, SameClient, ServerSaid
<1>5. ClientSaid(k, c, s, r) => ClientSaid(k, c2, s2, r)
  BY <1>2 DEF SameServer, SameClient, ClientSaid
<1> QED
  BY <1>1, <1>2, <1>3, <1>4, <1>5

\* From lo to lo2, and from hi to hi2, there is nothing.
Gap(N, lo, lo2) == lo <= lo2 /\ \A n \in N : ~(lo <= n /\ n < lo2)

LEMMA ToClientStays ==
  ASSUME NEW k, NEW c, NEW c2, SameClient(c, c2), NEW s, NEW s2, SameServer(s, s2), NEW p,
         ToClientOk(k, c, s, p),
         Gap(ServerSends(k, s) \cup {Idle(c)}, ClientReadsFrom(c), ClientReadsFrom(c2)),
         Gap(ServerSends(k, s), ToClientBelow(c, s), ToClientBelow(c2, s2))
  PROVE  ToClientOk(k, c2, s2, p)
<1> DEFINE lo == ClientReadsFrom(c)
           lo2 == ClientReadsFrom(c2)
           hi == ToClientBelow(c, s)
           hi2 == ToClientBelow(c2, s2)
           N == ServerSends(k, s)
           z == Idle(c)
<1>1. /\ lo \in Nat /\ lo2 \in Nat /\ hi \in Nat /\ hi2 \in Nat /\ z \in Nat /\ N \in SUBSET Nat
      /\ 8 \in N /\ 9 \in N
  BY Figures
<1>2. Idle(c2) = z /\ ServerSends(k, s2) = N /\ RunKey(s2) = RunKey(s)
  BY SameSays
<1>3. Queued(C, p, lo, hi, N, z) /\ AllThere(C, p, lo, hi, N, z)
  BY DEF ToClientOk
<1>4. /\ lo <= lo2 /\ hi <= hi2 /\ \A n \in N : ~(lo <= n /\ n < lo2) /\ ~(hi <= n /\ n < hi2)
      /\ ~(lo <= z /\ z < lo2)
  BY DEF Gap
<1>5. \A r \in Elements(p) : ServerSaid(k, c2, s2, r)
  BY SameSays DEF ToClientOk
<1> HIDE DEF lo, lo2, hi, hi2, N, z
<1>6. Queued(C, p, lo2, hi2, N, z) /\ AllThere(C, p, lo2, hi2, N, z)
  BY <1>1, <1>3, <1>4, Shifted
<1>7. Between(lo, 8, hi) = Between(lo2, 8, hi2) /\ Between(lo, 9, hi) = Between(lo2, 9, hi2)
  BY <1>1, <1>4 DEF Between
<1>8. /\ IF Between(lo, 8, hi) THEN s.wkey = RunKey(s) ELSE c.rkey = s.wkey
      /\ Between(lo, 9, hi) \/ c.prev[S] = s.prev[S]
  BY DEF ToClientOk, lo, hi
<1> QED
  BY <1>2, <1>5, <1>6, <1>7, <1>8 DEF ToClientOk, lo2, hi2, N, z, SameClient, SameServer

LEMMA ToServerStays ==
  ASSUME NEW k, NEW c, NEW c2, SameClient(c, c2), NEW s, NEW s2, SameServer(s, s2), NEW q,
         ToServerOk(k, c, s, q), "sent" \in s.shutdown => "sent" \in s2.shutdown,
         Gap(ClientSends(k, s) \cup {7}, ServerReadsFrom(s), ServerReadsFrom(s2)),
         Gap(ClientSends(k, s), ToServerBelow(c, s), ToServerBelow(c2, s2))
  PROVE  ToServerOk(k, c2, s2, q)
<1> DEFINE lo == ServerReadsFrom(s)
           lo2 == ServerReadsFrom(s2)
           hi == ToServerBelow(c, s)
           hi2 == ToServerBelow(c2, s2)
           N == ClientSends(k, s)
<1>1. /\ lo \in Nat /\ lo2 \in Nat /\ hi \in Nat /\ hi2 \in Nat /\ N \in SUBSET Nat
      /\ 5 \in N /\ 6 \in N
  BY Figures
<1>2. ClientSends(k, s2) = N /\ RunKey(s2) = RunKey(s)
  BY SameSays
<1>3. Queued(S, q, lo, hi, N, 7) /\ ("sent" \notin s.shutdown => AllThere(S, q, lo, hi, N, 7))
  BY DEF ToServerOk
<1>4. /\ lo <= lo2 /\ hi <= hi2 /\ \A n \in N : ~(lo <= n /\ n < lo2) /\ ~(hi <= n /\ n < hi2)
      /\ ~(lo <= 7 /\ 7 < lo2)
  BY DEF Gap
<1>5. \A r \in Elements(q) : ClientSaid(k, c2, s2, r)
  BY SameSays DEF ToServerOk
<1> HIDE DEF lo, lo2, hi, hi2, N
<1>6. /\ Queued(S, q, lo2, hi2, N, 7)
      /\ "sent" \notin s2.shutdown => AllThere(S, q, lo2, hi2, N, 7)
  BY <1>1, <1>3, <1>4, Shifted
<1>7. Between(lo, 5, hi) = Between(lo2, 5, hi2) /\ Between(lo, 6, hi) = Between(lo2, 6, hi2)
  BY <1>1, <1>4 DEF Between
<1>8. /\ IF Between(lo, 5, hi) THEN c.wkey = RunKey(s) ELSE s.rkey = c.wkey
      /\ Between(lo, 6, hi) \/ s.prev[C] = c.prev[C]
  BY DEF ToServerOk, lo, hi
<1> QED
  BY <1>2, <1>5, <1>6, <1>7, <1>8 DEF ToServerOk, lo2, hi2, N, SameClient, SameServer

\* The end that reads takes the record numbered n, and reads on from lo2.
Skips(N, z, lo, n, lo2) ==
  /\ lo <= lo2 /\ \A x \in N \cup {z} : ~(lo <= x /\ x < lo2 /\ x # n)
  /\ n = z => lo2 <= z
  /\ n < lo2 \/ n \notin N

LEMMA ToClientTaken ==
  ASSUME NEW k, NEW c, NEW c2, SameClient(c, c2), NEW s, NEW p, p # <<>>, ToClientOk(k, c, s, p),
         NEW n, n = ToClient(Head(p), Idle(c)),
         Skips(ServerSends(k, s), Idle(c), ClientReadsFrom(c), n, ClientReadsFrom(c2)),
         n \notin {8, 9}
  PROVE  ToClientOk(k, c2, s, Tail(p)) /\ Elements(Tail(p)) \subseteq Elements(p)
<1> DEFINE lo == ClientReadsFrom(c)
           lo2 == ClientReadsFrom(c2)
           hi == ToClientBelow(c, s)
           N == ServerSends(k, s)
           z == Idle(c)
<1>1. /\ lo \in Nat /\ lo2 \in Nat /\ hi \in Nat /\ z \in Nat /\ N \in SUBSET Nat
      /\ 8 \in N /\ 9 \in N
  BY Figures
<1>2. SameServer(s, s)
  BY DEF SameServer
<1>3. Idle(c2) = z /\ ToClientBelow(c2, s) = hi
  BY <1>2, SameSays DEF ToClientBelow
<1>4. Queued(C, p, lo, hi, N, z) /\ AllThere(C, p, lo, hi, N, z) /\ n = Rank(C, Head(p), z)
  BY DEF ToClientOk, Rank
<1>5. Skips(N, z, lo, n, lo2)
  OBVIOUS
<1>6. Elements(Tail(p)) \subseteq Elements(p)
  BY TailElements DEF ToClientOk, Queued
<1>7. \A r \in Elements(Tail(p)) : ServerSaid(k, c2, s, r)
  BY <1>2, <1>6, SameSays DEF ToClientOk
<1>8. /\ IF Between(lo, 8, hi) THEN s.wkey = RunKey(s) ELSE c.rkey = s.wkey
      /\ Between(lo, 9, hi) \/ c.prev[S] = s.prev[S]
  BY DEF ToClientOk
<1> HIDE DEF lo, lo2, hi, N, z
<1>9. /\ lo <= lo2 /\ (n = z => lo2 <= z) /\ (n < lo2 \/ n \notin N)
      /\ \A x \in N : ~(lo <= x /\ x < lo2 /\ x # n)
      /\ lo <= z /\ z < lo2 => z <= n
  <2>1. n \in Nat
    BY <1>1, <1>4, RankNat
  <2> QED
    BY <1>1, <1>5, <2>1 DEF Skips
<1>10. Queued(C, Tail(p), lo2, hi, N, z) /\ AllThere(C, Tail(p), lo2, hi, N, z)
  BY <1>1, <1>4, <1>9, Popped
<1>11. Between(lo, 8, hi) = Between(lo2, 8, hi) /\ Between(lo, 9, hi) = Between(lo2, 9, hi)
  BY <1>1, <1>9 DEF Between
<1> QED
  BY <1>3, <1>6, <1>7, <1>8, <1>10, <1>11 DEF ToClientOk, lo2, hi, N, z, SameClient

LEMMA ToServerTaken ==
  ASSUME NEW k, NEW c, NEW s, NEW s2, SameServer(s, s2), NEW q, q # <<>>, ToServerOk(k, c, s, q),
         NEW n, n = ToServer(Head(q)), "sent" \in s.shutdown => "sent" \in s2.shutdown,
         "sent" \notin s2.shutdown => n < ServerReadsFrom(s2) \/ n = 7,
         ServerReadsFrom(s) <= ServerReadsFrom(s2), n = 7 => ServerReadsFrom(s2) <= 7,
         \A x \in ClientSends(k, s) \cup {7} :
           ~(ServerReadsFrom(s) <= x /\ x < ServerReadsFrom(s2) /\ x # n),
         n \notin {5, 6}
  PROVE  ToServerOk(k, c, s2, Tail(q)) /\ Elements(Tail(q)) \subseteq Elements(q)
<1> DEFINE lo == ServerReadsFrom(s)
           lo2 == ServerReadsFrom(s2)
           hi == ToServerBelow(c, s)
           N == ClientSends(k, s)
<1>1. /\ lo \in Nat /\ lo2 \in Nat /\ hi \in Nat /\ N \in SUBSET Nat 
      /\ 5 \in N /\ 6 \in N /\ 7 \notin N
  BY Figures
<1>2. SameClient(c, c)
  BY DEF SameClient
<1>3. ToServerBelow(c, s2) = hi /\ ClientSends(k, s2) = N /\ RunKey(s2) = RunKey(s)
  BY <1>2, SameSays DEF ToServerBelow, SameServer
<1>4. /\ Queued(S, q, lo, hi, N, 7) /\ ("sent" \notin s2.shutdown => AllThere(S, q, lo, hi, N, 7))
      /\ n = Rank(S, Head(q), 7)
  BY DEF ToServerOk, Rank
<1>5. /\ lo <= lo2 /\ (n = 7 => lo2 <= 7) /\ ("sent" \notin s2.shutdown => n < lo2 \/ n = 7)
      /\ \A x \in N \cup {7} : ~(lo <= x /\ x < lo2 /\ x # n)
  OBVIOUS
<1>6. Elements(Tail(q)) \subseteq Elements(q)
  BY TailElements DEF ToServerOk, Queued
<1>7. \A r \in Elements(Tail(q)) : ClientSaid(k, c, s2, r)
  BY <1>2, <1>6, SameSays DEF ToServerOk
<1>8. /\ IF Between(lo, 5, hi) THEN c.wkey = RunKey(s) ELSE s.rkey = c.wkey
      /\ Between(lo, 6, hi) \/ s.prev[C] = c.prev[C]
  BY DEF ToServerOk
<1> HIDE DEF lo, lo2, hi, N
<1>9. n \in Nat
  BY <1>1, <1>4, RankNat
<1>10. /\ Queued(S, Tail(q), lo2, hi, N, 7)
       /\ n < lo2 \/ n \notin N =>
            (AllThere(S, q, lo, hi, N, 7) => AllThere(S, Tail(q), lo2, hi, N, 7))
  <2>1. /\ \A x \in N : ~(lo <= x /\ x < lo2 /\ x # n)
        /\ lo <= 7 /\ 7 < lo2 => 7 <= n
    BY <1>5, <1>9
  <2> QED
    BY <1>1, <1>4, <1>5, <2>1, Popped
<1>11. "sent" \notin s2.shutdown => AllThere(S, Tail(q), lo2, hi, N, 7)
  BY <1>1, <1>4, <1>5, <1>10
<1>12. Between(lo, 5, hi) = Between(lo2, 5, hi) /\ Between(lo, 6, hi) = Between(lo2, 6, hi)
  BY <1>1, <1>5 DEF Between
<1> QED
  BY <1>3, <1>6, <1>7, <1>8, <1>10, <1>11, <1>12 DEF ToServerOk, lo2, hi, N, SameServer

\* The end that writes adds the record numbered n, and goes on to hi2.
Follows(N, z, hi, n, hi2) ==
  /\ hi <= hi2 /\ n < hi2 /\ n \in N \cup {z}
  /\ hi <= n \/ (n = z /\ hi <= z + 1)
  /\ \A x \in N : hi <= x /\ x < hi2 => x = n

LEMMA ToClientGiven ==
  ASSUME NEW k, NEW c, NEW s, NEW s2, SameServer(s, s2), NEW p, ToClientOk(k, c, s, p), NEW r,
         NEW n, n = ToClient(r, Idle(c)), ServerSaid(k, c, s2, r), n \notin {8, 9},
         Follows(ServerSends(k, s), Idle(c), ToClientBelow(c, s), n, ToClientBelow(c, s2))
  PROVE  ToClientOk(k, c, s2, Append(p, r)) /\ Elements(Append(p, r)) = Elements(p) \cup {r}
<1> DEFINE lo == ClientReadsFrom(c)
           hi == ToClientBelow(c, s)
           hi2 == ToClientBelow(c, s2)
           N == ServerSends(k, s)
           z == Idle(c)
<1>1. /\ lo \in Nat /\ hi \in Nat /\ hi2 \in Nat /\ z \in Nat /\ N \in SUBSET Nat
      /\ 8 \in N /\ 9 \in N
  BY Figures
<1>2. SameClient(c, c)
  BY DEF SameClient
<1>3. ServerSends(k, s2) = N /\ RunKey(s2) = RunKey(s)
  BY <1>2, SameSays
<1>4. Queued(C, p, lo, hi, N, z) /\ AllThere(C, p, lo, hi, N, z) /\ n = Rank(C, r, z)
  BY DEF ToClientOk, Rank
<1>5. Follows(N, z, hi, n, hi2)
  OBVIOUS
<1>6. Elements(Append(p, r)) = Elements(p) \cup {r}
  BY <1>4, AppendFacts DEF Queued
<1>7. \A x \in Elements(Append(p, r)) : ServerSaid(k, c, s2, x)
  BY <1>2, <1>6, SameSays DEF ToClientOk
<1>8. /\ IF Between(lo, 8, hi) THEN s.wkey = RunKey(s) ELSE c.rkey = s.wkey
      /\ Between(lo, 9, hi) \/ c.prev[S] = s.prev[S]
  BY DEF ToClientOk
<1>9. lo <= z
  BY DEF ClientReadsFrom, Idle
<1> HIDE DEF lo, hi, hi2, N, z
<1>10. n \in Nat /\ lo <= n
  <2>1. n \in Nat
    BY <1>1, <1>4, RankNat
  <2> QED
    BY <1>1, <1>4, <1>5, <1>9, <2>1 DEF Follows, Queued
<1>11. Queued(C, Append(p, r), lo, hi2, N, z) /\ AllThere(C, Append(p, r), lo, hi2, N, z)
  BY <1>1, <1>4, <1>5, <1>10, Pushed DEF Follows
<1>12. Between(lo, 8, hi) = Between(lo, 8, hi2) /\ Between(lo, 9, hi) = Between(lo, 9, hi2)
  BY <1>1, <1>5, <1>10 DEF Between, Follows
<1> QED
  BY <1>3, <1>6, <1>7, <1>8, <1>11, <1>12 DEF ToClientOk, lo, hi2, N, z, SameServer

LEMMA ToServerGiven ==
  ASSUME NEW k, NEW c, NEW c2, SameClient(c, c2), NEW s, NEW q, ToServerOk(k, c, s, q), NEW r,
         NEW n, n = ToServer(r), ClientSaid(k, c2, s, r), n \notin {5, 6},
         Follows(ClientSends(k, s), 7, ToServerBelow(c, s), n, ToServerBelow(c2, s))
  PROVE  ToServerOk(k, c2, s, Append(q, r)) /\ Elements(Append(q, r)) = Elements(q) \cup {r}
<1> DEFINE lo == ServerReadsFrom(s)
           hi == ToServerBelow(c, s)
           hi2 == ToServerBelow(c2, s)
           N == ClientSends(k, s)
<1>1. /\ lo \in Nat /\ hi \in Nat /\ hi2 \in Nat /\ N \in SUBSET Nat
      /\ 5 \in N /\ 6 \in N
  BY Figures
<1>2. SameServer(s, s)
  BY DEF SameServer
<1>4. /\ Queued(S, q, lo, hi, N, 7) /\ n = Rank(S, r, 7)
      /\ "sent" \notin s.shutdown => AllThere(S, q, lo, hi, N, 7)
  BY DEF ToServerOk, Rank
<1>5. Follows(N, 7, hi, n, hi2)
  OBVIOUS
<1>6. Elements(Append(q, r)) = Elements(q) \cup {r}
  BY <1>4, AppendFacts DEF Queued
<1>7. \A x \in Elements(Append(q, r)) : ClientSaid(k, c2, s, x)
  BY <1>2, <1>6, SameSays DEF ToServerOk
<1>8. /\ IF Between(lo, 5, hi) THEN c.wkey = RunKey(s) ELSE s.rkey = c.wkey
      /\ Between(lo, 6, hi) \/ s.prev[C] = c.prev[C]
  BY DEF ToServerOk
<1>9. lo <= 7
  BY DEF ServerReadsFrom
<1> HIDE DEF lo, hi, hi2, N
<1>10. n \in Nat /\ lo <= n
  <2>1. n \in Nat
    BY <1>1, <1>4, RankNat
  <2> QED
    BY <1>1, <1>4, <1>5, <1>9, <2>1 DEF Follows, Queued
<1>11. /\ Queued(S, Append(q, r), lo, hi2, N, 7)
       /\ "sent" \notin s.shutdown => AllThere(S, Append(q, r), lo, hi2, N, 7)
  BY <1>1, <1>4, <1>5, <1>10, Pushed DEF Follows
<1>12. Between(lo, 5, hi) = Between(lo, 5, hi2) /\ Between(lo, 6, hi) = Between(lo, 6, hi2)
  BY <1>1, <1>5, <1>10 DEF Between, Follows
<1> QED
  BY <1>6, <1>7, <1>8, <1>11, <1>12 DEF ToServerOk, lo, hi2, N, SameClient

LEMMA NoGap == \A m \in Nat : \A N \in SUBSET Nat : Gap(N, m, m)
<1> SUFFICES ASSUME NEW m \in Nat, NEW N \in SUBSET Nat PROVE Gap(N, m, m)
  OBVIOUS
<1>1. \A n \in N : n \in Nat
  OBVIOUS
<1>2. \A n \in N : ~(m <= n /\ n < m)
  BY <1>1
<1> QED
  BY <1>2 DEF Gap

LEMMA NoGaps ==
  ASSUME NEW k, NEW c, NEW s
  PROVE  /\ Gap(ServerSends(k, s), ToClientBelow(c, s), ToClientBelow(c, s))
         /\ Gap(ServerSends(k, s) \cup {Idle(c)}, ClientReadsFrom(c), ClientReadsFrom(c))
         /\ Gap(ClientSends(k, s), ToServerBelow(c, s), ToServerBelow(c, s))
         /\ Gap(ClientSends(k, s) \cup {7}, ServerReadsFrom(s), ServerReadsFrom(s))
<1>1. ServerSends(k, s) \cup {Idle(c)} \in SUBSET Nat /\ ClientSends(k, s) \cup {7} \in SUBSET Nat
  <2>1. /\ ServerSends(k, s) \in SUBSET Nat /\ Idle(c) \in Nat
        /\ ClientSends(k, s) \in SUBSET Nat /\ 7 \in Nat
    BY Figures
  <2> QED
    BY <2>1
<1> QED
  BY <1>1, Figures, NoGap

-----------------------------------------------------------------------------
(* A step of the client that changes no key, no Finished and no hello.     *)

\* What the client must still know where the hello may be on its way.
Still(c, t) ==
  /\ SameClient(c, t)
  /\ c.cr = 0 \/ c.state = "CR_SRVR_HELLO" =>
       t.sid = c.sid /\ t.tick = c.tick /\ t.master = c.master

LEMMA ClientGoesOn ==
  ASSUME NEW k, NEW c, NEW c2, Still(c, c2), NEW s, NEW p, NEW q, NEW p2, NEW q2,
         Locked(k, c, s, p, q), ClientHeard(k, c2), ClientWill(k, c2),
         Elements(p2) \subseteq Elements(p),
         \A r \in Elements(q2) : r \in Elements(q) \/ (c.cr # 0 /\ c.state # "CR_SRVR_HELLO"),
         ToClientOk(k, c2, s, p2), ToServerOk(k, c2, s, q2)
  PROVE  Locked(k, c2, s, p2, q2)
<1>1. Waiting(c2, s) = Waiting(c, s) /\ SameClient(c, c2)
  BY DEF Still, SameClient, Waiting
<1>2. SameRun(c2, s)
  BY <1>1 DEF Locked, SameRun, Still, SameClient
<1>3. Starting(k, c2, s, p2, q2)
  <2>1. s.cr = 0 => c.cr = 0 \/ c.state = "CR_SRVR_HELLO"
    BY DEF Locked, SameRun
  <2>2. s.cr = 0 => c2.sid = c.sid /\ c2.tick = c.tick /\ c2.master = c.master
    BY <2>1 DEF Still
  <2>3. s.state \in {"BEFORE", "ACCEPT", "SR_CLNT_HELLO"} =>
          c.state = "CR_SRVR_HELLO" \/ c.cr = 0
    BY DEF Locked, Starting, Waiting
  <2>4. s.state \in {"BEFORE", "ACCEPT", "SR_CLNT_HELLO"} => \A r \in Elements(q2) : ToServer(r) = 8
    BY <2>3 DEF Locked, Starting
  <2>5. s.state \in {"BEFORE", "ACCEPT", "SR_CLNT_HELLO"} => Waiting(c2, s) \/ c2.cr = 0
    BY <1>1 DEF Locked, Starting, SameClient
  <2>6. s.cr = 0 => Elements(p2) = {}
    BY DEF Locked, Starting
  <2>7. c2.cr = 1 /\ c2.state = "CR_SRVR_HELLO" => \A r \in Elements(p2) : r.type # "app"
    BY <1>1 DEF Locked, Starting, SameClient
  <2> QED
    BY <2>2, <2>4, <2>5, <2>6, <2>7 DEF Locked, Starting
<1> QED
  BY <1>2, <1>3 DEF Locked

\* It may move, ...
LEMMA ClientMovesOn ==
  ASSUME NEW k, NEW c, NEW c2, Still(c, c2), NEW s, NEW p, NEW q,
         Locked(k, c, s, p, q), ClientHeard(k, c2), ClientWill(k, c2),
         Gap(ServerSends(k, s) \cup {Idle(c)}, ClientReadsFrom(c), ClientReadsFrom(c2)),
         Gap(ClientSends(k, s), ToServerBelow(c, s), ToServerBelow(c2, s))
  PROVE  Locked(k, c2, s, p, q)
<1>1. SameServer(s, s) /\ SameClient(c, c2)
  BY DEF SameServer, Still
<1>2. ToClientOk(k, c, s, p) /\ ToServerOk(k, c, s, q)
  BY DEF Locked
<1>3. ToClientBelow(c2, s) = ToClientBelow(c, s)
  BY <1>1, SameSays DEF ToClientBelow
<1>4. /\ Gap(ServerSends(k, s), ToClientBelow(c, s), ToClientBelow(c, s))
      /\ Gap(ClientSends(k, s) \cup {7}, ServerReadsFrom(s), ServerReadsFrom(s))
  BY NoGaps
<1>5. ToClientOk(k, c2, s, p)
  BY <1>1, <1>2, <1>3, <1>4, ToClientStays
<1>6. ToServerOk(k, c2, s, q)
  BY <1>1, <1>2, <1>4, ToServerStays
<1> QED
  BY <1>5, <1>6, ClientGoesOn

\* ... read a record, ...
LEMMA ClientReadsOn ==
  ASSUME NEW k, NEW c, NEW c2, Still(c, c2), NEW s, NEW p, NEW q, p # <<>>,
         Locked(k, c, s, p, q), ClientHeard(k, c2), ClientWill(k, c2),
         NEW n, n = ToClient(Head(p), Idle(c)), n \notin {8, 9},
         Skips(ServerSends(k, s), Idle(c), ClientReadsFrom(c), n, ClientReadsFrom(c2)),
         Gap(ClientSends(k, s), ToServerBelow(c, s), ToServerBelow(c2, s))
  PROVE  Locked(k, c2, s, Tail(p), q)
<1>1. SameServer(s, s) /\ SameClient(c, c2)
  BY DEF SameServer, Still
<1>2. ToClientOk(k, c, s, p) /\ ToServerOk(k, c, s, q)
  BY DEF Locked
<1>4. Gap(ClientSends(k, s) \cup {7}, ServerReadsFrom(s), ServerReadsFrom(s))
  BY NoGaps
<1>5. ToClientOk(k, c2, s, Tail(p)) /\ Elements(Tail(p)) \subseteq Elements(p)
  BY <1>1, <1>2, ToClientTaken
<1>6. ToServerOk(k, c2, s, q)
  BY <1>1, <1>2, <1>4, ToServerStays
<1> QED
  BY <1>5, <1>6, ClientGoesOn

\* ... or write one.
LEMMA ClientWritesOn ==
  ASSUME NEW k, NEW c, NEW c2, Still(c, c2), NEW s, NEW p, NEW q,
         Locked(k, c, s, p, q), ClientHeard(k, c2), ClientWill(k, c2),
         c.cr # 0, c.state # "CR_SRVR_HELLO",
         Gap(ServerSends(k, s) \cup {Idle(c)}, ClientReadsFrom(c), ClientReadsFrom(c2)),
         NEW r, NEW n, n = ToServer(r), n \notin {5, 6}, ClientSaid(k, c2, s, r),
         Follows(ClientSends(k, s), 7, ToServerBelow(c, s), n, ToServerBelow(c2, s))
  PROVE  Locked(k, c2, s, p, Append(q, r))
<1>1. SameServer(s, s) /\ SameClient(c, c2)
  BY DEF SameServer, Still
<1>2. ToClientOk(k, c, s, p) /\ ToServerOk(k, c, s, q)
  BY DEF Locked
<1>3. ToClientBelow(c2, s) = ToClientBelow(c, s)
  BY <1>1, SameSays DEF ToClientBelow
<1>4. Gap(ServerSends(k, s), ToClientBelow(c, s), ToClientBelow(c, s))
  BY NoGaps
<1>5. ToClientOk(k, c2, s, p)
  BY <1>1, <1>2, <1>3, <1>4, ToClientStays
<1>6. ToServerOk(k, c2, s, Append(q, r))
  BY <1>1, <1>2, ToServerGiven
<1> QED
  BY <1>5, <1>6, ClientGoesOn

-----------------------------------------------------------------------------
(* A step of the server that changes no key, no Finished and no hello.     *)

\* A server at rest has read what a client waits for an answer to.
LEMMA ClientFirstWaits ==
  ASSUME NEW k, NEW c, NEW s, NEW p, NEW q, Locked(k, c, s, p, q), s.state = "OK",
         c.state = "CR_SRVR_HELLO", c.cr = 1, s.cr \in Nat
  PROVE  FALSE
<1>1. CASE Waiting(c, s)
  <2>1. s.cr = 0
    BY <1>1 DEF Locked, SameRun
  <2> QED
    BY <2>1 DEF Locked, Starting
<1>2. CASE ~Waiting(c, s)
  <2>1. ServerReadsFrom(s) = 7 /\ ToServerBelow(c, s) <= 5
    BY <1>2 DEF ServerReadsFrom, ToServerBelow
  <2>2. Queued(S, q, 7, ToServerBelow(c, s), ClientSends(k, s), 7)
    BY <2>1 DEF Locked, ToServerOk
  <2>3. 5 \in ClientSends(k, s)
    BY Figures
  <2> QED
    BY <2>1, <2>2, <2>3 DEF Queued
<1> QED
  BY <1>1, <1>2

LEMMA ServerGoesOn ==
  ASSUME NEW k, NEW c, NEW s, NEW s2, SameServer(s, s2), s.cr \in Nat,
         NEW p, NEW q, NEW p2, NEW q2,
         Locked(k, c, s, p, q), ServerHeard(k, s2), ServerWill(k, s2),
         Waiting(c, s) => ServerWritesFrom(s2) = 11,
         s.cr = 0 => /\ s2.new_session = s.new_session /\ s2.state \in {"BEFORE", "SR_CLNT_HELLO"}
                     /\ Elements(p2) \subseteq Elements(p),
         s2.state \in {"BEFORE", "ACCEPT", "SR_CLNT_HELLO"} =>
           /\ Waiting(c, s) \/ c.cr = 0
           /\ \A r \in Elements(q2) : ToServer(r) = 8,
         \A r \in Elements(p2) : r \in Elements(p) \/ r.type # "app" \/ s.state = "OK",
         ToClientOk(k, c, s2, p2), ToServerOk(k, c, s2, q2)
  PROVE  Locked(k, c, s2, p2, q2)
<1>1. Waiting(c, s2) = Waiting(c, s)
  BY DEF SameServer, Waiting
<1>2. SameRun(c, s2)
  BY <1>1 DEF Locked, SameRun, SameServer
<1>3. Starting(k, c, s2, p2, q2)
  <2>1. s2.cr = 0 =>
          /\ s2.new_session = 0 /\ s2.state \in {"BEFORE", "SR_CLNT_HELLO"} /\ Elements(p2) = {}
          /\ ~s2.ticket_expected
          /\ c.sid = Offered(k).sid /\ c.tick = Offered(k).tick
          /\ k.offer # "none" => c.master = OldMaster
    BY DEF Locked, Starting, SameServer
  <2>2. s2.state \in {"BEFORE", "ACCEPT", "SR_CLNT_HELLO"} => Waiting(c, s2) \/ c.cr = 0
    BY <1>1
  <2>3. ASSUME c.cr = 1, c.state = "CR_SRVR_HELLO"
        PROVE  \A r \in Elements(p2) : r.type # "app"
    <3>1. \A r \in Elements(p) : r.type # "app"
      BY <2>3 DEF Locked, Starting
    <3>2. s.state # "OK"
      BY <2>3, ClientFirstWaits
    <3> QED
      BY <3>1, <3>2
  <2> QED
    BY <2>1, <2>2, <2>3 DEF Starting
<1> QED
  BY <1>2, <1>3 DEF Locked

LEMMA ServerMovesOn ==
  ASSUME NEW k, NEW c, NEW s, NEW s2, SameServer(s, s2), s.cr \in Nat, NEW p, NEW q,
         Locked(k, c, s, p, q), ServerHeard(k, s2), ServerWill(k, s2),
         Waiting(c, s) => ServerWritesFrom(s2) = 11,
         s.cr = 0 => s2.new_session = s.new_session /\ s2.state \in {"BEFORE", "SR_CLNT_HELLO"},
         s2.state \in {"BEFORE", "ACCEPT", "SR_CLNT_HELLO"} =>
           /\ Waiting(c, s) \/ c.cr = 0
           /\ \A r \in Elements(q) : ToServer(r) = 8,
         "sent" \in s.shutdown => "sent" \in s2.shutdown,
         Gap(ServerSends(k, s), ServerWritesFrom(s), ServerWritesFrom(s2)),
         Gap(ClientSends(k, s) \cup {7}, ServerReadsFrom(s), ServerReadsFrom(s2))
  PROVE  Locked(k, c, s2, p, q)
<1>1. SameClient(c, c)
  BY DEF SameClient
<1>2. ToClientOk(k, c, s, p) /\ ToServerOk(k, c, s, q)
  BY DEF Locked
<1>3. ToServerBelow(c, s2) = ToServerBelow(c, s) /\ Waiting(c, s2) = Waiting(c, s)
  BY <1>1, SameSays DEF ToServerBelow, SameServer
<1>4. /\ Gap(ServerSends(k, s) \cup {Idle(c)}, ClientReadsFrom(c), ClientReadsFrom(c))
      /\ Gap(ClientSends(k, s), ToServerBelow(c, s), ToServerBelow(c, s2))
  BY <1>3, NoGaps
<1>5. Gap(ServerSends(k, s), ToClientBelow(c, s), ToClientBelow(c, s2))
  <2>1. CASE Waiting(c, s)
    BY <1>3, <2>1, NoGaps DEF ToClientBelow
  <2>2. CASE ~Waiting(c, s)
    BY <1>3, <2>2 DEF ToClientBelow
  <2> QED
    BY <2>1, <2>2
<1>6. ToClientOk(k, c, s2, p)
  BY <1>1, <1>2, <1>4, <1>5, ToClientStays
<1>7. ToServerOk(k, c, s2, q)
  BY <1>1, <1>2, <1>4, ToServerStays
<1> QED
  BY <1>6, <1>7, ServerGoesOn

LEMMA ServerReadsOn ==
  ASSUME NEW k, NEW c, NEW s, NEW s2, SameServer(s, s2), s.cr \in Nat, NEW p, NEW q, q # <<>>,
         Locked(k, c, s, p, q), ServerHeard(k, s2), ServerWill(k, s2),
         Waiting(c, s) => ServerWritesFrom(s2) = 11,
         s.cr # 0, s2.state \notin {"BEFORE", "ACCEPT", "SR_CLNT_HELLO"},
         "sent" \in s.shutdown => "sent" \in s2.shutdown,
         Gap(ServerSends(k, s), ServerWritesFrom(s), ServerWritesFrom(s2)),
         NEW n, n = ToServer(Head(q)), n \notin {5, 6},
         "sent" \notin s2.shutdown => n < ServerReadsFrom(s2) \/ n = 7,
         ServerReadsFrom(s) <= ServerReadsFrom(s2), n = 7 => ServerReadsFrom(s2) <= 7,
         \A x \in ClientSends(k, s) \cup {7} :
           ~(ServerReadsFrom(s) <= x /\ x < ServerReadsFrom(s2) /\ x # n)
  PROVE  Locked(k, c, s2, p, Tail(q))
<1>1. SameClient(c, c)
  BY DEF SameClient
<1>2. ToClientOk(k, c, s, p) /\ ToServerOk(k, c, s, q)
  BY DEF Locked
<1>3. Waiting(c, s2) = Waiting(c, s)
  BY <1>1, SameSays DEF SameServer
<1>4. Gap(ServerSends(k, s) \cup {Idle(c)}, ClientReadsFrom(c), ClientReadsFrom(c))
  BY NoGaps
<1>5. Gap(ServerSends(k, s), ToClientBelow(c, s), ToClientBelow(c, s2))
  <2>1. CASE Waiting(c, s)
    BY <1>3, <2>1, NoGaps DEF ToClientBelow
  <2>2. CASE ~Waiting(c, s)
    BY <1>3, <2>2 DEF ToClientBelow
  <2> QED
    BY <2>1, <2>2
<1>6. ToClientOk(k, c, s2, p)
  BY <1>1, <1>2, <1>4, <1>5, ToClientStays
<1>7. ToServerOk(k, c, s2, Tail(q)) /\ Elements(Tail(q)) \subseteq Elements(q)
  BY <1>2, ToServerTaken
<1> QED
  BY <1>6, <1>7, ServerGoesOn

LEMMA ServerWritesOn ==
  ASSUME NEW k, NEW c, NEW s, NEW s2, SameServer(s, s2), s.cr \in Nat, NEW p, NEW q,
         Locked(k, c, s, p, q), ServerHeard(k, s2), ServerWill(k, s2),
         Waiting(c, s) => ServerWritesFrom(s) = 11 /\ ServerWritesFrom(s2) = 11,
         s.cr # 0, s2.state \notin {"BEFORE", "ACCEPT", "SR_CLNT_HELLO"},
         "sent" \in s.shutdown => "sent" \in s2.shutdown,
         Gap(ClientSends(k, s) \cup {7}, ServerReadsFrom(s), ServerReadsFrom(s2)),
         NEW r, NEW n, n = ToClient(r, Idle(c)), n \notin {8, 9}, ServerSaid(k, c, s2, r),
         r.type = "app" => s.state = "OK",
         Waiting(c, s) => n = 0,
         ~Waiting(c, s) => Follows(ServerSends(k, s), Idle(c), ServerWritesFrom(s), n, ServerWritesFrom(s2))
  PROVE  Locked(k, c, s2, Append(p, r), q)
<1>1. SameClient(c, c)
  BY DEF SameClient
<1>2. ToClientOk(k, c, s, p) /\ ToServerOk(k, c, s, q)
  BY DEF Locked
<1>3. Waiting(c, s2) = Waiting(c, s) /\ ToServerBelow(c, s2) = ToServerBelow(c, s)
  BY <1>1, SameSays DEF SameServer, ToServerBelow
<1>4. Gap(ClientSends(k, s), ToServerBelow(c, s), ToServerBelow(c, s2))
  BY <1>3, NoGaps
<1>5. Follows(ServerSends(k, s), Idle(c), ToClientBelow(c, s), n, ToClientBelow(c, s2))
  <2>1. CASE Waiting(c, s)
    <3>1. ToClientBelow(c, s) = 1 /\ ToClientBelow(c, s2) = 1 /\ Idle(c) = 0 /\ n = 0
      BY <1>3, <2>1 DEF ToClientBelow, Idle, Waiting
    <3>2. ServerSends(k, s) \in SUBSET Nat
      BY Figures
    <3> QED
      BY <3>1, <3>2 DEF Follows
  <2>2. CASE ~Waiting(c, s)
    BY <1>3, <2>2 DEF ToClientBelow
  <2> QED
    BY <2>1, <2>2
<1>6. ToClientOk(k, c, s2, Append(p, r)) /\ Elements(Append(p, r)) = Elements(p) \cup {r}
  BY <1>2, <1>5, ToClientGiven
<1>7. ToServerOk(k, c, s2, q)
  BY <1>1, <1>2, <1>4, ToServerStays
<1> QED
  BY <1>6, <1>7, ServerGoesOn

-----------------------------------------------------------------------------
(* What a step does to the lines.                                          *)

LEMMA AppendJoin ==
  ASSUME NEW p, IsSeq(p), NEW q, IsSeq(q), NEW r
  PROVE  /\ (p \o q) \o <<r>> = Append(p \o q, r)
         /\ p \o (q \o <<r>>) = Append(p \o q, r)
         /\ p \o <<>> = p /\ <<>> \o p = p
<1> DEFINE T == Elements(p) \cup Elements(q) \cup {r}
<1>1. p \in Seq(T) /\ q \in Seq(T) /\ <<r>> \in Seq(T) /\ r \in T
  BY SeqMonotonic, OneFacts DEF IsSeq, T
<1> HIDE DEF T
<1>2. p \o q \in Seq(T)
  BY <1>1, ConcatProperties
<1>3. (p \o q) \o <<r>> = Append(p \o q, r)
  BY <1>1, <1>2, AppendIsConcat
<1>4. p \o (q \o <<r>>) = (p \o q) \o <<r>>
  BY <1>1, ConcatAssociative
<1> QED
  BY <1>1, <1>3, <1>4, ConcatEmptySeq

LEMMA TailJoin ==
  ASSUME NEW p, IsSeq(p), p # <<>>, NEW q, IsSeq(q)
  PROVE  /\ p \o q # <<>> /\ Tail(p \o q) = Tail(p) \o q /\ Head(p \o q) = Head(p)
<1> DEFINE T == Elements(p) \cup Elements(q)
           a == p \o q
           b == Tail(p) \o q
<1>1. p \in Seq(T) /\ q \in Seq(T)
  BY SeqMonotonic DEF IsSeq, T
<1> HIDE DEF T
<1>2. /\ Tail(p) \in Seq(T) /\ Len(Tail(p)) = Len(p) - 1
      /\ \A i \in 1 .. Len(Tail(p)) : Tail(p)[i] = p[i + 1]
  BY <1>1, HeadTailProperties
<1>3. Len(p) \in Nat \ {0} /\ Len(q) \in Nat
  BY SeqFacts
<1>4. /\ a \in Seq(T) /\ Len(a) = Len(p) + Len(q)
      /\ \A i \in 1 .. Len(p) + Len(q) : a[i] = IF i <= Len(p) THEN p[i] ELSE q[i - Len(p)]
  BY <1>1, ConcatProperties
<1>5. /\ b \in Seq(T) /\ Len(b) = Len(p) - 1 + Len(q)
      /\ \A i \in 1 .. Len(p) - 1 + Len(q) :
           b[i] = IF i <= Len(p) - 1 THEN Tail(p)[i] ELSE q[i - (Len(p) - 1)]
  <2>1. /\ b \in Seq(T) /\ Len(b) = Len(Tail(p)) + Len(q)
        /\ \A i \in 1 .. Len(Tail(p)) + Len(q) :
             b[i] = IF i <= Len(Tail(p)) THEN Tail(p)[i] ELSE q[i - Len(Tail(p))]
    BY <1>1, <1>2, ConcatProperties
  <2> QED
    BY <1>2, <2>1
<1> HIDE DEF a, b
<1>6. a # <<>>
  BY <1>3, <1>4, EmptySeq
<1>7. /\ Tail(a) \in Seq(T) /\ Len(Tail(a)) = Len(a) - 1
      /\ \A i \in 1 .. Len(Tail(a)) : Tail(a)[i] = a[i + 1]
  BY <1>4, <1>6, HeadTailProperties
<1>8. \A i \in 1 .. Len(b) : Tail(a)[i] = b[i]
  <2> SUFFICES ASSUME NEW i \in 1 .. Len(b) PROVE Tail(a)[i] = b[i]
    OBVIOUS
  <2>1. i \in Nat \ {0} /\ i <= Len(p) - 1 + Len(q)
    BY <1>3, <1>5
  <2>2. Tail(a)[i] = IF i + 1 <= Len(p) THEN p[i + 1] ELSE q[i + 1 - Len(p)]
    BY <1>3, <1>4, <1>7, <2>1
  <2>3. CASE i <= Len(p) - 1
    <3>1. i \in 1 .. Len(p) - 1 /\ i \in 1 .. Len(Tail(p)) /\ i + 1 <= Len(p)
      BY <1>2, <1>3, <2>1, <2>3
    <3>2. b[i] = Tail(p)[i]
      BY <1>3, <1>5, <2>1, <3>1
    <3>3. Tail(a)[i] = p[i + 1]
      BY <2>2, <3>1
    <3>4. Tail(p)[i] = p[i + 1]
      BY <1>2, <3>1
    <3> QED
      BY <3>2, <3>3, <3>4
  <2>4. CASE ~(i <= Len(p) - 1)
    <3>1. b[i] = q[i - (Len(p) - 1)] /\ i + 1 - Len(p) = i - (Len(p) - 1)
      BY <1>3, <1>5, <2>1, <2>4
    <3>2. ~(i + 1 <= Len(p))
      BY <1>3, <2>1, <2>4
    <3>3. Tail(a)[i] = q[i + 1 - Len(p)]
      BY <2>2, <3>2
    <3> QED
      BY <3>1, <3>3
  <2> QED
    BY <2>3, <2>4
<1>9. Tail(a) = b
  BY <1>3, <1>4, <1>5, <1>7, <1>8, SeqEqual
<1>10. Head(a) = Head(p)
  <2>1. Head(a) = a[1] /\ Head(p) = p[1]
    BY <1>1, <1>4, <1>6
  <2> QED
    BY <1>3, <1>4, <2>1
<1> QED
  BY <1>6, <1>9, <1>10 DEF a, b

LEMMA LineSeq ==
  ASSUME Streams, NEW e \in Endpoint
  PROVE  IsSeq(Line(e)) /\ Elements(Line(e)) = Traffic(e) /\ Peer(e) \in Endpoint
BY ConcatFacts, PeerFacts DEF Streams, Line, Traffic

\* A record written is the last of the line to the peer.
LEMMA LinePut ==
  ASSUME Streams, NEW e \in Endpoint, NEW r, Put(e, <<r>>), out[e] # <<>> => ssl[e].buffered
  PROVE  /\ Line(Peer(e))' = Append(Line(Peer(e)), r) /\ Line(e)' = Line(e)
         /\ out'[Peer(e)] = out[Peer(e)]
         /\ ~ssl[e].buffered => out' = out
<1> DEFINE x == Peer(e)
           w == wire[x]
           o == out[e]
<1>1. /\ x \in Endpoint /\ x # e /\ Peer(x) = e
      /\ DOMAIN wire = Endpoint /\ DOMAIN out = Endpoint /\ IsSeq(w) /\ IsSeq(o)
      /\ IsSeq(wire[e]) /\ IsSeq(out[x])
  BY PeerFacts DEF Streams
<1>2. /\ (w \o o) \o <<r>> = Append(w \o o, r) /\ w \o (o \o <<r>>) = Append(w \o o, r)
      /\ w \o <<>> = w /\ (w \o <<>>) \o <<r>> = Append(w, r) /\ w \o <<r>> = Append(w, r)
  <2>1. IsSeq(<<>>)
    BY EmptyFacts
  <2>2. (w \o <<>>) \o <<r>> = Append(w \o <<>>, r) /\ w \o <<>> = w
    BY <1>1, <2>1, AppendJoin
  <2> QED
    BY <1>1, <2>2, AppendJoin
<1>3. CASE ~ssl[e].buffered /\ wire' = [wire EXCEPT ![x] = @ \o <<r>>] /\ out' = out
  <2>1. wire'[x] = w \o <<r>> /\ wire'[e] = wire[e] /\ o = <<>>
    BY <1>1, <1>3
  <2>2. wire'[x] \o out'[e] = Append(w \o o, r)
    <3>1. IsSeq(Append(w, r))
      BY <1>1, AppendFacts
    <3>2. Append(w, r) \o <<>> = Append(w, r)
      BY <1>1, <3>1, AppendJoin
    <3> QED
      BY <1>2, <1>3, <2>1, <3>2
  <2> QED
    BY <1>1, <1>3, <2>1, <2>2 DEF Line
<1>4. CASE ssl[e].buffered /\ out' = [out EXCEPT ![e] = @ \o <<r>>] /\ wire' = wire
  BY <1>1, <1>2, <1>4 DEF Line
<1>5. CASE /\ ssl[e].buffered
           /\ wire' = [wire EXCEPT ![x] = @ \o out[e] \o <<r>>]
           /\ out' = [out EXCEPT ![e] = <<>>]
  <2>1. wire'[x] = (w \o o) \o <<r>> /\ wire'[e] = wire[e] /\ out'[e] = <<>> /\ out'[x] = out[x]
    BY <1>1, <1>5
  <2>2. wire'[x] \o out'[e] = Append(w \o o, r)
    <3>1. IsSeq(w \o o)
      BY <1>1, ConcatFacts
    <3>2. IsSeq(Append(w \o o, r))
      BY <3>1, AppendFacts
    <3>3. Append(w \o o, r) \o <<>> = Append(w \o o, r)
      BY <1>1, <3>2, AppendJoin
    <3> QED
      BY <1>2, <2>1, <3>3
  <2> QED
    BY <1>1, <1>5, <2>1, <2>2 DEF Line
<1> QED
  BY <1>3, <1>4, <1>5 DEF Put

LEMMA LineTake ==
  ASSUME Streams, NEW e \in Endpoint, wire[e] # <<>>, Take(e), out' = out
  PROVE  /\ Line(e) # <<>> /\ Head(Line(e)) = Head1(e)
         /\ Line(e)' = Tail(Line(e)) /\ Line(Peer(e))' = Line(Peer(e))
<1>1. /\ Peer(e) \in Endpoint /\ Peer(e) # e /\ DOMAIN wire = Endpoint
      /\ IsSeq(wire[e]) /\ IsSeq(out[Peer(e)])
  BY PeerFacts DEF Streams
<1>2. wire'[e] = Tail(wire[e]) /\ wire'[Peer(e)] = wire[Peer(e)]
  BY <1>1 DEF Take
<1> QED
  BY <1>1, <1>2, TailJoin DEF Line, Head1

\* A head there is the first of the line.
LEMMA LineHead ==
  ASSUME Streams, NEW e \in Endpoint, wire[e] # <<>>
  PROVE  Line(e) # <<>> /\ Head(Line(e)) = Head1(e)
<1>1. Peer(e) \in Endpoint /\ IsSeq(wire[e]) /\ IsSeq(out[Peer(e)])
  BY PeerFacts DEF Streams
<1> QED
  BY <1>1, TailJoin DEF Line, Head1

LEMMA LineFlush ==
  ASSUME Streams, NEW e \in Endpoint, Flush(e) \/ (DropBuffer(e) /\ out[e] = <<>>)
  PROVE  /\ \A x \in Endpoint : Line(x)' = Line(x)
         /\ out'[e] = <<>> /\ out'[Peer(e)] = out[Peer(e)]
<1> DEFINE x == Peer(e)
<1>1. /\ x \in Endpoint /\ x # e /\ Peer(x) = e /\ Endpoint = {e, x}
      /\ DOMAIN wire = Endpoint /\ DOMAIN out = Endpoint
      /\ IsSeq(wire[x]) /\ IsSeq(out[e]) /\ IsSeq(wire[e]) /\ IsSeq(out[x])
  BY PeerFacts DEF Streams
<1>2. CASE Flush(e)
  <2>1. wire'[x] = wire[x] \o out[e] /\ wire'[e] = wire[e] /\ out'[e] = <<>> /\ out'[x] = out[x]
    BY <1>1, <1>2 DEF Flush
  <2>2. wire'[x] \o out'[e] = wire[x] \o out[e]
    <3>1. IsSeq(wire[x] \o out[e])
      BY <1>1, ConcatFacts
    <3> QED
      BY <1>1, <2>1, <3>1, AppendJoin
  <2> QED
    BY <1>1, <2>1, <2>2 DEF Line
<1>3. CASE DropBuffer(e) /\ out[e] = <<>>
  <2>1. wire' = wire /\ out'[e] = out[e] /\ out'[x] = out[x]
    BY <1>1, <1>3 DEF DropBuffer
  <2> QED
    BY <1>1, <1>3, <2>1 DEF Line
<1> QED
  BY <1>2, <1>3

-----------------------------------------------------------------------------
(* From the lemmas about the ends to steps.                                *)

LEMMA EndsOf ==
  ASSUME Inv
  PROVE  /\ GoodClient(ssl[C]) /\ GoodServer(ssl[S]) /\ DOMAIN ssl = Endpoint /\ Streams
         /\ Typed(ssl[C]) /\ Typed(ssl[S])
BY DEF Inv, Ends, GoodClient, GoodServer

\* The new state of an end fits the buffers.
ClientFits(t) ==
  /\ ~t.failed
  /\ out'[C] # <<>> => t.buffered /\ t.state \in ClientFills
  /\ t.state = "CW_CLNT_HELLO" => ~t.buffered
ServerFits(t) ==
  /\ ~t.failed
  /\ out'[S] # <<>> => t.buffered /\ t.state \in ServerFills
  /\ t.state = "RENEGOTIATE" => ~t.buffered

LEMMA ClientLocks ==
  ASSUME Inv, Lockstep, NEW t, Become(C, t), conf' = conf, ClientFits(t), out'[S] = out[S],
         Locked(conf, t, ssl[S], Line(C)', Line(S)')
  PROVE  Lockstep'
<1>1. ssl'[C] = t /\ ssl'[S] = ssl[S] /\ Endpoint = {C, S}
  BY EndsOf, PeerFacts DEF Become
<1>2. NoAlert' /\ Buffers'
  BY <1>1 DEF Lockstep, NoAlert, Buffers, ClientFits
<1>3. Locked(conf, ssl[C], ssl[S], Line(C), Line(S))'
  BY <1>1
<1> QED
  BY <1>2, <1>3 DEF Lockstep

LEMMA ServerLocks ==
  ASSUME Inv, Lockstep, NEW t, Become(S, t), conf' = conf, ServerFits(t), out'[C] = out[C],
         Locked(conf, ssl[C], t, Line(C)', Line(S)')
  PROVE  Lockstep'
<1>1. ssl'[S] = t /\ ssl'[C] = ssl[C] /\ Endpoint = {C, S}
  BY EndsOf, PeerFacts DEF Become
<1>2. NoAlert' /\ Buffers'
  BY <1>1 DEF Lockstep, NoAlert, Buffers, ServerFits
<1>3. Locked(conf, ssl[C], ssl[S], Line(C), Line(S))'
  BY <1>1
<1> QED
  BY <1>2, <1>3 DEF Lockstep

LEMMA LockedNow ==
  ASSUME Inv, Lockstep
  PROVE  /\ Locked(conf, ssl[C], ssl[S], Line(C), Line(S))
         /\ ~ssl[C].failed /\ ~ssl[S].failed
         /\ \A e \in Endpoint : out[e] # <<>> => ssl[e].buffered
BY DEF Lockstep, NoAlert, Buffers, Endpoint

\* A move.
LEMMA ClientMoved ==
  ASSUME Inv, Lockstep, NEW t, Become(C, t), UNCHANGED <<wire, out, conf>>, ClientFits(t),
         Locked(conf, t, ssl[S], Line(C), Line(S))
  PROVE  Lockstep'
BY ClientLocks DEF Line

LEMMA ServerMoved ==
  ASSUME Inv, Lockstep, NEW t, Become(S, t), UNCHANGED <<wire, out, conf>>, ServerFits(t),
         Locked(conf, ssl[C], t, Line(C), Line(S))
  PROVE  Lockstep'
BY ServerLocks DEF Line

\* A buffer is written out, or one that is empty taken away.
Empties(e) == Flush(e) \/ (DropBuffer(e) /\ out[e] = <<>>)

LEMMA ClientEmptied ==
  ASSUME Inv, Lockstep, NEW t, Become(C, t), Empties(C), conf' = conf, ~t.failed,
         t.state = "CW_CLNT_HELLO" => ~t.buffered,
         Locked(conf, t, ssl[S], Line(C), Line(S))
  PROVE  Lockstep'
<1>1. Line(C)' = Line(C) /\ Line(S)' = Line(S) /\ out'[C] = <<>> /\ out'[S] = out[S]
  BY LineFlush, PeerFacts, EndsOf DEF Empties
<1>2. ClientFits(t)
  BY <1>1 DEF ClientFits
<1> QED
  BY <1>1, <1>2, ClientLocks

LEMMA ServerEmptied ==
  ASSUME Inv, Lockstep, NEW t, Become(S, t), Empties(S), conf' = conf, ~t.failed,
         t.state = "RENEGOTIATE" => ~t.buffered,
         Locked(conf, ssl[C], t, Line(C), Line(S))
  PROVE  Lockstep'
<1>1. Line(C)' = Line(C) /\ Line(S)' = Line(S) /\ out'[S] = <<>> /\ out'[C] = out[C]
  BY LineFlush, PeerFacts, EndsOf DEF Empties
<1>2. ServerFits(t)
  BY <1>1 DEF ServerFits
<1> QED
  BY <1>1, <1>2, ServerLocks

\* A record is read.
LEMMA ClientTook ==
  ASSUME Inv, Lockstep, NEW t, Become(C, t), wire[C] # <<>>, Take(C), UNCHANGED <<out, conf>>,
         ClientFits(t), Locked(conf, t, ssl[S], Tail(Line(C)), Line(S))
  PROVE  Lockstep'
<1>1. Line(C)' = Tail(Line(C)) /\ Line(S)' = Line(S)
  BY LineTake, PeerFacts, EndsOf
<1> QED
  BY <1>1, ClientLocks

LEMMA ServerTook ==
  ASSUME Inv, Lockstep, NEW t, Become(S, t), wire[S] # <<>>, Take(S), UNCHANGED <<out, conf>>,
         ServerFits(t), Locked(conf, ssl[C], t, Line(C), Tail(Line(S)))
  PROVE  Lockstep'
<1>1. Line(S)' = Tail(Line(S)) /\ Line(C)' = Line(C)
  BY LineTake, PeerFacts, EndsOf
<1> QED
  BY <1>1, ServerLocks

\* A record is written.
LEMMA ClientPut ==
  ASSUME Inv, Lockstep, NEW t, NEW r, Become(C, t), Put(C, <<r>>), conf' = conf, ~t.failed,
         IF ssl[C].buffered THEN t.buffered /\ t.state \in ClientFills
                            ELSE t.state # "CW_CLNT_HELLO",
         Locked(conf, t, ssl[S], Line(C), Append(Line(S), r))
  PROVE  Lockstep'
<1>1. /\ Line(S)' = Append(Line(S), r) /\ Line(C)' = Line(C) /\ out'[S] = out[S]
      /\ ~ssl[C].buffered => out' = out /\ out[C] = <<>>
  BY LinePut, PeerFacts, EndsOf, LockedNow
<1>2. ClientFits(t)
  BY <1>1 DEF ClientFits, ClientFills
<1> QED
  BY <1>1, <1>2, ClientLocks

LEMMA ServerPut ==
  ASSUME Inv, Lockstep, NEW t, NEW r, Become(S, t), Put(S, <<r>>), conf' = conf, ~t.failed,
         IF ssl[S].buffered THEN t.buffered /\ t.state \in ServerFills
                            ELSE t.state # "RENEGOTIATE",
         Locked(conf, ssl[C], t, Append(Line(C), r), Line(S))
  PROVE  Lockstep'
<1>1. /\ Line(C)' = Append(Line(C), r) /\ Line(S)' = Line(S) /\ out'[C] = out[C]
      /\ ~ssl[S].buffered => out' = out /\ out[S] = <<>>
  BY LinePut, PeerFacts, EndsOf, LockedNow
<1>2. ServerFits(t)
  BY <1>1 DEF ServerFits, ServerFills, ServerWrites
<1> QED
  BY <1>1, <1>2, ServerLocks

-----------------------------------------------------------------------------
(* The client's steps in a handshake.                                      *)

Ready == Inv /\ Order /\ Talk /\ Lockstep /\ Calm(conf)

LEMMA ClientNow ==
  ASSUME Ready
  PROVE  /\ Inv /\ Lockstep /\ Streams /\ conf \in Configs
         /\ Typed(ssl[C]) /\ Typed(ssl[S]) /\ ~ssl[C].failed /\ ~ssl[S].failed
         /\ Keys(ssl[C]) /\ ClientKeys(ssl[C]) /\ ClientCalls(ssl[C]) /\ ClientCounts(ssl[C])
         /\ ClientNumbers(ssl[C]) /\ ClientRun(ssl[C]) /\ ClientTalk(ssl[C])
         /\ Locked(conf, ssl[C], ssl[S], Line(C), Line(S))
         /\ ClientHeard(conf, ssl[C]) /\ ClientWill(conf, ssl[C])
         /\ ToClientOk(conf, ssl[C], ssl[S], Line(C)) /\ ToServerOk(conf, ssl[C], ssl[S], Line(S))
BY EndsOf, LockedNow DEF Ready, Inv, Ends, GoodClient, Talk, ClientSide, Locked

LEMMA ServerNow ==
  ASSUME Ready
  PROVE  /\ Inv /\ Lockstep /\ Streams /\ conf \in Configs
         /\ Typed(ssl[C]) /\ Typed(ssl[S]) /\ ~ssl[C].failed /\ ~ssl[S].failed
         /\ Keys(ssl[S]) /\ ServerKeys(ssl[S]) /\ ServerCalls(ssl[S]) /\ ServerCounts(ssl[S])
         /\ ServerNumbers(ssl[S]) /\ ServerRun(ssl[S]) /\ ServerTalk(ssl[S])
         /\ ServerKnows(ssl[S]) /\ Apart(conf)
         /\ Locked(conf, ssl[C], ssl[S], Line(C), Line(S))
         /\ ServerHeard(conf, ssl[S]) /\ ServerWill(conf, ssl[S])
         /\ ToClientOk(conf, ssl[C], ssl[S], Line(C)) /\ ToServerOk(conf, ssl[C], ssl[S], Line(S))
BY EndsOf, LockedNow DEF Ready, Inv, Ends, GoodServer, Talk, ServerSide, Locked, Calm

\* The record the client reads.
LEMMA ClientHead ==
  ASSUME Ready, wire[C] # <<>>
  PROVE  /\ Line(C) # <<>> /\ Head(Line(C)) = Head1(C) /\ Head1(C) \in Elements(Line(C))
         /\ ServerSaid(conf, ssl[C], ssl[S], Head1(C))
<1>1. Line(C) # <<>> /\ Head(Line(C)) = Head1(C)
  BY ClientNow, LineHead, PeerFacts
<1>2. Head1(C) \in Elements(Line(C))
  BY <1>1, ClientNow, LineSeq, TailElements, PeerFacts
<1> QED
  BY <1>1, <1>2, ClientNow DEF ToClientOk

LEMMA ServerHead ==
  ASSUME Ready, wire[S] # <<>>
  PROVE  /\ Line(S) # <<>> /\ Head(Line(S)) = Head1(S) /\ Head1(S) \in Elements(Line(S))
         /\ ClientSaid(conf, ssl[C], ssl[S], Head1(S))
<1>1. Line(S) # <<>> /\ Head(Line(S)) = Head1(S)
  BY ClientNow, LineHead, PeerFacts
<1>2. Head1(S) \in Elements(Line(S))
  BY <1>1, ClientNow, LineSeq, TailElements, PeerFacts
<1> QED
  BY <1>1, <1>2, ClientNow DEF ToServerOk

\* The numbers of the records that have come.
LEMMA ClientRank ==
  ASSUME Ready, wire[C] # <<>>, NEW n, n = ToClient(Head(Line(C)), Idle(ssl[C]))
  PROVE  /\ n \in Nat /\ n \in ServerSends(conf, ssl[S]) \cup {Idle(ssl[C])}
         /\ ClientReadsFrom(ssl[C]) <= n /\ n < ToClientBelow(ssl[C], ssl[S])
         /\ \A x \in ServerSends(conf, ssl[S]) : ClientReadsFrom(ssl[C]) <= x => n <= x
<1> DEFINE lo == ClientReadsFrom(ssl[C])
           hi == ToClientBelow(ssl[C], ssl[S])
           N == ServerSends(conf, ssl[S])
           z == Idle(ssl[C])
           p == Line(C)
<1>1. lo \in Nat /\ hi \in Nat /\ N \in SUBSET Nat /\ z \in Nat
  BY Figures
<1>2. Queued(C, p, lo, hi, N, z) /\ AllThere(C, p, lo, hi, N, z) /\ p # <<>> /\ Head(p) \in Elements(p)
  BY ClientNow, ClientHead DEF ToClientOk
<1>3. n = Rank(C, Head(p), z)
  BY DEF Rank
<1> HIDE DEF lo, hi, N, z, p
<1>4. n \in Nat
  BY <1>1, <1>3, RankNat
<1>5. lo <= n /\ n < hi /\ n \in N \cup {z}
  BY <1>2, <1>3 DEF Queued
<1>6. ASSUME NEW x \in N, lo <= x PROVE n <= x
  <2>1. CASE x < hi
    BY <1>1, <1>2, <1>3, <1>6, <2>1, First
  <2>2. CASE ~(x < hi)
    BY <1>1, <1>4, <1>5, <1>6, <2>2
  <2> QED
    BY <2>1, <2>2
<1> QED
  BY <1>4, <1>5, <1>6 DEF lo, hi, N, z

LEMMA ServerRank ==
  ASSUME Ready, wire[S] # <<>>, NEW n, n = ToServer(Head(Line(S)))
  PROVE  /\ n \in Nat /\ n \in ClientSends(conf, ssl[S]) \cup {7}
         /\ ServerReadsFrom(ssl[S]) <= n /\ n < ToServerBelow(ssl[C], ssl[S])
         /\ "sent" \notin ssl[S].shutdown =>
              \A x \in ClientSends(conf, ssl[S]) : ServerReadsFrom(ssl[S]) <= x => n <= x
<1> DEFINE lo == ServerReadsFrom(ssl[S])
           hi == ToServerBelow(ssl[C], ssl[S])
           N == ClientSends(conf, ssl[S])
           p == Line(S)
<1>1. lo \in Nat /\ hi \in Nat /\ N \in SUBSET Nat
  BY Figures
<1>2. /\ Queued(S, p, lo, hi, N, 7) /\ p # <<>> /\ Head(p) \in Elements(p)
      /\ "sent" \notin ssl[S].shutdown => AllThere(S, p, lo, hi, N, 7)
  BY ClientNow, ServerHead DEF ToServerOk
<1>3. n = Rank(S, Head(p), 7)
  BY DEF Rank
<1> HIDE DEF lo, hi, N, p
<1>4. n \in Nat
  BY <1>1, <1>3, RankNat
<1>5. lo <= n /\ n < hi /\ n \in N \cup {7}
  BY <1>2, <1>3 DEF Queued
<1>6. ASSUME NEW x \in N, lo <= x, "sent" \notin ssl[S].shutdown PROVE n <= x
  <2>0. AllThere(S, p, lo, hi, N, 7) /\ Queued(S, p, lo, hi, N, 7) /\ p # <<>>
    BY <1>2, <1>6
  <2>1. CASE x < hi
    <3>1. x \in N /\ lo <= x /\ x < hi /\ 7 \in Nat
      BY <1>6, <2>1
    <3> QED
      BY <1>1, <1>3, <2>0, <3>1, First
  <2>2. CASE ~(x < hi)
    BY <1>1, <1>4, <1>5, <1>6, <2>2
  <2> QED
    BY <2>1, <2>2
<1> QED
  BY <1>4, <1>5, <1>6 DEF lo, hi, N

LEMMA ClientEmpty == ASSUME Ready, ssl[C].state \notin ClientFills PROVE out[C] = <<>>
BY DEF Ready, Lockstep, Buffers

LEMMA ServerEmpty == ASSUME Ready, ssl[S].state \notin ServerFills PROVE out[S] = <<>>
BY DEF Ready, Lockstep, Buffers

\* The message that has come, and its number.
LEMMA ClientMessage ==
  ASSUME Ready, Arrives(C, "handshake")
  PROVE  /\ Line(C) # <<>> /\ Head(Line(C)).type = "handshake" /\ Head(Line(C)).body = Message(C)
         /\ Message(C).name \in {"HelloRequest", "NewSessionTicket", "Finished"} \cup ServerFlight
         /\ Message(C).name # "ServerHello" => Message(C).rnd = 0
         /\ wire[C] # <<>>
BY ClientHead DEF ServerSaid, Arrives, Message

\* A message of the flight is read and hashed.
LEMMA ClientHears ==
  ASSUME Ready, NEW name, IsNext(C, name), name # "ServerHello",
         NEW new, Receive(C, new),
         NEW t, t = ssl3_finish_mac(new, Plain(name)),
         Still(ssl[C], t), ~t.failed, ClientHeard(conf, t), ClientWill(conf, t),
         ssl[C].state \notin ClientFills, t.state # "CW_CLNT_HELLO",
         NEW n, n \notin {8, 9},
         n = ToClient(Head(Line(C)), Idle(ssl[C])),
         Skips(ServerSends(conf, ssl[S]), Idle(ssl[C]), ClientReadsFrom(ssl[C]), n, ClientReadsFrom(t)),
         Gap(ClientSends(conf, ssl[S]), ToServerBelow(ssl[C], ssl[S]), ToServerBelow(t, ssl[S]))
  PROVE  Lockstep'
<1>1. /\ Line(C) # <<>> /\ ToClient(Head(Line(C)), Idle(ssl[C])) = n /\ wire[C] # <<>>
      /\ Message(C).rnd = 0 /\ Message(C).name = name
  BY ClientMessage DEF IsNext
<1>2. Become(C, t) /\ Take(C) /\ UNCHANGED <<out, conf>>
  BY <1>1 DEF Receive, ssl3_finish_mac, Plain
<1>3. out[C] = <<>>
  BY ClientEmpty
<1>4. Locked(conf, t, ssl[S], Tail(Line(C)), Line(S))
  BY <1>1, ClientNow, ClientReadsOn
<1> QED
  BY <1>1, <1>2, <1>3, <1>4, ClientNow, ClientTook DEF ClientFits

\* What a step of the client within a handshake leaves alone.
Along(c, t) ==
  /\ DOMAIN t = FieldNames /\ Still(c, t) /\ ~t.failed /\ t.ccs = c.ccs
  /\ t.buffered = c.buffered /\ t.next = c.next
  /\ t.new_cipher = c.new_cipher /\ t.renegotiate = c.renegotiate /\ t.good = c.good
  /\ t.shutdown = c.shutdown /\ t.new_session = c.new_session

\* The client and the server are in the same handshake, a full one.
LEMMA InFull ==
  ASSUME Ready, ssl[C].state \in FullStates
  PROVE  /\ ~ssl[C].hit /\ ~ssl[S].hit /\ ssl[C].cr = ssl[S].cr /\ ssl[C].sr = ssl[S].sr
         /\ ssl[C].ticket_expected = ssl[S].ticket_expected /\ ssl[C].cr # 0
         /\ ssl[C].state # "CR_SRVR_HELLO" /\ Idle(ssl[C]) = 10
BY ClientNow DEF Keys, Locked, SameRun, FullStates, ClientWill, Idle

LEMMA get_server_certificate_Lock ==
  ASSUME Ready, ssl3_get_server_certificate PROVE Lockstep'
<1> DEFINE c == ssl[C]
           s == ssl[S]
           new == [ssl[C] EXCEPT !.state = IF conf.status THEN "CR_CERT_STATUS" ELSE "CR_KEY_EXCH"]
           t == ssl3_finish_mac(new, Plain("Certificate"))
<1>1. c.state = "CR_CERT" /\ Receive(C, new) /\ IsNext(C, "Certificate") /\ conf.kx # "anon"
  BY DEF ssl3_get_server_certificate
<1>2. /\ t.state = (IF conf.status THEN "CR_CERT_STATUS" ELSE "CR_KEY_EXCH") /\ t.mac = Append(c.mac, <<"Certificate", 0>>)
      /\ Along(c, t) /\ t.sid = c.sid /\ t.master = c.master /\ t.cert_req = c.cert_req
  BY <1>1, ClientNow, InFull DEF ssl3_finish_mac, Plain, FullStates, Typed, FieldNames, Along, Still, SameClient
<1>8. t = ssl3_finish_mac(new, Plain("Certificate"))
  OBVIOUS
<1> HIDE DEF new, t
<1>3. ClientHeard(conf, t)
  BY <1>1, <1>2, ClientNow, InFull
  DEF FullStates, ClientHeard, Along, Still, SameClient, AfterStatus, AfterCert, Heard, Certified
<1>4. ClientWill(conf, t)
  BY <1>1, <1>2, ClientNow DEF ClientWill, Along, Still, SameClient, ClientSent, Master
<1>5. Skips(ServerSends(conf, s), Idle(c), ClientReadsFrom(c), 2, ClientReadsFrom(t))
  BY <1>1, <1>2, ClientNow DEF Skips, ServerSends, Idle, ClientReadsFrom, Certified, Requested, ClientWill, Along
<1>6. Gap(ClientSends(conf, s), ToServerBelow(c, s), ToServerBelow(t, s))
  BY <1>1, <1>2, ClientNow, InFull DEF FullStates, Gap, ClientSends, ToServerBelow, Requested, Proven, ClientHeard, Along, Still, SameClient
<1>7. ToClient(Head(Line(C)), Idle(c)) = 2
  BY <1>1, ClientMessage DEF ToClient, IsNext
<1>9. c.state \notin ClientFills /\ t.state # "CW_CLNT_HELLO" /\ Still(c, t) /\ ~t.failed
  BY <1>1, <1>2 DEF Along, ClientFills, ClientWrites
<1> QED
  BY <1>1, <1>2, <1>3, <1>4, <1>5, <1>6, <1>7, <1>8, <1>9, ClientHears

LEMMA get_cert_status_Lock ==
  ASSUME Ready, ssl3_get_cert_status PROVE Lockstep'
<1> DEFINE c == ssl[C]
           s == ssl[S]
           new == [ssl[C] EXCEPT !.state = "CR_KEY_EXCH"]
           t == ssl3_finish_mac(new, Plain("CertificateStatus"))
<1>1. c.state = "CR_CERT_STATUS" /\ Receive(C, new) /\ IsNext(C, "CertificateStatus")
  BY DEF ssl3_get_cert_status
<1>2. /\ t.state = "CR_KEY_EXCH" /\ t.mac = Append(c.mac, <<"CertificateStatus", 0>>)
      /\ Along(c, t) /\ t.sid = c.sid /\ t.master = c.master /\ t.cert_req = c.cert_req
  BY <1>1, ClientNow, InFull DEF ssl3_finish_mac, Plain, FullStates, Typed, FieldNames, Along, Still, SameClient
<1>8. t = ssl3_finish_mac(new, Plain("CertificateStatus"))
  OBVIOUS
<1> HIDE DEF new, t
<1>3. ClientHeard(conf, t)
  BY <1>1, <1>2, ClientNow, InFull
  DEF FullStates, ClientHeard, Along, Still, SameClient, AfterStatus, Heard
<1>4. ClientWill(conf, t)
  BY <1>1, <1>2, ClientNow DEF ClientWill, Along, Still, SameClient, ClientSent, Master
<1>5. Skips(ServerSends(conf, s), Idle(c), ClientReadsFrom(c), 3, ClientReadsFrom(t))
  BY <1>1, <1>2, ClientNow DEF Skips, ServerSends, Idle, ClientReadsFrom, Certified, Requested, ClientWill, Along
<1>6. Gap(ClientSends(conf, s), ToServerBelow(c, s), ToServerBelow(t, s))
  BY <1>1, <1>2, ClientNow, InFull DEF FullStates, Gap, ClientSends, ToServerBelow, Requested, Proven, ClientHeard, Along, Still, SameClient
<1>7. ToClient(Head(Line(C)), Idle(c)) = 3
  BY <1>1, ClientMessage DEF ToClient, IsNext
<1>9. c.state \notin ClientFills /\ t.state # "CW_CLNT_HELLO" /\ Still(c, t) /\ ~t.failed
  BY <1>1, <1>2 DEF Along, ClientFills, ClientWrites
<1> QED
  BY <1>1, <1>2, <1>3, <1>4, <1>5, <1>6, <1>7, <1>8, <1>9, ClientHears

LEMMA get_server_done_Lock ==
  ASSUME Ready, ssl3_get_server_done PROVE Lockstep'
<1> DEFINE c == ssl[C]
           s == ssl[S]
           new == [ssl[C] EXCEPT !.state = IF ssl[C].cert_req # 0 THEN "CW_CERT" ELSE "CW_KEY_EXCH"]
           t == ssl3_finish_mac(new, Plain("ServerHelloDone"))
<1>1. c.state = "CR_SRVR_DONE" /\ Receive(C, new) /\ IsNext(C, "ServerHelloDone")
  BY DEF ssl3_get_server_done
<1>2. /\ t.state = (IF c.cert_req # 0 THEN "CW_CERT" ELSE "CW_KEY_EXCH") /\ t.mac = Append(c.mac, <<"ServerHelloDone", 0>>)
      /\ Along(c, t) /\ t.sid = c.sid /\ t.master = c.master /\ t.cert_req = c.cert_req
  BY <1>1, ClientNow, InFull DEF ssl3_finish_mac, Plain, FullStates, Typed, FieldNames, Along, Still, SameClient
<1>8. t = ssl3_finish_mac(new, Plain("ServerHelloDone"))
  OBVIOUS
<1> HIDE DEF new, t
<1>15. c.mac = AfterRequest(conf, c.cr, c.sr)
  BY <1>1, ClientNow DEF ClientHeard
<1>10. /\ Requested(conf) => c.cert_req = 1
       /\ ~Requested(conf) => c.cert_req = 0
       /\ Proven(conf) => Requested(conf)
  BY <1>1, ClientNow DEF ClientHeard, Requested, Proven
<1>11. t.cr = c.cr /\ t.sr = c.sr /\ t.hit = c.hit
  BY <1>2 DEF Along, Still, SameClient
<1>14. t.mac = AfterDone(conf, t.cr, t.sr)
  BY <1>2, <1>15, <1>11 DEF AfterDone, Heard
<1>13. /\ Requested(conf) => t.cert_req = 1 /\ t.state = "CW_CERT"
       /\ ~Requested(conf) => t.cert_req = 0 /\ t.state = "CW_KEY_EXCH"
  BY <1>2, <1>10
<1>12. ~Requested(conf) => AfterClientCert(conf, t.cr, t.sr) = AfterDone(conf, t.cr, t.sr)
  BY DEF AfterClientCert, Heard
<1>3. ClientHeard(conf, t)
  <2>1. CASE Requested(conf)
    BY <1>13, <1>14, <2>1 DEF ClientHeard, Requested
  <2>2. CASE ~Requested(conf)
    <3>1. ~Proven(conf) /\ t.cert_req = 0 /\ t.state = "CW_KEY_EXCH"
      BY <1>10, <1>13, <2>2 DEF Requested, Proven
    <3> QED
      BY <1>12, <1>14, <2>2, <3>1 DEF ClientHeard, Proven
  <2> QED
    BY <2>1, <2>2
<1>4. ClientWill(conf, t)
  BY <1>1, <1>2, ClientNow DEF ClientWill, Along, Still, SameClient, ClientSent, Master
<1>5. Skips(ServerSends(conf, s), Idle(c), ClientReadsFrom(c), 6, ClientReadsFrom(t))
  BY <1>1, <1>2, <1>10, ClientNow DEF Skips, ServerSends, Idle, ClientReadsFrom, Certified, Requested, ClientWill, Along
<1>6. Gap(ClientSends(conf, s), ToServerBelow(c, s), ToServerBelow(t, s))
  BY <1>1, <1>2, <1>10, ClientNow, InFull DEF FullStates, Gap, ClientSends, ToServerBelow, Requested, Proven, ClientHeard, Along, Still, SameClient
<1>7. ToClient(Head(Line(C)), Idle(c)) = 6
  BY <1>1, ClientMessage DEF ToClient, IsNext
<1>9. c.state \notin ClientFills /\ t.state # "CW_CLNT_HELLO" /\ Still(c, t) /\ ~t.failed
  BY <1>1, <1>2 DEF Along, ClientFills, ClientWrites
<1> QED
  BY <1>1, <1>2, <1>3, <1>4, <1>5, <1>6, <1>7, <1>8, <1>9, ClientHears

\* A step that neither reads nor writes.
LEMMA ClientGoes ==
  ASSUME Ready, NEW t, Become(C, t), UNCHANGED <<wire, out, conf>>, Still(ssl[C], t), ~t.failed,
         t.buffered = ssl[C].buffered, ssl[C].state \in ClientFills => t.state \in ClientFills,
         t.state = "CW_CLNT_HELLO" => ssl[C].state = "CW_CLNT_HELLO",
         ClientHeard(conf, t), ClientWill(conf, t),
         Gap(ServerSends(conf, ssl[S]) \cup {Idle(ssl[C])}, ClientReadsFrom(ssl[C]), ClientReadsFrom(t)),
         Gap(ClientSends(conf, ssl[S]), ToServerBelow(ssl[C], ssl[S]), ToServerBelow(t, ssl[S]))
  PROVE  Lockstep'
<1>1. ClientFits(t)
  <2>1. t.state = "CW_CLNT_HELLO" => ~t.buffered
    BY DEF Ready, Lockstep, Buffers
  <2>2. out[C] # <<>> => ssl[C].buffered /\ ssl[C].state \in ClientFills
    BY PeerFacts DEF Ready, Lockstep, Buffers
  <2> QED
    BY <2>1, <2>2 DEF ClientFits
<1>2. Locked(conf, t, ssl[S], Line(C), Line(S))
  BY ClientNow, ClientMovesOn
<1> QED
  BY <1>1, <1>2, ClientNow, ClientMoved

LEMMA skip_certificate_Lock == ASSUME Ready, skip_certificate PROVE Lockstep'
<1> DEFINE c == ssl[C]
           s == ssl[S]
           t == [ssl[C] EXCEPT !.state = "CR_KEY_EXCH"]
<1>1. c.state = "CR_CERT" /\ Become(C, t) /\ UNCHANGED <<wire, out, conf>> /\ conf.kx = "anon"
  BY DEF skip_certificate, Move
<1>2. t.state = "CR_KEY_EXCH" /\ t.mac = c.mac /\ Along(c, t) /\ t.sid = c.sid /\ t.master = c.master /\ t.cert_req = c.cert_req
  BY <1>1, ClientNow, InFull DEF FullStates, Typed, FieldNames, Along, Still, SameClient
<1> HIDE DEF t
<1>3. ClientHeard(conf, t)
  BY <1>1, <1>2, ClientNow, InFull
  DEF FullStates, ClientHeard, Along, Still, SameClient, AfterStatus, AfterCert, Heard, Certified
<1>4. ClientWill(conf, t)
  BY <1>1, <1>2, ClientNow DEF ClientWill, Along, Still, SameClient, ClientSent, Master
<1>5. Gap(ServerSends(conf, s) \cup {Idle(c)}, ClientReadsFrom(c), ClientReadsFrom(t))
  BY <1>1, <1>2, ClientNow, InFull
  DEF FullStates, Gap, ServerSends, Idle, ClientReadsFrom, Certified, Requested, Along
<1>6. Gap(ClientSends(conf, s), ToServerBelow(c, s), ToServerBelow(t, s))
  BY <1>1, <1>2, ClientNow, InFull
  DEF FullStates, Gap, ClientSends, ToServerBelow, Along, Still, SameClient
<1>7. /\ Still(c, t) /\ ~t.failed /\ t.buffered = c.buffered /\ c.state \notin ClientFills
      /\ t.state # "CW_CLNT_HELLO"
  BY <1>1, <1>2 DEF Along, ClientFills, ClientWrites
<1> QED
  BY <1>1, <1>3, <1>4, <1>5, <1>6, <1>7, ClientGoes

LEMMA got_key_exchange_Lock ==
  ASSUME Ready, ssl[C].state = "CR_KEY_EXCH", IsNext(C, "ServerKeyExchange"),
         Receive(C, [ssl[C] EXCEPT !.state = "CR_CERT_REQ"])
  PROVE  Lockstep'
<1> DEFINE c == ssl[C]
           s == ssl[S]
           new == [ssl[C] EXCEPT !.state = "CR_CERT_REQ"]
           t == ssl3_finish_mac(new, Plain("ServerKeyExchange"))
<1>1. c.state = "CR_KEY_EXCH" /\ Receive(C, new) /\ IsNext(C, "ServerKeyExchange")
  BY DEF C
<1>2. /\ t.state = "CR_CERT_REQ" /\ t.mac = Append(c.mac, <<"ServerKeyExchange", 0>>)
      /\ Along(c, t) /\ t.sid = c.sid /\ t.master = c.master /\ t.cert_req = c.cert_req
  BY <1>1, ClientNow, InFull DEF ssl3_finish_mac, Plain, FullStates, Typed, FieldNames, Along, Still, SameClient
<1>8. t = ssl3_finish_mac(new, Plain("ServerKeyExchange"))
  OBVIOUS
<1> HIDE DEF new, t
<1>10. conf.kx # "rsa"
  BY <1>1, ClientMessage, ClientRank, InFull DEF FullStates, IsNext, ToClient, ServerSends
<1>3. ClientHeard(conf, t)
  BY <1>1, <1>2, <1>10, ClientNow, InFull
  DEF FullStates, ClientHeard, Along, Still, SameClient, AfterKeys, Heard
<1>4. ClientWill(conf, t)
  BY <1>1, <1>2, ClientNow DEF ClientWill, Along, Still, SameClient, ClientSent, Master
<1>5. Skips(ServerSends(conf, s), Idle(c), ClientReadsFrom(c), 4, ClientReadsFrom(t))
  BY <1>1, <1>2, <1>10, ClientNow DEF Skips, ServerSends, Idle, ClientReadsFrom, Certified, Requested, ClientWill, Along
<1>6. Gap(ClientSends(conf, s), ToServerBelow(c, s), ToServerBelow(t, s))
  BY <1>1, <1>2, <1>10, ClientNow, InFull DEF FullStates, Gap, ClientSends, ToServerBelow, Requested, Proven, ClientHeard, Along, Still, SameClient
<1>7. ToClient(Head(Line(C)), Idle(c)) = 4
  BY <1>1, ClientMessage DEF ToClient, IsNext
<1>9. c.state \notin ClientFills /\ t.state # "CW_CLNT_HELLO" /\ Still(c, t) /\ ~t.failed
  BY <1>1, <1>2 DEF Along, ClientFills, ClientWrites
<1> QED
  BY <1>1, <1>2, <1>3, <1>4, <1>5, <1>6, <1>7, <1>8, <1>9, ClientHears

LEMMA no_key_exchange_Lock == ASSUME Ready, ssl[C].state = "CR_KEY_EXCH", Arrives(C, "handshake"),
         Message(C).name \notin {"ServerKeyExchange", "HelloRequest"},
         Move(C, [ssl[C] EXCEPT !.state = "CR_CERT_REQ"]) PROVE Lockstep'
<1> DEFINE c == ssl[C]
           s == ssl[S]
           t == [ssl[C] EXCEPT !.state = "CR_CERT_REQ"]
<1>1. c.state = "CR_KEY_EXCH" /\ Become(C, t) /\ UNCHANGED <<wire, out, conf>>
  BY DEF Move
<1>2. t.state = "CR_CERT_REQ" /\ t.mac = c.mac /\ Along(c, t) /\ t.sid = c.sid /\ t.master = c.master /\ t.cert_req = c.cert_req
  BY <1>1, ClientNow, InFull DEF FullStates, Typed, FieldNames, Along, Still, SameClient
<1> HIDE DEF t
<1>8. conf.kx = "rsa"
  <2>1. /\ ToClient(Head(Line(C)), Idle(c)) \in {1, 2, 3, 5, 6, 7, 9}
        /\ ClientReadsFrom(c) = 4 /\ wire[C] # <<>>
    BY <1>1, ClientMessage DEF ToClient, ServerFlight, ClientReadsFrom
  <2>2. 4 \notin ServerSends(conf, s)
    BY <2>1, ClientRank
  <2> QED
    BY <1>1, <2>2, InFull DEF FullStates, ServerSends
<1>3. ClientHeard(conf, t)
  BY <1>1, <1>2, <1>8, ClientNow, InFull
  DEF FullStates, ClientHeard, Along, Still, SameClient, AfterKeys, Heard
<1>4. ClientWill(conf, t)
  BY <1>1, <1>2, ClientNow DEF ClientWill, Along, Still, SameClient, ClientSent, Master
<1>5. Gap(ServerSends(conf, s) \cup {Idle(c)}, ClientReadsFrom(c), ClientReadsFrom(t))
  BY <1>1, <1>2, <1>8, ClientNow, InFull
  DEF FullStates, Gap, ServerSends, Idle, ClientReadsFrom, Certified, Requested, Along
<1>6. Gap(ClientSends(conf, s), ToServerBelow(c, s), ToServerBelow(t, s))
  BY <1>1, <1>2, ClientNow, InFull
  DEF FullStates, Gap, ClientSends, ToServerBelow, Along, Still, SameClient
<1>7. /\ Still(c, t) /\ ~t.failed /\ t.buffered = c.buffered /\ c.state \notin ClientFills
      /\ t.state # "CW_CLNT_HELLO"
  BY <1>1, <1>2 DEF Along, ClientFills, ClientWrites
<1> QED
  BY <1>1, <1>3, <1>4, <1>5, <1>6, <1>7, ClientGoes

LEMMA get_key_exchange_Lock == ASSUME Ready, ssl3_get_key_exchange PROVE Lockstep'
BY got_key_exchange_Lock, no_key_exchange_Lock DEF ssl3_get_key_exchange

LEMMA got_certificate_request_Lock ==
  ASSUME Ready, ssl[C].state = "CR_CERT_REQ", IsNext(C, "CertificateRequest"),
         Receive(C, [ssl[C] EXCEPT !.state = "CR_SRVR_DONE", !.cert_req = 1])
  PROVE  Lockstep'
<1> DEFINE c == ssl[C]
           s == ssl[S]
           new == [ssl[C] EXCEPT !.state = "CR_SRVR_DONE", !.cert_req = 1]
           t == ssl3_finish_mac(new, Plain("CertificateRequest"))
<1>1. c.state = "CR_CERT_REQ" /\ Receive(C, new) /\ IsNext(C, "CertificateRequest")
  BY DEF C
<1>2. /\ t.state = "CR_SRVR_DONE" /\ t.mac = Append(c.mac, <<"CertificateRequest", 0>>)
      /\ Along(c, t) /\ t.sid = c.sid /\ t.master = c.master /\ t.cert_req = 1
  BY <1>1, ClientNow, InFull DEF ssl3_finish_mac, Plain, FullStates, Typed, FieldNames, Along, Still, SameClient
<1>8. t = ssl3_finish_mac(new, Plain("CertificateRequest"))
  OBVIOUS
<1> HIDE DEF new, t
<1>10. Requested(conf)
  <2>1. 5 \in ServerSends(conf, s) \cup {10} /\ 5 # 10
    BY <1>1, ClientMessage, ClientRank, InFull DEF FullStates, IsNext, ToClient
  <2> QED
    BY <1>1, <2>1 DEF ServerSends
<1>3. ClientHeard(conf, t)
  BY <1>1, <1>2, <1>10, ClientNow, InFull
  DEF FullStates, ClientHeard, Along, Still, SameClient, AfterRequest, Heard
<1>4. ClientWill(conf, t)
  BY <1>1, <1>2, ClientNow DEF ClientWill, Along, Still, SameClient, ClientSent, Master
<1>5. Skips(ServerSends(conf, s), Idle(c), ClientReadsFrom(c), 5, ClientReadsFrom(t))
  BY <1>1, <1>2, <1>10, ClientNow DEF Skips, ServerSends, Idle, ClientReadsFrom, Certified, Requested, ClientWill, Along
<1>6. Gap(ClientSends(conf, s), ToServerBelow(c, s), ToServerBelow(t, s))
  BY <1>1, <1>2, <1>10, ClientNow, InFull DEF FullStates, Gap, ClientSends, ToServerBelow, Requested, Proven, ClientHeard, Along, Still, SameClient
<1>7. ToClient(Head(Line(C)), Idle(c)) = 5
  BY <1>1, ClientMessage DEF ToClient, IsNext
<1>9. c.state \notin ClientFills /\ t.state # "CW_CLNT_HELLO" /\ Still(c, t) /\ ~t.failed
  BY <1>1, <1>2 DEF Along, ClientFills, ClientWrites
<1> QED
  BY <1>1, <1>2, <1>3, <1>4, <1>5, <1>6, <1>7, <1>8, <1>9, ClientHears

LEMMA no_certificate_request_Lock == ASSUME Ready, ssl[C].state = "CR_CERT_REQ", IsNext(C, "ServerHelloDone"),
         Move(C, [ssl[C] EXCEPT !.state = "CR_SRVR_DONE", !.cert_req = 0]) PROVE Lockstep'
<1> DEFINE c == ssl[C]
           s == ssl[S]
           t == [ssl[C] EXCEPT !.state = "CR_SRVR_DONE", !.cert_req = 0]
<1>1. c.state = "CR_CERT_REQ" /\ Become(C, t) /\ UNCHANGED <<wire, out, conf>>
  BY DEF Move
<1>2. t.state = "CR_SRVR_DONE" /\ t.mac = c.mac /\ Along(c, t) /\ t.sid = c.sid /\ t.master = c.master /\ t.cert_req = 0
  BY <1>1, ClientNow, InFull DEF FullStates, Typed, FieldNames, Along, Still, SameClient
<1> HIDE DEF t
<1>8. ~Requested(conf)
  <2>1. ToClient(Head(Line(C)), Idle(c)) = 6 /\ ClientReadsFrom(c) = 5 /\ wire[C] # <<>>
    BY <1>1, ClientMessage DEF ToClient, ClientReadsFrom, IsNext
  <2>2. 5 \notin ServerSends(conf, s)
    BY <2>1, ClientRank
  <2> QED
    BY <1>1, <2>2, InFull DEF FullStates, ServerSends
<1>3. ClientHeard(conf, t)
  BY <1>1, <1>2, <1>8, ClientNow, InFull
  DEF FullStates, ClientHeard, Along, Still, SameClient, AfterRequest, Heard
<1>4. ClientWill(conf, t)
  BY <1>1, <1>2, ClientNow DEF ClientWill, Along, Still, SameClient, ClientSent, Master
<1>5. Gap(ServerSends(conf, s) \cup {Idle(c)}, ClientReadsFrom(c), ClientReadsFrom(t))
  BY <1>1, <1>2, <1>8, ClientNow, InFull
  DEF FullStates, Gap, ServerSends, Idle, ClientReadsFrom, Certified, Requested, Along
<1>6. Gap(ClientSends(conf, s), ToServerBelow(c, s), ToServerBelow(t, s))
  BY <1>1, <1>2, ClientNow, InFull
  DEF FullStates, Gap, ClientSends, ToServerBelow, Along, Still, SameClient
<1>7. /\ Still(c, t) /\ ~t.failed /\ t.buffered = c.buffered /\ c.state \notin ClientFills
      /\ t.state # "CW_CLNT_HELLO"
  BY <1>1, <1>2 DEF Along, ClientFills, ClientWrites
<1> QED
  BY <1>1, <1>3, <1>4, <1>5, <1>6, <1>7, ClientGoes

LEMMA get_certificate_request_Lock == ASSUME Ready, ssl3_get_certificate_request PROVE Lockstep'
BY got_certificate_request_Lock, no_certificate_request_Lock DEF ssl3_get_certificate_request

LEMMA got_ticket_Lock ==
  ASSUME Ready, ssl[C].state = "CR_SESSION_TICKET", IsNext(C, "NewSessionTicket"),
         Receive(C, [ssl[C] EXCEPT !.state = "CR_FINISHED", !.tick = Message(C).tick,
                       !.sid = <<"hash", Message(C).tick>>])
  PROVE  Lockstep'
<1> DEFINE c == ssl[C]
           s == ssl[S]
           new == [ssl[C] EXCEPT !.state = "CR_FINISHED", !.tick = Message(C).tick,
                   !.sid = <<"hash", Message(C).tick>>]
           t == ssl3_finish_mac(new, Plain("NewSessionTicket"))
<1>1. c.state = "CR_SESSION_TICKET" /\ Receive(C, new) /\ IsNext(C, "NewSessionTicket")
  BY DEF C
<1>2. /\ t.state = "CR_FINISHED" /\ t.mac = Append(c.mac, <<"NewSessionTicket", 0>>)
      /\ Along(c, t) /\ t.sid = <<"hash", Message(C).tick>> /\ t.master = c.master /\ t.cert_req = c.cert_req
  BY <1>1, ClientNow, InFull DEF ssl3_finish_mac, Plain, FullStates, Typed, FieldNames, Along, Still, SameClient
<1>8. t = ssl3_finish_mac(new, Plain("NewSessionTicket"))
  OBVIOUS
<1> HIDE DEF new, t
<1>10. c.ticket_expected /\ c.mac = AfterClient(conf, c.cr, c.sr) /\ ~c.ccs
  BY <1>1, ClientNow, InFull DEF FullStates, ClientWill, ClientHeard
<1>11. t.mac = ServerCovers(conf, t)
  BY <1>1, <1>2, <1>10, InFull DEF FullStates, Along, Still, SameClient, ServerCovers, AfterTicket, Heard
<1>3. ClientHeard(conf, t)
  BY <1>1, <1>2, <1>10, <1>11, ClientNow, InFull
  DEF FullStates, ClientHeard, Along, Still, SameClient, Heard
<1>4. ClientWill(conf, t)
  BY <1>1, <1>2, ClientNow DEF ClientWill, Along, Still, SameClient, ClientSent, Master
<1>5. Skips(ServerSends(conf, s), Idle(c), ClientReadsFrom(c), 7, ClientReadsFrom(t))
  BY <1>1, <1>2, <1>10, <1>11, ClientNow DEF Skips, ServerSends, Idle, ClientReadsFrom, Certified, Requested, ClientWill, Along
<1>6. Gap(ClientSends(conf, s), ToServerBelow(c, s), ToServerBelow(t, s))
  BY <1>1, <1>2, <1>10, <1>11, ClientNow, InFull DEF FullStates, Gap, ClientSends, ToServerBelow, Requested, Proven, ClientHeard, Along, Still, SameClient
<1>7. ToClient(Head(Line(C)), Idle(c)) = 7
  BY <1>1, ClientMessage DEF ToClient, IsNext
<1>9. c.state \notin ClientFills /\ t.state # "CW_CLNT_HELLO" /\ Still(c, t) /\ ~t.failed
  BY <1>1, <1>2 DEF Along, ClientFills, ClientWrites
<1> QED
  BY <1>1, <1>2, <1>3, <1>4, <1>5, <1>6, <1>7, <1>8, <1>9, ClientHears

LEMMA get_new_session_ticket_Lock == ASSUME Ready, ssl3_get_new_session_ticket PROVE Lockstep'
<1>1. ASSUME ssl[C].state = "CR_SESSION_TICKET", IsNext(C, "Finished") PROVE FALSE
  <2>1. ToClient(Head(Line(C)), Idle(ssl[C])) = 9 /\ ClientReadsFrom(ssl[C]) = 7 /\ wire[C] # <<>>
    BY <1>1, ClientMessage DEF ToClient, ClientReadsFrom, IsNext
  <2>2. 7 \notin ServerSends(conf, ssl[S])
    BY <2>1, ClientRank
  <2>3. ssl[C].ticket_expected
    BY <1>1, ClientNow DEF ClientWill
  <2>4. ssl[S].ticket_expected /\ ~ssl[S].hit
    BY <1>1, <2>3, InFull DEF FullStates
  <2> QED
    BY <2>2, <2>4 DEF ServerSends
<1> QED
  BY <1>1, got_ticket_Lock DEF ssl3_get_new_session_ticket

\* A message is hashed and written.
LEMMA ClientSays ==
  ASSUME Ready, NEW new, NEW m, Send(C, new, m), NEW t, t = ssl3_finish_mac(new, m),
         Still(ssl[C], t), ~t.failed, t.buffered = ssl[C].buffered, t.state \in ClientFills,
         ClientHeard(conf, t), ClientWill(conf, t),
         ssl[C].cr # 0, ssl[C].state # "CR_SRVR_HELLO",
         Gap(ServerSends(conf, ssl[S]) \cup {Idle(ssl[C])}, ClientReadsFrom(ssl[C]), ClientReadsFrom(t)),
         NEW r, r = Record(C, "handshake", m), NEW n, n = ToServer(r), n \notin {5, 6},
         ClientSaid(conf, t, ssl[S], r),
         Follows(ClientSends(conf, ssl[S]), 7, ToServerBelow(ssl[C], ssl[S]), n, ToServerBelow(t, ssl[S]))
  PROVE  Lockstep'
<1>1. Become(C, t) /\ Put(C, <<r>>) /\ conf' = conf
  BY DEF Send
<1>2. Locked(conf, t, ssl[S], Line(C), Append(Line(S), r))
  BY ClientNow, ClientWritesOn
<1> QED
  BY <1>1, <1>2, ClientNow, ClientPut DEF ClientFills

\* The server reads with the keys that the client writes its flight with.
LEMMA FlightKey ==
  ASSUME Ready, ToServerBelow(ssl[C], ssl[S]) <= 5
  PROVE  ssl[S].rkey = ssl[C].wkey
<1>1. ~Between(ServerReadsFrom(ssl[S]), 5, ToServerBelow(ssl[C], ssl[S]))
  <2>1. ToServerBelow(ssl[C], ssl[S]) \in Nat
    BY Figures
  <2> QED
    BY <2>1 DEF Between
<1> QED
  BY <1>1, ClientNow DEF ToServerOk

LEMMA send_client_certificate_Lock ==
  ASSUME Ready, ssl3_send_client_certificate PROVE Lockstep'
<1> DEFINE c == ssl[C]
           s == ssl[S]
           new == [ssl[C] EXCEPT !.state = "CW_KEY_EXCH",
                     !.cert_req = IF conf.auth = "cert" THEN @ ELSE 2]
           m == [name |-> "Certificate", rnd |-> 0, empty |-> conf.auth # "cert"]
           r == Record(C, "handshake", m)
           t == ssl3_finish_mac(new, m)
<1>1. c.state = "CW_CERT" /\ Send(C, new, m)
  BY DEF ssl3_send_client_certificate
<1>2. /\ t.state = "CW_KEY_EXCH" /\ t.mac = Append(c.mac, <<"Certificate", 0>>)
      /\ Along(c, t) /\ t.sid = c.sid /\ t.master = c.master /\ t.cert_req = (IF conf.auth = "cert" THEN c.cert_req ELSE 2) /\ m.name = "Certificate" /\ m.rnd = 0
  BY <1>1, ClientNow, InFull
  DEF ssl3_finish_mac, Plain, FullStates, Typed, FieldNames, Along, Still, SameClient, ClientWill
<1>3. /\ r.type = "handshake" /\ r.key = c.wkey /\ r.body = m
  BY DEF Record
<1>4. s.rkey = c.wkey
  BY <1>1, FlightKey DEF ToServerBelow
<1>5. t = ssl3_finish_mac(new, m) /\ r = Record(C, "handshake", m)
  OBVIOUS
<1> HIDE DEF new, m, r, t
<1>6. ToServer(r) = 2 /\ ClientSaid(conf, t, s, r)
  BY <1>1, <1>2, <1>3, <1>4, ClientNow, InFull
  DEF FullStates, ToServer, ClientSaid, ClientFlies, ClientHeard, Along, Still, SameClient
<1>7. ClientHeard(conf, t)
  BY <1>1, <1>2, ClientNow, InFull
  DEF FullStates, ClientHeard, Along, Still, SameClient, Requested, Proven, AfterClientCert, Heard
<1>8. ClientWill(conf, t)
  BY <1>1, <1>2, ClientNow, InFull DEF FullStates, ClientWill, Along, Still, SameClient, ClientSent, Master
<1>9. Gap(ServerSends(conf, s) \cup {Idle(c)}, ClientReadsFrom(c), ClientReadsFrom(t))
  BY <1>1, <1>2, ClientNow, InFull
  DEF FullStates, Gap, ServerSends, Idle, ClientReadsFrom, Along, Still, SameClient
<1>10. Follows(ClientSends(conf, s), 7, ToServerBelow(c, s), 2, ToServerBelow(t, s))
  BY <1>1, <1>2, ClientNow, InFull
  DEF FullStates, Follows, ClientSends, ToServerBelow, ClientHeard, Requested, Proven
<1>11. /\ Still(c, t) /\ ~t.failed /\ t.buffered = c.buffered /\ t.state \in ClientFills
       /\ c.cr # 0 /\ c.state # "CR_SRVR_HELLO"
  BY <1>1, <1>2, InFull DEF FullStates, Along, ClientFills, ClientWrites
<1> QED
  BY <1>1, <1>5, <1>6, <1>7, <1>8, <1>9, <1>10, <1>11, ClientSays

LEMMA send_client_key_exchange_Lock ==
  ASSUME Ready, ssl3_send_client_key_exchange PROVE Lockstep'
<1> DEFINE c == ssl[C]
           s == ssl[S]
           new == [ssl[C] EXCEPT
                     !.state = IF ssl[C].cert_req = 1 THEN "CW_CERT_VRFY" ELSE "CW_CHANGE",
                     !.ccs = IF ssl[C].cert_req = 1 THEN @ ELSE FALSE,
                     !.master = <<ssl[C].cr, ssl[C].sr>>]
           m == Plain("ClientKeyExchange")
           r == Record(C, "handshake", m)
           t == ssl3_finish_mac(new, m)
<1>1. c.state = "CW_KEY_EXCH" /\ Send(C, new, m)
  BY DEF ssl3_send_client_key_exchange
<1>2. /\ t.state = (IF c.cert_req = 1 THEN "CW_CERT_VRFY" ELSE "CW_CHANGE") /\ t.mac = Append(c.mac, <<"ClientKeyExchange", 0>>)
      /\ Along(c, t) /\ t.sid = c.sid /\ t.master = <<c.cr, c.sr>> /\ m.name = "ClientKeyExchange" /\ m.rnd = 0
  BY <1>1, ClientNow, InFull
  DEF ssl3_finish_mac, Plain, FullStates, Typed, FieldNames, Along, Still, SameClient, ClientWill
<1>3. /\ r.type = "handshake" /\ r.key = c.wkey /\ r.body = m
  BY DEF Record
<1>4. s.rkey = c.wkey
  BY <1>1, FlightKey DEF ToServerBelow
<1>5. t = ssl3_finish_mac(new, m) /\ r = Record(C, "handshake", m)
  OBVIOUS
<1> HIDE DEF new, m, r, t
<1>6. ToServer(r) = 3 /\ ClientSaid(conf, t, s, r)
  BY <1>1, <1>2, <1>3, <1>4, ClientNow, InFull
  DEF FullStates, ToServer, ClientSaid, ClientFlies, ClientHeard, Along, Still, SameClient
<1>15. c.mac = AfterClientCert(conf, c.cr, c.sr) /\ (c.cert_req = 1 <=> Proven(conf)) /\ ~c.hit
  BY <1>1, ClientNow, InFull DEF FullStates, ClientHeard
<1>12. t.cr = c.cr /\ t.sr = c.sr /\ ~t.hit
  BY <1>2, <1>15 DEF Along, Still, SameClient
<1>13. t.mac = AfterExchange(conf, t.cr, t.sr)
  BY <1>2, <1>15, <1>12 DEF AfterExchange, Heard
<1>14. ~Proven(conf) => AfterVerify(conf, t.cr, t.sr) = AfterExchange(conf, t.cr, t.sr)
  BY DEF AfterVerify, Heard
<1>7. ClientHeard(conf, t)
  <2>1. CASE Proven(conf)
    <3>1. t.state = "CW_CERT_VRFY"
      BY <1>2, <1>15, <2>1
    <3> QED
      BY <1>13, <2>1, <3>1 DEF ClientHeard
  <2>2. CASE ~Proven(conf)
    <3>1. t.state = "CW_CHANGE"
      BY <1>2, <1>15, <2>2
    <3>2. t.mac = ClientCovers(conf, t)
      BY <1>12, <1>13, <1>14, <2>2 DEF ClientCovers
    <3> QED
      BY <3>1, <3>2 DEF ClientHeard
  <2> QED
    BY <2>1, <2>2
<1>8. ClientWill(conf, t)
  BY <1>1, <1>2, ClientNow, InFull DEF FullStates, ClientWill, Along, Still, SameClient, ClientSent, Master
<1>9. Gap(ServerSends(conf, s) \cup {Idle(c)}, ClientReadsFrom(c), ClientReadsFrom(t))
  BY <1>1, <1>2, ClientNow, InFull
  DEF FullStates, Gap, ServerSends, Idle, ClientReadsFrom, Along, Still, SameClient
<1>10. Follows(ClientSends(conf, s), 7, ToServerBelow(c, s), 3, ToServerBelow(t, s))
  BY <1>1, <1>2, ClientNow, InFull
  DEF FullStates, Follows, ClientSends, ToServerBelow, ClientHeard, Requested, Proven
<1>11. /\ Still(c, t) /\ ~t.failed /\ t.buffered = c.buffered /\ t.state \in ClientFills
       /\ c.cr # 0 /\ c.state # "CR_SRVR_HELLO"
  BY <1>1, <1>2, InFull DEF FullStates, Along, ClientFills, ClientWrites
<1> QED
  BY <1>1, <1>5, <1>6, <1>7, <1>8, <1>9, <1>10, <1>11, ClientSays

LEMMA send_client_verify_Lock ==
  ASSUME Ready, ssl3_send_client_verify PROVE Lockstep'
<1> DEFINE c == ssl[C]
           s == ssl[S]
           new == [ssl[C] EXCEPT !.state = "CW_CHANGE", !.ccs = FALSE]
           m == [name |-> "CertificateVerify", rnd |-> 0, signed |-> ssl[C].mac]
           r == Record(C, "handshake", m)
           t == ssl3_finish_mac(new, m)
<1>1. c.state = "CW_CERT_VRFY" /\ Send(C, new, m)
  BY DEF ssl3_send_client_verify
<1>2. /\ t.state = "CW_CHANGE" /\ t.mac = Append(c.mac, <<"CertificateVerify", 0>>)
      /\ Along(c, t) /\ t.sid = c.sid /\ t.master = c.master /\ m.name = "CertificateVerify" /\ m.rnd = 0 /\ m.signed = c.mac
  BY <1>1, ClientNow, InFull
  DEF ssl3_finish_mac, Plain, FullStates, Typed, FieldNames, Along, Still, SameClient, ClientWill
<1>3. /\ r.type = "handshake" /\ r.key = c.wkey /\ r.body = m
  BY DEF Record
<1>4. s.rkey = c.wkey
  BY <1>1, FlightKey DEF ToServerBelow
<1>5. t = ssl3_finish_mac(new, m) /\ r = Record(C, "handshake", m)
  OBVIOUS
<1> HIDE DEF new, m, r, t
<1>6. ToServer(r) = 4 /\ ClientSaid(conf, t, s, r)
  BY <1>1, <1>2, <1>3, <1>4, ClientNow, InFull
  DEF FullStates, ToServer, ClientSaid, ClientFlies, ClientHeard, Along, Still, SameClient
<1>7. ClientHeard(conf, t)
  BY <1>1, <1>2, ClientNow, InFull
  DEF FullStates, ClientHeard, Along, Still, SameClient, Requested, Proven, AfterVerify, ClientCovers, Heard
<1>8. ClientWill(conf, t)
  BY <1>1, <1>2, ClientNow, InFull DEF FullStates, ClientWill, Along, Still, SameClient, ClientSent, Master
<1>9. Gap(ServerSends(conf, s) \cup {Idle(c)}, ClientReadsFrom(c), ClientReadsFrom(t))
  BY <1>1, <1>2, ClientNow, InFull
  DEF FullStates, Gap, ServerSends, Idle, ClientReadsFrom, Along, Still, SameClient
<1>10. Follows(ClientSends(conf, s), 7, ToServerBelow(c, s), 4, ToServerBelow(t, s))
  BY <1>1, <1>2, ClientNow, InFull
  DEF FullStates, Follows, ClientSends, ToServerBelow, ClientHeard, Requested, Proven
<1>11. /\ Still(c, t) /\ ~t.failed /\ t.buffered = c.buffered /\ t.state \in ClientFills
       /\ c.cr # 0 /\ c.state # "CR_SRVR_HELLO"
  BY <1>1, <1>2, InFull DEF FullStates, Along, ClientFills, ClientWrites
<1> QED
  BY <1>1, <1>5, <1>6, <1>7, <1>8, <1>9, <1>10, <1>11, ClientSays

\* The buffer is written out, or an empty one taken away.
LEMMA ClientRests ==
  ASSUME Ready, NEW t, Become(C, t), Empties(C), conf' = conf, Still(ssl[C], t), ~t.failed,
         t.state = "CW_CLNT_HELLO" => ~t.buffered, ClientHeard(conf, t), ClientWill(conf, t),
         Gap(ServerSends(conf, ssl[S]) \cup {Idle(ssl[C])}, ClientReadsFrom(ssl[C]), ClientReadsFrom(t)),
         Gap(ClientSends(conf, ssl[S]), ToServerBelow(ssl[C], ssl[S]), ToServerBelow(t, ssl[S]))
  PROVE  Lockstep'
<1>1. Locked(conf, t, ssl[S], Line(C), Line(S))
  BY ClientNow, ClientMovesOn
<1> QED
  BY <1>1, ClientNow, ClientEmptied

\* The client is in a handshake that it has begun.
LEMMA InRun ==
  ASSUME Ready, ssl[C].state \notin {"BEFORE", "CW_CLNT_HELLO", "CR_SRVR_HELLO"}
  PROVE  /\ ssl[C].hit = ssl[S].hit /\ ssl[C].cr = ssl[S].cr /\ ssl[C].sr = ssl[S].sr
         /\ ssl[C].ticket_expected = ssl[S].ticket_expected /\ ssl[C].cr # 0
         /\ Idle(ssl[C]) = 10
BY ClientNow DEF Locked, SameRun, ClientWill, Idle

LEMMA flush_C_Lock ==
  ASSUME Ready, flush(C) PROVE Lockstep'
<1> DEFINE c == ssl[C]
           s == ssl[S]
           t == [ssl[C] EXCEPT !.state = ssl[C].next]
<1>1. c.state = "CW_FLUSH" /\ Become(C, t) /\ Empties(C) /\ conf' = conf
  BY DEF flush, Empties
<1>8. /\ IF c.hit THEN c.next = "DONE"
         ELSE c.next \in {"CUTTHROUGH_COMPLETE", "CR_SESSION_TICKET", "CR_FINISHED"}
      /\ c.next = "CR_SESSION_TICKET" => c.ticket_expected
      /\ c.next = "CR_FINISHED" => ~c.ticket_expected
      /\ ~c.hit => c.mac = AfterClient(conf, c.cr, c.sr)
      /\ c.master = Master(c) /\ ~c.ccs
  BY <1>1, ClientNow DEF ClientKeys, ClientWill, ClientHeard, ClientSent
<1>2. /\ t.state = c.next /\ t.mac = c.mac
      /\ Along(c, t) /\ t.sid = c.sid /\ t.master = c.master
  BY <1>1, <1>8, ClientNow, InRun DEF Typed, FieldNames, Along, Still, SameClient
<1> HIDE DEF t
<1>3. ClientHeard(conf, t)
  BY <1>1, <1>2, <1>8, ClientNow, InRun
  DEF ClientHeard, Along, Still, SameClient, AfterTicket, ServerCovers, Heard
<1>4. ClientWill(conf, t)
  BY <1>1, <1>2, <1>8, ClientNow, InRun
  DEF ClientWill, Along, Still, SameClient, ClientSent, Master
<1>5. Gap(ServerSends(conf, s) \cup {Idle(c)}, ClientReadsFrom(c), ClientReadsFrom(t))
  BY <1>1, <1>2, <1>8, ClientNow, InRun
  DEF Gap, ServerSends, Idle, ClientReadsFrom, Along, Still, SameClient
<1>6. Gap(ClientSends(conf, s), ToServerBelow(c, s), ToServerBelow(t, s))
  BY <1>1, <1>2, <1>8, ClientNow, InRun
  DEF Gap, ClientSends, ToServerBelow, Along, Still, SameClient
<1>7. Still(c, t) /\ ~t.failed /\ t.state # "CW_CLNT_HELLO"
  BY <1>1, <1>8, <1>2 DEF Along
<1> QED
  BY <1>1, <1>3, <1>4, <1>5, <1>6, <1>7, ClientRests

LEMMA cutthrough_Lock ==
  ASSUME Ready, cutthrough PROVE Lockstep'
<1> DEFINE c == ssl[C]
           s == ssl[S]
           t == [ssl[C] EXCEPT !.buffered = FALSE,
                   !.state = IF ssl[C].ticket_expected THEN "CR_SESSION_TICKET" ELSE "CR_FINISHED"]
<1>1. c.state = "CUTTHROUGH_COMPLETE" /\ Become(C, t) /\ Empties(C) /\ conf' = conf
  BY ClientEmpty DEF cutthrough, Empties, ClientFills
<1>8. ~c.hit /\ c.mac = AfterClient(conf, c.cr, c.sr) /\ c.master = Master(c) /\ ~c.ccs
  BY <1>1, ClientNow DEF ClientKeys, ClientWill, ClientHeard, ClientSent, Keys, FullStates
<1>2. /\ t.state = (IF c.ticket_expected THEN "CR_SESSION_TICKET" ELSE "CR_FINISHED") /\ t.mac = c.mac
      /\ Still(c, t) /\ ~t.failed /\ t.ccs = c.ccs /\ t.sid = c.sid /\ t.master = c.master
      /\ t.new_cipher = c.new_cipher /\ t.renegotiate = c.renegotiate /\ t.good = c.good
      /\ t.shutdown = c.shutdown /\ t.new_session = c.new_session
  BY <1>1, <1>8, ClientNow, InRun DEF Typed, FieldNames, Still, SameClient
<1> HIDE DEF t
<1>3. ClientHeard(conf, t)
  BY <1>1, <1>2, <1>8, ClientNow, InRun
  DEF ClientHeard, Still, SameClient, AfterTicket, ServerCovers, Heard
<1>4. ClientWill(conf, t)
  BY <1>1, <1>2, <1>8, ClientNow, InRun
  DEF ClientWill, Still, SameClient, ClientSent, Master
<1>5. Gap(ServerSends(conf, s) \cup {Idle(c)}, ClientReadsFrom(c), ClientReadsFrom(t))
  BY <1>1, <1>2, <1>8, ClientNow, InRun
  DEF Gap, ServerSends, Idle, ClientReadsFrom, Still, SameClient
<1>6. Gap(ClientSends(conf, s), ToServerBelow(c, s), ToServerBelow(t, s))
  BY <1>1, <1>2, <1>8, ClientNow, InRun
  DEF Gap, ClientSends, ToServerBelow, Still, SameClient
<1>7. Still(c, t) /\ ~t.failed /\ t.state # "CW_CLNT_HELLO"
  BY <1>1, <1>8, <1>2 DEF Still
<1> QED
  BY <1>1, <1>3, <1>4, <1>5, <1>6, <1>7, ClientRests

LEMMA handshake_done_C_Lock ==
  ASSUME Ready, handshake_done(C) PROVE Lockstep'
<1> DEFINE c == ssl[C]
           s == ssl[S]
           t == [ssl[C] EXCEPT !.state = "OK", !.key_block = None, !.buffered = FALSE,
                   !.new_session = 0, !.good = ssl[C].good + 1]
<1>1. c.state = "DONE" /\ Become(C, t) /\ Empties(C) /\ conf' = conf
  BY ClientEmpty DEF handshake_done, Empties, ClientFills, ClientWrites
<1>8. c.good \in Nat /\ ~c.ccs /\ c.master = Master(c)
  BY <1>1, ClientNow DEF Typed, ClientWill
<1>2. /\ t.state = "OK" /\ t.mac = c.mac
      /\ Still(c, t) /\ ~t.failed /\ t.ccs = c.ccs /\ t.sid = c.sid /\ t.master = c.master
      /\ t.new_cipher = c.new_cipher /\ t.renegotiate = c.renegotiate /\ t.good = c.good + 1
      /\ t.shutdown = c.shutdown /\ t.new_session = 0
  BY <1>1, <1>8, ClientNow, InRun DEF Typed, FieldNames, Still, SameClient
<1> HIDE DEF t
<1>3. ClientHeard(conf, t)
  BY <1>1, <1>2, <1>8, ClientNow, InRun
  DEF ClientHeard, Still, SameClient
<1>4. ClientWill(conf, t)
  BY <1>1, <1>2, <1>8, ClientNow, InRun
  DEF ClientWill, Still, SameClient, ClientSent, Master
<1>5. Gap(ServerSends(conf, s) \cup {Idle(c)}, ClientReadsFrom(c), ClientReadsFrom(t))
  BY <1>1, <1>2, <1>8, ClientNow, InRun
  DEF Gap, ServerSends, Idle, ClientReadsFrom, Still, SameClient
<1>6. Gap(ClientSends(conf, s), ToServerBelow(c, s), ToServerBelow(t, s))
  BY <1>1, <1>2, <1>8, ClientNow, InRun
  DEF Gap, ClientSends, ToServerBelow, Still, SameClient
<1>7. Still(c, t) /\ ~t.failed /\ t.state # "CW_CLNT_HELLO"
  BY <1>1, <1>8, <1>2 DEF Still
<1> QED
  BY <1>1, <1>3, <1>4, <1>5, <1>6, <1>7, ClientRests

LEMMA connect_start_Lock ==
  ASSUME Ready, connect_start PROVE Lockstep'
<1> DEFINE c == ssl[C]
           s == ssl[S]
           t == [ssl[C] EXCEPT !.state = "CW_CLNT_HELLO", !.mac = None, !.buffered = FALSE,
                   !.new_session = IF ssl[C].state = "RENEGOTIATE" THEN 1 ELSE @]
<1>1. c.state \in {"BEFORE", "RENEGOTIATE"} /\ Become(C, t) /\ Empties(C) /\ conf' = conf
  BY ClientEmpty DEF connect_start, Empties, ClientFills, ClientWrites
<1>8. ~c.ccs
  BY <1>1, ClientNow DEF ClientWill
<1>2. /\ t.state = "CW_CLNT_HELLO" /\ t.mac = None
      /\ Still(c, t) /\ ~t.failed /\ t.ccs = c.ccs /\ t.sid = c.sid /\ t.master = c.master
      /\ t.new_cipher = c.new_cipher /\ t.renegotiate = c.renegotiate /\ t.good = c.good
      /\ t.shutdown = c.shutdown /\ t.new_session = (IF c.state = "RENEGOTIATE" THEN 1 ELSE c.new_session) /\ ~t.buffered
  BY <1>1, <1>8, ClientNow DEF Typed, FieldNames, Still, SameClient
<1> HIDE DEF t
<1>3. ClientHeard(conf, t)
  BY <1>1, <1>2, <1>8, ClientNow
  DEF ClientHeard, Still, SameClient
<1>4. ClientWill(conf, t)
  BY <1>1, <1>2, <1>8, ClientNow
  DEF ClientWill, Still, SameClient, ClientSent, Master
<1>5. Gap(ServerSends(conf, s) \cup {Idle(c)}, ClientReadsFrom(c), ClientReadsFrom(t))
  BY <1>1, <1>2, <1>8, ClientNow
  DEF Gap, ServerSends, Idle, ClientReadsFrom, Still, SameClient
<1>6. Gap(ClientSends(conf, s), ToServerBelow(c, s), ToServerBelow(t, s))
  BY <1>1, <1>2, <1>8, ClientNow
  DEF Gap, ClientSends, ToServerBelow, Still, SameClient
<1>7. Still(c, t) /\ ~t.failed /\ ~t.buffered
  BY <1>1, <1>8, <1>2 DEF Still
<1> QED
  BY <1>1, <1>3, <1>4, <1>5, <1>6, <1>7, ClientRests

LEMMA renegotiate_check_C_Lock ==
  ASSUME Ready, ssl3_renegotiate_check(C) PROVE Lockstep'
<1> DEFINE c == ssl[C]
           s == ssl[S]
           t == [ssl[C] EXCEPT !.state = "RENEGOTIATE", !.renegotiate = FALSE, !.total = ssl[C].total + 1]
<1>1. c.state = "OK" /\ c.renegotiate /\ Become(C, t) /\ UNCHANGED <<wire, out>> /\ conf' = conf
  BY ClientNow DEF ssl3_renegotiate_check, Move, SSL_in_init, cutthrough_complete, ClientWill, ClientKeys
<1>8. ~c.ccs /\ "sent" \notin c.shutdown
  BY <1>1, ClientNow DEF Ready, Calm, Apart, ClientWill, ClientCalls
<1>2. /\ t.state = "RENEGOTIATE" /\ t.mac = c.mac
      /\ Still(c, t) /\ ~t.failed /\ t.ccs = c.ccs /\ t.sid = c.sid /\ t.master = c.master
      /\ t.new_cipher = c.new_cipher /\ t.renegotiate = FALSE /\ t.good = c.good
      /\ t.shutdown = c.shutdown /\ t.new_session = c.new_session /\ t.buffered = c.buffered
  BY <1>1, <1>8, ClientNow, InRun DEF Typed, FieldNames, Still, SameClient
<1> HIDE DEF t
<1>3. ClientHeard(conf, t)
  BY <1>1, <1>2, <1>8, ClientNow, InRun
  DEF ClientHeard, Still, SameClient
<1>4. ClientWill(conf, t)
  BY <1>1, <1>2, <1>8, ClientNow, InRun
  DEF ClientWill, Still, SameClient, ClientSent, Master
<1>5. Gap(ServerSends(conf, s) \cup {Idle(c)}, ClientReadsFrom(c), ClientReadsFrom(t))
  BY <1>1, <1>2, <1>8, ClientNow, InRun
  DEF Gap, ServerSends, Idle, ClientReadsFrom, Still, SameClient
<1>6. Gap(ClientSends(conf, s), ToServerBelow(c, s), ToServerBelow(t, s))
  BY <1>1, <1>2, <1>8, ClientNow, InRun
  DEF Gap, ClientSends, ToServerBelow, Still, SameClient
<1>7. Still(c, t) /\ ~t.failed /\ t.buffered = c.buffered /\ t.state # "CW_CLNT_HELLO"
      /\ (c.state \in ClientFills => t.state \in ClientFills)
  BY <1>1, <1>8, <1>2 DEF ClientFills, ClientWrites
<1> QED
  BY <1>1, <1>3, <1>4, <1>5, <1>6, <1>7, ClientGoes

LEMMA renegotiate_C_Lock ==
  ASSUME Ready, SSL_renegotiate(C) PROVE Lockstep'
<1> DEFINE c == ssl[C]
           s == ssl[S]
           t == [ssl[C] EXCEPT !.renegotiate = TRUE,
                   !.new_session = IF ssl[C].new_session = 0 THEN 1 ELSE @]
<1>1. c.good > 0 /\ c.state \in Reads \cup {"OK", "BEFORE"} /\ Become(C, t) /\ UNCHANGED <<wire, out>> /\ conf' = conf
  BY DEF SSL_renegotiate, Move, AtRest, Ready, Calm, May, Endpoint
<1>8. c.cr # 0 /\ c.state # "BEFORE"
  BY <1>1, ClientNow DEF ClientCounts, Typed, ClientWill
<1>2. /\ t.state = c.state /\ t.mac = c.mac
      /\ Still(c, t) /\ ~t.failed /\ t.ccs = c.ccs /\ t.sid = c.sid /\ t.master = c.master
      /\ t.new_cipher = c.new_cipher /\ t.renegotiate = TRUE /\ t.good = c.good
      /\ t.shutdown = c.shutdown /\ t.new_session = (IF c.new_session = 0 THEN 1 ELSE c.new_session) /\ t.buffered = c.buffered /\ t.next = c.next /\ t.cert_req = c.cert_req /\ t.peer_md = c.peer_md
  BY <1>1, <1>8, ClientNow DEF Typed, FieldNames, Still, SameClient
<1> HIDE DEF t
<1>3. ClientHeard(conf, t)
  BY <1>1, <1>2, <1>8, ClientNow
  DEF ClientHeard, Still, SameClient, ServerCovers, ClientCovers
<1>4. ClientWill(conf, t)
  BY <1>1, <1>2, <1>8, ClientNow
  DEF ClientWill, Still, SameClient, ClientSent, Master
<1>5. Gap(ServerSends(conf, s) \cup {Idle(c)}, ClientReadsFrom(c), ClientReadsFrom(t))
  BY <1>1, <1>2, <1>8, ClientNow
  DEF Gap, ServerSends, Idle, ClientReadsFrom, Still, SameClient
<1>6. Gap(ClientSends(conf, s), ToServerBelow(c, s), ToServerBelow(t, s))
  <2>1. ToServerBelow(t, s) = ToServerBelow(c, s)
    BY <1>2 DEF ToServerBelow, Waiting, Still, SameClient
  <2> QED
    BY <2>1, NoGaps
<1>7. Still(c, t) /\ ~t.failed /\ t.buffered = c.buffered /\ t.state # "CW_CLNT_HELLO"
      /\ (c.state \in ClientFills => t.state \in ClientFills)
  BY <1>1, <1>8, <1>2 DEF Reads, ClientReads, ServerReads
<1> QED
  BY <1>1, <1>3, <1>4, <1>5, <1>6, <1>7, ClientGoes

-----------------------------------------------------------------------------
(* The client's data, its alerts and what it reads at rest.                *)

\* Where no end changes.
LEMMA EndsLock ==
  ASSUME Inv, Lockstep, ssl' = ssl, conf' = conf, NEW e \in Endpoint,
         out' = out \/ (out'[e] = <<>> /\ out'[Peer(e)] = out[Peer(e)]),
         Locked(conf, ssl[C], ssl[S], Line(C)', Line(S)')
  PROVE  Lockstep'
<1>1. \A x \in Endpoint : out'[x] = out[x] \/ out'[x] = <<>>
  BY PeerFacts
<1>2. Buffers'
  BY <1>1, PeerFacts DEF Lockstep, Buffers
<1> QED
  BY <1>2 DEF Lockstep, NoAlert

\* Only the alerts the client has sent or read are new.
Closing(c, t) ==
  /\ t.state = c.state /\ t.next = c.next /\ t.mac = c.mac /\ t.hit = c.hit
  /\ t.cr = c.cr /\ t.sr = c.sr /\ t.rkey = c.rkey /\ t.wkey = c.wkey /\ t.prev = c.prev
  /\ t.ticket_expected = c.ticket_expected /\ t.sid = c.sid /\ t.tick = c.tick
  /\ t.master = c.master /\ t.cert_req = c.cert_req /\ t.peer_md = c.peer_md /\ t.ccs = c.ccs
  /\ t.new_cipher = c.new_cipher /\ t.renegotiate = c.renegotiate /\ t.good = c.good
  /\ t.new_session = c.new_session /\ t.buffered = c.buffered /\ t.failed = c.failed
  /\ t.peer = c.peer

LEMMA ClientCloses ==
  ASSUME Ready, NEW t, Closing(ssl[C], t), "sent" \in t.shutdown => ssl[C].state = "OK"
  PROVE  /\ ClientHeard(conf, t) /\ ClientWill(conf, t) /\ Still(ssl[C], t) /\ ~t.failed
         /\ ClientReadsFrom(t) = ClientReadsFrom(ssl[C])
         /\ ToServerBelow(t, ssl[S]) = ToServerBelow(ssl[C], ssl[S])
         /\ ClientFills \subseteq ClientWrites
<1>1. ClientHeard(conf, t)
  BY ClientNow DEF Closing, ClientHeard, ServerCovers, ClientCovers
<1>2. ClientWill(conf, t)
  BY ClientNow DEF Closing, ClientWill, Master
<1>3. Still(ssl[C], t) /\ ~t.failed
  BY ClientNow DEF Closing, Still, SameClient
<1>4. ClientReadsFrom(t) = ClientReadsFrom(ssl[C])
  BY DEF Closing, ClientReadsFrom
<1>5. ToServerBelow(t, ssl[S]) = ToServerBelow(ssl[C], ssl[S])
  BY DEF Closing, ToServerBelow, Waiting
<1> QED
  BY <1>1, <1>2, <1>3, <1>4, <1>5 DEF ClientFills

LEMMA IdleApart ==
  ASSUME NEW k, NEW c, NEW s
  PROVE  /\ Idle(c) \notin {8, 9} /\ Idle(c) \notin ServerSends(k, s) /\ Idle(c) \in Nat
         /\ ClientReadsFrom(c) \in Nat /\ ServerSends(k, s) \subseteq Nat
<1>1. Idle(c) \in {0, 10}
  BY DEF Idle
<1>2. ServerSends(k, s) \subseteq 1 .. 9
  BY Tables
<1>3. \A n \in 1 .. 9 : n \in Nat /\ n \notin {0, 10}
  OBVIOUS
<1> QED
  BY <1>1, <1>2, <1>3, Figures

LEMMA ClosingSame == \A c : Closing(c, c)
BY DEF Closing

\* What is of no handshake is read wherever the client stands.
LEMMA ClientDrops ==
  ASSUME Ready, NEW t, Closing(ssl[C], t), "sent" \in t.shutdown => ssl[C].state = "OK",
         wire[C] # <<>>, ToClient(Head(Line(C)), Idle(ssl[C])) = Idle(ssl[C])
  PROVE  Locked(conf, t, ssl[S], Tail(Line(C)), Line(S))
<1> DEFINE c == ssl[C]
           N == ServerSends(conf, ssl[S])
           z == Idle(c)
           lo == ClientReadsFrom(c)
<1>1. /\ ClientHeard(conf, t) /\ ClientWill(conf, t) /\ Still(c, t)
      /\ ClientReadsFrom(t) = lo /\ ToServerBelow(t, ssl[S]) = ToServerBelow(c, ssl[S])
  BY ClientCloses
<1>2. lo <= z
  BY ClientRank
<1>3. z \notin {8, 9} /\ z \notin N /\ lo \in Nat /\ N \subseteq Nat /\ z \in Nat
  BY IdleApart
<1>4. Skips(N, z, lo, z, lo)
  <2> HIDE DEF N, z, lo
  <2> QED
    BY <1>2, <1>3 DEF Skips
<1>5. Gap(ClientSends(conf, ssl[S]), ToServerBelow(c, ssl[S]), ToServerBelow(t, ssl[S]))
  BY <1>1, NoGaps
<1>6. Line(C) # <<>>
  BY ClientHead
<1> QED
  BY <1>1, <1>3, <1>4, <1>5, <1>6, ClientNow, ClientReadsOn

\* The client's buffer is empty where its application is at rest or it reads.
LEMMA ClientQuiet ==
  ASSUME Ready, ssl[C].state \in Reads \cup {"OK", "BEFORE"}
  PROVE  out[C] = <<>> /\ ssl[C].state \notin ClientFills
BY ClientEmpty DEF Reads, ClientReads, ServerReads, ClientFills, ClientWrites

LEMMA read_C_Lock == ASSUME Ready, SSL_read(C) PROVE Lockstep'
<1>1. /\ Arrives(C, "app") /\ Take(C) /\ ssl' = ssl /\ out' = out /\ conf' = conf /\ wire[C] # <<>>
  BY DEF SSL_read, Arrives
<1>2. ToClient(Head(Line(C)), Idle(ssl[C])) = Idle(ssl[C])
  BY <1>1, ClientHead DEF Arrives, ToClient
<1>3. "sent" \in ssl[C].shutdown => ssl[C].state = "OK"
  BY ClientNow DEF ClientWill
<1>4. Locked(conf, ssl[C], ssl[S], Tail(Line(C)), Line(S))
  BY <1>1, <1>2, <1>3, ClosingSame, ClientDrops
<1>5. Line(C)' = Tail(Line(C)) /\ Line(S)' = Line(S)
  BY <1>1, ClientNow, LineTake, PeerFacts
<1> QED
  BY <1>1, <1>4, <1>5, ClientNow, EndsLock, PeerFacts

LEMMA discard_C_Lock == ASSUME Ready, discard(C) PROVE Lockstep'
<1>1. /\ Take(C) /\ ssl' = ssl /\ out' = out /\ conf' = conf /\ wire[C] # <<>>
      /\ ssl[C].shutdown = {"sent"}
  BY DEF discard, Discards
<1>2. ToClient(Head(Line(C)), Idle(ssl[C])) = Idle(ssl[C])
  <2>1. ssl[C].state = "OK"
    BY <1>1, ClientNow DEF ClientWill
  <2>2. ClientReadsFrom(ssl[C]) = 10 /\ Idle(ssl[C]) = 10
    BY <2>1 DEF ClientReadsFrom, Idle
  <2>3. ServerSends(conf, ssl[S]) \subseteq 1 .. 9
    BY Tables
  <2> QED
    BY <1>1, <2>2, <2>3, ClientRank
<1>3. "sent" \in ssl[C].shutdown => ssl[C].state = "OK"
  BY ClientNow DEF ClientWill
<1>4. Locked(conf, ssl[C], ssl[S], Tail(Line(C)), Line(S))
  BY <1>1, <1>2, <1>3, ClosingSame, ClientDrops
<1>5. Line(C)' = Tail(Line(C)) /\ Line(S)' = Line(S)
  BY <1>1, ClientNow, LineTake, PeerFacts
<1> QED
  BY <1>1, <1>4, <1>5, ClientNow, EndsLock, PeerFacts

LEMMA read_close_notify_C_Lock == ASSUME Ready, read_close_notify(C) PROVE Lockstep'
<1> DEFINE c == ssl[C]
           t == [ssl[C] EXCEPT !.shutdown = @ \cup {"received"}]
<1>1. /\ Arrives(C, "close_notify") /\ Take(C) /\ Become(C, t) /\ UNCHANGED <<out, conf>>
      /\ wire[C] # <<>> /\ c.state \in Reads \cup {"OK"}
  BY DEF read_close_notify, Arrives, Reading
<1>2. Closing(c, t) /\ ("sent" \in t.shutdown => c.state = "OK")
  BY ClientNow DEF Closing, Typed, FieldNames, ClientWill
<1>3. ToClient(Head(Line(C)), Idle(c)) = Idle(c)
  BY <1>1, ClientHead DEF Arrives, ToClient
<1> HIDE DEF t
<1>4. Locked(conf, t, ssl[S], Tail(Line(C)), Line(S))
  BY <1>1, <1>2, <1>3, ClientDrops
<1>5. ClientFits(t)
  BY <1>1, <1>2, ClientNow, ClientQuiet
  DEF ClientFits, Closing, Reads, ClientReads, ServerReads
<1> QED
  BY <1>1, <1>4, <1>5, ClientNow, ClientTook

\* The client writes what is of no handshake.
LEMMA ClientAdds ==
  ASSUME Ready, NEW t, Closing(ssl[C], t), "sent" \in t.shutdown => ssl[C].state = "OK",
         ssl[C].state = "OK" \/ cutthrough_complete(C),
         NEW type \in {"app", "close_notify"}, NEW b
  PROVE  /\ Locked(conf, t, ssl[S], Line(C), Append(Line(S), Record(C, type, b)))
         /\ ~ssl[C].buffered /\ ssl[C].state # "CW_CLNT_HELLO" /\ out[C] = <<>>
<1> DEFINE c == ssl[C]
           s == ssl[S]
           r == Record(C, type, b)
<1>1. /\ ClientHeard(conf, t) /\ ClientWill(conf, t) /\ Still(c, t)
      /\ ClientReadsFrom(t) = ClientReadsFrom(c) /\ ToServerBelow(t, s) = ToServerBelow(c, s)
  BY ClientCloses
<1>2. /\ c.state \in {"OK", "CR_SESSION_TICKET", "CR_FINISHED"}
      /\ c.state = "OK" \/ (~c.hit /\ conf.cut /\ c.prev[S] = None)
  BY DEF cutthrough_complete
<1>3. ToServerBelow(c, s) = 8 /\ ~c.buffered /\ c.cr # 0 /\ c.state # "CR_SRVR_HELLO"
  BY <1>2, ClientNow DEF ToServerBelow, Keys, ClientKeys, ClientWill
<1>4. r.type = type /\ r.key = t.wkey
  BY DEF Record, Closing
<1> HIDE DEF r
<1>5. ToServer(r) = 7 /\ ClientSaid(conf, t, s, r)
  BY <1>4 DEF ToServer, ClientSaid
<1>6. Follows(ClientSends(conf, s), 7, ToServerBelow(c, s), 7, ToServerBelow(t, s))
  BY <1>1, <1>3, Tables DEF Follows
<1>7. Gap(ServerSends(conf, s) \cup {Idle(c)}, ClientReadsFrom(c), ClientReadsFrom(t))
  BY <1>1, NoGaps
<1>8. Locked(conf, t, s, Line(C), Append(Line(S), r))
  BY <1>1, <1>3, <1>5, <1>6, <1>7, ClientNow, ClientWritesOn
<1>9. out[C] = <<>>
  BY <1>2, ClientEmpty DEF ClientFills, ClientWrites
<1> QED
  BY <1>2, <1>3, <1>8, <1>9 DEF r

LEMMA write_C_Lock == ASSUME Ready, SSL_write(C) PROVE Lockstep'
<1> DEFINE r == Record(C, "app", Plain("data"))
<1>1. /\ Put(C, <<r>>) /\ ssl' = ssl /\ conf' = conf
      /\ ssl[C].state = "OK" \/ cutthrough_complete(C)
  BY DEF SSL_write, SSL_in_init
<1>2. "sent" \in ssl[C].shutdown => ssl[C].state = "OK"
  BY ClientNow DEF ClientWill
<1>3. Locked(conf, ssl[C], ssl[S], Line(C), Append(Line(S), r)) /\ ~ssl[C].buffered /\ out[C] = <<>>
  BY <1>1, <1>2, ClosingSame, ClientAdds
<1>4. Line(S)' = Append(Line(S), r) /\ Line(C)' = Line(C) /\ out' = out
  BY <1>1, <1>3, ClientNow, LinePut, PeerFacts
<1> QED
  BY <1>1, <1>3, <1>4, ClientNow, EndsLock, PeerFacts

LEMMA shutdown_C_Lock == ASSUME Ready, SSL_shutdown(C) PROVE Lockstep'
<1> DEFINE c == ssl[C]
<1>0. c.state \in Reads \cup {"OK", "BEFORE"}
  BY DEF SSL_shutdown, AtRest
<1>1. ASSUME Move(C, [ssl[C] EXCEPT !.shut = TRUE]) PROVE Lockstep'
  <2> DEFINE t == [ssl[C] EXCEPT !.shut = TRUE]
  <2>1. Become(C, t) /\ UNCHANGED <<wire, out, conf>>
    BY <1>1 DEF Move
  <2>2. Closing(c, t) /\ t.shutdown = c.shutdown
    BY ClientNow DEF Closing, Typed, FieldNames
  <2> HIDE DEF t
  <2>3. "sent" \in t.shutdown => c.state = "OK"
    BY <2>2, ClientNow DEF ClientWill
  <2>4. /\ ClientHeard(conf, t) /\ ClientWill(conf, t) /\ Still(c, t) /\ ~t.failed
        /\ ClientReadsFrom(t) = ClientReadsFrom(c)
        /\ ToServerBelow(t, ssl[S]) = ToServerBelow(c, ssl[S])
    BY <2>2, <2>3, ClientCloses
  <2>5. /\ Gap(ServerSends(conf, ssl[S]) \cup {Idle(c)}, ClientReadsFrom(c), ClientReadsFrom(t))
        /\ Gap(ClientSends(conf, ssl[S]), ToServerBelow(c, ssl[S]), ToServerBelow(t, ssl[S]))
    BY <2>4, NoGaps
  <2>6. t.state = c.state /\ t.buffered = c.buffered
    BY <2>2 DEF Closing
  <2> QED
    BY <2>1, <2>4, <2>5, <2>6, ClientGoes
<1>2. ASSUME ~SSL_in_init(C), May(C, IF ssl[C].state = "OK" THEN "shutdown" ELSE "shutdown_in_window"),
             Become(C, [ssl[C] EXCEPT !.shutdown = @ \cup {"sent"},
                          !.shut = "received" \in ssl[C].shutdown]),
             Put(C, <<Record(C, "close_notify", Plain("close_notify"))>>), conf' = conf
      PROVE  Lockstep'
  <2> DEFINE t == [ssl[C] EXCEPT !.shutdown = @ \cup {"sent"},
                     !.shut = "received" \in ssl[C].shutdown]
             r == Record(C, "close_notify", Plain("close_notify"))
  <2>1. c.state = "OK"
    BY <1>2 DEF Ready, Calm, May, Endpoint
  <2>2. Closing(c, t)
    BY ClientNow DEF Closing, Typed, FieldNames
  <2>3. Become(C, t) /\ Put(C, <<r>>)
    BY <1>2
  <2> HIDE DEF t, r
  <2>4. Locked(conf, t, ssl[S], Line(C), Append(Line(S), r)) /\ ~c.buffered
    BY <2>1, <2>2, ClientAdds DEF r
  <2>5. t.state # "CW_CLNT_HELLO" /\ ~t.failed
    BY <2>1, <2>2, ClientNow DEF Closing
  <2> QED
    BY <1>2, <2>3, <2>4, <2>5, ClientNow, ClientPut
<1> QED
  BY <1>1, <1>2 DEF SSL_shutdown

LEMMA read_hello_request_Lock == ASSUME Ready, read_hello_request PROVE Lockstep'
<1> DEFINE c == ssl[C]
           s == ssl[S]
           t == [ssl[C] EXCEPT !.state = "RENEGOTIATE", !.total = @ + 1]
<1>1. /\ IsNext(C, "HelloRequest") /\ Take(C) /\ UNCHANGED <<out, conf>> /\ wire[C] # <<>>
      /\ c.state \in ClientReads \cup {"OK"}
      /\ IF Reading(C) THEN Become(C, t) ELSE Become(C, c)
  BY DEF read_hello_request, IsNext, Arrives
<1>2. ToClient(Head(Line(C)), Idle(c)) = Idle(c)
  BY <1>1, ClientMessage DEF IsNext, ToClient
<1>3. out[C] = <<>>
  BY <1>1, ClientQuiet DEF Reads
<1>4. ASSUME ~Reading(C) PROVE Lockstep'
  <2>1. "sent" \in c.shutdown => c.state = "OK"
    BY ClientNow DEF ClientWill
  <2>2. Locked(conf, c, s, Tail(Line(C)), Line(S))
    BY <1>1, <1>2, <2>1, ClosingSame, ClientDrops
  <2>3. ClientFits(c)
    BY <1>1, <1>3, ClientNow DEF ClientFits, ClientReads
  <2> QED
    BY <1>1, <1>4, <2>2, <2>3, ClientNow, ClientTook
<1>5. ASSUME Reading(C) PROVE Lockstep'
  <2>1. c.state = "OK" /\ ~c.renegotiate
    BY <1>5 DEF Reading
  <2>2. "sent" \notin c.shutdown
    <3>1. Head1(C) \in Traffic(C) /\ Tag(Head1(C)) = Request
      BY <1>1, ClientHead, ClientNow, LineSeq, PeerFacts DEF IsNext, Arrives, Message, Tag, Request
    <3>2. Renews(conf, S)
      BY <3>1, ClientNow DEF Inv, Hellos
    <3> QED
      BY <3>2, ClientNow DEF Ready, Calm, Apart, ClientCalls
  <2>3. /\ t.state = "RENEGOTIATE" /\ SameClient(c, t) /\ t.mac = c.mac /\ t.ccs = c.ccs
        /\ t.buffered = c.buffered /\ ~t.failed /\ t.renegotiate = c.renegotiate
        /\ t.shutdown = c.shutdown /\ t.new_session = c.new_session /\ t.new_cipher = c.new_cipher
        /\ t.sid = c.sid /\ t.tick = c.tick /\ t.master = c.master /\ t.good = c.good
    BY <2>1, ClientNow DEF Typed, FieldNames, SameClient
  <2> HIDE DEF t
  <2>4. ClientHeard(conf, t) /\ ClientWill(conf, t) /\ Still(c, t)
    BY <2>1, <2>2, <2>3, ClientNow DEF ClientHeard, ClientWill, Still, SameClient, ClientSent
  <2>5. Skips(ServerSends(conf, s), Idle(c), ClientReadsFrom(c), Idle(c), ClientReadsFrom(t))
    BY <2>1, <2>3, Tables DEF Skips, ClientReadsFrom, Idle
  <2>6. Gap(ClientSends(conf, s), ToServerBelow(c, s), ToServerBelow(t, s))
    <3>1. ToServerBelow(t, s) = ToServerBelow(c, s)
      BY <2>1, <2>3 DEF ToServerBelow
    <3> QED
      BY <3>1, NoGaps
  <2>7. Line(C) # <<>> /\ Idle(c) \notin {8, 9}
    BY <1>1, ClientHead, IdleApart
  <2>8. Locked(conf, t, s, Tail(Line(C)), Line(S))
    BY <1>2, <2>4, <2>5, <2>6, <2>7, ClientNow, ClientReadsOn
  <2>9. ClientFits(t)
    BY <1>1, <1>3, <2>3 DEF ClientFits
  <2> QED
    BY <1>1, <1>5, <2>8, <2>9, ClientNow, ClientTook
<1> QED
  BY <1>4, <1>5

-----------------------------------------------------------------------------
(* The steps of the client that change its keys or its Finished messages.  *)

\* A client that goes on in its handshake.
LEMMA ClientInRun ==
  ASSUME NEW k, NEW c, NEW t, NEW s, NEW p, NEW q, NEW p2, NEW q2, Locked(k, c, s, p, q),
         c.state # "CR_SRVR_HELLO", c.cr # 0, t.state # "CR_SRVR_HELLO",
         t.cr = c.cr, t.sr = c.sr, t.hit = c.hit, t.ticket_expected = c.ticket_expected,
         ClientHeard(k, t), ClientWill(k, t), ToClientOk(k, t, s, p2), ToServerOk(k, t, s, q2)
  PROVE  Locked(k, t, s, p2, q2)
<1>1. SameRun(t, s)
  BY DEF Locked, SameRun, Waiting
<1>2. Starting(k, t, s, p2, q2)
  BY DEF Locked, Starting, SameRun, Waiting
<1> QED
  BY <1>1, <1>2 DEF Locked

\* The queue to a client that takes one of the handshake's records.
LEMMA ClientTakes ==
  ASSUME NEW k, NEW c, NEW t, NEW s, NEW p, p # <<>>, ToClientOk(k, c, s, p),
         NEW n, n = ToClient(Head(p), Idle(c)), n # Idle(c), n < ClientReadsFrom(t),
         Skips(ServerSends(k, s), Idle(c), ClientReadsFrom(c), n, ClientReadsFrom(t))
  PROVE  /\ Queued(C, Tail(p), ClientReadsFrom(t), ToClientBelow(c, s), ServerSends(k, s), Idle(c))
         /\ AllThere(C, Tail(p), ClientReadsFrom(t), ToClientBelow(c, s), ServerSends(k, s), Idle(c))
         /\ \A r \in Elements(Tail(p)) :
              ServerSaid(k, c, s, r) /\ n < ToClient(r, Idle(c)) /\ ToClient(r, Idle(c)) \in Nat
         /\ n \in Nat /\ ClientReadsFrom(c) <= n /\ n < ToClientBelow(c, s)
<1> DEFINE lo == ClientReadsFrom(c)
           lo2 == ClientReadsFrom(t)
           hi == ToClientBelow(c, s)
           N == ServerSends(k, s)
           z == Idle(c)
<1>1. lo \in Nat /\ lo2 \in Nat /\ hi \in Nat /\ N \in SUBSET Nat /\ z \in Nat
  BY Figures
<1>2. Queued(C, p, lo, hi, N, z) /\ AllThere(C, p, lo, hi, N, z) /\ n = Rank(C, Head(p), z)
  BY DEF ToClientOk, Rank
<1>3. \A r \in Elements(p) : ServerSaid(k, c, s, r)
  BY DEF ToClientOk
<1>4. lo <= lo2 /\ \A x \in N \cup {z} : ~(lo <= x /\ x < lo2 /\ x # n)
  BY DEF Skips
<1>5. n < lo2 /\ n # z
  OBVIOUS
<1>6. \A r : Rank(C, r, z) = ToClient(r, z) /\ ToClient(r, z) \in Nat
  BY <1>1, RankNat DEF Rank
<1>7. Elements(Tail(p)) \subseteq Elements(p)
  BY <1>2, TailElements DEF Queued
<1> HIDE DEF lo, lo2, hi, N, z
<1>8. n \in Nat
  BY <1>2, <1>6
<1>9. /\ \A x \in N : ~(lo <= x /\ x < lo2 /\ x # n)
      /\ lo <= z /\ z < lo2 => z <= n
  BY <1>1, <1>4, <1>5
<1>10. /\ Queued(C, Tail(p), lo2, hi, N, z)
       /\ AllThere(C, Tail(p), lo2, hi, N, z)
       /\ \A r \in Elements(Tail(p)) : n < Rank(C, r, z) \/ (n = z /\ Rank(C, r, z) = z)
       /\ lo <= n /\ n < hi
  BY <1>1, <1>2, <1>4, <1>5, <1>9, Popped
<1>11. \A r \in Elements(Tail(p)) : n < ToClient(r, z)
  BY <1>5, <1>6, <1>10
<1> QED
  BY <1>3, <1>6, <1>7, <1>8, <1>10, <1>11 DEF lo, lo2, hi, N, z

\* The client reads with the keys of the handshake from here on.
LEMMA ClientChanges ==
  ASSUME NEW k, NEW c, NEW t, NEW s, NEW p, NEW q, Locked(k, c, s, p, q), p # <<>>,
         ToClient(Head(p), Idle(c)) = 8, c.state = "CR_FINISHED", ~c.ccs,
         t.state = c.state, t.ccs, t.peer_md = <<S, c.master, c.mac>>, t.rkey = RunKey(c),
         t.mac = c.mac, t.hit = c.hit, t.cr = c.cr, t.sr = c.sr, t.wkey = c.wkey, t.prev = c.prev,
         t.ticket_expected = c.ticket_expected, t.sid = c.sid, t.master = c.master,
         t.new_cipher = c.new_cipher, t.renegotiate = c.renegotiate, t.good = c.good,
         t.new_session = c.new_session, t.shutdown = c.shutdown
  PROVE  Locked(k, t, s, Tail(p), q)
<1>1. /\ ClientReadsFrom(c) = 8 /\ ClientReadsFrom(t) = 9 /\ Idle(c) = 10 /\ Idle(t) = 10
      /\ ~Waiting(c, s) /\ ~Waiting(t, s)
  BY DEF ClientReadsFrom, Idle, Waiting
<1>2. ToClientBelow(t, s) = ToClientBelow(c, s) /\ ToServerBelow(t, s) = ToServerBelow(c, s)
  BY <1>1 DEF ToClientBelow, ToServerBelow
<1>3. /\ ToClientOk(k, c, s, p) /\ ToServerOk(k, c, s, q) /\ c.cr # 0
      /\ c.hit = s.hit /\ c.cr = s.cr /\ c.sr = s.sr
  BY DEF Locked, SameRun, ClientWill
<1>4. Skips(ServerSends(k, s), Idle(c), ClientReadsFrom(c), 8, ClientReadsFrom(t))
  <2>1. \A x \in ServerSends(k, s) \cup {Idle(c)} : x \in Nat
    BY IdleApart
  <2> QED
    BY <1>1, <2>1 DEF Skips
<1>5. /\ Queued(C, Tail(p), 9, ToClientBelow(c, s), ServerSends(k, s), 10)
      /\ AllThere(C, Tail(p), 9, ToClientBelow(c, s), ServerSends(k, s), 10)
      /\ \A r \in Elements(Tail(p)) :
           ServerSaid(k, c, s, r) /\ 8 < ToClient(r, 10) /\ ToClient(r, 10) \in Nat
      /\ 8 < ToClientBelow(c, s)
  <2> DEFINE n == ToClient(Head(p), Idle(c))
  <2>1. n = 8 /\ n # Idle(c) /\ n < ClientReadsFrom(t)
    BY <1>1
  <2>2. Skips(ServerSends(k, s), Idle(c), ClientReadsFrom(c), n, ClientReadsFrom(t))
    BY <1>4
  <2> HIDE DEF n
  <2>3. n = ToClient(Head(p), Idle(c))
    BY DEF n
  <2>4. /\ Queued(C, Tail(p), ClientReadsFrom(t), ToClientBelow(c, s), ServerSends(k, s), Idle(c))
        /\ AllThere(C, Tail(p), ClientReadsFrom(t), ToClientBelow(c, s), ServerSends(k, s), Idle(c))
        /\ \A r \in Elements(Tail(p)) :
             ServerSaid(k, c, s, r) /\ n < ToClient(r, Idle(c)) /\ ToClient(r, Idle(c)) \in Nat
        /\ n < ToClientBelow(c, s)
    BY <1>3, <2>1, <2>2, <2>3, ClientTakes
  <2> QED
    BY <1>1, <2>1, <2>4
<1>6. \A r \in Elements(Tail(p)) : ServerSaid(k, t, s, r)
  BY <1>1, <1>5 DEF ServerSaid
<1>7. t.rkey = s.wkey
  <2>1. Between(8, 8, ToClientBelow(c, s))
    BY <1>5 DEF Between
  <2>2. s.wkey = RunKey(s)
    BY <1>1, <1>3, <2>1 DEF ToClientOk
  <2> QED
    BY <1>3, <2>2 DEF RunKey, Master
<1>8. ~Between(9, 8, ToClientBelow(c, s))
  BY DEF Between
<1>9. Between(9, 9, ToClientBelow(c, s)) \/ t.prev[S] = s.prev[S]
  <2>1. Between(8, 9, ToClientBelow(c, s)) \/ c.prev[S] = s.prev[S]
    BY <1>1, <1>3 DEF ToClientOk
  <2> QED
    BY <2>1 DEF Between
<1>10. ToClientOk(k, t, s, Tail(p))
  BY <1>1, <1>2, <1>5, <1>6, <1>7, <1>8, <1>9 DEF ToClientOk
<1>11. ToServerOk(k, t, s, q)
  BY <1>2, <1>3 DEF ToServerOk, ClientSaid
<1>12. ClientHeard(k, t) /\ ClientWill(k, t)
  BY DEF Locked, ClientHeard, ClientWill, ServerCovers, Master
<1> QED
  BY <1>3, <1>10, <1>11, <1>12, ClientInRun

\* The client has the server's Finished.
LEMMA ClientFinishes ==
  ASSUME NEW k, NEW c, NEW t, NEW s, NEW p, NEW q, Locked(k, c, s, p, q), p # <<>>,
         ToClient(Head(p), Idle(c)) = 9, c.state = "CR_FINISHED", c.ccs,
         t.state = IF c.hit THEN "CW_CHANGE" ELSE "DONE", ~t.ccs,
         t.prev[S] = s.prev[S], t.prev[C] = c.prev[C], t.rkey = c.rkey,
         t.mac = Append(c.mac, <<"Finished", 0>>), t.hit = c.hit, t.cr = c.cr, t.sr = c.sr,
         t.wkey = c.wkey,
         t.ticket_expected = c.ticket_expected, t.sid = c.sid, t.master = c.master,
         t.new_cipher = c.new_cipher, t.renegotiate = c.renegotiate, t.good = c.good,
         t.new_session = c.new_session, t.shutdown = c.shutdown
  PROVE  Locked(k, t, s, Tail(p), q)
<1>1. /\ ClientReadsFrom(c) = 9 /\ ClientReadsFrom(t) = 10 /\ Idle(c) = 10 /\ Idle(t) = 10
      /\ ~Waiting(c, s) /\ ~Waiting(t, s)
  BY DEF ClientReadsFrom, Idle, Waiting
<1>2. ToClientBelow(t, s) = ToClientBelow(c, s) /\ ToServerBelow(t, s) = ToServerBelow(c, s)
  BY <1>1 DEF ToClientBelow, ToServerBelow
<1>3. ToClientOk(k, c, s, p) /\ ToServerOk(k, c, s, q) /\ c.cr # 0
  BY DEF Locked, ClientWill
<1>4. Skips(ServerSends(k, s), Idle(c), ClientReadsFrom(c), 9, ClientReadsFrom(t))
  <2>1. \A x \in ServerSends(k, s) \cup {Idle(c)} : x \in Nat
    BY IdleApart
  <2> QED
    BY <1>1, <2>1 DEF Skips
<1>5. /\ Queued(C, Tail(p), 10, ToClientBelow(c, s), ServerSends(k, s), 10)
      /\ AllThere(C, Tail(p), 10, ToClientBelow(c, s), ServerSends(k, s), 10)
      /\ \A r \in Elements(Tail(p)) :
           ServerSaid(k, c, s, r) /\ 9 < ToClient(r, 10) /\ ToClient(r, 10) \in Nat
  BY <1>1, <1>3, <1>4, ClientTakes
<1>6. \A r \in Elements(Tail(p)) : ServerSaid(k, t, s, r)
  <2> SUFFICES ASSUME NEW r \in Elements(Tail(p)) PROVE ServerSaid(k, t, s, r)
    OBVIOUS
  <2>1. ServerSaid(k, c, s, r) /\ 9 < ToClient(r, 10) /\ ToClient(r, 10) \in Nat
    BY <1>5
  <2>2. r.type = "handshake" => r.body.name # "ServerHello"
    BY <2>1 DEF ToClient
  <2> QED
    BY <1>1, <2>1, <2>2 DEF ServerSaid
<1>7. t.rkey = s.wkey
  <2>1. ~Between(9, 8, ToClientBelow(c, s))
    BY DEF Between
  <2> QED
    BY <1>1, <1>3, <2>1 DEF ToClientOk
<1>8. ~Between(10, 8, ToClientBelow(c, s))
  BY DEF Between
<1>10. ToClientOk(k, t, s, Tail(p))
  BY <1>1, <1>2, <1>5, <1>6, <1>7, <1>8 DEF ToClientOk
<1>11. ToServerOk(k, t, s, q)
  BY <1>2, <1>3 DEF ToServerOk, ClientSaid
<1>12. ClientHeard(k, t)
  BY DEF Locked, ClientHeard, ServerCovers, ClientCovers, AfterServer, Heard
<1>13. ClientWill(k, t)
  BY DEF Locked, ClientWill, Master, ClientSent
<1> QED
  BY <1>3, <1>10, <1>11, <1>12, <1>13, ClientInRun

LEMMA read_change_cipher_spec_C_Lock ==
  ASSUME Ready, read_change_cipher_spec(C) PROVE Lockstep'
<1> DEFINE c == ssl[C]
           b == setup_key_block(ssl[C])
           t == [b EXCEPT !.ccs = TRUE, !.rkey = b.key_block, !.peer_md = final_finish_mac(b, S)]
<1>1. /\ Arrives(C, "ccs") /\ Become(C, t) /\ Take(C) /\ UNCHANGED <<out, conf>> /\ wire[C] # <<>>
      /\ c.state \in Reads /\ ~c.ccs
  BY PeerFacts DEF read_change_cipher_spec, Arrives
<1>2. ToClient(Head(Line(C)), Idle(c)) = 8 /\ Line(C) # <<>>
  BY <1>1, ClientHead DEF Arrives, ToClient
<1>3. c.state = "CR_FINISHED"
  <2>1. c.state \in ClientReads
    BY <1>1, ClientNow DEF Reads, ClientCalls
  <2>2. \A x \in ServerSends(conf, ssl[S]) : ClientReadsFrom(c) <= x => 8 <= x
    BY <1>1, <1>2, ClientRank
  <2>3. c.state # "CR_SRVR_HELLO"
    <3>1. 1 \in ServerSends(conf, ssl[S])
      BY Tables
    <3> QED
      BY <2>2, <3>1 DEF ClientReadsFrom
  <2>4. ASSUME c.state \in FullStates, c.state # "CR_SESSION_TICKET" PROVE FALSE
    <3>1. 6 \in ServerSends(conf, ssl[S])
      BY <2>4, InFull DEF ServerSends
    <3> QED
      BY <2>1, <2>2, <2>4, <3>1 DEF ClientReadsFrom, FullStates, ClientReads
  <2>5. ASSUME c.state = "CR_SESSION_TICKET" PROVE FALSE
    <3>1. 7 \in ServerSends(conf, ssl[S])
      BY <2>5, InFull, ClientNow DEF ServerSends, FullStates, ClientWill
    <3> QED
      BY <2>2, <2>5, <3>1 DEF ClientReadsFrom
  <2> QED
    BY <2>1, <2>3, <2>4, <2>5 DEF ClientReads, FullStates
<1>4. b.key_block = RunKey(c)
  <2>1. c.master = Master(c)
    BY <1>3, ClientNow DEF ClientWill, ClientSent
  <2>2. c.key_block = None \/ c.key_block = Secret(c)
    BY <1>3, ClientNow DEF ClientRun, ClientSent, NoKeys, NewKeys
  <2> QED
    BY <2>1, <2>2, ClientNow DEF setup_key_block, Typed, FieldNames, Secret, RunKey
<1>5. /\ t.state = c.state /\ t.ccs /\ t.peer_md = <<S, c.master, c.mac>> /\ t.rkey = b.key_block
      /\ t.mac = c.mac /\ t.hit = c.hit /\ t.cr = c.cr /\ t.sr = c.sr /\ t.wkey = c.wkey
      /\ t.prev = c.prev /\ t.ticket_expected = c.ticket_expected /\ t.sid = c.sid
      /\ t.master = c.master /\ t.new_cipher = c.new_cipher /\ t.renegotiate = c.renegotiate
      /\ t.good = c.good /\ t.new_session = c.new_session /\ t.shutdown = c.shutdown /\ ~t.failed
  BY ClientNow DEF setup_key_block, final_finish_mac, Typed, FieldNames
<1> HIDE DEF t, b
<1>6. Locked(conf, t, ssl[S], Tail(Line(C)), Line(S))
  BY <1>1, <1>2, <1>3, <1>4, <1>5, ClientNow, ClientChanges
<1>7. ClientFits(t)
  BY <1>1, <1>3, <1>5, ClientQuiet DEF ClientFits
<1> QED
  BY <1>1, <1>6, <1>7, ClientNow, ClientTook

LEMMA get_finished_C_Lock == ASSUME Ready, ssl3_get_finished(C) PROVE Lockstep'
<1> DEFINE c == ssl[C]
           new == [ssl[C] EXCEPT !.state = AfterFinished(C), !.ccs = FALSE,
                     !.prev[S] = ssl[C].peer_md, !.vkey = ssl[C].rkey]
           t == ssl3_finish_mac(new, Plain("Finished"))
<1>1. /\ IsNext(C, "Finished") /\ FinishedOk(C) /\ Receive(C, new) /\ c.state = "CR_FINISHED"
      /\ wire[C] # <<>>
  BY PeerFacts DEF ssl3_get_finished, IsNext, Arrives
<1>2. Line(C) # <<>> /\ ToClient(Head(Line(C)), Idle(c)) = 9
  BY <1>1, ClientMessage DEF IsNext, ToClient
<1>3. c.ccs /\ c.peer_md = ssl[S].prev[S] /\ Message(C).rnd = 0 /\ Message(C).name = "Finished"
  BY <1>1, ClientHead DEF IsNext, Arrives, Message, ServerSaid, FinishedOk
<1>4. Become(C, t) /\ Take(C) /\ UNCHANGED <<out, conf>>
  BY <1>1, <1>3 DEF Receive, ssl3_finish_mac, Plain
<1>5. /\ t.state = (IF c.hit THEN "CW_CHANGE" ELSE "DONE") /\ ~t.ccs
      /\ t.prev[S] = c.peer_md /\ t.prev[C] = c.prev[C] /\ t.rkey = c.rkey
      /\ t.mac = Append(c.mac, <<"Finished", 0>>) /\ t.hit = c.hit /\ t.cr = c.cr /\ t.sr = c.sr
      /\ t.wkey = c.wkey /\ t.ticket_expected = c.ticket_expected /\ t.sid = c.sid
      /\ t.master = c.master /\ t.new_cipher = c.new_cipher /\ t.renegotiate = c.renegotiate
      /\ t.good = c.good /\ t.new_session = c.new_session /\ t.shutdown = c.shutdown /\ ~t.failed
  BY ClientNow, PeerFacts DEF ssl3_finish_mac, Plain, AfterFinished, Typed, FieldNames
<1> HIDE DEF t, new
<1>6. Locked(conf, t, ssl[S], Tail(Line(C)), Line(S))
  BY <1>1, <1>2, <1>3, <1>5, ClientNow, ClientFinishes
<1>7. ClientFits(t)
  BY <1>1, <1>4, <1>5, ClientQuiet DEF ClientFits, Reads, ClientReads
<1> QED
  BY <1>1, <1>4, <1>6, <1>7, ClientNow, ClientTook

\* The queue to the server when the client adds one of the handshake's records.
LEMMA ClientGives ==
  ASSUME NEW k, NEW c, NEW t, NEW s, NEW q, ToServerOk(k, c, s, q), NEW r, NEW n, n = ToServer(r),
         Follows(ClientSends(k, s), 7, ToServerBelow(c, s), n, ToServerBelow(t, s))
  PROVE  /\ Queued(S, Append(q, r), ServerReadsFrom(s), ToServerBelow(t, s), ClientSends(k, s), 7)
         /\ "sent" \notin s.shutdown =>
              AllThere(S, Append(q, r), ServerReadsFrom(s), ToServerBelow(t, s), ClientSends(k, s), 7)
         /\ Elements(Append(q, r)) = Elements(q) \cup {r}
         /\ \A x \in Elements(q) :
              ClientSaid(k, c, s, x) /\ ToServer(x) \in Nat /\ ToServer(x) < ToServerBelow(c, s)
         /\ n \in Nat /\ ServerReadsFrom(s) <= n
<1> DEFINE lo == ServerReadsFrom(s)
           hi == ToServerBelow(c, s)
           hi2 == ToServerBelow(t, s)
           N == ClientSends(k, s)
<1>1. /\ lo \in Nat /\ hi \in Nat /\ hi2 \in Nat /\ N \in SUBSET Nat /\ lo <= 7
  BY Figures DEF ServerReadsFrom
<1>2. /\ Queued(S, q, lo, hi, N, 7) /\ n = Rank(S, r, 7)
      /\ "sent" \notin s.shutdown => AllThere(S, q, lo, hi, N, 7)
  BY DEF ToServerOk, Rank
<1>3. Follows(N, 7, hi, n, hi2)
  OBVIOUS
<1>4. Elements(Append(q, r)) = Elements(q) \cup {r}
  BY <1>2, AppendFacts DEF Queued
<1>5. \A x \in Elements(q) : ClientSaid(k, c, s, x)
  BY DEF ToServerOk
<1>6. \A x : ToServer(x) \in Nat /\ Rank(S, x, 7) = ToServer(x)
  BY RankNat DEF Rank
<1> HIDE DEF lo, hi, hi2, N
<1>7. \A x \in Elements(q) : ToServer(x) < hi
  BY <1>2, <1>6 DEF Queued
<1>8. n \in Nat /\ lo <= n
  BY <1>1, <1>2, <1>3, <1>6 DEF Follows, Queued
<1>9. /\ Queued(S, Append(q, r), lo, hi2, N, 7)
      /\ "sent" \notin s.shutdown => AllThere(S, Append(q, r), lo, hi2, N, 7)
  BY <1>1, <1>2, <1>3, <1>8, Pushed DEF Follows
<1> QED
  BY <1>4, <1>5, <1>6, <1>7, <1>8, <1>9 DEF lo, hi, hi2, N

\* The client writes with the keys of the handshake from here on.
LEMMA ClientTurns ==
  ASSUME NEW k, NEW c, NEW t, NEW s, NEW p, NEW q, Locked(k, c, s, p, q), c.state = "CW_CHANGE",
         NEW r, r.type = "ccs", r.key = c.wkey, t.wkey = RunKey(c),
         t.state = "CW_FINISHED", t.ccs = c.ccs, t.prev = c.prev, t.rkey = c.rkey,
         t.mac = c.mac, t.hit = c.hit, t.cr = c.cr, t.sr = c.sr,
         t.ticket_expected = c.ticket_expected, t.sid = c.sid, t.master = c.master,
         t.new_cipher = c.new_cipher, t.renegotiate = c.renegotiate, t.good = c.good,
         t.new_session = c.new_session, t.shutdown = c.shutdown
  PROVE  Locked(k, t, s, p, Append(q, r))
<1>1. /\ ToServerBelow(c, s) = 5 /\ ToServerBelow(t, s) = 6 /\ Idle(c) = 10 /\ Idle(t) = 10
      /\ ~Waiting(c, s) /\ ~Waiting(t, s) /\ ClientReadsFrom(t) = ClientReadsFrom(c)
      /\ ToServer(r) = 5
  BY DEF ToServerBelow, ClientReadsFrom, Idle, Waiting, ToServer
<1>2. ToClientBelow(t, s) = ToClientBelow(c, s)
  BY <1>1 DEF ToClientBelow
<1>3. /\ ToClientOk(k, c, s, p) /\ ToServerOk(k, c, s, q) /\ c.cr # 0
      /\ c.hit = s.hit /\ c.cr = s.cr /\ c.sr = s.sr
  BY DEF Locked, SameRun, ClientWill
<1>4. Follows(ClientSends(k, s), 7, ToServerBelow(c, s), 5, ToServerBelow(t, s))
  <2>1. ClientSends(k, s) \in SUBSET Nat /\ 5 \in ClientSends(k, s)
    BY Figures
  <2> QED
    BY <1>1, <2>1 DEF Follows
<1>5. /\ Queued(S, Append(q, r), ServerReadsFrom(s), 6, ClientSends(k, s), 7)
      /\ "sent" \notin s.shutdown =>
           AllThere(S, Append(q, r), ServerReadsFrom(s), 6, ClientSends(k, s), 7)
      /\ Elements(Append(q, r)) = Elements(q) \cup {r}
      /\ \A x \in Elements(q) : ClientSaid(k, c, s, x) /\ ToServer(x) \in Nat /\ ToServer(x) < 5
      /\ ServerReadsFrom(s) <= 5
  BY <1>1, <1>3, <1>4, ClientGives
<1>6. s.rkey = c.wkey /\ s.prev[C] = c.prev[C]
  BY <1>1, <1>3 DEF ToServerOk, Between
<1>7. \A x \in Elements(Append(q, r)) : ClientSaid(k, t, s, x)
  <2>1. ClientSaid(k, t, s, r)
    BY <1>1, <1>6 DEF ClientSaid
  <2>2. ASSUME NEW x \in Elements(q) PROVE ClientSaid(k, t, s, x)
    BY <1>5 DEF ClientSaid
  <2> QED
    BY <1>5, <2>1, <2>2
<1>8. Between(ServerReadsFrom(s), 5, 6) /\ t.wkey = RunKey(s)
  BY <1>3, <1>5 DEF Between, RunKey, Master
<1>9. ToServerOk(k, t, s, Append(q, r))
  BY <1>1, <1>5, <1>6, <1>7, <1>8 DEF ToServerOk
<1>10. ToClientOk(k, t, s, p)
  BY <1>1, <1>2, <1>3 DEF ToClientOk, ServerSaid
<1>11. ClientHeard(k, t) /\ ClientWill(k, t)
  BY DEF Locked, ClientHeard, ClientWill, ClientCovers, Master
<1>12. t.state # "CR_SRVR_HELLO" /\ c.state # "CR_SRVR_HELLO"
  OBVIOUS
<1> QED
  BY <1>3, <1>9, <1>10, <1>11, <1>12, ClientInRun

\* The client sends its Finished.
LEMMA ClientSeals ==
  ASSUME NEW k, NEW c, NEW t, NEW s, NEW p, NEW q, Locked(k, c, s, p, q), c.state = "CW_FINISHED",
         NEW r, r.type = "handshake", r.key = c.wkey, r.body.name = "Finished", r.body.rnd = 0,
         r.body.md = <<C, c.master, c.mac>>, t.wkey = c.wkey,
         t.state = "CW_FLUSH", t.ccs = c.ccs, t.prev[C] = r.body.md, t.prev[S] = c.prev[S],
         t.next = "CR_SESSION_TICKET" => c.ticket_expected,
         t.next = "CR_FINISHED" => ~c.ticket_expected,
         t.rkey = c.rkey, t.mac = Append(c.mac, <<"Finished", 0>>),
         t.hit = c.hit, t.cr = c.cr, t.sr = c.sr,
         t.ticket_expected = c.ticket_expected, t.sid = c.sid, t.master = c.master,
         t.new_cipher = c.new_cipher, t.renegotiate = c.renegotiate, t.good = c.good,
         t.new_session = c.new_session, t.shutdown = c.shutdown
  PROVE  Locked(k, t, s, p, Append(q, r))
<1>1. /\ ToServerBelow(c, s) = 6 /\ ToServerBelow(t, s) = 8 /\ Idle(c) = 10 /\ Idle(t) = 10
      /\ ~Waiting(c, s) /\ ~Waiting(t, s) /\ ClientReadsFrom(t) = ClientReadsFrom(c)
      /\ ClientReadsFrom(c) \in {7, 10} /\ ToServer(r) = 6
  BY DEF ToServerBelow, ClientReadsFrom, Idle, Waiting, ToServer
<1>2. ToClientBelow(t, s) = ToClientBelow(c, s)
  BY <1>1 DEF ToClientBelow
<1>3. /\ ToClientOk(k, c, s, p) /\ ToServerOk(k, c, s, q) /\ c.cr # 0
      /\ c.hit = s.hit /\ c.cr = s.cr /\ c.sr = s.sr
  BY DEF Locked, SameRun, ClientWill
<1>4. Follows(ClientSends(k, s), 7, ToServerBelow(c, s), 6, ToServerBelow(t, s))
  <2>1. ClientSends(k, s) \in SUBSET Nat /\ 6 \in ClientSends(k, s) /\ 7 \notin ClientSends(k, s)
    BY Figures
  <2> QED
    BY <1>1, <2>1 DEF Follows
<1>5. /\ Queued(S, Append(q, r), ServerReadsFrom(s), 8, ClientSends(k, s), 7)
      /\ "sent" \notin s.shutdown =>
           AllThere(S, Append(q, r), ServerReadsFrom(s), 8, ClientSends(k, s), 7)
      /\ Elements(Append(q, r)) = Elements(q) \cup {r}
      /\ \A x \in Elements(q) : ClientSaid(k, c, s, x) /\ ToServer(x) \in Nat /\ ToServer(x) < 6
      /\ ServerReadsFrom(s) <= 6
  BY <1>1, <1>3, <1>4, ClientGives
<1>6. r.body.md = <<C, Master(s), ClientCovers(k, s)>>
  BY <1>3 DEF Locked, ClientHeard, ClientWill, Master, ClientCovers
<1>7. \A x \in Elements(Append(q, r)) : ClientSaid(k, t, s, x)
  <2>1. ClientSaid(k, t, s, r)
    BY <1>1, <1>6 DEF ClientSaid
  <2>2. ASSUME NEW x \in Elements(q) PROVE ClientSaid(k, t, s, x)
    <3>1. x.type = "handshake" => x.body.name # "ClientHello" /\ x.body.name # "Finished"
      BY <1>5 DEF ToServer
    <3>2. ClientSaid(k, c, s, x)
      BY <1>5
    <3> QED
      BY <3>1, <3>2 DEF ClientSaid
  <2> QED
    BY <1>5, <2>1, <2>2
<1>8. /\ Between(ServerReadsFrom(s), 6, 8)
      /\ Between(ServerReadsFrom(s), 5, 8) = Between(ServerReadsFrom(s), 5, 6)
  <2>1. ServerReadsFrom(s) \in Nat
    BY Figures
  <2> QED
    BY <1>5, <2>1 DEF Between
<1>9. ToServerOk(k, t, s, Append(q, r))
  BY <1>1, <1>3, <1>5, <1>7, <1>8 DEF ToServerOk
<1>10. ToClientOk(k, t, s, p)
  <2>1. \A x \in Elements(p) : ServerSaid(k, t, s, x)
    <3> SUFFICES ASSUME NEW x \in Elements(p) PROVE ServerSaid(k, t, s, x)
      OBVIOUS
    <3>1. ServerSaid(k, c, s, x) /\ ClientReadsFrom(c) <= ToClient(x, 10)
      BY <1>1, <1>3 DEF ToClientOk, Queued, Rank
    <3>2. x.type = "handshake" => x.body.name # "ServerHello"
      BY <1>1, <3>1 DEF ToClient
    <3> QED
      BY <1>1, <3>1, <3>2 DEF ServerSaid
  <2> QED
    BY <1>1, <1>2, <1>3, <2>1 DEF ToClientOk
<1>11. ClientHeard(k, t)
  BY DEF Locked, ClientHeard, ClientCovers, AfterClient, Heard
<1>12. ClientWill(k, t)
  BY DEF Locked, ClientWill, Master
<1>13. t.state # "CR_SRVR_HELLO" /\ c.state # "CR_SRVR_HELLO"
  OBVIOUS
<1> QED
  BY <1>3, <1>9, <1>10, <1>11, <1>12, <1>13, ClientInRun

LEMMA change_cipher_spec_C_Lock == ASSUME Ready, change_cipher_spec(C) PROVE Lockstep'
<1> DEFINE c == ssl[C]
           b == setup_key_block(ssl[C])
           t == [b EXCEPT !.state = "CW_FINISHED", !.wkey = b.key_block]
           r == Record(C, "ccs", Plain("ChangeCipherSpec"))
<1>1. Become(C, t) /\ Put(C, <<r>>) /\ conf' = conf /\ c.state = "CW_CHANGE"
  BY DEF change_cipher_spec
<1>2. b.key_block = RunKey(c)
  <2>1. c.master = Master(c)
    BY <1>1, ClientNow DEF ClientWill
  <2>2. c.key_block = None \/ c.key_block = Secret(c)
    BY <1>1, ClientNow DEF ClientRun, NoKeys, NewKeys
  <2> QED
    BY <2>1, <2>2, ClientNow DEF setup_key_block, Typed, FieldNames, Secret, RunKey
<1>3. /\ t.state = "CW_FINISHED" /\ t.ccs = c.ccs /\ t.wkey = b.key_block /\ t.rkey = c.rkey
      /\ t.mac = c.mac /\ t.hit = c.hit /\ t.cr = c.cr /\ t.sr = c.sr
      /\ t.prev = c.prev /\ t.ticket_expected = c.ticket_expected /\ t.sid = c.sid
      /\ t.master = c.master /\ t.new_cipher = c.new_cipher /\ t.renegotiate = c.renegotiate
      /\ t.good = c.good /\ t.new_session = c.new_session /\ t.shutdown = c.shutdown
      /\ ~t.failed /\ t.buffered = c.buffered
  BY ClientNow DEF setup_key_block, Typed, FieldNames
<1>4. r.type = "ccs" /\ r.key = c.wkey
  BY DEF Record
<1> HIDE DEF t, b, r
<1>5. Locked(conf, t, ssl[S], Line(C), Append(Line(S), r))
  BY <1>1, <1>2, <1>3, <1>4, ClientNow, ClientTurns
<1>6. t.state \in ClientFills /\ t.state # "CW_CLNT_HELLO"
  BY <1>3 DEF ClientFills, ClientWrites
<1> QED
  BY <1>1, <1>3, <1>5, <1>6, ClientNow, ClientPut

LEMMA client_finished_Lock == ASSUME Ready, client_finished PROVE Lockstep'
<1> DEFINE c == ssl[C]
           md == <<C, ssl[C].master, ssl[C].mac>>
           new == [ssl[C] EXCEPT !.state = "CW_FLUSH", !.next = AfterFlight(ssl[C]), !.prev[C] = md]
           m == [name |-> "Finished", rnd |-> 0, md |-> md]
           t == ssl3_finish_mac(new, m)
           r == Record(C, "handshake", m)
<1>1. Become(C, t) /\ Put(C, <<r>>) /\ conf' = conf /\ c.state = "CW_FINISHED"
  BY DEF client_finished, final_finish_mac, Send
<1>3. /\ t.state = "CW_FLUSH" /\ t.ccs = c.ccs /\ t.wkey = c.wkey /\ t.rkey = c.rkey
      /\ t.mac = Append(c.mac, <<"Finished", 0>>) /\ t.hit = c.hit /\ t.cr = c.cr /\ t.sr = c.sr
      /\ t.prev[C] = md /\ t.prev[S] = c.prev[S]
      /\ t.ticket_expected = c.ticket_expected /\ t.sid = c.sid
      /\ t.master = c.master /\ t.new_cipher = c.new_cipher /\ t.renegotiate = c.renegotiate
      /\ t.good = c.good /\ t.new_session = c.new_session /\ t.shutdown = c.shutdown
      /\ ~t.failed /\ t.buffered = c.buffered /\ t.next = AfterFlight(c)
  BY ClientNow, PeerFacts DEF ssl3_finish_mac, Typed, FieldNames
<1>4. /\ r.type = "handshake" /\ r.key = c.wkey /\ r.body.name = "Finished" /\ r.body.rnd = 0
      /\ r.body.md = md
  BY DEF Record
<1>6. md = <<C, c.master, c.mac>>
  OBVIOUS
<1> HIDE DEF t, new, m, r, md
<1>5. /\ t.next = "CR_SESSION_TICKET" => c.ticket_expected
      /\ t.next = "CR_FINISHED" => ~c.ticket_expected
  BY <1>3, ClientNow DEF Typed, AfterFlight
<1>7. Locked(conf, t, ssl[S], Line(C), Append(Line(S), r))
  BY <1>1, <1>3, <1>4, <1>5, <1>6, ClientNow, ClientSeals
<1>8. t.state \in ClientFills /\ t.state # "CW_CLNT_HELLO"
  BY <1>3 DEF ClientFills, ClientWrites
<1> QED
  BY <1>1, <1>3, <1>7, <1>8, ClientNow, ClientPut

-----------------------------------------------------------------------------
(* The hellos of the client.                                               *)

\* A record that has another number when the client waits for the ServerHello.
LEMMA IdleRank ==
  ASSUME NEW r
  PROVE  /\ ToClient(r, 10) = 10 => ToClient(r, 0) = 0
         /\ ToClient(r, 0) # 0 => ToClient(r, 10) = ToClient(r, 0)
         /\ ToClient(r, 10) = 10 /\ r.type = "handshake" => r.body.name \notin {"ServerHello", "Finished"}
BY DEF ToClient

\* A client at rest writes a ClientHello.
LEMMA ClientOpens ==
  ASSUME NEW k, NEW c, NEW t, NEW s, NEW p, NEW q, Locked(k, c, s, p, q),
         c.state = "CW_CLNT_HELLO", c.cr \in Nat, k.offer # "none" => Offered(k).sid # None,
         NEW r, r.type = "handshake", r.key = c.wkey, r.body.name = "ClientHello",
         r.body.rnd = t.cr, r.body.ticket_ext = k.tickets, r.body.ri = c.prev[C],
         r.body.scsv <=> c.new_session = 0,
         r.body.sid = IF c.new_session = 0 THEN c.sid ELSE None,
         r.body.tick = IF c.new_session = 0 /\ k.tickets THEN c.tick ELSE None,
         t.state = "CR_SRVR_HELLO", t.cr = c.cr + 1, t.shutdown = {},
         t.sid # None => t.master = c.master,
         t.ccs = c.ccs, t.prev = c.prev, t.rkey = c.rkey, t.wkey = c.wkey,
         t.hit = c.hit, t.sr = c.sr, t.ticket_expected = c.ticket_expected,
         t.sid = c.sid, t.tick = c.tick, t.new_cipher = c.new_cipher,
         t.renegotiate = c.renegotiate, t.good = c.good, t.new_session = c.new_session
  PROVE  Locked(k, t, s, p, Append(q, r))
<1>1. /\ ToServerBelow(c, s) = 8 /\ ClientReadsFrom(c) = 10 /\ Idle(c) = 10 /\ ~Waiting(c, s)
      /\ ClientReadsFrom(t) = 0 /\ Idle(t) = 0 /\ ToServer(r) = 8
      /\ ToClientBelow(c, s) = ServerWritesFrom(s)
  BY DEF ToServerBelow, ClientReadsFrom, Idle, Waiting, ToServer, ToClientBelow
<1>2. /\ ToClientOk(k, c, s, p) /\ ToServerOk(k, c, s, q)
      /\ c.hit = s.hit /\ c.cr = s.cr /\ c.sr = s.sr /\ c.ticket_expected = s.ticket_expected
      /\ ~c.ccs /\ (c.cr = 0 <=> c.new_session = 0)
  BY DEF Locked, SameRun, ClientWill
<1>3. t.cr # s.cr /\ t.cr = s.cr + 1 /\ Waiting(t, s)
  BY <1>2 DEF Waiting
<1>4. ToClientBelow(t, s) = 1 /\ ToServerBelow(t, s) = 9
  BY <1>3 DEF ToClientBelow, ToServerBelow
<1>5. ServerWritesFrom(s) = 11
  <2>1. 9 \in ServerSends(k, s) /\ ServerWritesFrom(s) \in 1 .. 9 \cup {11}
    BY Tables
  <2>2. ~(ServerWritesFrom(s) <= 9 /\ 9 < 10)
    BY <1>1, <1>2, <2>1 DEF ToClientOk, Queued
  <2> QED
    BY <2>1, <2>2
<1>6. \A x \in Elements(p) : ServerSaid(k, c, s, x) /\ ToClient(x, 10) = 10
  <2>1. \A x \in Elements(p) : ServerSaid(k, c, s, x) /\ 10 <= ToClient(x, 10) /\ ToClient(x, 10) < 11
    BY <1>1, <1>2, <1>5 DEF ToClientOk, Queued, Rank
  <2>2. \A x : ToClient(x, 10) \in Nat
    BY RankNat
  <2> QED
    BY <2>1, <2>2
<1>7. /\ c.rkey = s.wkey /\ c.prev[S] = s.prev[S]
      /\ IsSeq(p)
  BY <1>1, <1>2, <1>5 DEF ToClientOk, Between, Queued
<1>8. ToClientOk(k, t, s, p)
  <2>1. \A x \in Elements(p) : ToClient(x, 0) = 0 /\ Rank(C, x, 0) = 0
    BY <1>6, IdleRank DEF Rank
  <2>2. Rising(C, p, 0)
    BY <2>1 DEF Rising, Elements
  <2>3. ServerSends(k, s) \subseteq 1 .. 9
    BY Tables
  <2>4. Queued(C, p, 0, 1, ServerSends(k, s), 0)
    BY <1>7, <2>1, <2>2, <2>3 DEF Queued
  <2>5. AllThere(C, p, 0, 1, ServerSends(k, s), 0)
    BY <2>3 DEF AllThere
  <2>6. ASSUME NEW x \in Elements(p) PROVE ServerSaid(k, t, s, x)
    <3>1. ServerSaid(k, c, s, x) /\ ToClient(x, 10) = 10 /\ ToClient(x, 0) = 0
      BY <1>6, <2>1
    <3>2. x.type = "handshake" => x.body.name \notin {"ServerHello", "Finished"}
      BY <3>1, IdleRank
    <3>3. x.key = s.wkey
      BY <1>1, <3>1 DEF ServerSaid
    <3>4. x.key = t.rkey
      BY <1>7, <3>3
    <3> QED
      BY <1>1, <3>1, <3>2, <3>4 DEF ServerSaid
  <2>7. ~Between(0, 8, 1)
    BY DEF Between
  <2> QED
    BY <1>1, <1>4, <1>7, <2>4, <2>5, <2>6, <2>7 DEF ToClientOk
<1>9. Follows(ClientSends(k, s), 7, ToServerBelow(c, s), 8, ToServerBelow(t, s))
  <2>1. ClientSends(k, s) \in SUBSET Nat /\ 8 \in ClientSends(k, s)
    BY Tables, Figures
  <2> QED
    BY <1>1, <1>4, <2>1 DEF Follows
<1>10. /\ Queued(S, Append(q, r), ServerReadsFrom(s), 9, ClientSends(k, s), 7)
       /\ "sent" \notin s.shutdown =>
            AllThere(S, Append(q, r), ServerReadsFrom(s), 9, ClientSends(k, s), 7)
       /\ Elements(Append(q, r)) = Elements(q) \cup {r}
       /\ \A x \in Elements(q) : ClientSaid(k, c, s, x) /\ ToServer(x) \in Nat /\ ToServer(x) < 8
  BY <1>1, <1>2, <1>4, <1>9, ClientGives
<1>11. s.cr = 0 => c.sid = Offered(k).sid /\ c.tick = Offered(k).tick
  BY DEF Locked, Starting
<1>12. \A x \in Elements(Append(q, r)) : ClientSaid(k, t, s, x)
  <2>1. ClientSaid(k, t, s, r)
    <3>1. r.body.scsv <=> t.cr = 1
      BY <1>2
    <3>2. /\ r.body.sid = IF t.cr = 1 THEN Offered(k).sid ELSE None
          /\ r.body.tick = IF t.cr = 1 /\ k.tickets THEN Offered(k).tick ELSE None
      BY <1>2, <1>11, <3>1
    <3> QED
      BY <1>1, <3>1, <3>2 DEF ClientSaid
  <2>2. ASSUME NEW x \in Elements(q) PROVE ClientSaid(k, t, s, x)
    <3>1. x.type = "handshake" => x.body.name # "ClientHello"
      BY <1>10 DEF ToServer
    <3>2. ClientSaid(k, c, s, x)
      BY <1>10
    <3> QED
      BY <3>1, <3>2 DEF ClientSaid
  <2> QED
    BY <1>10, <2>1, <2>2
<1>13. ToServerOk(k, t, s, Append(q, r))
  <2>1. ServerReadsFrom(s) \in Nat
    BY Figures
  <2>2. /\ Between(ServerReadsFrom(s), 5, 9) = Between(ServerReadsFrom(s), 5, 8)
        /\ Between(ServerReadsFrom(s), 6, 9) = Between(ServerReadsFrom(s), 6, 8)
    BY <2>1 DEF Between
  <2> QED
    BY <1>1, <1>2, <1>4, <1>10, <1>12, <2>2 DEF ToServerOk
<1>14. SameRun(t, s)
  BY <1>2, <1>3, <1>5 DEF SameRun
<1>15. Starting(k, t, s, p, Append(q, r))
  <2>1. s.cr = 0 /\ k.offer # "none" => t.master = OldMaster
    BY <1>11 DEF Locked, Starting
  <2>2. s.state \in {"BEFORE", "ACCEPT", "SR_CLNT_HELLO"} =>
          \A x \in Elements(Append(q, r)) : ToServer(x) = 8
    BY <1>1, <1>10 DEF Locked, Starting
  <2>3. t.cr = 1 => \A x \in Elements(p) : x.type # "app"
    BY <1>2 DEF Locked, Starting
  <2> QED
    BY <1>3, <2>1, <2>2, <2>3 DEF Locked, Starting
<1>16. ClientHeard(k, t)
  BY DEF ClientHeard
<1>17. ClientWill(k, t)
  <2>1. t.cr # 0
    BY <1>3, <1>2
  <2> QED
    BY <1>2, <2>1 DEF Locked, ClientWill, ClientSent
<1> QED
  BY <1>8, <1>13, <1>14, <1>15, <1>16, <1>17 DEF Locked

LEMMA client_hello_Lock == ASSUME Ready, ssl3_client_hello PROVE Lockstep'
<1> DEFINE c == ssl[C]
           new == [ssl[C] EXCEPT !.cr = @ + 1, !.shutdown = {}, !.state = "CR_SRVR_HELLO",
                     !.buffered = TRUE,
                     !.master = IF ssl[C].sid = None /\ ssl[C].tick = None THEN None ELSE @]
           m == ClientHello(new)
           t == ssl3_finish_mac(new, m)
           r == Record(C, "handshake", m)
<1>1. Become(C, t) /\ Put(C, <<r>>) /\ conf' = conf /\ c.state = "CW_CLNT_HELLO"
  BY DEF ssl3_client_hello, Send
<1>2. /\ t.state = "CR_SRVR_HELLO" /\ t.cr = c.cr + 1 /\ t.shutdown = {}
      /\ (t.sid # None => t.master = c.master)
      /\ t.ccs = c.ccs /\ t.prev = c.prev /\ t.rkey = c.rkey /\ t.wkey = c.wkey
      /\ t.hit = c.hit /\ t.sr = c.sr /\ t.ticket_expected = c.ticket_expected
      /\ t.sid = c.sid /\ t.tick = c.tick /\ t.new_cipher = c.new_cipher
      /\ t.renegotiate = c.renegotiate /\ t.good = c.good /\ t.new_session = c.new_session
      /\ ~t.failed
  BY ClientNow DEF ssl3_finish_mac, Typed, FieldNames
<1>3. /\ m.name = "ClientHello" /\ m.rnd = c.cr + 1 /\ m.ticket_ext = conf.tickets
      /\ m.ri = c.prev[C] /\ (m.scsv <=> c.new_session = 0)
      /\ m.sid = (IF c.new_session = 0 THEN c.sid ELSE None)
      /\ m.tick = (IF c.new_session = 0 /\ conf.tickets THEN c.tick ELSE None)
  BY ClientNow DEF ClientHello, Typed, FieldNames
<1>4. r.type = "handshake" /\ r.key = c.wkey /\ r.body = m
  BY DEF Record
<1>5. c.cr \in Nat /\ (conf.offer # "none" => Offered(conf).sid # None)
  BY ClientNow DEF Typed, Offered, Fresh, None
<1>6. ~c.buffered
  BY <1>1 DEF Ready, Lockstep, Buffers
<1> HIDE DEF t, new, m, r
<1>7. Locked(conf, t, ssl[S], Line(C), Append(Line(S), r))
  BY <1>1, <1>2, <1>3, <1>4, <1>5, ClientNow, ClientOpens
<1> QED
  BY <1>1, <1>2, <1>6, <1>7, ClientNow, ClientPut

\* A client that waits has an answer.
LEMMA ClientAnswered ==
  ASSUME NEW k, NEW c, NEW t, NEW s, NEW p, NEW q, Locked(k, c, s, p, q), p # <<>>,
         c.state = "CR_SRVR_HELLO", Head(p).type = "handshake", Head(p).body.name = "ServerHello",
         c.ticket_expected \in BOOLEAN, s.ticket_expected \in BOOLEAN, s.hit \in BOOLEAN,
         NEW hit \in BOOLEAN, hit <=> (s.sid # None /\ s.sid = c.sid),
         t.state = IF hit THEN "CR_FINISHED" ELSE "CR_CERT", t.hit = hit, t.sid = s.sid,
         t.sr = s.sr, t.cr = c.cr, t.new_cipher, hit => t.master = c.master,
         t.ticket_expected = (c.ticket_expected \/ s.ticket_expected),
         c.mac = <<<<"ClientHello", c.cr>>>>, t.mac = Append(c.mac, <<"ServerHello", s.sr>>),
         t.ccs = c.ccs, t.prev = c.prev, t.rkey = c.rkey, t.wkey = c.wkey,
         t.renegotiate = c.renegotiate, t.good = c.good, t.shutdown = c.shutdown
  PROVE  Locked(k, t, s, Tail(p), q)
<1> DEFINE N == ServerSends(k, s)
           hi == ServerWritesFrom(s)
           lo == ClientReadsFrom(t)
<1>1. ToClientOk(k, c, s, p) /\ ToServerOk(k, c, s, q) /\ Idle(c) = 0 /\ ClientReadsFrom(c) = 0
  BY DEF Locked, Idle, ClientReadsFrom
<1>2. Rank(C, Head(p), 0) = 1 /\ \A r, z : Rank(C, r, z) = ToClient(r, z)
  BY DEF Rank, ToClient
<1>3. ~Waiting(c, s) /\ ToClientBelow(c, s) = hi
  <2>1. Head(p) \in Elements(p)
    BY <1>1, TailElements DEF ToClientOk, Queued
  <2>2. 1 < ToClientBelow(c, s)
    BY <1>1, <1>2, <2>1 DEF ToClientOk, Queued
  <2> QED
    BY <2>2 DEF ToClientBelow
<1>4. /\ c.cr = s.cr /\ s.sr = c.sr + 1 /\ (c.ticket_expected => s.ticket_expected)
      /\ s.hit = hit /\ (hit => c.master = OldMaster) /\ c.cr # 0 /\ ~c.ccs
  BY <1>3 DEF Locked, SameRun, Waiting, ClientWill
<1>5. t.ticket_expected = s.ticket_expected /\ ToClientBelow(t, s) = hi /\ Idle(t) = 10
  BY <1>4 DEF ToClientBelow, Waiting, Idle
<1>6. /\ lo = (IF hit THEN 8 ELSE 2) /\ hi \in Nat /\ N \in SUBSET Nat
      /\ \A x \in N : 1 <= x /\ x <= 9 /\ (hit => x \in {1, 8, 9})
  <2>1. lo = (IF hit THEN 8 ELSE 2)
    BY <1>4 DEF ClientReadsFrom
  <2>2. hi \in (1 .. 9) \cup {11} /\ N \in SUBSET (1 .. 9)
    BY Tables
  <2>3. hit => \A x \in N : x \in {1, 8, 9}
    BY <1>4 DEF ServerSends
  <2> QED
    BY <2>1, <2>2, <2>3
<1>7. /\ \A r \in Elements(p) : ServerSaid(k, c, s, r)
      /\ Queued(C, p, 0, hi, N, 0) /\ AllThere(C, p, 0, hi, N, 0)
      /\ IF Between(0, 8, hi) THEN s.wkey = RunKey(s) ELSE c.rkey = s.wkey
      /\ Between(0, 9, hi) \/ c.prev[S] = s.prev[S]
  BY <1>1, <1>3 DEF ToClientOk
<1> HIDE DEF N, hi, lo
<1>8. Elements(Tail(p)) \subseteq Elements(p)
  BY <1>7, TailElements DEF Queued
<1>9. /\ Queued(C, Tail(p), lo, hi, N, 0) /\ AllThere(C, Tail(p), lo, hi, N, 0)
      /\ \A r \in Elements(Tail(p)) : 1 < Rank(C, r, 0)
  <2> DEFINE n == Rank(C, Head(p), 0)
  <2>2. n = Rank(C, Head(p), 0)
    OBVIOUS
  <2>4. n = 1
    BY <1>2
  <2> HIDE DEF n
  <2>5. \A x \in N : ~(0 <= x /\ x < lo /\ x # n)
    BY <1>6, <2>4
  <2>1. /\ lo \in Nat /\ 0 <= lo /\ ~(n = 0) /\ n < lo
        /\ 0 <= 0 /\ 0 < lo => 0 <= n
    BY <1>6, <2>4
  <2>3. /\ Queued(C, Tail(p), lo, hi, N, 0)
        /\ n < lo \/ n \notin N => (AllThere(C, p, 0, hi, N, 0) => AllThere(C, Tail(p), lo, hi, N, 0))
        /\ \A r \in Elements(Tail(p)) : n < Rank(C, r, 0) \/ (n = 0 /\ Rank(C, r, 0) = 0)
    BY <1>6, <1>7, <2>1, <2>2, <2>5, Popped
  <2> QED
    BY <1>2, <1>7, <2>1, <2>2, <2>3
<1>10. \A r \in Elements(Tail(p)) : Rank(C, r, 10) = Rank(C, r, 0) /\ Rank(C, r, 0) # 0
  BY <1>2, <1>9, IdleRank
<1>11. Queued(C, Tail(p), lo, hi, N, 10)
  <2>1. Rising(C, Tail(p), 10)
    <3> SUFFICES ASSUME NEW i \in DOMAIN Tail(p), NEW j \in DOMAIN Tail(p), i < j
                 PROVE  Rank(C, Tail(p)[i], 10) < Rank(C, Tail(p)[j], 10)
      BY DEF Rising
    <3>1. Tail(p)[i] \in Elements(Tail(p)) /\ Tail(p)[j] \in Elements(Tail(p))
      BY DEF Elements
    <3>2. Rank(C, Tail(p)[i], 0) < Rank(C, Tail(p)[j], 0)
      BY <1>9, <1>10, <3>1 DEF Queued, Rising
    <3> QED
      BY <1>10, <3>1, <3>2
  <2>2. \A r \in Elements(Tail(p)) :
          lo <= Rank(C, r, 10) /\ Rank(C, r, 10) < hi /\ Rank(C, r, 10) \in N \cup {10}
    BY <1>9, <1>10 DEF Queued
  <2> QED
    BY <1>9, <2>1, <2>2 DEF Queued
<1>12. AllThere(C, Tail(p), lo, hi, N, 10)
  BY <1>9, <1>10 DEF AllThere
<1>13. \A r \in Elements(Tail(p)) : ServerSaid(k, t, s, r)
  <2> SUFFICES ASSUME NEW r \in Elements(Tail(p)) PROVE ServerSaid(k, t, s, r)
    OBVIOUS
  <2>1. ServerSaid(k, c, s, r) /\ ToClient(r, 10) = ToClient(r, 0)
    BY <1>2, <1>7, <1>8, <1>10
  <2> QED
    BY <1>1, <1>5, <2>1 DEF ServerSaid
<1>14. Between(lo, 8, hi) = Between(0, 8, hi) /\ Between(lo, 9, hi) = Between(0, 9, hi)
  BY <1>6 DEF Between
<1>15. ToClientOk(k, t, s, Tail(p))
  BY <1>5, <1>7, <1>11, <1>12, <1>13, <1>14 DEF ToClientOk, N, lo, hi
<1>16. ToServerOk(k, t, s, q)
  <2>1. ToServerBelow(t, s) = ToServerBelow(c, s)
    BY <1>3, <1>4 DEF ToServerBelow
  <2>2. \A r \in Elements(q) : ClientSaid(k, t, s, r)
    BY <1>1 DEF ToServerOk, ClientSaid
  <2> QED
    BY <1>1, <2>1, <2>2 DEF ToServerOk
<1>17. SameRun(t, s)
  BY <1>4, <1>5 DEF SameRun, Waiting
<1>18. Starting(k, t, s, Tail(p), q)
  BY <1>3, <1>4 DEF Locked, Starting
<1>19. ClientHeard(k, t)
  BY <1>4 DEF ClientHeard, AfterHello, ServerCovers
<1>20. ClientWill(k, t)
  <2>1. s.sid \in {None, <<"old">>, <<"new", s.sr>>}
    BY DEF Locked, ServerWill
  <2>2. ASSUME NEW n \in Nat, n > s.sr PROVE s.sid # <<"new", n>>
    <3>1. n # s.sr /\ <<"new", n>> # None /\ <<"new", n>> # <<"old">>
      BY <1>4, <2>2 DEF None
    <3>2. <<"new", n>> # <<"new", s.sr>>
      BY <3>1
    <3> QED
      BY <2>1, <3>1, <3>2
  <2> QED
    BY <1>4, <2>2 DEF Locked, ClientWill, ClientSent, Master
<1> QED
  BY <1>15, <1>16, <1>17, <1>18, <1>19, <1>20 DEF Locked

LEMMA get_server_hello_Lock == ASSUME Ready, ssl3_get_server_hello PROVE Lockstep'
<1> DEFINE c == ssl[C]
           s == ssl[S]
           m == Message(C)
           hit == m.sid # None /\ m.sid = ssl[C].sid
           fresh == ~hit /\ ssl[C].sid # None
           new == [ssl[C] EXCEPT
             !.state = IF hit THEN "CR_FINISHED" ELSE "CR_CERT",
             !.hit = hit, !.sid = m.sid, !.sr = m.rnd, !.new_cipher = TRUE,
             !.tick = IF fresh THEN None ELSE @,
             !.master = IF fresh THEN None ELSE @,
             !.ticket_expected = @ \/ m.ticket_ext]
           t == ssl3_finish_mac(new, m)
<1>1. /\ c.state = "CR_SRVR_HELLO" /\ IsNext(C, "ServerHello") /\ Become(C, t) /\ Take(C)
      /\ UNCHANGED <<out, conf>>
  BY DEF ssl3_get_server_hello, Receive
<1>2. /\ Line(C) # <<>> /\ Head(Line(C)).type = "handshake" /\ Head(Line(C)).body = m
      /\ m.name = "ServerHello" /\ wire[C] # <<>>
  BY <1>1, ClientMessage DEF IsNext
<1>3. m.rnd = s.sr /\ m.ticket_ext = s.ticket_expected /\ m.sid = s.sid
  BY <1>1, <1>2, ClientHead DEF ServerSaid
<1>4. c.mac = <<<<"ClientHello", c.cr>>>> /\ out[C] = <<>>
  BY <1>1, ClientNow, ClientEmpty DEF ClientTalk, ClientFills, ClientWrites
<1>5. /\ c.ticket_expected \in BOOLEAN /\ s.ticket_expected \in BOOLEAN /\ s.hit \in BOOLEAN
      /\ hit \in BOOLEAN /\ (hit <=> (s.sid # None /\ s.sid = c.sid))
  BY <1>3, ClientNow DEF Typed
<1>6. /\ t.state = (IF hit THEN "CR_FINISHED" ELSE "CR_CERT") /\ t.hit = hit /\ t.sid = m.sid
      /\ t.sr = m.rnd /\ t.cr = c.cr /\ t.new_cipher /\ (hit => t.master = c.master)
      /\ t.ticket_expected = (c.ticket_expected \/ m.ticket_ext)
      /\ t.mac = Append(c.mac, <<m.name, m.rnd>>)
      /\ t.ccs = c.ccs /\ t.prev = c.prev /\ t.rkey = c.rkey /\ t.wkey = c.wkey
      /\ t.renegotiate = c.renegotiate /\ t.good = c.good /\ t.shutdown = c.shutdown /\ ~t.failed
  BY ClientNow DEF ssl3_finish_mac, Typed, FieldNames
<1> HIDE DEF t, new, m, hit
<1>9. /\ t.sid = s.sid /\ t.sr = s.sr /\ t.mac = Append(c.mac, <<"ServerHello", s.sr>>)
      /\ t.ticket_expected = (c.ticket_expected \/ s.ticket_expected)
      /\ Head(Line(C)).body.name = "ServerHello"
  BY <1>2, <1>3, <1>6
<1>7. Locked(conf, t, s, Tail(Line(C)), Line(S))
  BY <1>1, <1>2, <1>4, <1>5, <1>6, <1>9, ClientNow, ClientAnswered
<1>8. ClientFits(t)
  BY <1>1, <1>4, <1>6 DEF ClientFits
<1> QED
  BY <1>1, <1>2, <1>7, <1>8, ClientNow, ClientTook

-----------------------------------------------------------------------------
(* The server's steps in a handshake.                                      *)

\* A server that has still to write has read the client's hello.
LEMMA InService ==
  ASSUME Ready, ssl[S].state \notin {"BEFORE", "SR_CLNT_HELLO"}
  PROVE  ssl[S].cr # 0 /\ ssl[S].cr \in Nat
BY ServerNow DEF Locked, Starting, Typed

LEMMA InAnswer ==
  ASSUME Ready, ServerWritesFrom(ssl[S]) # 11
  PROVE  /\ ~Waiting(ssl[C], ssl[S]) /\ ssl[S].cr # 0 /\ ssl[S].cr \in Nat
         /\ ssl[S].state \notin {"BEFORE", "ACCEPT", "SR_CLNT_HELLO"}
         /\ ToClientBelow(ssl[C], ssl[S]) = ServerWritesFrom(ssl[S])
<1>1. ssl[S].state \notin {"BEFORE", "ACCEPT", "SR_CLNT_HELLO"}
  BY DEF ServerWritesFrom
<1>2. ~Waiting(ssl[C], ssl[S])
  BY ServerNow DEF Locked, SameRun
<1> QED
  BY <1>1, <1>2, InService DEF ToClientBelow

\* The client reads with the keys that the server writes its flight with.
LEMMA AnswerKey ==
  ASSUME Ready, ServerWritesFrom(ssl[S]) <= 8
  PROVE  ssl[C].rkey = ssl[S].wkey
<1>1. ServerWritesFrom(ssl[S]) # 11 /\ ServerWritesFrom(ssl[S]) \in Nat
  <2>1. ServerWritesFrom(ssl[S]) \in (1 .. 9) \cup {11}
    BY Tables
  <2> QED
    BY <2>1
<1>2. ~Between(ClientReadsFrom(ssl[C]), 8, ToClientBelow(ssl[C], ssl[S]))
  BY <1>1, InAnswer DEF Between
<1> QED
  BY <1>2, ServerNow DEF ToClientOk

\* A step that neither reads nor writes.
LEMMA ServerGoes ==
  ASSUME Ready, NEW t, Become(S, t), UNCHANGED <<wire, out, conf>>, SameServer(ssl[S], t), ~t.failed,
         t.buffered = ssl[S].buffered, ssl[S].state \in ServerFills => t.state \in ServerFills,
         t.state = "RENEGOTIATE" => ~t.buffered, ServerHeard(conf, t), ServerWill(conf, t),
         ServerWritesFrom(ssl[S]) = 11 => ServerWritesFrom(t) = 11,
         ssl[S].cr = 0 => t.new_session = ssl[S].new_session /\ t.state = ssl[S].state,
         t.state \in {"BEFORE", "ACCEPT", "SR_CLNT_HELLO"} =>
           \/ t.state = ssl[S].state
           \/ /\ Waiting(ssl[C], ssl[S]) \/ ssl[C].cr = 0
              /\ \A r \in Elements(Line(S)) : ToServer(r) = 8,
         "sent" \in ssl[S].shutdown => "sent" \in t.shutdown,
         Gap(ServerSends(conf, ssl[S]), ServerWritesFrom(ssl[S]), ServerWritesFrom(t)),
         Gap(ClientSends(conf, ssl[S]) \cup {7}, ServerReadsFrom(ssl[S]), ServerReadsFrom(t))
  PROVE  Lockstep'
<1>1. ServerFits(t)
  BY PeerFacts DEF ServerFits, Ready, Lockstep, Buffers
<1>2. Waiting(ssl[C], ssl[S]) => ServerWritesFrom(t) = 11
  BY ServerNow DEF Locked, SameRun
<1>3. ssl[S].cr \in Nat /\ (ssl[S].cr = 0 => t.new_session = ssl[S].new_session
        /\ t.state \in {"BEFORE", "SR_CLNT_HELLO"})
  BY ServerNow DEF Locked, Starting, Typed
<1>4. t.state \in {"BEFORE", "ACCEPT", "SR_CLNT_HELLO"} =>
        /\ Waiting(ssl[C], ssl[S]) \/ ssl[C].cr = 0
        /\ \A r \in Elements(Line(S)) : ToServer(r) = 8
  BY ServerNow DEF Locked, Starting
<1>5. Locked(conf, ssl[C], t, Line(C), Line(S))
  BY <1>2, <1>3, <1>4, ServerNow, ServerMovesOn
<1> QED
  BY <1>1, <1>5, ServerNow, ServerMoved

\* The buffer is written out, or an empty one taken away.
LEMMA ServerRests ==
  ASSUME Ready, NEW t, Become(S, t), Empties(S), conf' = conf, SameServer(ssl[S], t), ~t.failed,
         t.state # "RENEGOTIATE", ServerHeard(conf, t), ServerWill(conf, t),
         ServerWritesFrom(ssl[S]) = 11 => ServerWritesFrom(t) = 11,
         ssl[S].cr # 0, t.state \notin {"BEFORE", "ACCEPT", "SR_CLNT_HELLO"},
         t.shutdown = ssl[S].shutdown,
         Gap(ServerSends(conf, ssl[S]), ServerWritesFrom(ssl[S]), ServerWritesFrom(t)),
         Gap(ClientSends(conf, ssl[S]) \cup {7}, ServerReadsFrom(ssl[S]), ServerReadsFrom(t))
  PROVE  Lockstep'
<1>1. ssl[S].cr \in Nat /\ (Waiting(ssl[C], ssl[S]) => ServerWritesFrom(t) = 11)
  BY ServerNow DEF Locked, SameRun, Typed
<1>2. Locked(conf, ssl[C], t, Line(C), Line(S))
  BY <1>1, ServerNow, ServerMovesOn
<1> QED
  BY <1>2, ServerNow, ServerEmptied

\* The message that has come, and its number.
LEMMA ServerMessage ==
  ASSUME Ready, Arrives(S, "handshake")
  PROVE  /\ Line(S) # <<>> /\ Head(Line(S)).type = "handshake" /\ Head(Line(S)).body = Message(S)
         /\ Message(S).name \in {"ClientHello", "Finished"} \cup ClientFlies
         /\ Message(S).name # "ClientHello" => Message(S).rnd = 0
         /\ wire[S] # <<>>
BY ServerHead DEF ClientSaid, Arrives, Message

\* A message of the flight is read and hashed.
LEMMA ServerHears ==
  ASSUME Ready, NEW name, IsNext(S, name), name # "ClientHello", NEW new, Receive(S, new),
         NEW t, t = ssl3_finish_mac(new, Plain(name)),
         SameServer(ssl[S], t), ~t.failed, ServerHeard(conf, t), ServerWill(conf, t),
         ssl[S].state \notin ServerFills, t.state # "RENEGOTIATE",
         ServerWritesFrom(ssl[S]) # 11, t.state \notin {"BEFORE", "ACCEPT", "SR_CLNT_HELLO"},
         t.shutdown = ssl[S].shutdown,
         Gap(ServerSends(conf, ssl[S]), ServerWritesFrom(ssl[S]), ServerWritesFrom(t)),
         NEW n, n \notin {5, 6, 7}, n = ToServer(Head(Line(S))), n < ServerReadsFrom(t),
         ServerReadsFrom(ssl[S]) <= ServerReadsFrom(t),
         \A x \in ClientSends(conf, ssl[S]) \cup {7} :
           ~(ServerReadsFrom(ssl[S]) <= x /\ x < ServerReadsFrom(t) /\ x # n)
  PROVE  Lockstep'
<1>1. /\ Line(S) # <<>> /\ wire[S] # <<>> /\ Message(S).rnd = 0 /\ Message(S).name = name
  BY ServerMessage DEF IsNext
<1>2. Become(S, t) /\ Take(S) /\ UNCHANGED <<out, conf>>
  BY <1>1 DEF Receive, ssl3_finish_mac, Plain
<1>3. out[S] = <<>>
  BY ServerEmpty
<1>4. Locked(conf, ssl[C], t, Line(C), Tail(Line(S)))
  BY <1>1, InAnswer, ServerNow, ServerReadsOn
<1> QED
  BY <1>1, <1>2, <1>3, <1>4, ServerNow, ServerTook DEF ServerFits

\* A message is hashed and written.
LEMMA ServerSays ==
  ASSUME Ready, NEW new, NEW m, Send(S, new, m), NEW t, t = ssl3_finish_mac(new, m),
         SameServer(ssl[S], t), ~t.failed, t.buffered = ssl[S].buffered, t.state \in ServerFills,
         ServerHeard(conf, t), ServerWill(conf, t),
         ServerWritesFrom(ssl[S]) # 11, t.shutdown = ssl[S].shutdown,
         Gap(ClientSends(conf, ssl[S]) \cup {7}, ServerReadsFrom(ssl[S]), ServerReadsFrom(t)),
         NEW r, r = Record(S, "handshake", m), NEW n, n = ToClient(r, Idle(ssl[C])), n \notin {8, 9},
         ServerSaid(conf, ssl[C], t, r),
         Follows(ServerSends(conf, ssl[S]), Idle(ssl[C]), ServerWritesFrom(ssl[S]), n,
                 ServerWritesFrom(t))
  PROVE  Lockstep'
<1>1. Become(S, t) /\ Put(S, <<r>>) /\ conf' = conf /\ r.type = "handshake"
  BY DEF Send, Record
<1>2. t.state \notin {"BEFORE", "ACCEPT", "SR_CLNT_HELLO", "RENEGOTIATE"}
  BY DEF ServerFills, ServerWrites
<1>3. Locked(conf, ssl[C], t, Append(Line(C), r), Line(S))
  BY <1>1, <1>2, InAnswer, ServerNow, ServerWritesOn
<1> QED
  BY <1>1, <1>2, <1>3, ServerNow, ServerPut

\* What a step of the server within a handshake leaves alone.
Serving(s, t) ==
  /\ SameServer(s, t) /\ ~t.failed /\ t.ccs = s.ccs /\ t.new_cipher = s.new_cipher
  /\ t.buffered = s.buffered /\ t.new_session = s.new_session /\ t.shutdown = s.shutdown

\* A server that answers has the Finished messages of the client that waits.
LEMMA SameFinished ==
  ASSUME Ready, ssl[S].state = "SW_SRVR_HELLO"
  PROVE  ssl[S].prev = ssl[C].prev
<1> DEFINE c == ssl[C]
           s == ssl[S]
<1>1. ServerWritesFrom(s) = 1 /\ ~Waiting(c, s) /\ ToClientBelow(c, s) = 1
  BY InAnswer DEF ServerWritesFrom
<1>2. ClientReadsFrom(c) \in Nat /\ 1 \in ServerSends(conf, s)
  BY Figures, Tables
<1>3. ~(1 < ClientReadsFrom(c))
  BY <1>1, <1>2, ServerNow DEF ToClientOk, Queued
<1>4. c.state = "CR_SRVR_HELLO"
  BY <1>3 DEF ClientReadsFrom
<1>5. ToServerBelow(c, s) <= 5
  BY <1>1, <1>4 DEF ToServerBelow
<1>6. c.prev[S] = s.prev[S] /\ s.prev[C] = c.prev[C]
  <2>1. ToServerBelow(c, s) \in Nat
    BY Figures
  <2>2. ~Between(ClientReadsFrom(c), 9, 1) /\ ~Between(ServerReadsFrom(s), 6, ToServerBelow(c, s))
    BY <1>2, <1>5, <2>1 DEF Between
  <2> QED
    BY <1>1, <2>2, ServerNow DEF ToClientOk, ToServerOk
<1>7. c.prev = [x \in Endpoint |-> c.prev[x]] /\ s.prev = [x \in Endpoint |-> s.prev[x]]
  BY DEF Ready, Talk, ClientSide, ServerSide, ClientTold, ServerTold
<1> QED
  BY <1>6, <1>7, PeerFacts

LEMMA send_server_hello_Lock ==
  ASSUME Ready, ssl3_send_server_hello PROVE Lockstep'
<1> DEFINE c == ssl[C]
           s == ssl[S]
           new == [ssl[S] EXCEPT
                     !.state = IF ~ssl[S].hit THEN "SW_CERT"
                               ELSE IF ssl[S].ticket_expected THEN "SW_SESSION_TICKET" ELSE "SW_CHANGE"]
           m == [name |-> "ServerHello", rnd |-> ssl[S].sr, sid |-> ssl[S].sid,
                 ticket_ext |-> ssl[S].ticket_expected, ri |-> ssl[S].prev]
           r == Record(S, "handshake", m)
           t == ssl3_finish_mac(new, m)
<1>1. s.state = "SW_SRVR_HELLO" /\ Send(S, new, m)
  BY DEF ssl3_send_server_hello
<1>0. s.state \in FullStates => ~s.hit
  BY ServerNow DEF Keys
<1>2. /\ t.state = (IF s.hit THEN "SW_CHANGE" ELSE "SW_CERT") /\ t.mac = Append(s.mac, <<"ServerHello", s.sr>>)
      /\ Serving(s, t) /\ t.master = s.master /\ m.name = "ServerHello" /\ m.rnd = s.sr
  BY <1>1, ServerNow
  DEF ssl3_finish_mac, Plain, Typed, FieldNames, Serving, SameServer, ServerWill
<1>3. /\ r.type = "handshake" /\ r.key = s.wkey /\ r.body = m
  BY DEF Record
<1>4. c.rkey = s.wkey
  <2>1. ServerWritesFrom(s) <= 8
    BY <1>1 DEF ServerWritesFrom
  <2> QED
    BY <2>1, AnswerKey
<1>5. t = ssl3_finish_mac(new, m) /\ r = Record(S, "handshake", m)
  OBVIOUS
<1>12. m.ri = c.prev /\ m.sid = s.sid /\ m.ticket_ext = s.ticket_expected
  BY <1>1, SameFinished
<1>13. s.mac = <<<<"ClientHello", s.cr>>>>
  BY <1>1, ServerNow DEF ServerTalk
<1> HIDE DEF new, m, r, t
<1>6. ToClient(r, Idle(c)) = 1 /\ ServerSaid(conf, c, t, r)
  BY <1>1, <1>2, <1>3, <1>4, <1>12
  DEF ToClient, ServerSaid, ServerFlight, Serving, SameServer
<1>7. ServerHeard(conf, t)
  BY <1>1, <1>2, <1>0, <1>13, ServerNow
  DEF FullStates, ServerHeard, Serving, SameServer, AfterHello, ServerCovers, Heard
<1>8. ServerWill(conf, t)
  BY <1>1, <1>2, <1>0, ServerNow DEF FullStates, ServerWill, Serving, SameServer, Finishes, Master
<1>9. Gap(ClientSends(conf, s) \cup {7}, ServerReadsFrom(s), ServerReadsFrom(t))
  BY <1>1, <1>2, <1>0, ServerNow
  DEF FullStates, Gap, ClientSends, ServerReadsFrom, Serving, SameServer
<1>10. Follows(ServerSends(conf, s), Idle(c), ServerWritesFrom(s), 1, ServerWritesFrom(t))
  BY <1>1, <1>2, <1>0, ServerNow
  DEF FullStates, Follows, ServerSends, ServerWritesFrom, Requested, Certified, Serving, SameServer, ServerWill
<1>11. /\ SameServer(s, t) /\ ~t.failed /\ t.buffered = s.buffered /\ t.state \in ServerFills
       /\ ServerWritesFrom(s) # 11 /\ t.shutdown = s.shutdown
  BY <1>1, <1>2 DEF Serving, ServerFills, ServerWrites, ServerWritesFrom
<1> QED
  BY <1>1, <1>5, <1>6, <1>7, <1>8, <1>9, <1>10, <1>11, ServerSays

LEMMA sent_server_certificate_Lock ==
  ASSUME Ready, ssl[S].state = "SW_CERT", conf.kx # "anon", Send(S, [ssl[S] EXCEPT !.state = IF conf.status THEN "SW_CERT_STATUS" ELSE "SW_KEY_EXCH"], [name |-> "Certificate", rnd |-> 0, empty |-> FALSE])
  PROVE  Lockstep'
<1> DEFINE c == ssl[C]
           s == ssl[S]
           new == [ssl[S] EXCEPT !.state = IF conf.status THEN "SW_CERT_STATUS" ELSE "SW_KEY_EXCH"]
           m == [name |-> "Certificate", rnd |-> 0, empty |-> FALSE]
           r == Record(S, "handshake", m)
           t == ssl3_finish_mac(new, m)
<1>1. s.state = "SW_CERT" /\ Send(S, new, m)
  BY DEF C
<1>0. s.state \in FullStates => ~s.hit
  BY ServerNow DEF Keys
<1>2. /\ t.state = (IF conf.status THEN "SW_CERT_STATUS" ELSE "SW_KEY_EXCH") /\ t.mac = Append(s.mac, <<"Certificate", 0>>)
      /\ Serving(s, t) /\ t.master = s.master /\ m.name = "Certificate" /\ m.rnd = 0
  BY <1>1, ServerNow
  DEF ssl3_finish_mac, Plain, Typed, FieldNames, Serving, SameServer
<1>3. /\ r.type = "handshake" /\ r.key = s.wkey /\ r.body = m
  BY DEF Record
<1>4. c.rkey = s.wkey
  <2>1. ServerWritesFrom(s) <= 8
    BY <1>1 DEF ServerWritesFrom
  <2> QED
    BY <2>1, AnswerKey
<1>5. t = ssl3_finish_mac(new, m) /\ r = Record(S, "handshake", m)
  OBVIOUS
<1> HIDE DEF new, m, r, t
<1>6. ToClient(r, Idle(c)) = 2 /\ ServerSaid(conf, c, t, r)
  BY <1>1, <1>2, <1>3, <1>4
  DEF ToClient, ServerSaid, ServerFlight, Serving, SameServer
<1>7. ServerHeard(conf, t)
  BY <1>1, <1>2, <1>0, ServerNow
  DEF FullStates, ServerHeard, Serving, SameServer, AfterCert, AfterStatus, Certified, Heard
<1>8. ServerWill(conf, t)
  BY <1>1, <1>2, <1>0, ServerNow DEF FullStates, ServerWill, Serving, SameServer, Finishes, Master
<1>9. Gap(ClientSends(conf, s) \cup {7}, ServerReadsFrom(s), ServerReadsFrom(t))
  BY <1>1, <1>2, <1>0, ServerNow
  DEF FullStates, Gap, ClientSends, ServerReadsFrom, Serving, SameServer
<1>10. Follows(ServerSends(conf, s), Idle(c), ServerWritesFrom(s), 2, ServerWritesFrom(t))
  BY <1>1, <1>2, <1>0, ServerNow
  DEF FullStates, Follows, ServerSends, ServerWritesFrom, Requested, Certified, Serving, SameServer, ServerWill
<1>11. /\ SameServer(s, t) /\ ~t.failed /\ t.buffered = s.buffered /\ t.state \in ServerFills
       /\ ServerWritesFrom(s) # 11 /\ t.shutdown = s.shutdown
  BY <1>1, <1>2 DEF Serving, ServerFills, ServerWrites, ServerWritesFrom
<1> QED
  BY <1>1, <1>5, <1>6, <1>7, <1>8, <1>9, <1>10, <1>11, ServerSays

LEMMA no_server_certificate_Lock ==
  ASSUME Ready, ssl[S].state = "SW_CERT", conf.kx = "anon", Move(S, [ssl[S] EXCEPT !.state = "SW_KEY_EXCH"])
  PROVE  Lockstep'
<1> DEFINE c == ssl[C]
           s == ssl[S]
           t == [ssl[S] EXCEPT !.state = "SW_KEY_EXCH"]
<1>1. s.state = "SW_CERT" /\ Become(S, t) /\ UNCHANGED <<wire, out, conf>>
  BY DEF Move
<1>0. s.state \in FullStates => ~s.hit
  BY ServerNow DEF Keys
<1>2. /\ t.state = "SW_KEY_EXCH" /\ t.mac = s.mac /\ Serving(s, t) /\ t.master = s.master
  BY <1>1, ServerNow DEF Typed, FieldNames, Serving, SameServer
<1> HIDE DEF t
<1>7. ServerHeard(conf, t)
  BY <1>1, <1>2, <1>0, ServerNow
  DEF FullStates, ServerHeard, Serving, SameServer, AfterCert, AfterStatus, Certified, Heard
<1>8. ServerWill(conf, t)
  BY <1>1, <1>2, <1>0, ServerNow DEF FullStates, ServerWill, Serving, SameServer, Finishes, Master
<1>9. Gap(ClientSends(conf, s) \cup {7}, ServerReadsFrom(s), ServerReadsFrom(t))
  BY <1>1, <1>2, <1>0, ServerNow
  DEF FullStates, Gap, ClientSends, ServerReadsFrom, Serving, SameServer
<1>10. Gap(ServerSends(conf, s), ServerWritesFrom(s), ServerWritesFrom(t))
  BY <1>1, <1>2, <1>0, ServerNow
  DEF FullStates, Gap, ServerSends, ServerWritesFrom, Requested, Certified, Serving, SameServer
<1>11. /\ SameServer(s, t) /\ ~t.failed /\ t.buffered = s.buffered /\ t.state \in ServerFills
       /\ ServerWritesFrom(s) # 11 /\ t.shutdown = s.shutdown /\ s.cr # 0
       /\ t.state \notin {"BEFORE", "ACCEPT", "SR_CLNT_HELLO", "RENEGOTIATE"}
  BY <1>1, <1>2, InService DEF Serving, ServerFills, ServerWrites, ServerWritesFrom
<1> QED
  BY <1>1, <1>7, <1>8, <1>9, <1>10, <1>11, ServerGoes

LEMMA send_server_certificate_Lock == ASSUME Ready, ssl3_send_server_certificate PROVE Lockstep'
BY sent_server_certificate_Lock, no_server_certificate_Lock DEF ssl3_send_server_certificate

LEMMA send_cert_status_Lock ==
  ASSUME Ready, ssl3_send_cert_status PROVE Lockstep'
<1> DEFINE c == ssl[C]
           s == ssl[S]
           new == [ssl[S] EXCEPT !.state = "SW_KEY_EXCH"]
           m == Plain("CertificateStatus")
           r == Record(S, "handshake", m)
           t == ssl3_finish_mac(new, m)
<1>1. s.state = "SW_CERT_STATUS" /\ Send(S, new, m)
  BY DEF ssl3_send_cert_status
<1>0. s.state \in FullStates => ~s.hit
  BY ServerNow DEF Keys
<1>2. /\ t.state = "SW_KEY_EXCH" /\ t.mac = Append(s.mac, <<"CertificateStatus", 0>>)
      /\ Serving(s, t) /\ t.master = s.master /\ m.name = "CertificateStatus" /\ m.rnd = 0
  BY <1>1, ServerNow
  DEF ssl3_finish_mac, Plain, Typed, FieldNames, Serving, SameServer
<1>3. /\ r.type = "handshake" /\ r.key = s.wkey /\ r.body = m
  BY DEF Record
<1>4. c.rkey = s.wkey
  <2>1. ServerWritesFrom(s) <= 8
    BY <1>1 DEF ServerWritesFrom
  <2> QED
    BY <2>1, AnswerKey
<1>5. t = ssl3_finish_mac(new, m) /\ r = Record(S, "handshake", m)
  OBVIOUS
<1> HIDE DEF new, m, r, t
<1>6. ToClient(r, Idle(c)) = 3 /\ ServerSaid(conf, c, t, r)
  BY <1>1, <1>2, <1>3, <1>4
  DEF ToClient, ServerSaid, ServerFlight, Serving, SameServer
<1>7. ServerHeard(conf, t)
  BY <1>1, <1>2, <1>0, ServerNow
  DEF FullStates, ServerHeard, Serving, SameServer, AfterStatus, Heard
<1>8. ServerWill(conf, t)
  BY <1>1, <1>2, <1>0, ServerNow DEF FullStates, ServerWill, Serving, SameServer, Finishes, Master
<1>9. Gap(ClientSends(conf, s) \cup {7}, ServerReadsFrom(s), ServerReadsFrom(t))
  BY <1>1, <1>2, <1>0, ServerNow
  DEF FullStates, Gap, ClientSends, ServerReadsFrom, Serving, SameServer
<1>10. Follows(ServerSends(conf, s), Idle(c), ServerWritesFrom(s), 3, ServerWritesFrom(t))
  BY <1>1, <1>2, <1>0, ServerNow
  DEF FullStates, Follows, ServerSends, ServerWritesFrom, Requested, Certified, Serving, SameServer, ServerWill, ServerHeard
<1>11. /\ SameServer(s, t) /\ ~t.failed /\ t.buffered = s.buffered /\ t.state \in ServerFills
       /\ ServerWritesFrom(s) # 11 /\ t.shutdown = s.shutdown
  BY <1>1, <1>2 DEF Serving, ServerFills, ServerWrites, ServerWritesFrom
<1> QED
  BY <1>1, <1>5, <1>6, <1>7, <1>8, <1>9, <1>10, <1>11, ServerSays

LEMMA sent_server_key_exchange_Lock ==
  ASSUME Ready, ssl[S].state = "SW_KEY_EXCH", conf.kx # "rsa",
         Send(S, [ssl[S] EXCEPT !.state = "SW_CERT_REQ"], Plain("ServerKeyExchange"))
  PROVE  Lockstep'
<1> DEFINE c == ssl[C]
           s == ssl[S]
           new == [ssl[S] EXCEPT !.state = "SW_CERT_REQ"]
           m == Plain("ServerKeyExchange")
           r == Record(S, "handshake", m)
           t == ssl3_finish_mac(new, m)
<1>1. s.state = "SW_KEY_EXCH" /\ Send(S, new, m)
  BY DEF C
<1>0. s.state \in FullStates => ~s.hit
  BY ServerNow DEF Keys
<1>2. /\ t.state = "SW_CERT_REQ" /\ t.mac = Append(s.mac, <<"ServerKeyExchange", 0>>)
      /\ Serving(s, t) /\ t.master = s.master /\ m.name = "ServerKeyExchange" /\ m.rnd = 0
  BY <1>1, ServerNow
  DEF ssl3_finish_mac, Plain, Typed, FieldNames, Serving, SameServer
<1>3. /\ r.type = "handshake" /\ r.key = s.wkey /\ r.body = m
  BY DEF Record
<1>4. c.rkey = s.wkey
  <2>1. ServerWritesFrom(s) <= 8
    BY <1>1 DEF ServerWritesFrom
  <2> QED
    BY <2>1, AnswerKey
<1>5. t = ssl3_finish_mac(new, m) /\ r = Record(S, "handshake", m)
  OBVIOUS
<1> HIDE DEF new, m, r, t
<1>6. ToClient(r, Idle(c)) = 4 /\ ServerSaid(conf, c, t, r)
  BY <1>1, <1>2, <1>3, <1>4
  DEF ToClient, ServerSaid, ServerFlight, Serving, SameServer
<1>7. ServerHeard(conf, t)
  BY <1>1, <1>2, <1>0, ServerNow
  DEF FullStates, ServerHeard, Serving, SameServer, AfterKeys, Heard
<1>8. ServerWill(conf, t)
  BY <1>1, <1>2, <1>0, ServerNow DEF FullStates, ServerWill, Serving, SameServer, Finishes, Master
<1>9. Gap(ClientSends(conf, s) \cup {7}, ServerReadsFrom(s), ServerReadsFrom(t))
  BY <1>1, <1>2, <1>0, ServerNow
  DEF FullStates, Gap, ClientSends, ServerReadsFrom, Serving, SameServer
<1>10. Follows(ServerSends(conf, s), Idle(c), ServerWritesFrom(s), 4, ServerWritesFrom(t))
  BY <1>1, <1>2, <1>0, ServerNow
  DEF FullStates, Follows, ServerSends, ServerWritesFrom, Requested, Certified, Serving, SameServer, ServerWill
<1>11. /\ SameServer(s, t) /\ ~t.failed /\ t.buffered = s.buffered /\ t.state \in ServerFills
       /\ ServerWritesFrom(s) # 11 /\ t.shutdown = s.shutdown
  BY <1>1, <1>2 DEF Serving, ServerFills, ServerWrites, ServerWritesFrom
<1> QED
  BY <1>1, <1>5, <1>6, <1>7, <1>8, <1>9, <1>10, <1>11, ServerSays

LEMMA no_server_key_exchange_Lock ==
  ASSUME Ready, ssl[S].state = "SW_KEY_EXCH", conf.kx = "rsa", Move(S, [ssl[S] EXCEPT !.state = "SW_CERT_REQ"])
  PROVE  Lockstep'
<1> DEFINE c == ssl[C]
           s == ssl[S]
           t == [ssl[S] EXCEPT !.state = "SW_CERT_REQ"]
<1>1. s.state = "SW_KEY_EXCH" /\ Become(S, t) /\ UNCHANGED <<wire, out, conf>>
  BY DEF Move
<1>0. s.state \in FullStates => ~s.hit
  BY ServerNow DEF Keys
<1>2. /\ t.state = "SW_CERT_REQ" /\ t.mac = s.mac /\ Serving(s, t) /\ t.master = s.master
  BY <1>1, ServerNow DEF Typed, FieldNames, Serving, SameServer
<1> HIDE DEF t
<1>7. ServerHeard(conf, t)
  BY <1>1, <1>2, <1>0, ServerNow
  DEF FullStates, ServerHeard, Serving, SameServer, AfterKeys, Heard
<1>8. ServerWill(conf, t)
  BY <1>1, <1>2, <1>0, ServerNow DEF FullStates, ServerWill, Serving, SameServer, Finishes, Master
<1>9. Gap(ClientSends(conf, s) \cup {7}, ServerReadsFrom(s), ServerReadsFrom(t))
  BY <1>1, <1>2, <1>0, ServerNow
  DEF FullStates, Gap, ClientSends, ServerReadsFrom, Serving, SameServer
<1>10. Gap(ServerSends(conf, s), ServerWritesFrom(s), ServerWritesFrom(t))
  BY <1>1, <1>2, <1>0, ServerNow
  DEF FullStates, Gap, ServerSends, ServerWritesFrom, Requested, Certified, Serving, SameServer
<1>11. /\ SameServer(s, t) /\ ~t.failed /\ t.buffered = s.buffered /\ t.state \in ServerFills
       /\ ServerWritesFrom(s) # 11 /\ t.shutdown = s.shutdown /\ s.cr # 0
       /\ t.state \notin {"BEFORE", "ACCEPT", "SR_CLNT_HELLO", "RENEGOTIATE"}
  BY <1>1, <1>2, InService DEF Serving, ServerFills, ServerWrites, ServerWritesFrom
<1> QED
  BY <1>1, <1>7, <1>8, <1>9, <1>10, <1>11, ServerGoes

LEMMA send_server_key_exchange_Lock == ASSUME Ready, ssl3_send_server_key_exchange PROVE Lockstep'
BY sent_server_key_exchange_Lock, no_server_key_exchange_Lock DEF ssl3_send_server_key_exchange

LEMMA sent_certificate_request_Lock ==
  ASSUME Ready, ssl[S].state = "SW_CERT_REQ", ~(conf.auth = "no" \/ conf.kx = "anon"),
         Send(S, [[ssl[S] EXCEPT !.state = "SW_SRVR_DONE"] EXCEPT !.cert_req = 1], Plain("CertificateRequest"))
  PROVE  Lockstep'
<1> DEFINE c == ssl[C]
           s == ssl[S]
           new == [[ssl[S] EXCEPT !.state = "SW_SRVR_DONE"] EXCEPT !.cert_req = 1]
           m == Plain("CertificateRequest")
           r == Record(S, "handshake", m)
           t == ssl3_finish_mac(new, m)
<1>1. s.state = "SW_CERT_REQ" /\ Send(S, new, m)
  BY DEF C
<1>0. s.state \in FullStates => ~s.hit
  BY ServerNow DEF Keys
<1>2. /\ t.state = "SW_SRVR_DONE" /\ t.mac = Append(s.mac, <<"CertificateRequest", 0>>)
      /\ Serving(s, t) /\ t.master = s.master /\ m.name = "CertificateRequest" /\ m.rnd = 0
  BY <1>1, ServerNow
  DEF ssl3_finish_mac, Plain, Typed, FieldNames, Serving, SameServer
<1>3. /\ r.type = "handshake" /\ r.key = s.wkey /\ r.body = m
  BY DEF Record
<1>4. c.rkey = s.wkey
  <2>1. ServerWritesFrom(s) <= 8
    BY <1>1 DEF ServerWritesFrom
  <2> QED
    BY <2>1, AnswerKey
<1>5. t = ssl3_finish_mac(new, m) /\ r = Record(S, "handshake", m)
  OBVIOUS
<1> HIDE DEF new, m, r, t
<1>6. ToClient(r, Idle(c)) = 5 /\ ServerSaid(conf, c, t, r)
  BY <1>1, <1>2, <1>3, <1>4
  DEF ToClient, ServerSaid, ServerFlight, Serving, SameServer
<1>7. ServerHeard(conf, t)
  BY <1>1, <1>2, <1>0, ServerNow
  DEF FullStates, ServerHeard, Serving, SameServer, AfterRequest, Requested, Heard
<1>8. ServerWill(conf, t)
  BY <1>1, <1>2, <1>0, ServerNow DEF FullStates, ServerWill, Serving, SameServer, Finishes, Master
<1>9. Gap(ClientSends(conf, s) \cup {7}, ServerReadsFrom(s), ServerReadsFrom(t))
  BY <1>1, <1>2, <1>0, ServerNow
  DEF FullStates, Gap, ClientSends, ServerReadsFrom, Serving, SameServer
<1>10. Follows(ServerSends(conf, s), Idle(c), ServerWritesFrom(s), 5, ServerWritesFrom(t))
  BY <1>1, <1>2, <1>0, ServerNow
  DEF FullStates, Follows, ServerSends, ServerWritesFrom, Requested, Certified, Serving, SameServer, ServerWill
<1>11. /\ SameServer(s, t) /\ ~t.failed /\ t.buffered = s.buffered /\ t.state \in ServerFills
       /\ ServerWritesFrom(s) # 11 /\ t.shutdown = s.shutdown
  BY <1>1, <1>2 DEF Serving, ServerFills, ServerWrites, ServerWritesFrom
<1> QED
  BY <1>1, <1>5, <1>6, <1>7, <1>8, <1>9, <1>10, <1>11, ServerSays

LEMMA unsent_certificate_request_Lock ==
  ASSUME Ready, ssl[S].state = "SW_CERT_REQ", conf.auth = "no" \/ conf.kx = "anon", Move(S, [[ssl[S] EXCEPT !.state = "SW_SRVR_DONE"] EXCEPT !.cert_req = 0])
  PROVE  Lockstep'
<1> DEFINE c == ssl[C]
           s == ssl[S]
           t == [[ssl[S] EXCEPT !.state = "SW_SRVR_DONE"] EXCEPT !.cert_req = 0]
<1>1. s.state = "SW_CERT_REQ" /\ Become(S, t) /\ UNCHANGED <<wire, out, conf>>
  BY DEF Move
<1>0. s.state \in FullStates => ~s.hit
  BY ServerNow DEF Keys
<1>2. /\ t.state = "SW_SRVR_DONE" /\ t.mac = s.mac /\ Serving(s, t) /\ t.master = s.master
  BY <1>1, ServerNow DEF Typed, FieldNames, Serving, SameServer
<1> HIDE DEF t
<1>7. ServerHeard(conf, t)
  BY <1>1, <1>2, <1>0, ServerNow
  DEF FullStates, ServerHeard, Serving, SameServer, AfterRequest, Requested, Heard
<1>8. ServerWill(conf, t)
  BY <1>1, <1>2, <1>0, ServerNow DEF FullStates, ServerWill, Serving, SameServer, Finishes, Master
<1>9. Gap(ClientSends(conf, s) \cup {7}, ServerReadsFrom(s), ServerReadsFrom(t))
  BY <1>1, <1>2, <1>0, ServerNow
  DEF FullStates, Gap, ClientSends, ServerReadsFrom, Serving, SameServer
<1>10. Gap(ServerSends(conf, s), ServerWritesFrom(s), ServerWritesFrom(t))
  BY <1>1, <1>2, <1>0, ServerNow
  DEF FullStates, Gap, ServerSends, ServerWritesFrom, Requested, Certified, Serving, SameServer
<1>11. /\ SameServer(s, t) /\ ~t.failed /\ t.buffered = s.buffered /\ t.state \in ServerFills
       /\ ServerWritesFrom(s) # 11 /\ t.shutdown = s.shutdown /\ s.cr # 0
       /\ t.state \notin {"BEFORE", "ACCEPT", "SR_CLNT_HELLO", "RENEGOTIATE"}
  BY <1>1, <1>2, InService DEF Serving, ServerFills, ServerWrites, ServerWritesFrom
<1> QED
  BY <1>1, <1>7, <1>8, <1>9, <1>10, <1>11, ServerGoes

LEMMA send_certificate_request_Lock == ASSUME Ready, ssl3_send_certificate_request PROVE Lockstep'
BY sent_certificate_request_Lock, unsent_certificate_request_Lock DEF ssl3_send_certificate_request

LEMMA send_server_done_Lock ==
  ASSUME Ready, ssl3_send_server_done PROVE Lockstep'
<1> DEFINE c == ssl[C]
           s == ssl[S]
           new == [ssl[S] EXCEPT !.state = "SW_FLUSH", !.next = "SR_CERT"]
           m == Plain("ServerHelloDone")
           r == Record(S, "handshake", m)
           t == ssl3_finish_mac(new, m)
<1>1. s.state = "SW_SRVR_DONE" /\ Send(S, new, m)
  BY DEF ssl3_send_server_done
<1>0. s.state \in FullStates => ~s.hit
  BY ServerNow DEF Keys
<1>2. /\ t.state = "SW_FLUSH" /\ t.mac = Append(s.mac, <<"ServerHelloDone", 0>>)
      /\ Serving(s, t) /\ t.master = s.master /\ t.next = "SR_CERT" /\ m.name = "ServerHelloDone" /\ m.rnd = 0
  BY <1>1, ServerNow
  DEF ssl3_finish_mac, Plain, Typed, FieldNames, Serving, SameServer
<1>3. /\ r.type = "handshake" /\ r.key = s.wkey /\ r.body = m
  BY DEF Record
<1>4. c.rkey = s.wkey
  <2>1. ServerWritesFrom(s) <= 8
    BY <1>1 DEF ServerWritesFrom
  <2> QED
    BY <2>1, AnswerKey
<1>5. t = ssl3_finish_mac(new, m) /\ r = Record(S, "handshake", m)
  OBVIOUS
<1> HIDE DEF new, m, r, t
<1>6. ToClient(r, Idle(c)) = 6 /\ ServerSaid(conf, c, t, r)
  BY <1>1, <1>2, <1>3, <1>4
  DEF ToClient, ServerSaid, ServerFlight, Serving, SameServer
<1>7. ServerHeard(conf, t)
  BY <1>1, <1>2, <1>0, ServerNow
  DEF FullStates, ServerHeard, Serving, SameServer, AfterDone, Heard
<1>8. ServerWill(conf, t)
  BY <1>1, <1>2, <1>0, ServerNow DEF FullStates, ServerWill, Serving, SameServer, Finishes, Master
<1>9. Gap(ClientSends(conf, s) \cup {7}, ServerReadsFrom(s), ServerReadsFrom(t))
  BY <1>1, <1>2, <1>0, ServerNow
  DEF FullStates, Gap, ClientSends, ServerReadsFrom, Serving, SameServer
<1>10. Follows(ServerSends(conf, s), Idle(c), ServerWritesFrom(s), 6, ServerWritesFrom(t))
  BY <1>1, <1>2, <1>0, ServerNow
  DEF FullStates, Follows, ServerSends, ServerWritesFrom, Requested, Certified, Serving, SameServer, ServerWill
<1>11. /\ SameServer(s, t) /\ ~t.failed /\ t.buffered = s.buffered /\ t.state \in ServerFills
       /\ ServerWritesFrom(s) # 11 /\ t.shutdown = s.shutdown
  BY <1>1, <1>2 DEF Serving, ServerFills, ServerWrites, ServerWritesFrom
<1> QED
  BY <1>1, <1>5, <1>6, <1>7, <1>8, <1>9, <1>10, <1>11, ServerSays

LEMMA send_newsession_ticket_Lock ==
  ASSUME Ready, ssl3_send_newsession_ticket PROVE Lockstep'
<1> DEFINE c == ssl[C]
           s == ssl[S]
           new == [ssl[S] EXCEPT !.state = "SW_CHANGE"]
           m == [name |-> "NewSessionTicket", rnd |-> 0, tick |-> <<"ticket", ssl[S].sr>>]
           r == Record(S, "handshake", m)
           t == ssl3_finish_mac(new, m)
<1>1. s.state = "SW_SESSION_TICKET" /\ Send(S, new, m)
  BY DEF ssl3_send_newsession_ticket
<1>0. s.state \in FullStates => ~s.hit
  BY ServerNow DEF Keys
<1>2. /\ t.state = "SW_CHANGE" /\ t.mac = Append(s.mac, <<"NewSessionTicket", 0>>)
      /\ Serving(s, t) /\ t.master = s.master /\ ~s.hit /\ m.name = "NewSessionTicket" /\ m.rnd = 0
  BY <1>1, ServerNow
  DEF ssl3_finish_mac, Plain, Typed, FieldNames, Serving, SameServer, ServerWill
<1>3. /\ r.type = "handshake" /\ r.key = s.wkey /\ r.body = m
  BY DEF Record
<1>4. c.rkey = s.wkey
  <2>1. ServerWritesFrom(s) <= 8
    BY <1>1 DEF ServerWritesFrom
  <2> QED
    BY <2>1, AnswerKey
<1>5. t = ssl3_finish_mac(new, m) /\ r = Record(S, "handshake", m)
  OBVIOUS
<1> HIDE DEF new, m, r, t
<1>6. ToClient(r, Idle(c)) = 7 /\ ServerSaid(conf, c, t, r)
  BY <1>1, <1>2, <1>3, <1>4
  DEF ToClient, ServerSaid, ServerFlight, Serving, SameServer
<1>7. ServerHeard(conf, t)
  BY <1>1, <1>2, <1>0, ServerNow
  DEF FullStates, ServerHeard, Serving, SameServer, AfterTicket, ServerCovers, ServerWill, Heard
<1>8. ServerWill(conf, t)
  BY <1>1, <1>2, <1>0, ServerNow DEF FullStates, ServerWill, Serving, SameServer, Finishes, Master
<1>9. Gap(ClientSends(conf, s) \cup {7}, ServerReadsFrom(s), ServerReadsFrom(t))
  BY <1>1, <1>2, <1>0, ServerNow
  DEF FullStates, Gap, ClientSends, ServerReadsFrom, Serving, SameServer
<1>10. Follows(ServerSends(conf, s), Idle(c), ServerWritesFrom(s), 7, ServerWritesFrom(t))
  BY <1>1, <1>2, <1>0, ServerNow
  DEF FullStates, Follows, ServerSends, ServerWritesFrom, Requested, Certified, Serving, SameServer, ServerWill
<1>11. /\ SameServer(s, t) /\ ~t.failed /\ t.buffered = s.buffered /\ t.state \in ServerFills
       /\ ServerWritesFrom(s) # 11 /\ t.shutdown = s.shutdown
  BY <1>1, <1>2 DEF Serving, ServerFills, ServerWrites, ServerWritesFrom
<1> QED
  BY <1>1, <1>5, <1>6, <1>7, <1>8, <1>9, <1>10, <1>11, ServerSays

-----------------------------------------------------------------------------
(* The server's steps that neither read nor write.                         *)

LEMMA flush_S_Lock == ASSUME Ready, flush(S) PROVE Lockstep'
<1> DEFINE c == ssl[C]
           s == ssl[S]
           t == [ssl[S] EXCEPT !.state = ssl[S].next]
<1>1. s.state = "SW_FLUSH" /\ Become(S, t) /\ Empties(S) /\ conf' = conf
  BY DEF flush, Empties
<1>8. /\ ~s.ccs
      /\ \/ s.next = "SR_CERT" /\ ~s.hit
         \/ s.next = "SR_FINISHED" /\ s.hit
         \/ s.next = "DONE" /\ ~s.hit
  BY <1>1, ServerNow DEF ServerKeys, ServerRun
<1>2. /\ SameServer(s, t) /\ ~t.failed /\ t.ccs = s.ccs /\ t.master = s.master
      /\ t.new_cipher = s.new_cipher /\ t.peer_md = s.peer_md /\ t.state = s.next /\ t.mac = s.mac /\ t.shutdown = s.shutdown
  BY <1>1, <1>8, ServerNow DEF Typed, FieldNames, SameServer
<1> HIDE DEF t
<1>3. ServerHeard(conf, t)
  BY <1>1, <1>2, <1>8, ServerNow DEF ServerHeard, SameServer, ClientCovers, ServerCovers
<1>4. ServerWill(conf, t)
  BY <1>1, <1>2, <1>8, ServerNow DEF ServerWill, SameServer, Finishes, Master
<1>5. Gap(ServerSends(conf, s), ServerWritesFrom(s), ServerWritesFrom(t))
  BY <1>1, <1>2, <1>8, ServerNow DEF Gap, ServerSends, ServerWritesFrom, SameServer
<1>6. Gap(ClientSends(conf, s) \cup {7}, ServerReadsFrom(s), ServerReadsFrom(t))
  BY <1>1, <1>2, <1>8, ServerNow DEF Gap, ClientSends, ServerReadsFrom, SameServer
<1>7. /\ SameServer(s, t) /\ ~t.failed /\ t.state # "RENEGOTIATE" /\ s.cr # 0
      /\ t.state \notin {"BEFORE", "ACCEPT", "SR_CLNT_HELLO"} /\ t.shutdown = s.shutdown
      /\ ServerWritesFrom(s) = 11 => ServerWritesFrom(t) = 11
  BY <1>1, <1>2, <1>8, InService DEF ServerWritesFrom, SameServer
<1> QED
  BY <1>1, <1>3, <1>4, <1>5, <1>6, <1>7, ServerRests

LEMMA handshake_done_S_Lock == ASSUME Ready, handshake_done(S) PROVE Lockstep'
<1> DEFINE c == ssl[C]
           s == ssl[S]
           t == [ssl[S] EXCEPT !.state = "OK", !.key_block = None, !.buffered = FALSE,
                   !.new_session = IF ssl[S].new_session # 2 THEN @ ELSE 0,
                   !.good = IF ssl[S].new_session # 2 THEN @ ELSE @ + 1]
<1>1. s.state = "DONE" /\ Become(S, t) /\ Empties(S) /\ conf' = conf
  BY ServerEmpty DEF handshake_done, Empties, ServerFills, ServerWrites
<1>2. /\ SameServer(s, t) /\ ~t.failed /\ t.ccs = s.ccs /\ t.master = s.master
      /\ t.new_cipher = s.new_cipher /\ t.peer_md = s.peer_md /\ t.state = "OK" /\ t.mac = s.mac /\ t.shutdown = s.shutdown
  BY <1>1, ServerNow DEF Typed, FieldNames, SameServer
<1> HIDE DEF t
<1>3. ServerHeard(conf, t)
  BY <1>1, <1>2, ServerNow DEF ServerHeard, SameServer, ClientCovers, ServerCovers
<1>4. ServerWill(conf, t)
  BY <1>1, <1>2, ServerNow DEF ServerWill, SameServer, Finishes, Master
<1>5. Gap(ServerSends(conf, s), ServerWritesFrom(s), ServerWritesFrom(t))
  BY <1>1, <1>2, ServerNow DEF Gap, ServerSends, ServerWritesFrom, SameServer
<1>6. Gap(ClientSends(conf, s) \cup {7}, ServerReadsFrom(s), ServerReadsFrom(t))
  BY <1>1, <1>2, ServerNow DEF Gap, ClientSends, ServerReadsFrom, SameServer
<1>7. /\ SameServer(s, t) /\ ~t.failed /\ t.state # "RENEGOTIATE" /\ s.cr # 0
      /\ t.state \notin {"BEFORE", "ACCEPT", "SR_CLNT_HELLO"} /\ t.shutdown = s.shutdown
      /\ ServerWritesFrom(s) = 11 => ServerWritesFrom(t) = 11
  BY <1>1, <1>2, InService DEF ServerWritesFrom, SameServer
<1> QED
  BY <1>1, <1>3, <1>4, <1>5, <1>6, <1>7, ServerRests

LEMMA renegotiate_check_S_Lock == ASSUME Ready, ssl3_renegotiate_check(S) PROVE Lockstep'
<1> DEFINE c == ssl[C]
           s == ssl[S]
           t == [ssl[S] EXCEPT !.state = "RENEGOTIATE", !.renegotiate = FALSE, !.total = @ + 1]
<1>1. s.state = "OK" /\ Become(S, t) /\ UNCHANGED <<wire, out>> /\ conf' = conf
  BY DEF ssl3_renegotiate_check, Move, SSL_in_init, cutthrough_complete
<1>8. ~s.buffered /\ ~s.ccs /\ s.cr # 0
  BY <1>1, ServerNow, InService DEF Keys, ServerWill
<1>2. /\ SameServer(s, t) /\ ~t.failed /\ t.ccs = s.ccs /\ t.master = s.master
      /\ t.new_cipher = s.new_cipher /\ t.peer_md = s.peer_md /\ t.state = "RENEGOTIATE" /\ t.mac = s.mac /\ t.shutdown = s.shutdown /\ t.buffered = s.buffered
  BY <1>1, <1>8, ServerNow DEF Typed, FieldNames, SameServer
<1> HIDE DEF t
<1>3. ServerHeard(conf, t)
  BY <1>1, <1>2, <1>8, ServerNow DEF ServerHeard, SameServer, ClientCovers, ServerCovers
<1>4. ServerWill(conf, t)
  BY <1>1, <1>2, <1>8, ServerNow DEF ServerWill, SameServer, Finishes, Master
<1>5. Gap(ServerSends(conf, s), ServerWritesFrom(s), ServerWritesFrom(t))
  BY <1>1, <1>2, <1>8, ServerNow DEF Gap, ServerSends, ServerWritesFrom, SameServer
<1>6. Gap(ClientSends(conf, s) \cup {7}, ServerReadsFrom(s), ServerReadsFrom(t))
  BY <1>1, <1>2, <1>8, ServerNow DEF Gap, ClientSends, ServerReadsFrom, SameServer
<1>7. /\ SameServer(s, t) /\ ~t.failed /\ t.buffered = s.buffered
      /\ s.state \in ServerFills => t.state \in ServerFills
      /\ t.state = "RENEGOTIATE" => ~t.buffered
      /\ "sent" \in s.shutdown => "sent" \in t.shutdown
      /\ ServerWritesFrom(s) = 11 => ServerWritesFrom(t) = 11
      /\ s.cr = 0 => t.new_session = s.new_session /\ t.state = s.state
      /\ t.state \in {"BEFORE", "ACCEPT", "SR_CLNT_HELLO"} => t.state = s.state
  BY <1>1, <1>2, <1>8 DEF ServerFills, ServerWrites, ServerWritesFrom, SameServer
<1> QED
  BY <1>1, <1>3, <1>4, <1>5, <1>6, <1>7, ServerGoes

LEMMA renegotiate_S_Lock == ASSUME Ready, SSL_renegotiate(S) PROVE Lockstep'
<1> DEFINE c == ssl[C]
           s == ssl[S]
           t == [ssl[S] EXCEPT !.renegotiate = TRUE,
                   !.new_session = IF ssl[S].new_session = 0 THEN 1 ELSE @]
<1>1. s.good > 0 /\ s.state \in Reads \cup {"OK", "BEFORE"} /\ Become(S, t) /\ UNCHANGED <<wire, out>> /\ conf' = conf
  BY DEF SSL_renegotiate, Move, AtRest, Ready, Calm, May, Endpoint
<1>8. s.cr # 0 /\ s.state # "RENEGOTIATE"
  BY <1>1, ServerNow DEF ServerCounts, Typed, Ready, Talk, Numbered, Reads, ClientReads, ServerReads
<1>2. /\ SameServer(s, t) /\ ~t.failed /\ t.ccs = s.ccs /\ t.master = s.master
      /\ t.new_cipher = s.new_cipher /\ t.peer_md = s.peer_md /\ t.state = s.state /\ t.next = s.next /\ t.mac = s.mac /\ t.shutdown = s.shutdown /\ t.buffered = s.buffered
  BY <1>1, <1>8, ServerNow DEF Typed, FieldNames, SameServer
<1> HIDE DEF t
<1>3. ServerHeard(conf, t)
  BY <1>1, <1>2, <1>8, ServerNow DEF ServerHeard, SameServer, ClientCovers, ServerCovers
<1>4. ServerWill(conf, t)
  BY <1>1, <1>2, <1>8, ServerNow DEF ServerWill, SameServer, Finishes, Master
<1>5. Gap(ServerSends(conf, s), ServerWritesFrom(s), ServerWritesFrom(t))
  BY <1>1, <1>2, <1>8, ServerNow DEF Gap, ServerSends, ServerWritesFrom, SameServer
<1>6. Gap(ClientSends(conf, s) \cup {7}, ServerReadsFrom(s), ServerReadsFrom(t))
  BY <1>1, <1>2, <1>8, ServerNow DEF Gap, ClientSends, ServerReadsFrom, SameServer
<1>7. /\ SameServer(s, t) /\ ~t.failed /\ t.buffered = s.buffered
      /\ s.state \in ServerFills => t.state \in ServerFills
      /\ t.state = "RENEGOTIATE" => ~t.buffered
      /\ "sent" \in s.shutdown => "sent" \in t.shutdown
      /\ ServerWritesFrom(s) = 11 => ServerWritesFrom(t) = 11
      /\ s.cr = 0 => t.new_session = s.new_session /\ t.state = s.state
      /\ t.state \in {"BEFORE", "ACCEPT", "SR_CLNT_HELLO"} => t.state = s.state
  BY <1>1, <1>2, <1>8 DEF ServerFills, ServerWrites, ServerWritesFrom, SameServer
<1> QED
  BY <1>1, <1>3, <1>4, <1>5, <1>6, <1>7, ServerGoes

-----------------------------------------------------------------------------
(* The client's flight, read by the server.                                *)

LEMMA got_client_certificate_Lock == ASSUME Ready, ssl[S].state = "SR_CERT", ssl[S].cert_req = 1, IsNext(S, "Certificate"),
         Receive(S, [ssl[S] EXCEPT !.state = "SR_KEY_EXCH", !.peer = ~Message(S).empty])
   PROVE Lockstep'
<1> DEFINE c == ssl[C]
           s == ssl[S]
           new == [ssl[S] EXCEPT !.state = "SR_KEY_EXCH", !.peer = ~Message(S).empty]
           t == ssl3_finish_mac(new, Plain("Certificate"))
<1>1. s.state = "SR_CERT" /\ IsNext(S, "Certificate") /\ Receive(S, new)
  BY DEF C
<1>0. ~s.hit
  BY <1>1, ServerNow DEF Keys, FullStates
<1>8. Requested(conf) /\ ~s.ccs
  BY <1>1, ServerNow DEF ServerKnows, Asks, Requested, ServerWill
<1>2. /\ SameServer(s, t) /\ ~t.failed /\ t.ccs = s.ccs /\ t.peer_md = s.peer_md
      /\ t.new_cipher = s.new_cipher /\ t.shutdown = s.shutdown
      /\ t.mac = Append(s.mac, <<"Certificate", 0>>) /\ t.state = "SR_KEY_EXCH" /\ t.master = s.master
  BY <1>1, <1>8, ServerNow DEF ssl3_finish_mac, Plain, Typed, FieldNames, SameServer
<1>9. t = ssl3_finish_mac(new, Plain("Certificate"))
  OBVIOUS
<1>10. ToServer(Head(Line(S))) = 2
  BY <1>1, ServerMessage DEF ToServer, IsNext
<1> HIDE DEF new, t
<1>3. ServerHeard(conf, t)
  BY <1>1, <1>2, <1>8, <1>0, ServerNow DEF ServerHeard, SameServer, AfterClientCert, Heard
<1>4. ServerWill(conf, t)
  BY <1>1, <1>2, <1>8, <1>0, ServerNow DEF ServerWill, SameServer, Finishes, Master
<1>5. Gap(ServerSends(conf, s), ServerWritesFrom(s), ServerWritesFrom(t))
  BY <1>1, <1>2, <1>8, <1>0, ServerNow DEF Gap, ServerSends, ServerWritesFrom, SameServer
<1>6. /\ \A x \in ClientSends(conf, s) \cup {7} :
           ~(ServerReadsFrom(s) <= x /\ x < ServerReadsFrom(t) /\ x # 2)
      /\ ServerReadsFrom(s) <= ServerReadsFrom(t) /\ 2 < ServerReadsFrom(t)
  BY <1>1, <1>2, <1>8, <1>0, ServerNow DEF ClientSends, ServerReadsFrom, SameServer, Requested, Proven
<1>7. /\ ServerWritesFrom(s) # 11 /\ s.state \notin ServerFills
      /\ t.state \notin {"BEFORE", "ACCEPT", "SR_CLNT_HELLO", "RENEGOTIATE"}
  BY <1>1, <1>2, <1>8 DEF ServerFills, ServerWrites, ServerWritesFrom
<1> QED
  BY <1>1, <1>2, <1>3, <1>4, <1>5, <1>6, <1>7, <1>9, <1>10, ServerHears

LEMMA no_client_certificate_Lock ==
  ASSUME Ready, ssl[S].state = "SR_CERT", ssl[S].cert_req = 0, Move(S, [ssl[S] EXCEPT !.state = "SR_KEY_EXCH"])
  PROVE  Lockstep'
<1> DEFINE c == ssl[C]
           s == ssl[S]
           t == [ssl[S] EXCEPT !.state = "SR_KEY_EXCH"]
<1>1. s.state = "SR_CERT" /\ Become(S, t) /\ UNCHANGED <<wire, out, conf>>
  BY DEF Move
<1>0. ~s.hit /\ ~Requested(conf) /\ ~s.ccs
  BY ServerNow DEF Keys, FullStates, ServerKnows, Asks, Requested, ServerWill
<1>2. /\ t.state = "SR_KEY_EXCH" /\ t.mac = s.mac /\ Serving(s, t) /\ t.master = s.master
      /\ t.peer_md = s.peer_md
  BY <1>1, ServerNow DEF Typed, FieldNames, Serving, SameServer
<1> HIDE DEF t
<1>7. ServerHeard(conf, t)
  BY <1>1, <1>2, <1>0, ServerNow
  DEF ServerHeard, Serving, SameServer, AfterClientCert, Heard
<1>8. ServerWill(conf, t)
  BY <1>1, <1>2, <1>0, ServerNow DEF ServerWill, Serving, SameServer, Finishes, Master
<1>9. Gap(ClientSends(conf, s) \cup {7}, ServerReadsFrom(s), ServerReadsFrom(t))
  BY <1>1, <1>2, <1>0, ServerNow
  DEF Gap, ClientSends, ServerReadsFrom, Serving, SameServer
<1>10. Gap(ServerSends(conf, s), ServerWritesFrom(s), ServerWritesFrom(t))
  BY <1>1, <1>2, <1>0, ServerNow
  DEF Gap, ServerSends, ServerWritesFrom, Serving, SameServer
<1>11. /\ SameServer(s, t) /\ ~t.failed /\ t.buffered = s.buffered /\ s.state \notin ServerFills
       /\ ServerWritesFrom(s) # 11 /\ t.shutdown = s.shutdown /\ s.cr # 0
       /\ t.state \notin {"BEFORE", "ACCEPT", "SR_CLNT_HELLO", "RENEGOTIATE"}
  BY <1>1, <1>2, InService DEF Serving, ServerFills, ServerWrites, ServerWritesFrom
<1> QED
  BY <1>1, <1>7, <1>8, <1>9, <1>10, <1>11, ServerGoes

LEMMA get_client_certificate_Lock == ASSUME Ready, ssl3_get_client_certificate PROVE Lockstep'
BY got_client_certificate_Lock, no_client_certificate_Lock DEF ssl3_get_client_certificate

LEMMA get_client_key_exchange_Lock == ASSUME Ready, ssl3_get_client_key_exchange PROVE Lockstep'
<1> DEFINE c == ssl[C]
           s == ssl[S]
           new == [ssl[S] EXCEPT !.state = "SR_CERT_VRFY", !.master = <<ssl[S].cr, ssl[S].sr>>]
           t == ssl3_finish_mac(new, Plain("ClientKeyExchange"))
<1>1. s.state = "SR_KEY_EXCH" /\ IsNext(S, "ClientKeyExchange") /\ Receive(S, new)
  BY DEF ssl3_get_client_key_exchange
<1>0. ~s.hit
  BY <1>1, ServerNow DEF Keys, FullStates
<1>8. ~s.ccs
  BY <1>1, ServerNow DEF ServerWill
<1>2. /\ SameServer(s, t) /\ ~t.failed /\ t.ccs = s.ccs /\ t.peer_md = s.peer_md
      /\ t.new_cipher = s.new_cipher /\ t.shutdown = s.shutdown
      /\ t.mac = Append(s.mac, <<"ClientKeyExchange", 0>>) /\ t.state = "SR_CERT_VRFY" /\ t.master = <<s.cr, s.sr>>
  BY <1>1, <1>8, ServerNow DEF ssl3_finish_mac, Plain, Typed, FieldNames, SameServer
<1>9. t = ssl3_finish_mac(new, Plain("ClientKeyExchange"))
  OBVIOUS
<1>10. ToServer(Head(Line(S))) = 3
  BY <1>1, ServerMessage DEF ToServer, IsNext
<1> HIDE DEF new, t
<1>3. ServerHeard(conf, t)
  BY <1>1, <1>2, <1>8, <1>0, ServerNow DEF ServerHeard, SameServer, AfterExchange, Heard
<1>4. ServerWill(conf, t)
  BY <1>1, <1>2, <1>8, <1>0, ServerNow DEF ServerWill, SameServer, Finishes, Master
<1>5. Gap(ServerSends(conf, s), ServerWritesFrom(s), ServerWritesFrom(t))
  BY <1>1, <1>2, <1>8, <1>0, ServerNow DEF Gap, ServerSends, ServerWritesFrom, SameServer
<1>6. /\ \A x \in ClientSends(conf, s) \cup {7} :
           ~(ServerReadsFrom(s) <= x /\ x < ServerReadsFrom(t) /\ x # 3)
      /\ ServerReadsFrom(s) <= ServerReadsFrom(t) /\ 3 < ServerReadsFrom(t)
  BY <1>1, <1>2, <1>8, <1>0, ServerNow DEF ClientSends, ServerReadsFrom, SameServer, Requested, Proven
<1>7. /\ ServerWritesFrom(s) # 11 /\ s.state \notin ServerFills
      /\ t.state \notin {"BEFORE", "ACCEPT", "SR_CLNT_HELLO", "RENEGOTIATE"}
  BY <1>1, <1>2, <1>8 DEF ServerFills, ServerWrites, ServerWritesFrom
<1> QED
  BY <1>1, <1>2, <1>3, <1>4, <1>5, <1>6, <1>7, <1>9, <1>10, ServerHears

LEMMA got_cert_verify_Lock == ASSUME Ready, ssl[S].state = "SR_CERT_VRFY", IsNext(S, "CertificateVerify"), VerifyOk,
         Receive(S, [ssl[S] EXCEPT !.state = "SR_FINISHED"])
   PROVE Lockstep'
<1> DEFINE c == ssl[C]
           s == ssl[S]
           new == [ssl[S] EXCEPT !.state = "SR_FINISHED"]
           t == ssl3_finish_mac(new, Plain("CertificateVerify"))
<1>1. s.state = "SR_CERT_VRFY" /\ VerifyOk /\ IsNext(S, "CertificateVerify") /\ Receive(S, new)
  BY DEF C
<1>0. ~s.hit
  BY <1>1, ServerNow DEF Keys, FullStates
<1>8. Proven(conf) /\ ~s.ccs
  BY <1>1, ServerNow DEF ServerKnows, Known, Proven, VerifyOk
<1>2. /\ SameServer(s, t) /\ ~t.failed /\ t.ccs = s.ccs /\ t.peer_md = s.peer_md
      /\ t.new_cipher = s.new_cipher /\ t.shutdown = s.shutdown
      /\ t.mac = Append(s.mac, <<"CertificateVerify", 0>>) /\ t.state = "SR_FINISHED" /\ t.master = s.master
  BY <1>1, <1>8, ServerNow DEF ssl3_finish_mac, Plain, Typed, FieldNames, SameServer
<1>9. t = ssl3_finish_mac(new, Plain("CertificateVerify"))
  OBVIOUS
<1>10. ToServer(Head(Line(S))) = 4
  BY <1>1, ServerMessage DEF ToServer, IsNext
<1> HIDE DEF new, t
<1>3. ServerHeard(conf, t)
  BY <1>1, <1>2, <1>8, <1>0, ServerNow DEF ServerHeard, SameServer, ClientCovers, AfterVerify, Heard
<1>4. ServerWill(conf, t)
  BY <1>1, <1>2, <1>8, <1>0, ServerNow DEF ServerWill, SameServer, Finishes, Master
<1>5. Gap(ServerSends(conf, s), ServerWritesFrom(s), ServerWritesFrom(t))
  BY <1>1, <1>2, <1>8, <1>0, ServerNow DEF Gap, ServerSends, ServerWritesFrom, SameServer
<1>6. /\ \A x \in ClientSends(conf, s) \cup {7} :
           ~(ServerReadsFrom(s) <= x /\ x < ServerReadsFrom(t) /\ x # 4)
      /\ ServerReadsFrom(s) <= ServerReadsFrom(t) /\ 4 < ServerReadsFrom(t)
  BY <1>1, <1>2, <1>8, <1>0, ServerNow DEF ClientSends, ServerReadsFrom, SameServer, Requested, Proven
<1>7. /\ ServerWritesFrom(s) # 11 /\ s.state \notin ServerFills
      /\ t.state \notin {"BEFORE", "ACCEPT", "SR_CLNT_HELLO", "RENEGOTIATE"}
  BY <1>1, <1>2, <1>8 DEF ServerFills, ServerWrites, ServerWritesFrom
<1> QED
  BY <1>1, <1>2, <1>3, <1>4, <1>5, <1>6, <1>7, <1>9, <1>10, ServerHears

LEMMA no_cert_verify_Lock ==
  ASSUME Ready, ssl[S].state = "SR_CERT_VRFY", ~ssl[S].peer, Move(S, [ssl[S] EXCEPT !.state = "SR_FINISHED"])
  PROVE  Lockstep'
<1> DEFINE c == ssl[C]
           s == ssl[S]
           t == [ssl[S] EXCEPT !.state = "SR_FINISHED"]
<1>1. s.state = "SR_CERT_VRFY" /\ Become(S, t) /\ UNCHANGED <<wire, out, conf>>
  BY DEF Move
<1>0. ~s.hit /\ ~Proven(conf)
  <2>1. s.sr # 0
    BY ServerNow DEF ServerNumbers, Typed
  <2>2. ~s.hit
    BY ServerNow DEF Keys, FullStates
  <2>3. ~Unknown(s)
    BY <2>1, <2>2 DEF Unknown, Answers, ServerEarly
  <2> QED
    BY <2>2, <2>3, ServerNow DEF ServerKnows, Known, Proven
<1>2. /\ t.state = "SR_FINISHED" /\ t.mac = s.mac /\ Serving(s, t) /\ t.master = s.master
      /\ t.peer_md = s.peer_md
  BY <1>1, ServerNow DEF Typed, FieldNames, Serving, SameServer
<1> HIDE DEF t
<1>7. ServerHeard(conf, t)
  BY <1>1, <1>2, <1>0, ServerNow
  DEF ServerHeard, Serving, SameServer, ClientCovers, AfterVerify, Heard
<1>8. ServerWill(conf, t)
  BY <1>1, <1>2, <1>0, ServerNow DEF ServerWill, Serving, SameServer, Finishes, Master
<1>9. Gap(ClientSends(conf, s) \cup {7}, ServerReadsFrom(s), ServerReadsFrom(t))
  BY <1>1, <1>2, <1>0, ServerNow
  DEF Gap, ClientSends, ServerReadsFrom, Serving, SameServer
<1>10. Gap(ServerSends(conf, s), ServerWritesFrom(s), ServerWritesFrom(t))
  BY <1>1, <1>2, <1>0, ServerNow
  DEF Gap, ServerSends, ServerWritesFrom, Serving, SameServer
<1>11. /\ SameServer(s, t) /\ ~t.failed /\ t.buffered = s.buffered /\ s.state \notin ServerFills
       /\ ServerWritesFrom(s) # 11 /\ t.shutdown = s.shutdown /\ s.cr # 0
       /\ t.state \notin {"BEFORE", "ACCEPT", "SR_CLNT_HELLO", "RENEGOTIATE"}
  BY <1>1, <1>2, InService DEF Serving, ServerFills, ServerWrites, ServerWritesFrom
<1> QED
  BY <1>1, <1>7, <1>8, <1>9, <1>10, <1>11, ServerGoes

LEMMA get_cert_verify_Lock == ASSUME Ready, ssl3_get_cert_verify PROVE Lockstep'
BY got_cert_verify_Lock, no_cert_verify_Lock DEF ssl3_get_cert_verify

-----------------------------------------------------------------------------
(* The server's data, its alerts and what it reads at rest.                *)

LEMMA ServerCloses ==
  ASSUME Ready, NEW t, Closing(ssl[S], t)
  PROVE  /\ ServerHeard(conf, t) /\ ServerWill(conf, t) /\ SameServer(ssl[S], t) /\ ~t.failed
         /\ ServerReadsFrom(t) = ServerReadsFrom(ssl[S])
         /\ ServerWritesFrom(t) = ServerWritesFrom(ssl[S])
<1>1. ServerHeard(conf, t)
  BY ServerNow DEF Closing, ServerHeard, ServerCovers, ClientCovers
<1>2. ServerWill(conf, t)
  BY ServerNow DEF Closing, ServerWill, Master, Finishes
<1>3. SameServer(ssl[S], t) /\ ~t.failed
  BY ServerNow DEF Closing, SameServer
<1>4. ServerReadsFrom(t) = ServerReadsFrom(ssl[S])
  BY DEF Closing, ServerReadsFrom
<1>5. ServerWritesFrom(t) = ServerWritesFrom(ssl[S])
  BY DEF Closing, ServerWritesFrom
<1> QED
  BY <1>1, <1>2, <1>3, <1>4, <1>5

\* What is of no handshake, and anything after the server has closed, is read
\* wherever the server stands.
LEMMA ServerDrops ==
  ASSUME Ready, NEW t, Closing(ssl[S], t), "sent" \in ssl[S].shutdown => "sent" \in t.shutdown,
         wire[S] # <<>>, NEW n, n = ToServer(Head(Line(S))), n \notin {5, 6},
         n = 7 \/ ("sent" \in t.shutdown /\ ssl[S].state = "OK")
  PROVE  Locked(conf, ssl[C], t, Line(C), Tail(Line(S)))
<1> DEFINE s == ssl[S]
<1>1. /\ ServerHeard(conf, t) /\ ServerWill(conf, t) /\ SameServer(s, t)
      /\ ServerReadsFrom(t) = ServerReadsFrom(s) /\ ServerWritesFrom(t) = ServerWritesFrom(s)
  BY ServerCloses
<1>2. Line(S) # <<>> /\ Head(Line(S)) \in Elements(Line(S))
  BY ServerHead
<1>3. s.state \notin {"BEFORE", "ACCEPT", "SR_CLNT_HELLO"}
  BY <1>2, ServerNow DEF Locked, Starting
<1>4. s.cr # 0 /\ s.cr \in Nat /\ t.state \notin {"BEFORE", "ACCEPT", "SR_CLNT_HELLO"}
  BY <1>3, InService DEF Closing
<1>5. Waiting(ssl[C], s) => ServerWritesFrom(t) = 11
  BY <1>1, ServerNow DEF Locked, SameRun
<1>6. Gap(ServerSends(conf, s), ServerWritesFrom(s), ServerWritesFrom(t))
  <2>1. ServerWritesFrom(s) \in Nat /\ ServerSends(conf, s) \in SUBSET Nat
    <3>1. ServerWritesFrom(s) \in (1 .. 9) \cup {11}
      BY Tables
    <3>2. ServerWritesFrom(s) \in Nat
      BY <3>1
    <3>3. ServerSends(conf, s) \in SUBSET Nat
      BY Figures
    <3> QED
      BY <3>2, <3>3
  <2> QED
    BY <1>1, <2>1, NoGap
<1>7. /\ \A x \in ClientSends(conf, s) \cup {7} :
           ~(ServerReadsFrom(s) <= x /\ x < ServerReadsFrom(t) /\ x # n)
      /\ ServerReadsFrom(s) <= ServerReadsFrom(t) /\ ServerReadsFrom(t) <= 7
  <2>1. ClientSends(conf, s) \in SUBSET Nat /\ ServerReadsFrom(s) \in 2 .. 7
    BY Figures, Tables
  <2> QED
    BY <1>1, <2>1
<1> QED
  BY <1>1, <1>2, <1>3, <1>4, <1>5, <1>6, <1>7, ServerNow, ServerReadsOn

LEMMA ServerQuiet ==
  ASSUME Ready, ssl[S].state \in Reads \cup {"OK", "BEFORE"}
  PROVE  out[S] = <<>> /\ ssl[S].state \notin ServerFills
BY ServerEmpty DEF Reads, ClientReads, ServerReads, ServerFills, ServerWrites

LEMMA read_S_Lock == ASSUME Ready, SSL_read(S) PROVE Lockstep'
<1>1. /\ Arrives(S, "app") /\ Take(S) /\ ssl' = ssl /\ out' = out /\ conf' = conf /\ wire[S] # <<>>
  BY DEF SSL_read, Arrives
<1>2. ToServer(Head(Line(S))) = 7
  BY <1>1, ServerHead DEF Arrives, ToServer
<1>4. Locked(conf, ssl[C], ssl[S], Line(C), Tail(Line(S)))
  BY <1>1, <1>2, ClosingSame, ServerDrops
<1>5. Line(S)' = Tail(Line(S)) /\ Line(C)' = Line(C)
  BY <1>1, ServerNow, LineTake, PeerFacts
<1> QED
  BY <1>1, <1>4, <1>5, ServerNow, EndsLock, PeerFacts

LEMMA discard_S_Lock == ASSUME Ready, discard(S) PROVE Lockstep'
<1>1. /\ Take(S) /\ ssl' = ssl /\ out' = out /\ conf' = conf /\ wire[S] # <<>>
      /\ ssl[S].shutdown = {"sent"} /\ ssl[S].state = "OK"
  BY DEF discard, Discards, cutthrough_complete
<1> DEFINE n == ToServer(Head(Line(S)))
<1>2. n \in Nat /\ ServerReadsFrom(ssl[S]) <= n /\ n = ToServer(Head(Line(S)))
  BY <1>1, ServerRank
<1> HIDE DEF n
<1>3. n \notin {5, 6}
  BY <1>1, <1>2 DEF ServerReadsFrom
<1>4. Locked(conf, ssl[C], ssl[S], Line(C), Tail(Line(S)))
  BY <1>1, <1>2, <1>3, ClosingSame, ServerDrops
<1>5. Line(S)' = Tail(Line(S)) /\ Line(C)' = Line(C)
  BY <1>1, ServerNow, LineTake, PeerFacts
<1> QED
  BY <1>1, <1>4, <1>5, ServerNow, EndsLock, PeerFacts

LEMMA read_close_notify_S_Lock == ASSUME Ready, read_close_notify(S) PROVE Lockstep'
<1> DEFINE s == ssl[S]
           t == [ssl[S] EXCEPT !.shutdown = @ \cup {"received"}]
<1>1. /\ Arrives(S, "close_notify") /\ Take(S) /\ Become(S, t) /\ UNCHANGED <<out, conf>>
      /\ wire[S] # <<>> /\ s.state \in Reads \cup {"OK"}
  BY DEF read_close_notify, Arrives, Reading
<1>2. Closing(s, t) /\ ("sent" \in s.shutdown => "sent" \in t.shutdown)
  BY ServerNow DEF Closing, Typed, FieldNames
<1>3. ToServer(Head(Line(S))) = 7
  BY <1>1, ServerHead DEF Arrives, ToServer
<1> HIDE DEF t
<1>4. Locked(conf, ssl[C], t, Line(C), Tail(Line(S)))
  BY <1>1, <1>2, <1>3, ServerDrops
<1>5. ServerFits(t)
  BY <1>1, <1>2, ServerNow, ServerQuiet
  DEF ServerFits, Closing, Reads, ClientReads, ServerReads
<1> QED
  BY <1>1, <1>4, <1>5, ServerNow, ServerTook

\* A client in the handshake after the server's last one has yet to be read.
LEMMA WaitsAtRest ==
  ASSUME Ready, ServerReadsFrom(ssl[S]) = 7, ssl[C].state = "CR_SRVR_HELLO"
  PROVE  Waiting(ssl[C], ssl[S]) /\ ToClientBelow(ssl[C], ssl[S]) = 1 /\ ssl[C].rkey = ssl[S].wkey
<1> DEFINE c == ssl[C]
           s == ssl[S]
<1>1. Waiting(c, s)
  <2> SUFFICES ASSUME ~Waiting(c, s) PROVE FALSE
    OBVIOUS
  <2>1. ToServerBelow(c, s) <= 5
    BY DEF ToServerBelow
  <2>2. 5 \in ClientSends(conf, s)
    BY Figures
  <2>3. Queued(S, Line(S), 7, ToServerBelow(c, s), ClientSends(conf, s), 7)
    BY ServerNow DEF ToServerOk
  <2> QED
    BY <2>1, <2>2, <2>3 DEF Queued
<1>2. ToClientBelow(c, s) = 1
  BY <1>1 DEF ToClientBelow
<1>3. ~Between(ClientReadsFrom(c), 8, 1)
  BY DEF Between
<1> QED
  BY <1>1, <1>2, <1>3, ServerNow DEF ToClientOk

\* The server writes what is of no handshake.
LEMMA ServerAdds ==
  ASSUME Ready, NEW t, SameServer(ssl[S], t), ServerHeard(conf, t), ServerWill(conf, t),
         ServerReadsFrom(ssl[S]) = 7, ServerReadsFrom(t) = 7,
         ServerWritesFrom(ssl[S]) = 11, ServerWritesFrom(t) = 11,
         ssl[S].state \notin {"BEFORE", "SR_CLNT_HELLO"},
         t.state \notin {"BEFORE", "ACCEPT", "SR_CLNT_HELLO"},
         "sent" \in ssl[S].shutdown => "sent" \in t.shutdown,
         NEW r, r.key = ssl[S].wkey,
         \/ r.type \in {"app", "close_notify"}
         \/ r.type = "handshake" /\ r.body.name = "HelloRequest" /\ r.body.rnd = 0,
         r.type = "app" => ssl[S].state = "OK"
  PROVE  Locked(conf, ssl[C], t, Append(Line(C), r), Line(S))
<1> DEFINE c == ssl[C]
           s == ssl[S]
           n == ToClient(r, Idle(c))
<1>1. n = Idle(c) /\ n \in {0, 10}
  BY DEF ToClient, Idle
<1>2. c.state = "CR_SRVR_HELLO" => Waiting(c, s) /\ c.rkey = s.wkey
  BY WaitsAtRest
<1>3. Waiting(c, s) <=> c.state = "CR_SRVR_HELLO"
  BY <1>2 DEF Waiting
<1>4. c.state = "CR_SRVR_HELLO" <=> n = 0
  BY <1>1 DEF Idle
<1>5. n = ToClient(r, Idle(c))
  OBVIOUS
<1> HIDE DEF n
<1>6. ServerSaid(conf, c, t, r)
  <2>1. r.key = IF n <= 8 THEN c.rkey ELSE t.wkey
    BY <1>1, <1>2, <1>4 DEF SameServer
  <2> QED
    BY <1>5, <2>1 DEF ServerSaid
<1>7. ~Waiting(c, s) => Follows(ServerSends(conf, s), Idle(c), ServerWritesFrom(s), n, ServerWritesFrom(t))
  <2>1. ServerSends(conf, s) \in SUBSET Nat
    BY Figures
  <2>2. ~Waiting(c, s) => n = 10
    BY <1>1, <1>3, <1>4
  <2> QED
    BY <1>1, <2>1, <2>2 DEF Follows
<1>8. Gap(ClientSends(conf, s) \cup {7}, ServerReadsFrom(s), ServerReadsFrom(t))
  BY NoGaps
<1>9. s.cr # 0 /\ s.cr \in Nat /\ n \notin {8, 9} /\ (Waiting(c, s) => n = 0)
  BY <1>1, <1>3, <1>4, InService
<1> QED
  BY <1>5, <1>6, <1>7, <1>8, <1>9, ServerNow, ServerWritesOn

LEMMA write_S_Lock == ASSUME Ready, SSL_write(S) PROVE Lockstep'
<1> DEFINE s == ssl[S]
           r == Record(S, "app", Plain("data"))
<1>1. Put(S, <<r>>) /\ ssl' = ssl /\ conf' = conf /\ s.state = "OK"
  BY DEF SSL_write, SSL_in_init, cutthrough_complete
<1>2. r.type = "app" /\ r.key = s.wkey
  BY DEF Record
<1> HIDE DEF r
<1>3. Closing(s, s) /\ ServerReadsFrom(s) = 7 /\ ServerWritesFrom(s) = 11
  BY <1>1, ClosingSame DEF ServerReadsFrom, ServerWritesFrom
<1>4. Locked(conf, ssl[C], s, Append(Line(C), r), Line(S))
  BY <1>1, <1>2, <1>3, ServerCloses, ServerAdds
<1>5. ~s.buffered /\ out[S] = <<>>
  BY <1>1, ServerNow, ServerQuiet DEF Keys
<1>6. Line(C)' = Append(Line(C), r) /\ Line(S)' = Line(S) /\ out' = out
  BY <1>1, <1>5, ServerNow, LinePut, PeerFacts
<1> QED
  BY <1>1, <1>4, <1>6, ServerNow, EndsLock, PeerFacts

LEMMA shutdown_S_Lock == ASSUME Ready, SSL_shutdown(S) PROVE Lockstep'
<1> DEFINE s == ssl[S]
<1>0. s.state \in Reads \cup {"OK", "BEFORE"}
  BY DEF SSL_shutdown, AtRest
<1>1. ASSUME Move(S, [ssl[S] EXCEPT !.shut = TRUE]) PROVE Lockstep'
  <2> DEFINE t == [ssl[S] EXCEPT !.shut = TRUE]
  <2>1. Become(S, t) /\ UNCHANGED <<wire, out, conf>>
    BY <1>1 DEF Move
  <2>2. Closing(s, t) /\ t.shutdown = s.shutdown
    BY ServerNow DEF Closing, Typed, FieldNames
  <2> HIDE DEF t
  <2>3. /\ ServerHeard(conf, t) /\ ServerWill(conf, t) /\ SameServer(s, t) /\ ~t.failed
        /\ ServerReadsFrom(t) = ServerReadsFrom(s) /\ ServerWritesFrom(t) = ServerWritesFrom(s)
    BY <2>2, ServerCloses
  <2>4. Gap(ServerSends(conf, s), ServerWritesFrom(s), ServerWritesFrom(t))
    <3>1. ServerWritesFrom(s) \in (1 .. 9) \cup {11}
      BY Tables
    <3>2. ServerWritesFrom(s) \in Nat
      BY <3>1
    <3>3. ServerSends(conf, s) \in SUBSET Nat
      BY Figures
    <3> QED
      BY <2>3, <3>2, <3>3, NoGap
  <2>5. Gap(ClientSends(conf, s) \cup {7}, ServerReadsFrom(s), ServerReadsFrom(t))
    BY <2>3, NoGaps
  <2>6. t.state = s.state /\ t.buffered = s.buffered /\ t.new_session = s.new_session
    BY <2>2 DEF Closing
  <2>7. t.state # "RENEGOTIATE" /\ (s.state \in ServerFills => t.state \in ServerFills)
    BY <1>0, <2>6 DEF Reads, ClientReads, ServerReads
  <2> QED
    BY <2>1, <2>2, <2>3, <2>4, <2>5, <2>6, <2>7, ServerGoes
<1>2. ASSUME ~SSL_in_init(S),
             Become(S, [ssl[S] EXCEPT !.shutdown = @ \cup {"sent"},
                          !.shut = "received" \in ssl[S].shutdown]),
             Put(S, <<Record(S, "close_notify", Plain("close_notify"))>>), conf' = conf
      PROVE  Lockstep'
  <2> DEFINE t == [ssl[S] EXCEPT !.shutdown = @ \cup {"sent"},
                     !.shut = "received" \in ssl[S].shutdown]
             r == Record(S, "close_notify", Plain("close_notify"))
  <2>1. s.state = "OK"
    BY <1>2 DEF SSL_in_init, cutthrough_complete
  <2>2. Closing(s, t) /\ "sent" \in t.shutdown
    BY ServerNow DEF Closing, Typed, FieldNames
  <2>3. Become(S, t) /\ Put(S, <<r>>)
    BY <1>2
  <2>4. r.type = "close_notify" /\ r.key = s.wkey
    BY DEF Record
  <2> HIDE DEF t, r
  <2>5. /\ ServerHeard(conf, t) /\ ServerWill(conf, t) /\ SameServer(s, t) /\ ~t.failed
        /\ ServerReadsFrom(t) = ServerReadsFrom(s) /\ ServerWritesFrom(t) = ServerWritesFrom(s)
    BY <2>2, ServerCloses
  <2>6. ServerReadsFrom(s) = 7 /\ ServerWritesFrom(s) = 11 /\ t.state = "OK" /\ ~s.buffered
    BY <2>1, <2>2, ServerNow DEF ServerReadsFrom, ServerWritesFrom, Closing, Keys
  <2>7. Locked(conf, ssl[C], t, Append(Line(C), r), Line(S))
    BY <2>1, <2>2, <2>4, <2>5, <2>6, ServerAdds
  <2> QED
    BY <1>2, <2>3, <2>5, <2>6, <2>7, ServerNow, ServerPut
<1> QED
  BY <1>1, <1>2 DEF SSL_shutdown

LEMMA send_hello_request_Lock == ASSUME Ready, ssl3_send_hello_request PROVE Lockstep'
<1> DEFINE s == ssl[S]
           t == [ssl[S] EXCEPT !.state = "DONE", !.new_session = 1, !.shutdown = {}, !.mac = None]
           r == Record(S, "handshake", Plain("HelloRequest"))
<1>1. s.state = "RENEGOTIATE" /\ Become(S, t) /\ Put(S, <<r>>) /\ conf' = conf
  BY DEF ssl3_send_hello_request
<1>2. /\ SameServer(s, t) /\ ~t.failed /\ t.ccs = s.ccs /\ t.master = s.master
      /\ t.new_cipher = s.new_cipher /\ t.state = "DONE" /\ t.buffered = s.buffered
  BY <1>1, ServerNow DEF Typed, FieldNames, SameServer
<1>3. r.type = "handshake" /\ r.key = s.wkey /\ r.body.name = "HelloRequest" /\ r.body.rnd = 0
  BY DEF Record, Plain
<1> HIDE DEF t, r
<1>4. ServerHeard(conf, t)
  BY <1>2 DEF ServerHeard
<1>5. ServerWill(conf, t)
  BY <1>1, <1>2, ServerNow DEF ServerWill, SameServer, Finishes, Master
<1>6. /\ ServerReadsFrom(s) = 7 /\ ServerReadsFrom(t) = 7
      /\ ServerWritesFrom(s) = 11 /\ ServerWritesFrom(t) = 11
  BY <1>1, <1>2 DEF ServerReadsFrom, ServerWritesFrom
<1>7. "sent" \notin s.shutdown
  BY <1>1, ServerNow DEF ServerCalls
<1>8. ~s.buffered
  BY <1>1 DEF Ready, Lockstep, Buffers
<1>9. Locked(conf, ssl[C], t, Append(Line(C), r), Line(S))
  BY <1>1, <1>2, <1>3, <1>4, <1>5, <1>6, <1>7, ServerAdds
<1> QED
  BY <1>1, <1>2, <1>8, <1>9, ServerNow, ServerPut

\* A ClientHello that has come is the last record of a client that waits.
LEMMA HelloLast ==
  ASSUME Ready, IsNext(S, "ClientHello")
  PROVE  /\ Waiting(ssl[C], ssl[S]) /\ \A r \in Elements(Line(S)) : ToServer(r) = 8
         /\ ToServerBelow(ssl[C], ssl[S]) = 9 /\ Line(S) # <<>>
         /\ Elements(Tail(Line(S))) = {}
<1> DEFINE c == ssl[C]
           s == ssl[S]
           q == Line(S)
           hi == ToServerBelow(c, s)
<1>1. q # <<>> /\ ToServer(Head(q)) = 8 /\ wire[S] # <<>>
  BY ServerMessage DEF IsNext, ToServer
<1>2. 8 < hi
  <2> DEFINE n == ToServer(Head(q))
  <2>1. n = ToServer(Head(Line(S))) /\ n = 8
    BY <1>1
  <2> HIDE DEF n
  <2>2. n < hi
    BY <1>1, <2>1, ServerRank
  <2> QED
    BY <2>1, <2>2
<1>3. hi = 9 /\ Waiting(c, s)
  BY <1>2 DEF ToServerBelow
<1>4. Queued(S, q, ServerReadsFrom(s), 9, ClientSends(conf, s), 7)
  BY <1>3, ServerNow DEF ToServerOk
<1> HIDE DEF q, hi
<1>5. /\ Head(q) = q[1] /\ DOMAIN q = 1 .. Len(q) /\ Len(q) \in Nat /\ Len(q) # 0
      /\ DOMAIN Tail(q) = 1 .. Len(q) - 1
      /\ \A i \in 1 .. Len(q) - 1 : Tail(q)[i] = q[i + 1]
  BY <1>1, <1>4, TailElements DEF Queued
<1>6. \A i \in DOMAIN q : i = 1
  <2> SUFFICES ASSUME NEW i \in DOMAIN q, i # 1 PROVE FALSE
    OBVIOUS
  <2>1. 1 \in DOMAIN q /\ 1 < i
    BY <1>5
  <2>2. Rank(S, q[1], 7) = 8 /\ q[i] \in Elements(q)
    BY <1>1, <1>5 DEF Rank, Elements
  <2>3. 8 < Rank(S, q[i], 7)
    BY <1>4, <2>1, <2>2 DEF Queued, Rising
  <2>4. Rank(S, q[i], 7) < 9 /\ Rank(S, q[i], 7) \in Nat
    BY <1>4, <2>2, RankNat DEF Queued
  <2> QED
    BY <2>3, <2>4
<1>7. \A r \in Elements(q) : ToServer(r) = 8
  BY <1>1, <1>5, <1>6 DEF Elements
<1>8. Elements(Tail(q)) = {}
  <2>1. Len(q) \in 1 .. Len(q)
    BY <1>5
  <2>2. Len(q) = 1
    BY <1>5, <1>6, <2>1
  <2> QED
    BY <1>5, <2>2 DEF Elements
<1> QED
  BY <1>1, <1>3, <1>7, <1>8 DEF q, hi

LEMMA read_client_hello_Lock == ASSUME Ready, read_client_hello PROVE Lockstep'
<1> DEFINE s == ssl[S]
           t == [ssl[S] EXCEPT !.state = "ACCEPT", !.new_session = 1]
<1>1. /\ s.state = "OK" /\ IsNext(S, "ClientHello") /\ Become(S, t)
      /\ UNCHANGED <<wire, out, conf>>
  BY DEF read_client_hello, Reading, Move
<1>2. /\ SameServer(s, t) /\ ~t.failed /\ t.ccs = s.ccs /\ t.master = s.master
      /\ t.new_cipher = s.new_cipher /\ t.state = "ACCEPT" /\ t.buffered = s.buffered
      /\ t.shutdown = s.shutdown
  BY <1>1, ServerNow DEF Typed, FieldNames, SameServer
<1> HIDE DEF t
<1>3. ServerHeard(conf, t)
  BY <1>2 DEF ServerHeard
<1>4. ServerWill(conf, t)
  BY <1>1, <1>2, ServerNow DEF ServerWill, SameServer, Finishes, Master
<1>5. Gap(ServerSends(conf, s), ServerWritesFrom(s), ServerWritesFrom(t))
  BY <1>1, <1>2, Figures, NoGap DEF ServerWritesFrom
<1>6. Gap(ClientSends(conf, s) \cup {7}, ServerReadsFrom(s), ServerReadsFrom(t))
  <2>1. ServerReadsFrom(t) = ServerReadsFrom(s)
    BY <1>1, <1>2 DEF ServerReadsFrom
  <2> QED
    BY <2>1, NoGaps
<1>7. /\ s.state \notin ServerFills /\ ServerWritesFrom(t) = 11 /\ s.cr # 0
      /\ t.state # "RENEGOTIATE"
  BY <1>1, <1>2, InService DEF ServerFills, ServerWrites, ServerWritesFrom
<1> QED
  BY <1>1, <1>2, <1>3, <1>4, <1>5, <1>6, <1>7, HelloLast, ServerGoes

LEMMA accept_start_Lock == ASSUME Ready, accept_start PROVE Lockstep'
<1> DEFINE s == ssl[S]
           t == [ssl[S] EXCEPT !.state = "SR_CLNT_HELLO", !.mac = None, !.buffered = TRUE]
<1>1. s.state \in {"BEFORE", "ACCEPT"} /\ Become(S, t) /\ Empties(S) /\ conf' = conf
  BY ServerEmpty DEF accept_start, Empties, ServerFills, ServerWrites
<1>2. /\ SameServer(s, t) /\ ~t.failed /\ t.ccs = s.ccs /\ t.master = s.master
      /\ t.new_cipher = s.new_cipher /\ t.state = "SR_CLNT_HELLO"
      /\ t.shutdown = s.shutdown /\ t.new_session = s.new_session
  BY <1>1, ServerNow DEF Typed, FieldNames, SameServer
<1> HIDE DEF t
<1>3. ServerHeard(conf, t)
  BY <1>2 DEF ServerHeard
<1>4. ServerWill(conf, t)
  BY <1>1, <1>2, ServerNow DEF ServerWill, SameServer, Finishes, Master
<1>5. Gap(ServerSends(conf, s), ServerWritesFrom(s), ServerWritesFrom(t))
  BY <1>1, <1>2, Figures, NoGap DEF ServerWritesFrom
<1>6. Gap(ClientSends(conf, s) \cup {7}, ServerReadsFrom(s), ServerReadsFrom(t))
  <2>1. ServerReadsFrom(t) = ServerReadsFrom(s)
    BY <1>1, <1>2 DEF ServerReadsFrom
  <2> QED
    BY <2>1, NoGaps
<1>7. /\ ServerWritesFrom(t) = 11 /\ s.cr \in Nat /\ t.state # "RENEGOTIATE"
      /\ Waiting(ssl[C], s) \/ ssl[C].cr = 0
      /\ \A r \in Elements(Line(S)) : ToServer(r) = 8
  BY <1>1, <1>2, ServerNow DEF ServerWritesFrom, Locked, Starting, Typed
<1>8. Locked(conf, ssl[C], t, Line(C), Line(S))
  BY <1>2, <1>3, <1>4, <1>5, <1>6, <1>7, ServerNow, ServerMovesOn
<1> QED
  BY <1>1, <1>2, <1>7, <1>8, ServerNow, ServerEmptied

-----------------------------------------------------------------------------
(* The steps of the server that change its keys or its Finished messages.  *)

\* A server that goes on in its handshake.
LEMMA ServerInRun ==
  ASSUME NEW k, NEW c, NEW s, NEW t, NEW p, NEW q, NEW p2, NEW q2, Locked(k, c, s, p, q),
         s.cr # 0, t.state \notin {"BEFORE", "ACCEPT", "SR_CLNT_HELLO"},
         t.cr = s.cr, t.sr = s.sr, t.hit = s.hit, t.ticket_expected = s.ticket_expected,
         t.sid = s.sid, Waiting(c, s) => ServerWritesFrom(t) = 11,
         \A r \in Elements(p2) : r \in Elements(p) \/ r.type # "app",
         ServerHeard(k, t), ServerWill(k, t), ToClientOk(k, c, t, p2), ToServerOk(k, c, t, q2)
  PROVE  Locked(k, c, t, p2, q2)
<1>1. SameRun(c, t)
  BY DEF Locked, SameRun, Waiting
<1>2. Starting(k, c, t, p2, q2)
  BY DEF Locked, Starting
<1> QED
  BY <1>1, <1>2 DEF Locked

\* The queue to the client when the server adds one of the handshake's records.
LEMMA ServerGives ==
  ASSUME NEW k, NEW c, NEW s, NEW t, NEW p, ToClientOk(k, c, s, p), NEW r,
         NEW n, n = ToClient(r, Idle(c)), n \in ServerSends(k, s),
         Follows(ServerSends(k, s), Idle(c), ToClientBelow(c, s), n, ToClientBelow(c, t))
  PROVE  /\ Queued(C, Append(p, r), ClientReadsFrom(c), ToClientBelow(c, t), ServerSends(k, s), Idle(c))
         /\ AllThere(C, Append(p, r), ClientReadsFrom(c), ToClientBelow(c, t), ServerSends(k, s), Idle(c))
         /\ Elements(Append(p, r)) = Elements(p) \cup {r}
         /\ \A x \in Elements(p) :
              /\ ServerSaid(k, c, s, x) /\ ToClient(x, Idle(c)) \in Nat
              /\ ToClient(x, Idle(c)) < ToClientBelow(c, s)
         /\ n \in Nat /\ ClientReadsFrom(c) <= n
<1> DEFINE lo == ClientReadsFrom(c)
           hi == ToClientBelow(c, s)
           hi2 == ToClientBelow(c, t)
           N == ServerSends(k, s)
           z == Idle(c)
<1>1. lo \in Nat /\ hi \in Nat /\ hi2 \in Nat /\ N \in SUBSET Nat /\ z \in Nat
  BY Figures
<1>2. Queued(C, p, lo, hi, N, z) /\ AllThere(C, p, lo, hi, N, z) /\ n = Rank(C, r, z) /\ n \in N
  BY DEF ToClientOk, Rank
<1>0. z \notin N
  BY IdleApart
<1>3. Follows(N, z, hi, n, hi2)
  OBVIOUS
<1>4. Elements(Append(p, r)) = Elements(p) \cup {r}
  BY <1>2, AppendFacts DEF Queued
<1>5. \A x \in Elements(p) : ServerSaid(k, c, s, x)
  BY DEF ToClientOk
<1>6. \A x : ToClient(x, z) \in Nat /\ Rank(C, x, z) = ToClient(x, z)
  BY <1>1, RankNat DEF Rank
<1> HIDE DEF lo, hi, hi2, N, z
<1>7. \A x \in Elements(p) : ToClient(x, z) < hi
  BY <1>2, <1>6 DEF Queued
<1>8. n \in Nat /\ hi <= n /\ lo <= n
  <2>1. n \in Nat /\ n # z
    BY <1>0, <1>1, <1>2
  <2>2. hi <= n
    BY <1>3, <2>1 DEF Follows
  <2>3. ~(hi <= n /\ n < lo)
    BY <1>2 DEF Queued
  <2> QED
    BY <1>1, <2>1, <2>2, <2>3
<1>9. /\ Queued(C, Append(p, r), lo, hi2, N, z)
      /\ AllThere(C, Append(p, r), lo, hi2, N, z)
  BY <1>1, <1>2, <1>3, <1>8, Pushed DEF Follows
<1> QED
  BY <1>4, <1>5, <1>6, <1>7, <1>8, <1>9 DEF lo, hi, hi2, N, z

\* The server writes with the keys of the handshake from here on.
LEMMA ServerTurns ==
  ASSUME NEW k, NEW c, NEW s, NEW t, NEW p, NEW q, Locked(k, c, s, p, q), s.state = "SW_CHANGE",
         s.cr # 0, NEW r, r.type = "ccs", r.key = s.wkey, t.wkey = RunKey(s),
         t.state = "SW_FINISHED", t.ccs = s.ccs, t.prev = s.prev, t.rkey = s.rkey,
         t.mac = s.mac, t.hit = s.hit, t.cr = s.cr, t.sr = s.sr, t.sid = s.sid,
         t.ticket_expected = s.ticket_expected, t.master = s.master,
         t.new_cipher = s.new_cipher, t.shutdown = s.shutdown
  PROVE  Locked(k, c, t, Append(p, r), q)
<1>1. /\ ServerWritesFrom(s) = 8 /\ ServerWritesFrom(t) = 9
      /\ ServerReadsFrom(t) = ServerReadsFrom(s) /\ ToClient(r, Idle(c)) = 8
  BY DEF ServerWritesFrom, ServerReadsFrom, ToClient
<1>2. /\ ToClientOk(k, c, s, p) /\ ToServerOk(k, c, s, q) /\ ~Waiting(c, s) /\ ~Waiting(c, t)
  BY <1>1 DEF Locked, SameRun, Waiting
<1>3. /\ ToClientBelow(c, s) = 8 /\ ToClientBelow(c, t) = 9
      /\ ToServerBelow(c, t) = ToServerBelow(c, s)
  BY <1>1, <1>2 DEF ToClientBelow, ToServerBelow
<1>4. /\ ServerSends(k, t) = ServerSends(k, s) /\ ClientSends(k, t) = ClientSends(k, s)
      /\ ServerSends(k, s) \in SUBSET Nat /\ 8 \in ServerSends(k, s)
  BY Figures DEF ServerSends, ClientSends
<1>5. Follows(ServerSends(k, s), Idle(c), ToClientBelow(c, s), 8, ToClientBelow(c, t))
  BY <1>3, <1>4 DEF Follows
<1>6. /\ Queued(C, Append(p, r), ClientReadsFrom(c), 9, ServerSends(k, s), Idle(c))
      /\ AllThere(C, Append(p, r), ClientReadsFrom(c), 9, ServerSends(k, s), Idle(c))
      /\ Elements(Append(p, r)) = Elements(p) \cup {r}
      /\ \A x \in Elements(p) :
           ServerSaid(k, c, s, x) /\ ToClient(x, Idle(c)) \in Nat /\ ToClient(x, Idle(c)) < 8
      /\ ClientReadsFrom(c) <= 8
  <2> DEFINE n == ToClient(r, Idle(c))
  <2>1. n = 8 /\ n = ToClient(r, Idle(c))
    BY <1>1
  <2> HIDE DEF n
  <2>2. n \in ServerSends(k, s)
        /\ Follows(ServerSends(k, s), Idle(c), ToClientBelow(c, s), n, ToClientBelow(c, t))
    BY <1>4, <1>5, <2>1
  <2>3. /\ Queued(C, Append(p, r), ClientReadsFrom(c), ToClientBelow(c, t), ServerSends(k, s), Idle(c))
        /\ AllThere(C, Append(p, r), ClientReadsFrom(c), ToClientBelow(c, t), ServerSends(k, s), Idle(c))
        /\ Elements(Append(p, r)) = Elements(p) \cup {r}
        /\ \A x \in Elements(p) :
             /\ ServerSaid(k, c, s, x) /\ ToClient(x, Idle(c)) \in Nat
             /\ ToClient(x, Idle(c)) < ToClientBelow(c, s)
        /\ ClientReadsFrom(c) <= n
    BY <1>2, <2>1, <2>2, ServerGives
  <2> QED
    BY <1>3, <2>1, <2>3
<1>7. c.rkey = s.wkey /\ c.prev[S] = s.prev[S]
  BY <1>2, <1>3 DEF ToClientOk, Between
<1>8. \A x \in Elements(Append(p, r)) : ServerSaid(k, c, t, x)
  <2>1. ServerSaid(k, c, t, r)
    BY <1>1, <1>7 DEF ServerSaid
  <2>2. ASSUME NEW x \in Elements(p) PROVE ServerSaid(k, c, t, x)
    BY <1>6 DEF ServerSaid, Master, ServerCovers
  <2> QED
    BY <1>6, <2>1, <2>2
<1>9. Between(ClientReadsFrom(c), 8, 9) /\ t.wkey = RunKey(t)
  BY <1>6 DEF Between, RunKey, Master
<1>10. ToClientOk(k, c, t, Append(p, r))
  BY <1>3, <1>4, <1>6, <1>7, <1>8, <1>9 DEF ToClientOk
<1>11. ToServerOk(k, c, t, q)
  BY <1>1, <1>2, <1>3, <1>4 DEF ToServerOk, ClientSaid, RunKey, Master, ClientCovers
<1>12. ServerHeard(k, t) /\ ServerWill(k, t)
  BY DEF Locked, ServerHeard, ServerWill, ServerCovers, Master, Finishes
<1>13. \A x \in Elements(Append(p, r)) : x \in Elements(p) \/ x.type # "app"
  BY <1>6
<1> QED
  BY <1>2, <1>10, <1>11, <1>12, <1>13, ServerInRun

\* The server sends its Finished.
LEMMA ServerSeals ==
  ASSUME NEW k, NEW c, NEW s, NEW t, NEW p, NEW q, Locked(k, c, s, p, q), s.state = "SW_FINISHED",
         s.cr # 0, NEW r, r.type = "handshake", r.key = s.wkey, r.body.name = "Finished",
         r.body.rnd = 0, r.body.md = <<S, s.master, s.mac>>, t.wkey = s.wkey,
         t.state = "SW_FLUSH", t.next = (IF s.hit THEN "SR_FINISHED" ELSE "DONE"),
         t.ccs = s.ccs, t.prev[S] = r.body.md, t.prev[C] = s.prev[C], t.rkey = s.rkey,
         t.mac = Append(s.mac, <<"Finished", 0>>), t.hit = s.hit, t.cr = s.cr, t.sr = s.sr,
         t.sid = s.sid, t.ticket_expected = s.ticket_expected, t.master = s.master,
         t.new_cipher = s.new_cipher, t.shutdown = s.shutdown
  PROVE  Locked(k, c, t, Append(p, r), q)
<1>1. /\ ServerWritesFrom(s) = 9 /\ ServerWritesFrom(t) = 11
      /\ ServerReadsFrom(t) = ServerReadsFrom(s) /\ ToClient(r, Idle(c)) = 9
  BY DEF ServerWritesFrom, ServerReadsFrom, ToClient
<1>2. /\ ToClientOk(k, c, s, p) /\ ToServerOk(k, c, s, q) /\ ~Waiting(c, s) /\ ~Waiting(c, t)
  BY <1>1 DEF Locked, SameRun, Waiting
<1>3. /\ ToClientBelow(c, s) = 9 /\ ToClientBelow(c, t) = 11
      /\ ToServerBelow(c, t) = ToServerBelow(c, s)
  BY <1>1, <1>2 DEF ToClientBelow, ToServerBelow
<1>4. /\ ServerSends(k, t) = ServerSends(k, s) /\ ClientSends(k, t) = ClientSends(k, s)
      /\ ServerSends(k, s) \in SUBSET (1 .. 9) /\ 9 \in ServerSends(k, s)
  BY Tables DEF ServerSends, ClientSends
<1>5. Follows(ServerSends(k, s), Idle(c), ToClientBelow(c, s), 9, ToClientBelow(c, t))
  <2>1. \A x \in ServerSends(k, s) : x \in 1 .. 9
    BY <1>4
  <2>2. \A x \in ServerSends(k, s) : 9 <= x /\ x < 11 => x = 9
    BY <2>1
  <2> QED
    BY <1>3, <1>4, <2>2 DEF Follows
<1>6. /\ Queued(C, Append(p, r), ClientReadsFrom(c), 11, ServerSends(k, s), Idle(c))
      /\ AllThere(C, Append(p, r), ClientReadsFrom(c), 11, ServerSends(k, s), Idle(c))
      /\ Elements(Append(p, r)) = Elements(p) \cup {r}
      /\ \A x \in Elements(p) :
           ServerSaid(k, c, s, x) /\ ToClient(x, Idle(c)) \in Nat /\ ToClient(x, Idle(c)) < 9
      /\ ClientReadsFrom(c) <= 9
  <2> DEFINE n == ToClient(r, Idle(c))
  <2>1. n = 9 /\ n = ToClient(r, Idle(c))
    BY <1>1
  <2> HIDE DEF n
  <2>2. n \in ServerSends(k, s)
        /\ Follows(ServerSends(k, s), Idle(c), ToClientBelow(c, s), n, ToClientBelow(c, t))
    BY <1>4, <1>5, <2>1
  <2>3. /\ Queued(C, Append(p, r), ClientReadsFrom(c), ToClientBelow(c, t), ServerSends(k, s), Idle(c))
        /\ AllThere(C, Append(p, r), ClientReadsFrom(c), ToClientBelow(c, t), ServerSends(k, s), Idle(c))
        /\ Elements(Append(p, r)) = Elements(p) \cup {r}
        /\ \A x \in Elements(p) :
             /\ ServerSaid(k, c, s, x) /\ ToClient(x, Idle(c)) \in Nat
             /\ ToClient(x, Idle(c)) < ToClientBelow(c, s)
        /\ ClientReadsFrom(c) <= n
    BY <1>2, <2>1, <2>2, ServerGives
  <2> QED
    BY <1>3, <2>1, <2>3
<1>7. r.body.md = <<S, Master(t), ServerCovers(k, t)>>
  BY DEF Locked, ServerHeard, ServerWill, Master, ServerCovers
<1>8. \A x \in Elements(Append(p, r)) : ServerSaid(k, c, t, x)
  <2>1. ServerSaid(k, c, t, r)
    BY <1>1, <1>7 DEF ServerSaid
  <2>2. ASSUME NEW x \in Elements(p) PROVE ServerSaid(k, c, t, x)
    <3>1. x.type = "handshake" => x.body.name # "Finished"
      <4>1. ToClient(x, Idle(c)) < 9 /\ ToClient(x, Idle(c)) \in Nat
        BY <1>6
      <4>2. x.type = "handshake" /\ x.body.name = "Finished" => ToClient(x, Idle(c)) = 9
        BY DEF ToClient
      <4> QED
        BY <4>1, <4>2
    <3>2. ServerSaid(k, c, s, x)
      BY <1>6
    <3> QED
      BY <3>1, <3>2 DEF ServerSaid
  <2> QED
    BY <1>6, <2>1, <2>2
<1>9. /\ Between(ClientReadsFrom(c), 9, 11)
      /\ Between(ClientReadsFrom(c), 8, 11) = Between(ClientReadsFrom(c), 8, 9)
      /\ RunKey(t) = RunKey(s)
  <2>1. ClientReadsFrom(c) \in Nat
    BY Figures
  <2> QED
    BY <1>6, <2>1 DEF Between, RunKey, Master
<1>10. ToClientOk(k, c, t, Append(p, r))
  BY <1>2, <1>3, <1>4, <1>6, <1>8, <1>9 DEF ToClientOk
<1>11. ToServerOk(k, c, t, q)
  BY <1>1, <1>2, <1>3, <1>4, <1>9 DEF ToServerOk, ClientSaid, RunKey, Master, ClientCovers
<1>12. ServerHeard(k, t)
  BY DEF Locked, ServerHeard, ServerCovers, AfterServer, Heard
<1>13. ServerWill(k, t)
  BY DEF Locked, ServerWill, Master, Finishes
<1>14. \A x \in Elements(Append(p, r)) : x \in Elements(p) \/ x.type # "app"
  BY <1>6
<1> QED
  BY <1>2, <1>10, <1>11, <1>12, <1>13, <1>14, ServerInRun

LEMMA change_cipher_spec_S_Lock == ASSUME Ready, change_cipher_spec(S) PROVE Lockstep'
<1> DEFINE s == ssl[S]
           b == setup_key_block(ssl[S])
           t == [b EXCEPT !.state = "SW_FINISHED", !.wkey = b.key_block]
           r == Record(S, "ccs", Plain("ChangeCipherSpec"))
<1>1. Become(S, t) /\ Put(S, <<r>>) /\ conf' = conf /\ s.state = "SW_CHANGE"
  BY DEF change_cipher_spec
<1>2. b.key_block = RunKey(s)
  <2>1. s.master = Master(s)
    BY <1>1, ServerNow DEF ServerWill
  <2>2. s.key_block = None \/ s.key_block = Secret(s)
    BY <1>1, ServerNow DEF ServerRun, NoKeys, NewKeys, Typed
  <2> QED
    BY <2>1, <2>2, ServerNow DEF setup_key_block, Typed, FieldNames, Secret, RunKey
<1>3. /\ t.state = "SW_FINISHED" /\ t.ccs = s.ccs /\ t.wkey = b.key_block /\ t.rkey = s.rkey
      /\ t.mac = s.mac /\ t.hit = s.hit /\ t.cr = s.cr /\ t.sr = s.sr
      /\ t.prev = s.prev /\ t.ticket_expected = s.ticket_expected /\ t.sid = s.sid
      /\ t.master = s.master /\ t.new_cipher = s.new_cipher /\ t.shutdown = s.shutdown
      /\ ~t.failed /\ t.buffered = s.buffered
  BY ServerNow DEF setup_key_block, Typed, FieldNames
<1>4. r.type = "ccs" /\ r.key = s.wkey
  BY DEF Record
<1> HIDE DEF t, b, r
<1>5. s.cr # 0
  BY <1>1, InService
<1>6. Locked(conf, ssl[C], t, Append(Line(C), r), Line(S))
  BY <1>1, <1>2, <1>3, <1>4, <1>5, ServerNow, ServerTurns
<1>7. t.state \in ServerFills /\ t.state # "RENEGOTIATE"
  BY <1>3 DEF ServerFills, ServerWrites
<1> QED
  BY <1>1, <1>3, <1>6, <1>7, ServerNow, ServerPut

LEMMA server_finished_Lock == ASSUME Ready, server_finished PROVE Lockstep'
<1> DEFINE s == ssl[S]
           md == <<S, ssl[S].master, ssl[S].mac>>
           new == [ssl[S] EXCEPT !.state = "SW_FLUSH", !.prev[S] = md,
                     !.next = IF ssl[S].hit THEN "SR_FINISHED" ELSE "DONE"]
           m == [name |-> "Finished", rnd |-> 0, md |-> md]
           t == ssl3_finish_mac(new, m)
           r == Record(S, "handshake", m)
<1>1. Become(S, t) /\ Put(S, <<r>>) /\ conf' = conf /\ s.state = "SW_FINISHED"
  BY DEF server_finished, final_finish_mac, Send
<1>3. /\ t.state = "SW_FLUSH" /\ t.next = (IF s.hit THEN "SR_FINISHED" ELSE "DONE")
      /\ t.ccs = s.ccs /\ t.wkey = s.wkey /\ t.rkey = s.rkey
      /\ t.mac = Append(s.mac, <<"Finished", 0>>) /\ t.hit = s.hit /\ t.cr = s.cr /\ t.sr = s.sr
      /\ t.prev[S] = md /\ t.prev[C] = s.prev[C]
      /\ t.ticket_expected = s.ticket_expected /\ t.sid = s.sid /\ t.master = s.master
      /\ t.new_cipher = s.new_cipher /\ t.shutdown = s.shutdown
      /\ ~t.failed /\ t.buffered = s.buffered
  BY ServerNow, PeerFacts DEF ssl3_finish_mac, Typed, FieldNames
<1>4. /\ r.type = "handshake" /\ r.key = s.wkey /\ r.body.name = "Finished" /\ r.body.rnd = 0
      /\ r.body.md = md
  BY DEF Record
<1>6. md = <<S, s.master, s.mac>>
  OBVIOUS
<1> HIDE DEF t, new, m, r, md
<1>5. s.cr # 0
  BY <1>1, InService
<1>7. Locked(conf, ssl[C], t, Append(Line(C), r), Line(S))
  BY <1>1, <1>3, <1>4, <1>5, <1>6, ServerNow, ServerSeals
<1>8. t.state \in ServerFills /\ t.state # "RENEGOTIATE"
  BY <1>3 DEF ServerFills, ServerWrites
<1> QED
  BY <1>1, <1>3, <1>7, <1>8, ServerNow, ServerPut

\* A record that must be there is read, ...
Plucks(e, q, lo, hi, N, z, n, lo2) ==
  /\ lo \in Nat /\ hi \in Nat /\ N \in SUBSET Nat /\ z \in Nat /\ lo2 \in Nat
  /\ Queued(e, q, lo, hi, N, z) /\ AllThere(e, q, lo, hi, N, z) /\ q # <<>>
  /\ n = Rank(e, Head(q), z) /\ lo <= lo2 /\ n # z /\ n < lo2
  /\ \A x \in N : ~(lo <= x /\ x < lo2 /\ x # n)
  /\ lo <= z /\ z < lo2 => z <= n
\* ... and the others are left.
Leaves(e, q, lo, hi, N, z, n, lo2) ==
  /\ Queued(e, Tail(q), lo2, hi, N, z) /\ AllThere(e, Tail(q), lo2, hi, N, z)
  /\ \A r \in Elements(Tail(q)) : n < Rank(e, r, z) \/ (n = z /\ Rank(e, r, z) = z)
  /\ lo <= n /\ n < hi

LEMMA Plucked ==
  ASSUME NEW e, NEW q, NEW lo, NEW hi, NEW N, NEW z, NEW n, NEW lo2,
         Plucks(e, q, lo, hi, N, z, n, lo2)
  PROVE  Leaves(e, q, lo, hi, N, z, n, lo2)
<1>1. /\ lo \in Nat /\ hi \in Nat /\ N \in SUBSET Nat /\ z \in Nat /\ lo2 \in Nat
      /\ Queued(e, q, lo, hi, N, z) /\ AllThere(e, q, lo, hi, N, z) /\ q # <<>>
      /\ n = Rank(e, Head(q), z) /\ lo <= lo2 /\ n # z /\ n < lo2
      /\ \A x \in N : ~(lo <= x /\ x < lo2 /\ x # n)
      /\ lo <= z /\ z < lo2 => z <= n
  BY DEF Plucks
<1>2. /\ Queued(e, Tail(q), lo2, hi, N, z)
      /\ AllThere(e, Tail(q), lo2, hi, N, z)
      /\ \A r \in Elements(Tail(q)) : n < Rank(e, r, z) \/ (n = z /\ Rank(e, r, z) = z)
      /\ lo <= n /\ n < hi
  BY <1>1, Popped, SMTT(60)
<1> QED
  BY <1>2 DEF Leaves

\* The queue to a server that takes one of the handshake's records.
LEMMA ServerTakes ==
  ASSUME NEW k, NEW c, NEW s, NEW t, NEW q, q # <<>>, ToServerOk(k, c, s, q),
         "sent" \notin s.shutdown,
         NEW n, n = ToServer(Head(q)), n # 7, n < ServerReadsFrom(t),
         Skips(ClientSends(k, s), 7, ServerReadsFrom(s), n, ServerReadsFrom(t))
  PROVE  /\ Queued(S, Tail(q), ServerReadsFrom(t), ToServerBelow(c, s), ClientSends(k, s), 7)
         /\ AllThere(S, Tail(q), ServerReadsFrom(t), ToServerBelow(c, s), ClientSends(k, s), 7)
         /\ \A r \in Elements(Tail(q)) :
              ClientSaid(k, c, s, r) /\ n < ToServer(r) /\ ToServer(r) \in Nat
         /\ n \in Nat /\ ServerReadsFrom(s) <= n /\ n < ToServerBelow(c, s)
<1> DEFINE lo == ServerReadsFrom(s)
           lo2 == ServerReadsFrom(t)
           hi == ToServerBelow(c, s)
           N == ClientSends(k, s)
           z == 7
<1>1. lo \in Nat /\ lo2 \in Nat /\ hi \in Nat /\ N \in SUBSET Nat /\ z \in Nat
  BY Figures
<1>2. Queued(S, q, lo, hi, N, z) /\ AllThere(S, q, lo, hi, N, z)
  BY DEF ToServerOk
<1>3. \A r \in Elements(q) : ClientSaid(k, c, s, r)
  BY DEF ToServerOk
<1>4. lo <= lo2 /\ \A x \in N \cup {z} : ~(lo <= x /\ x < lo2 /\ x # n)
  BY DEF Skips
<1>5. n < lo2 /\ n # z
  OBVIOUS
<1>6. \A r : Rank(S, r, z) = ToServer(r) /\ ToServer(r) \in Nat
  BY <1>1, RankNat, PeerFacts DEF Rank
<1>7. Elements(Tail(q)) \subseteq Elements(q)
  BY <1>2, TailElements DEF Queued
<1>13. n = Rank(S, Head(q), z)
  BY <1>6
<1> HIDE DEF lo, lo2, hi, N, z
<1>8. n \in Nat
  BY <1>6
<1>9. /\ \A x \in N : ~(lo <= x /\ x < lo2 /\ x # n)
      /\ lo <= z /\ z < lo2 => z <= n
  BY <1>1, <1>4, <1>5
<1>10. /\ Queued(S, Tail(q), lo2, hi, N, z)
       /\ AllThere(S, Tail(q), lo2, hi, N, z)
       /\ \A r \in Elements(Tail(q)) : n < Rank(S, r, z) \/ (n = z /\ Rank(S, r, z) = z)
       /\ lo <= n /\ n < hi
  <2>1. Plucks(S, q, lo, hi, N, z, n, lo2)
    BY <1>1, <1>2, <1>4, <1>5, <1>9, <1>13 DEF Plucks
  <2>2. Leaves(S, q, lo, hi, N, z, n, lo2)
    BY <2>1, Plucked
  <2> QED
    BY <2>2 DEF Leaves
<1>11. \A r \in Elements(Tail(q)) : n < ToServer(r)
  BY <1>5, <1>6, <1>10
<1> QED
  BY <1>2, <1>3, <1>5, <1>6, <1>7, <1>8, <1>10, <1>11 DEF lo, lo2, hi, N, z

\* The server reads with the keys of the handshake from here on.
LEMMA ServerChanges ==
  ASSUME NEW k, NEW c, NEW s, NEW t, NEW p, NEW q, Locked(k, c, s, p, q), q # <<>>,
         ToServer(Head(q)) = 5, s.state \in {"SR_CERT_VRFY", "SR_FINISHED"}, ~s.ccs, s.cr # 0,
         s.state = "SR_CERT_VRFY" => ~Proven(k), "sent" \notin s.shutdown,
         t.state = s.state, t.ccs, t.peer_md = <<C, s.master, s.mac>>, t.rkey = RunKey(s),
         t.mac = s.mac, t.hit = s.hit, t.cr = s.cr, t.sr = s.sr, t.wkey = s.wkey, t.prev = s.prev,
         t.ticket_expected = s.ticket_expected, t.sid = s.sid, t.master = s.master,
         t.new_cipher = s.new_cipher, t.shutdown = s.shutdown
  PROVE  Locked(k, c, t, p, Tail(q))
<1>1. /\ ServerReadsFrom(s) \in {4, 5} /\ ServerReadsFrom(t) = 6
      /\ ServerWritesFrom(t) = ServerWritesFrom(s)
      /\ ServerReadsFrom(s) = 4 => ~Proven(k)
  BY DEF ServerReadsFrom, ServerWritesFrom
<1>2. /\ ToClientBelow(c, t) = ToClientBelow(c, s) /\ ToServerBelow(c, t) = ToServerBelow(c, s)
      /\ Waiting(c, t) = Waiting(c, s)
  BY <1>1 DEF ToClientBelow, ToServerBelow, Waiting
<1>3. /\ ToClientOk(k, c, s, p) /\ ToServerOk(k, c, s, q)
      /\ Waiting(c, s) => ServerWritesFrom(s) = 11
  BY DEF Locked, SameRun
<1>4. Skips(ClientSends(k, s), 7, ServerReadsFrom(s), 5, ServerReadsFrom(t))
  <2>0. ClientSends(k, s) \in SUBSET Nat
    BY Figures
  <2>1. \A x \in ClientSends(k, s) \cup {7} : x \in Nat
    BY <2>0
  <2>2. ServerReadsFrom(s) = 4 => 4 \notin ClientSends(k, s)
    BY <1>1 DEF ClientSends
  <2> QED
    BY <1>1, <2>1, <2>2 DEF Skips
<1>5. /\ Queued(S, Tail(q), 6, ToServerBelow(c, s), ClientSends(k, s), 7)
      /\ AllThere(S, Tail(q), 6, ToServerBelow(c, s), ClientSends(k, s), 7)
      /\ \A r \in Elements(Tail(q)) :
           ClientSaid(k, c, s, r) /\ 5 < ToServer(r) /\ ToServer(r) \in Nat
      /\ 5 < ToServerBelow(c, s)
  <2> DEFINE n == ToServer(Head(q))
  <2>1. n = 5 /\ n # 7 /\ n < ServerReadsFrom(t)
    BY <1>1
  <2>2. Skips(ClientSends(k, s), 7, ServerReadsFrom(s), n, ServerReadsFrom(t))
    BY <1>4
  <2> HIDE DEF n
  <2>3. n = ToServer(Head(q))
    BY DEF n
  <2>4. /\ Queued(S, Tail(q), ServerReadsFrom(t), ToServerBelow(c, s), ClientSends(k, s), 7)
        /\ AllThere(S, Tail(q), ServerReadsFrom(t), ToServerBelow(c, s), ClientSends(k, s), 7)
        /\ \A r \in Elements(Tail(q)) :
             ClientSaid(k, c, s, r) /\ n < ToServer(r) /\ ToServer(r) \in Nat
        /\ n < ToServerBelow(c, s)
    BY <1>3, <2>1, <2>2, <2>3, ServerTakes
  <2> QED
    BY <1>1, <2>1, <2>4
<1>6. \A r \in Elements(Tail(q)) : ClientSaid(k, c, t, r)
  <2> SUFFICES ASSUME NEW r \in Elements(Tail(q)) PROVE ClientSaid(k, c, t, r)
    OBVIOUS
  <2>1. ClientSaid(k, c, s, r) /\ ~(ToServer(r) <= 5)
    BY <1>5
  <2> QED
    BY <2>1 DEF ClientSaid, Master, ClientCovers
<1>7. t.rkey = c.wkey
  <2>1. Between(4, 5, ToServerBelow(c, s)) /\ Between(5, 5, ToServerBelow(c, s))
    BY <1>5 DEF Between
  <2> QED
    BY <1>1, <1>3, <2>1 DEF ToServerOk
<1>8. ~Between(6, 5, ToServerBelow(c, s))
  BY DEF Between
<1>9. Between(6, 6, ToServerBelow(c, s)) \/ t.prev[C] = c.prev[C]
  <2>1. Between(ServerReadsFrom(s), 6, ToServerBelow(c, s)) \/ s.prev[C] = c.prev[C]
    BY <1>3 DEF ToServerOk
  <2> QED
    BY <2>1 DEF Between
<1>10. /\ ClientSends(k, t) = ClientSends(k, s) /\ ServerSends(k, t) = ServerSends(k, s)
       /\ RunKey(t) = RunKey(s)
  BY DEF ClientSends, ServerSends, RunKey, Master
<1>11. ToServerOk(k, c, t, Tail(q))
  BY <1>1, <1>2, <1>5, <1>6, <1>7, <1>8, <1>9, <1>10 DEF ToServerOk
<1>12. ToClientOk(k, c, t, p)
  BY <1>2, <1>3, <1>10 DEF ToClientOk, ServerSaid, Master, ServerCovers
<1>13. ServerHeard(k, t) /\ ServerWill(k, t)
  BY DEF Locked, ServerHeard, ServerWill, ClientCovers, Master, Finishes
<1> QED
  BY <1>1, <1>3, <1>11, <1>12, <1>13, ServerInRun

LEMMA read_change_cipher_spec_S_Lock ==
  ASSUME Ready, read_change_cipher_spec(S) PROVE Lockstep'
<1> DEFINE s == ssl[S]
           b == setup_key_block(ssl[S])
           t == [b EXCEPT !.ccs = TRUE, !.rkey = b.key_block, !.peer_md = final_finish_mac(b, C)]
<1>1. /\ Arrives(S, "ccs") /\ Become(S, t) /\ Take(S) /\ UNCHANGED <<out, conf>> /\ wire[S] # <<>>
      /\ s.state \in Reads /\ ~s.ccs /\ "sent" \notin s.shutdown
  BY PeerFacts DEF read_change_cipher_spec, Arrives
<1>2. ToServer(Head(Line(S))) = 5 /\ Line(S) # <<>>
  BY <1>1, ServerHead DEF Arrives, ToServer
<1>3. s.state \in {"SR_CERT_VRFY", "SR_FINISHED"} /\ (s.state = "SR_CERT_VRFY" => ~Proven(conf))
  <2>1. s.state \in ServerReads
    BY <1>1, ServerNow DEF Reads, ServerCalls
  <2>2. \A x \in ClientSends(conf, s) : ServerReadsFrom(s) <= x => 5 <= x
    BY <1>1, <1>2, ServerRank
  <2>3. s.state # "SR_CLNT_HELLO"
    <3>1. ASSUME s.state = "SR_CLNT_HELLO" PROVE ToServer(Head(Line(S))) = 8
      BY <1>1, <3>1, ServerHead, ServerNow DEF Locked, Starting
    <3> QED
      BY <1>2, <3>1
  <2>4. ASSUME s.state \in {"SR_CERT", "SR_KEY_EXCH"} PROVE FALSE
    <3>1. 3 \in ClientSends(conf, s)
      BY <2>4, ServerNow DEF ClientSends, Keys, FullStates
    <3>2. ServerReadsFrom(s) <= 3
      BY <2>4 DEF ServerReadsFrom
    <3> QED
      BY <2>2, <3>1, <3>2
  <2>5. ASSUME s.state = "SR_CERT_VRFY", Proven(conf) PROVE FALSE
    <3>1. 4 \in ClientSends(conf, s)
      BY <2>5, ServerNow DEF ClientSends, Keys, FullStates
    <3>2. ServerReadsFrom(s) <= 4
      BY <1>1, <2>5 DEF ServerReadsFrom
    <3> QED
      BY <2>2, <3>1, <3>2
  <2> QED
    BY <2>1, <2>3, <2>4, <2>5 DEF ServerReads
<1>4. b.key_block = RunKey(s)
  <2>1. s.master = Master(s)
    BY <1>3, ServerNow DEF ServerWill
  <2>2. s.key_block = None \/ s.key_block = Secret(s)
    BY <1>3, ServerNow DEF ServerRun, NoKeys, NewKeys
  <2> QED
    BY <2>1, <2>2, ServerNow DEF setup_key_block, Typed, FieldNames, Secret, RunKey
<1>5. /\ t.state = s.state /\ t.ccs /\ t.peer_md = <<C, s.master, s.mac>> /\ t.rkey = b.key_block
      /\ t.mac = s.mac /\ t.hit = s.hit /\ t.cr = s.cr /\ t.sr = s.sr /\ t.wkey = s.wkey
      /\ t.prev = s.prev /\ t.ticket_expected = s.ticket_expected /\ t.sid = s.sid
      /\ t.master = s.master /\ t.new_cipher = s.new_cipher
      /\ t.shutdown = s.shutdown /\ ~t.failed
  BY ServerNow DEF setup_key_block, final_finish_mac, Typed, FieldNames
<1> HIDE DEF t, b
<1>8. s.cr # 0
  BY <1>3, InService
<1>6. Locked(conf, ssl[C], t, Line(C), Tail(Line(S)))
  BY <1>1, <1>2, <1>3, <1>4, <1>5, <1>8, ServerNow, ServerChanges
<1>7. ServerFits(t)
  BY <1>1, <1>3, <1>5, ServerQuiet DEF ServerFits
<1> QED
  BY <1>1, <1>6, <1>7, ServerNow, ServerTook

\* The server has the client's Finished.
LEMMA ServerFinishes ==
  ASSUME NEW k, NEW c, NEW s, NEW t, NEW p, NEW q, Locked(k, c, s, p, q), q # <<>>,
         ToServer(Head(q)) = 6, s.state = "SR_FINISHED", s.ccs, s.cr # 0,
         "sent" \notin s.shutdown, s.hit \in BOOLEAN, s.ticket_expected \in BOOLEAN,
         t.state = (IF s.ticket_expected THEN "SW_SESSION_TICKET"
                    ELSE IF s.hit THEN "DONE" ELSE "SW_CHANGE"),
         ~t.ccs, t.prev[C] = c.prev[C], t.prev[S] = s.prev[S], t.rkey = s.rkey,
         t.mac = Append(s.mac, <<"Finished", 0>>), t.hit = s.hit, t.cr = s.cr, t.sr = s.sr,
         t.wkey = s.wkey,
         t.ticket_expected = s.ticket_expected, t.sid = s.sid, t.master = s.master,
         t.new_cipher = s.new_cipher, t.shutdown = s.shutdown
  PROVE  Locked(k, c, t, p, Tail(q))
<1>0. s.hit => ~s.ticket_expected
  BY DEF Locked, ServerWill
<1>1. /\ ServerReadsFrom(s) = 6 /\ ServerReadsFrom(t) = 7
      /\ ServerWritesFrom(s) = (IF s.hit THEN 11 ELSE 7)
      /\ ServerWritesFrom(t) = (IF s.hit THEN 11 ELSE IF s.ticket_expected THEN 7 ELSE 8)
  BY <1>0 DEF ServerReadsFrom, ServerWritesFrom
<1>2. /\ ToServerBelow(c, t) = ToServerBelow(c, s) /\ Waiting(c, t) = Waiting(c, s)
  BY <1>1 DEF ToServerBelow, Waiting
<1>3. /\ ToClientOk(k, c, s, p) /\ ToServerOk(k, c, s, q)
      /\ Waiting(c, s) => s.hit
  BY <1>1 DEF Locked, SameRun
<1>4. Skips(ClientSends(k, s), 7, ServerReadsFrom(s), 6, ServerReadsFrom(t))
  <2>0. ClientSends(k, s) \in SUBSET Nat
    BY Figures
  <2>1. \A x \in ClientSends(k, s) \cup {7} : x \in Nat
    BY <2>0
  <2> QED
    BY <1>1, <2>1 DEF Skips
<1>5. /\ Queued(S, Tail(q), 7, ToServerBelow(c, s), ClientSends(k, s), 7)
      /\ AllThere(S, Tail(q), 7, ToServerBelow(c, s), ClientSends(k, s), 7)
      /\ \A r \in Elements(Tail(q)) :
           ClientSaid(k, c, s, r) /\ 6 < ToServer(r) /\ ToServer(r) \in Nat
  <2> DEFINE n == ToServer(Head(q))
  <2>1. n = 6 /\ n # 7 /\ n < ServerReadsFrom(t)
    BY <1>1
  <2>2. Skips(ClientSends(k, s), 7, ServerReadsFrom(s), n, ServerReadsFrom(t))
    BY <1>4
  <2> HIDE DEF n
  <2>3. n = ToServer(Head(q))
    BY DEF n
  <2>4. /\ Queued(S, Tail(q), ServerReadsFrom(t), ToServerBelow(c, s), ClientSends(k, s), 7)
        /\ AllThere(S, Tail(q), ServerReadsFrom(t), ToServerBelow(c, s), ClientSends(k, s), 7)
        /\ \A r \in Elements(Tail(q)) :
             ClientSaid(k, c, s, r) /\ n < ToServer(r) /\ ToServer(r) \in Nat
    BY <1>3, <2>1, <2>2, <2>3, ServerTakes
  <2> QED
    BY <1>1, <2>1, <2>4
<1>6. \A r \in Elements(Tail(q)) : ClientSaid(k, c, t, r)
  <2> SUFFICES ASSUME NEW r \in Elements(Tail(q)) PROVE ClientSaid(k, c, t, r)
    OBVIOUS
  <2>1. ClientSaid(k, c, s, r) /\ ~(ToServer(r) <= 5)
    BY <1>5
  <2> QED
    BY <2>1 DEF ClientSaid, Master, ClientCovers
<1>7. t.rkey = c.wkey
  <2>1. ~Between(6, 5, ToServerBelow(c, s))
    BY DEF Between
  <2> QED
    BY <1>1, <1>3, <2>1 DEF ToServerOk
<1>8. ~Between(7, 5, ToServerBelow(c, s))
  BY DEF Between
<1>10. /\ ClientSends(k, t) = ClientSends(k, s) /\ ServerSends(k, t) = ServerSends(k, s)
       /\ RunKey(t) = RunKey(s)
  BY DEF ClientSends, ServerSends, RunKey, Master
<1>11. ToServerOk(k, c, t, Tail(q))
  BY <1>1, <1>2, <1>5, <1>6, <1>7, <1>8, <1>10 DEF ToServerOk
<1>12. ToClientOk(k, c, t, p)
  <2> DEFINE lo == ClientReadsFrom(c)
             hi == ToClientBelow(c, s)
             hi2 == ToClientBelow(c, t)
             N == ServerSends(k, s)
             z == Idle(c)
  <2>1. lo \in Nat /\ hi \in Nat /\ hi2 \in Nat /\ N \in SUBSET Nat /\ z \in Nat
    BY Figures
  <2>2. /\ hi2 = hi \/ (hi = 7 /\ hi2 = 8 /\ 7 \notin N)
    <3>1. CASE Waiting(c, s)
      BY <1>2, <3>1 DEF ToClientBelow
    <3>2. CASE ~Waiting(c, s)
      <4>1. hi = ServerWritesFrom(s) /\ hi2 = ServerWritesFrom(t)
        BY <1>2, <3>2 DEF ToClientBelow
      <4>2. 7 \in N => s.ticket_expected
        BY DEF ServerSends
      <4> QED
        BY <1>1, <4>1, <4>2
    <3> QED
      BY <3>1, <3>2
  <2>3. Queued(C, p, lo, hi, N, z) /\ AllThere(C, p, lo, hi, N, z)
    BY <1>3 DEF ToClientOk
  <2>4. \A r \in Elements(p) : ServerSaid(k, c, t, r)
    BY <1>3 DEF ToClientOk, ServerSaid, Master, ServerCovers
  <2>5. /\ IF Between(lo, 8, hi) THEN s.wkey = RunKey(s) ELSE c.rkey = s.wkey
        /\ Between(lo, 9, hi) \/ c.prev[S] = s.prev[S]
    BY <1>3 DEF ToClientOk
  <2> HIDE DEF lo, hi, hi2, N, z
  <2>6. hi <= hi2 /\ \A n \in N : ~(hi <= n /\ n < hi2)
    BY <2>1, <2>2
  <2>7. Queued(C, p, lo, hi2, N, z) /\ AllThere(C, p, lo, hi2, N, z)
    <3>1. lo <= lo /\ ~(lo <= z /\ z < lo /\ z < hi)
      BY <2>1
    <3>2. \A n \in N : ~(lo <= n /\ n < lo) /\ ~(hi <= n /\ n < hi2)
      BY <2>1, <2>6
    <3> QED
      BY <2>1, <2>3, <2>6, <3>1, <3>2, Shifted
  <2>8. Between(lo, 8, hi) = Between(lo, 8, hi2) /\ Between(lo, 9, hi) = Between(lo, 9, hi2)
    BY <2>1, <2>2 DEF Between
  <2> QED
    BY <1>10, <2>4, <2>5, <2>7, <2>8 DEF ToClientOk, lo, hi2, N, z
<1>13. ServerHeard(k, t)
  BY <1>0 DEF Locked, ServerHeard, ServerCovers, ClientCovers, AfterClient, AfterTicket, Heard
<1>14. ServerWill(k, t)
  BY <1>0 DEF Locked, ServerWill, Master, Finishes
<1>15. Waiting(c, s) => ServerWritesFrom(t) = 11
  BY <1>1, <1>3
<1> QED
  BY <1>11, <1>12, <1>13, <1>14, <1>15, ServerInRun

LEMMA get_finished_S_Lock == ASSUME Ready, ssl3_get_finished(S) PROVE Lockstep'
<1> DEFINE s == ssl[S]
           new == [ssl[S] EXCEPT !.state = AfterFinished(S), !.ccs = FALSE,
                     !.prev[C] = ssl[S].peer_md, !.vkey = ssl[S].rkey]
           t == ssl3_finish_mac(new, Plain("Finished"))
<1>1. /\ IsNext(S, "Finished") /\ FinishedOk(S) /\ Receive(S, new) /\ s.state = "SR_FINISHED"
      /\ wire[S] # <<>>
  BY PeerFacts DEF ssl3_get_finished, IsNext, Arrives
<1>2. Line(S) # <<>> /\ ToServer(Head(Line(S))) = 6
  BY <1>1, ServerMessage DEF IsNext, ToServer
<1>3. s.ccs /\ s.peer_md = ssl[C].prev[C] /\ Message(S).rnd = 0 /\ Message(S).name = "Finished"
  BY <1>1, ServerHead DEF IsNext, Arrives, Message, ClientSaid, FinishedOk
<1>4. Become(S, t) /\ Take(S) /\ UNCHANGED <<out, conf>>
  BY <1>1, <1>3 DEF Receive, ssl3_finish_mac, Plain
<1>5. /\ t.state = (IF s.ticket_expected THEN "SW_SESSION_TICKET"
                    ELSE IF s.hit THEN "DONE" ELSE "SW_CHANGE")
      /\ ~t.ccs
      /\ t.prev[C] = s.peer_md /\ t.prev[S] = s.prev[S] /\ t.rkey = s.rkey
      /\ t.mac = Append(s.mac, <<"Finished", 0>>) /\ t.hit = s.hit /\ t.cr = s.cr /\ t.sr = s.sr
      /\ t.wkey = s.wkey /\ t.ticket_expected = s.ticket_expected /\ t.sid = s.sid
      /\ t.master = s.master /\ t.new_cipher = s.new_cipher
      /\ t.shutdown = s.shutdown /\ ~t.failed
  BY ServerNow, PeerFacts DEF ssl3_finish_mac, Plain, AfterFinished, Typed, FieldNames
<1> HIDE DEF t, new
<1>8. s.cr # 0 /\ "sent" \notin s.shutdown /\ s.hit \in BOOLEAN /\ s.ticket_expected \in BOOLEAN
  BY <1>1, InService, ServerNow DEF ServerCalls, Typed
<1>6. Locked(conf, ssl[C], t, Line(C), Tail(Line(S)))
  BY <1>1, <1>2, <1>3, <1>5, <1>8, ServerNow, ServerFinishes
<1>7. ServerFits(t)
  BY <1>1, <1>4, <1>5, ServerQuiet DEF ServerFits, Reads, ServerReads
<1> QED
  BY <1>1, <1>4, <1>6, <1>7, ServerNow, ServerTook

-----------------------------------------------------------------------------
(* The server reads the ClientHello of a handshake.                        *)

\* A server that answers the client that waits.
LEMMA ServerAnswers ==
  ASSUME NEW k, NEW c, NEW s, NEW t, NEW p, NEW q, Locked(k, c, s, p, q), Waiting(c, s),
         s.state = "SR_CLNT_HELLO", q # <<>>, Elements(Tail(q)) = {},
         ToServerBelow(c, s) = 9, s.cr \in Nat, s.sr \in Nat,
         NEW hit \in BOOLEAN, NEW te \in BOOLEAN, hit => ~te, te => k.tickets,
         s.ticket_expected => te, hit => c.master = OldMaster /\ c.sid = <<"old">>,
         t.state = "SW_SRVR_HELLO", t.hit = hit, t.cr = c.cr, t.sr = s.sr + 1, t.new_cipher,
         t.ticket_expected = te, t.master = (IF hit THEN OldMaster ELSE None),
         t.sid = (IF hit THEN <<"old">> ELSE IF te THEN None ELSE <<"new", s.sr + 1>>),
         t.prev = s.prev, t.rkey = s.rkey, t.wkey = s.wkey, t.ccs = s.ccs
  PROVE  Locked(k, c, t, p, Tail(q))
<1> DEFINE N == ServerSends(k, s)
           M == ServerSends(k, t)
<1>1. /\ ToClientOk(k, c, s, p) /\ ToServerOk(k, c, s, q) /\ ~s.ccs
      /\ c.state = "CR_SRVR_HELLO" /\ c.cr = s.cr + 1 /\ c.sr = s.sr
      /\ c.ticket_expected = s.ticket_expected
  BY DEF Locked, SameRun, Waiting, ServerWill
<1>2. /\ ~Waiting(c, t) /\ Idle(c) = 0 /\ ClientReadsFrom(c) = 0 /\ ToClientBelow(c, s) = 1
      /\ ToClientBelow(c, t) = 1 /\ ServerReadsFrom(s) = 7
      /\ ServerReadsFrom(t) = (IF hit THEN 5 ELSE 2)
      /\ ToServerBelow(c, t) = (IF hit THEN 5 ELSE 2)
  BY <1>1 DEF Waiting, Idle, ClientReadsFrom, ToClientBelow, ServerWritesFrom, ServerReadsFrom,
              ToServerBelow
<1>3. /\ Queued(C, p, 0, 1, N, 0) /\ \A r \in Elements(p) : ServerSaid(k, c, s, r)
      /\ c.rkey = s.wkey /\ c.prev[S] = s.prev[S]
  BY <1>1, <1>2 DEF ToClientOk, Between
<1>4. N \in SUBSET (1 .. 9) /\ M \in SUBSET (1 .. 9)
  BY Tables
<1>5. \A r \in Elements(p) : ToClient(r, 0) = 0 /\ Rank(C, r, 0) = 0
  <2> SUFFICES ASSUME NEW r \in Elements(p) PROVE ToClient(r, 0) = 0 /\ Rank(C, r, 0) = 0
    OBVIOUS
  <2>1. Rank(C, r, 0) < 1 /\ Rank(C, r, 0) \in Nat /\ Rank(C, r, 0) = ToClient(r, 0)
    BY <1>3, RankNat DEF Queued, Rank
  <2> QED
    BY <2>1
<1>6. Queued(C, p, 0, 1, M, 0) /\ AllThere(C, p, 0, 1, M, 0)
  <2>1. \A n \in M : ~(1 <= n /\ n < 0) /\ ~(0 <= n /\ n < 1)
    BY <1>4
  <2>2. \A r \in Elements(p) : 0 <= Rank(C, r, 0) /\ Rank(C, r, 0) < 1
                               /\ Rank(C, r, 0) \in M \cup {0}
    BY <1>5
  <2> HIDE DEF M, N
  <2> QED
    BY <1>3, <2>1, <2>2 DEF Queued, AllThere
<1>7. \A r \in Elements(p) : ServerSaid(k, c, t, r)
  <2> SUFFICES ASSUME NEW r \in Elements(p) PROVE ServerSaid(k, c, t, r)
    OBVIOUS
  <2>1. ServerSaid(k, c, s, r) /\ ToClient(r, Idle(c)) = 0
    BY <1>2, <1>3, <1>5
  <2>2. r.type = "handshake" => r.body.name \notin {"ServerHello", "Finished"}
    BY <2>1 DEF ToClient
  <2> QED
    BY <2>1, <2>2 DEF ServerSaid
<1>8. ToClientOk(k, c, t, p)
  <2>1. ~Between(0, 8, 1) /\ ~Between(0, 9, 1)
    BY DEF Between
  <2> QED
    BY <1>2, <1>3, <1>6, <1>7, <2>1 DEF ToClientOk
<1>9. IsSeq(Tail(q))
  BY <1>1, TailElements DEF ToServerOk, Queued
<1>10. s.rkey = c.wkey /\ s.prev[C] = c.prev[C]
  BY <1>1, <1>2 DEF ToServerOk, Between
<1>11. ToServerOk(k, c, t, Tail(q))
  <2> DEFINE lo == ServerReadsFrom(t)
             K == ClientSends(k, t)
  <2>1. lo \in Nat /\ ToServerBelow(c, t) = lo /\ K \in SUBSET Nat
    BY <1>2, Figures
  <2>2. DOMAIN Tail(q) = {}
    BY DEF Elements
  <2> HIDE DEF lo, K
  <2>3. \A n \in K : ~(lo <= n /\ n < lo)
    BY <2>1
  <2>4. Queued(S, Tail(q), lo, lo, K, 7) /\ AllThere(S, Tail(q), lo, lo, K, 7)
    BY <1>9, <2>2, <2>3 DEF Queued, AllThere, Rising
  <2>5. ~Between(lo, 5, lo) /\ ~Between(lo, 6, lo)
    BY <2>1 DEF Between
  <2> QED
    BY <1>10, <2>1, <2>4, <2>5 DEF ToServerOk, lo, K
<1>12. SameRun(c, t)
  <2>1. t.hit <=> (t.sid # None /\ t.sid = c.sid)
    <3>1. CASE hit
      BY <3>1 DEF None
    <3>2. CASE ~hit
      <4>1. c.sid # <<"new", s.sr + 1>>
        <5>1. s.sr + 1 \in Nat /\ s.sr + 1 > c.sr
          BY <1>1
        <5> QED
          BY <5>1 DEF Locked, ClientWill
      <4> QED
        BY <3>2, <4>1
    <3> QED
      BY <3>1, <3>2
  <2> QED
    BY <1>1, <1>2, <2>1 DEF SameRun
<1>13. Starting(k, c, t, p, Tail(q))
  BY <1>1 DEF Locked, Starting
<1>14. ServerHeard(k, t)
  BY DEF ServerHeard
<1>15. ServerWill(k, t)
  BY <1>1 DEF ServerWill, Master, Finishes
<1> QED
  BY <1>8, <1>11, <1>12, <1>13, <1>14, <1>15 DEF Locked

LEMMA get_client_hello_Lock == ASSUME Ready, ssl3_get_client_hello PROVE Lockstep'
<1> DEFINE c == ssl[C]
           s == ssl[S]
           m == Message(S)
           hit == Resumes(m)
           te == TicketExpected(m)
           sr == ssl[S].sr + 1
           new == [ssl[S] EXCEPT
             !.state = "SW_SRVR_HELLO", !.new_session = 2, !.shutdown = {}, !.hit = hit,
             !.cr = m.rnd, !.sr = sr, !.new_cipher = TRUE,
             !.ticket_expected = te,
             !.sid = IF hit THEN m.sid ELSE IF te THEN None ELSE <<"new", sr>>,
             !.master = IF hit THEN OldMaster ELSE None, !.peer = FALSE]
           t == ssl3_finish_mac(new, m)
<1>1. /\ s.state = "SR_CLNT_HELLO" /\ IsNext(S, "ClientHello") /\ Become(S, t) /\ Take(S)
      /\ UNCHANGED <<out, conf>>
  BY DEF ssl3_get_client_hello, Receive
<1>2. /\ Line(S) # <<>> /\ Head(Line(S)).type = "handshake" /\ Head(Line(S)).body = m
      /\ m.name = "ClientHello" /\ wire[S] # <<>>
  BY <1>1, ServerMessage DEF IsNext
<1>3. /\ m.rnd = c.cr /\ m.ticket_ext = conf.tickets
      /\ m.sid = (IF c.cr = 1 THEN Offered(conf).sid ELSE None)
      /\ m.tick = (IF c.cr = 1 /\ conf.tickets THEN Offered(conf).tick ELSE None)
  BY <1>1, <1>2, ServerHead DEF ClientSaid
<1>4. /\ Waiting(c, s) /\ ToServerBelow(c, s) = 9 /\ Elements(Tail(Line(S))) = {}
  BY <1>1, HelloLast
<1>5. /\ s.cr \in Nat /\ s.sr \in Nat /\ s.ticket_expected \in BOOLEAN /\ c.cr = s.cr + 1
      /\ s.ticket_expected => conf.tickets
  BY <1>4, ServerNow DEF Typed, Locked, SameRun, ServerWill
<1>6. conf.offer # "renew" /\ conf.tickets \in BOOLEAN
  <2>1. conf \in Config
    BY ServerNow, ConfigAssumption
  <2> QED
    BY <2>1 DEF Ready, Calm, Config
<1>7. ASSUME c.cr = 1
      PROVE  /\ ~s.ticket_expected /\ c.sid = Offered(conf).sid
             /\ conf.offer # "none" => c.master = OldMaster
  BY <1>5, <1>7, ServerNow DEF Locked, Starting
<1>8. /\ hit \in BOOLEAN /\ te \in BOOLEAN
  BY <1>5 DEF Resumes, TicketExpected
<1>9. hit => c.cr = 1 /\ conf.offer # "none" /\ m.sid = <<"old">>
  BY <1>3 DEF Resumes, TicketSeen, Offered, Fresh, None
<1>10. hit => ~te
  BY <1>6, <1>7, <1>9 DEF Resumes, TicketExpected
<1>11. te => conf.tickets
  BY <1>5 DEF TicketExpected, TicketSeen
<1>12. s.ticket_expected => te
  BY <1>3, <1>7 DEF TicketExpected
<1>13. hit => c.master = OldMaster /\ c.sid = <<"old">>
  BY <1>3, <1>7, <1>9
<1>14. /\ t.state = "SW_SRVR_HELLO" /\ t.hit = hit /\ t.cr = m.rnd /\ t.sr = sr /\ t.new_cipher
       /\ t.ticket_expected = te /\ t.master = (IF hit THEN OldMaster ELSE None)
       /\ t.sid = (IF hit THEN m.sid ELSE IF te THEN None ELSE <<"new", sr>>)
       /\ t.prev = s.prev /\ t.rkey = s.rkey /\ t.wkey = s.wkey /\ t.ccs = s.ccs /\ ~t.failed
  BY ServerNow DEF ssl3_finish_mac, Typed, FieldNames
<1>15. sr = s.sr + 1
  OBVIOUS
<1> HIDE DEF t, new, m, hit, te, sr
<1>16. t.cr = c.cr /\ t.sr = s.sr + 1
       /\ t.sid = (IF hit THEN <<"old">> ELSE IF te THEN None ELSE <<"new", s.sr + 1>>)
  BY <1>3, <1>9, <1>14, <1>15
<1>17. Locked(conf, c, t, Line(C), Tail(Line(S)))
  BY <1>1, <1>2, <1>4, <1>5, <1>8, <1>10, <1>11, <1>12, <1>13, <1>14, <1>16, ServerNow,
     ServerAnswers
<1>18. ServerFits(t)
  BY <1>1, <1>14, ServerQuiet DEF ServerFits, Reads, ServerReads
<1> QED
  BY <1>1, <1>2, <1>17, <1>18, ServerNow, ServerTook

-----------------------------------------------------------------------------
(* No record is refused.                                                   *)

\* Which record comes next, by the state the client waits in.
LEMMA ClientExpects ==
  ASSUME Ready, wire[C] # <<>>, NEW n, n = ToClient(Head(Line(C)), Idle(ssl[C]))
  PROVE  /\ ssl[C].state = "CR_SRVR_HELLO" => n \in {0, 1}
         /\ ssl[C].state = "CR_CERT" /\ conf.kx # "anon" => n = 2
         /\ ssl[C].state = "CR_CERT_STATUS" => n = 3
         /\ ssl[C].state = "CR_KEY_EXCH" => n \in {4, 5, 6}
         /\ ssl[C].state = "CR_CERT_REQ" => n = 6 \/ (n = 5 /\ conf.kx # "anon")
         /\ ssl[C].state = "CR_SRVR_DONE" => n = 6
         /\ ssl[C].state = "CR_SESSION_TICKET" => n = 7
         /\ ssl[C].state = "CR_FINISHED" => n = IF ssl[C].ccs THEN 9 ELSE 8
         /\ ssl[C].state = "OK" => n = 10
<1> DEFINE c == ssl[C]
           s == ssl[S]
           N == ServerSends(conf, ssl[S])
           z == Idle(ssl[C])
           lo == ClientReadsFrom(ssl[C])
<1>1. n \in Nat /\ n \in N \cup {z} /\ lo <= n /\ \A x \in N : lo <= x => n <= x
  BY ClientRank
<1>2. N \in SUBSET (1 .. 9) /\ 1 \in N /\ 8 \in N /\ 9 \in N
  BY Tables
<1>3. z = IF c.state = "CR_SRVR_HELLO" THEN 0 ELSE 10
  BY DEF Idle
<1>4. c.state \in FullStates =>
        /\ 6 \in N /\ (conf.kx # "anon" => 2 \in N) /\ (5 \in N => conf.kx # "anon")
        /\ conf.kx # "anon" /\ conf.status => 3 \in N
        /\ c.ticket_expected => 7 \in N
  BY InFull DEF ServerSends, Certified, Requested
<1> HIDE DEF N, z, lo
<1>5. CASE c.state = "CR_SRVR_HELLO"
  <2>1. lo = 0 /\ z = 0
    BY <1>3, <1>5 DEF ClientReadsFrom, lo
  <2>2. n <= 1
    BY <1>1, <1>2, <2>1
  <2> QED
    BY <1>1, <1>5, <2>2
<1>6. CASE c.state = "CR_CERT"
  <2>1. lo = 2
    BY <1>6 DEF ClientReadsFrom, lo
  <2>2. conf.kx # "anon" => n <= 2
    BY <1>1, <1>4, <1>6, <2>1 DEF FullStates
  <2> QED
    BY <1>1, <1>6, <2>1, <2>2
<1>7. CASE c.state = "CR_CERT_STATUS"
  <2>1. lo = 3
    BY <1>7 DEF ClientReadsFrom, lo
  <2>2. conf.kx # "anon" /\ conf.status
    BY <1>7, ClientNow DEF ClientHeard, Certified
  <2>3. 3 \in N
    BY <1>4, <1>7, <2>2 DEF FullStates
  <2>4. n <= 3
    BY <1>1, <2>1, <2>3
  <2> QED
    BY <1>1, <1>7, <2>1, <2>4
<1>8. CASE c.state = "CR_KEY_EXCH"
  <2>1. lo = 4
    BY <1>8 DEF ClientReadsFrom, lo
  <2>2. n <= 6
    BY <1>1, <1>4, <1>8, <2>1 DEF FullStates
  <2> QED
    BY <1>1, <1>8, <2>1, <2>2
<1>9. CASE c.state = "CR_CERT_REQ"
  <2>1. lo = 5 /\ z = 10
    BY <1>3, <1>9 DEF ClientReadsFrom, lo
  <2>2. n <= 6
    BY <1>1, <1>4, <1>9, <2>1 DEF FullStates
  <2>3. n = 5 => conf.kx # "anon"
    BY <1>1, <1>4, <1>9, <2>1 DEF FullStates
  <2> QED
    BY <1>1, <1>9, <2>1, <2>2, <2>3
<1>10. CASE c.state = "CR_SRVR_DONE"
  <2>1. lo = 6
    BY <1>10 DEF ClientReadsFrom, lo
  <2>2. n <= 6
    BY <1>1, <1>4, <1>10, <2>1 DEF FullStates
  <2> QED
    BY <1>1, <1>10, <2>1, <2>2
<1>11. CASE c.state = "CR_SESSION_TICKET"
  <2>1. lo = 7
    BY <1>11 DEF ClientReadsFrom, lo
  <2>2. c.ticket_expected
    BY <1>11, ClientNow DEF ClientWill
  <2>3. n <= 7
    BY <1>1, <1>4, <1>11, <2>1, <2>2 DEF FullStates
  <2> QED
    BY <1>1, <1>11, <2>1, <2>3
<1>12. CASE c.state = "CR_FINISHED"
  <2>1. lo = IF c.ccs THEN 9 ELSE 8
    BY <1>12 DEF ClientReadsFrom, lo
  <2>2. n <= IF c.ccs THEN 9 ELSE 8
    BY <1>1, <1>2, <2>1
  <2> QED
    BY <1>1, <1>12, <2>1, <2>2
<1>13. CASE c.state = "OK"
  <2>1. lo = 10 /\ z = 10
    BY <1>3, <1>13 DEF ClientReadsFrom, lo
  <2> QED
    BY <1>1, <1>2, <1>13, <2>1
<1> QED
  BY <1>5, <1>6, <1>7, <1>8, <1>9, <1>10, <1>11, <1>12, <1>13

\* The record comes under the key the client reads with, and is one it takes.
LEMMA ClientOpensAll ==
  ASSUME Ready, wire[C] # <<>>, "received" \notin ssl[C].shutdown,
         ssl[C].state \in ClientReads \cup {"OK"}, ssl[C].state = "CR_CERT" => conf.kx # "anon",
         NEW n, n = ToClient(Head1(C), Idle(ssl[C]))
  PROVE  /\ Arrives(C, Head1(C).type) /\ ServerSaid(conf, ssl[C], ssl[S], Head1(C))
         /\ ssl[C].state = "CR_SRVR_HELLO" => n \in {0, 1}
         /\ ssl[C].state = "CR_CERT" => n = 2
         /\ ssl[C].state = "CR_CERT_STATUS" => n = 3
         /\ ssl[C].state = "CR_KEY_EXCH" => n \in {4, 5, 6}
         /\ ssl[C].state = "CR_CERT_REQ" => n = 6 \/ (n = 5 /\ conf.kx # "anon")
         /\ ssl[C].state = "CR_SRVR_DONE" => n = 6
         /\ ssl[C].state = "CR_SESSION_TICKET" => n = 7
         /\ ssl[C].state = "CR_FINISHED" => n = IF ssl[C].ccs THEN 9 ELSE 8
         /\ ssl[C].state = "OK" => n = 10
<1> DEFINE c == ssl[C]
           s == ssl[S]
           r == Head1(C)
<1>1. Head(Line(C)) = r /\ ServerSaid(conf, c, s, r)
  BY ClientHead
<1>2. n = ToClient(Head(Line(C)), Idle(ssl[C]))
  BY <1>1
<1>3. /\ c.state = "CR_SRVR_HELLO" => n \in {0, 1}
      /\ c.state = "CR_CERT" => n = 2
      /\ c.state = "CR_CERT_STATUS" => n = 3
      /\ c.state = "CR_KEY_EXCH" => n \in {4, 5, 6}
      /\ c.state = "CR_CERT_REQ" => n = 6 \/ (n = 5 /\ conf.kx # "anon")
      /\ c.state = "CR_SRVR_DONE" => n = 6
      /\ c.state = "CR_SESSION_TICKET" => n = 7
      /\ c.state = "CR_FINISHED" => n = IF c.ccs THEN 9 ELSE 8
      /\ c.state = "OK" => n = 10
  BY <1>2, ClientExpects
<1>4. r.key = c.rkey
  <2>1. CASE c.state = "OK" \/ (c.state = "CR_FINISHED" /\ c.ccs)
    <3>1. ~Between(ClientReadsFrom(c), 8, ToClientBelow(c, s))
      <4>1. ~(ClientReadsFrom(c) <= 8)
        BY <2>1 DEF ClientReadsFrom
      <4> QED
        BY <4>1 DEF Between
    <3>2. c.rkey = s.wkey
      BY <3>1, ClientNow DEF ToClientOk
    <3> QED
      BY <1>1, <1>3, <2>1, <3>2 DEF ServerSaid
  <2>2. CASE ~(c.state = "OK" \/ (c.state = "CR_FINISHED" /\ c.ccs))
    <3>1. n <= 8
      BY <1>3, <2>2 DEF ClientReads
    <3> QED
      BY <1>1, <3>1 DEF ServerSaid
  <2> QED
    BY <2>1, <2>2
<1>5. c.ccs => r.type = "handshake"
  <2>1. ASSUME c.ccs PROVE n = 9
    BY <1>3, <2>1, ClientNow DEF ClientWill
  <2>2. n = 9 => r.type = "handshake"
    BY DEF ToClient, Idle
  <2> QED
    BY <2>1, <2>2
<1>6. Arrives(C, r.type)
  BY <1>4, <1>5 DEF Arrives
<1> QED
  BY <1>1, <1>3, <1>6

LEMMA ClientTakesAll ==
  ASSUME Ready, wire[C] # <<>>, "received" \notin ssl[C].shutdown,
         ssl[C].state \in Reads \/ Reading(C), ssl[C].state = "CR_CERT" => conf.kx # "anon"
  PROVE  Takes(C)
<1> DEFINE c == ssl[C]
           s == ssl[S]
           r == Head1(C)
           n == ToClient(Head1(C), Idle(ssl[C]))
<1>1. c.state \in ClientReads \cup {"OK"}
  BY ClientNow DEF Reads, ClientCalls, Reading
<1>0. n = ToClient(r, Idle(c))
  OBVIOUS
<1> HIDE DEF n
<1>2. /\ Arrives(C, r.type) /\ ServerSaid(conf, c, s, r)
      /\ c.state = "CR_SRVR_HELLO" => n \in {0, 1}
      /\ c.state = "CR_CERT" => n = 2
      /\ c.state = "CR_CERT_STATUS" => n = 3
      /\ c.state = "CR_KEY_EXCH" => n \in {4, 5, 6}
      /\ c.state = "CR_CERT_REQ" => n = 6 \/ (n = 5 /\ conf.kx # "anon")
      /\ c.state = "CR_SRVR_DONE" => n = 6
      /\ c.state = "CR_SESSION_TICKET" => n = 7
      /\ c.state = "CR_FINISHED" => n = IF c.ccs THEN 9 ELSE 8
      /\ c.state = "OK" => n = 10
  BY <1>0, <1>1, ClientOpensAll
<1>3. r.type \in {"handshake", "ccs", "app", "close_notify"}
  BY <1>2 DEF ServerSaid
<1>4. CASE r.type = "close_notify"
  BY <1>2, <1>4 DEF Takes
<1>5. CASE r.type = "ccs"
  <2>1. n = 8
    BY <1>0, <1>5 DEF ToClient
  <2>2. c.state = "CR_FINISHED"
    BY <1>1, <1>2, <2>1 DEF ClientReads
  <2>3. c.new_cipher /\ "sent" \notin c.shutdown
    BY <2>2, ClientNow DEF ClientWill
  <2> QED
    BY <1>2, <1>5, <2>2, <2>3 DEF Takes, Reads, ClientReads
<1>6. CASE r.type = "app"
  <2>1. n = Idle(c)
    BY <1>0, <1>6 DEF ToClient
  <2>2. c.state \in {"CR_SRVR_HELLO", "OK"}
    BY <1>1, <1>2, <2>1 DEF ClientReads, Idle
  <2>3. CASE c.state = "OK"
    <3>1. Reading(C)
      BY <2>3 DEF Reads, ClientReads, ServerReads
    <3> QED
      BY <1>2, <1>6, <3>1 DEF Takes
  <2>4. CASE c.state = "CR_SRVR_HELLO"
    <3>1. c.cr # 1
      <4>1. r \in Elements(Line(C))
        BY ClientHead
      <4> QED
        BY <1>6, <2>4, <4>1, ClientNow DEF Locked, Starting
    <3>2. c.cr <= c.total + 1 /\ c.cr # 0 /\ c.cr \in Nat /\ c.total \in Nat
      BY <2>4, ClientNow DEF ClientCounts, ClientWill, Typed
    <3>3. c.total # 0
      BY <3>1, <3>2
    <3> QED
      BY <1>2, <1>6, <2>4, <3>3 DEF Takes
  <2> QED
    BY <2>2, <2>3, <2>4
<1>7. CASE r.type = "handshake"
  <2> DEFINE m == Message(C)
  <2>1. /\ m = r.body /\ m.name \in {"HelloRequest", "NewSessionTicket", "Finished"} \cup ServerFlight
        /\ Arrives(C, "handshake")
    BY <1>2, <1>7 DEF Message, ServerSaid
  <2>2. n = IF m.name = "ServerHello" THEN 1 ELSE IF m.name = "Certificate" THEN 2
            ELSE IF m.name = "CertificateStatus" THEN 3
            ELSE IF m.name = "ServerKeyExchange" THEN 4
            ELSE IF m.name = "CertificateRequest" THEN 5
            ELSE IF m.name = "ServerHelloDone" THEN 6
            ELSE IF m.name = "NewSessionTicket" THEN 7
            ELSE IF m.name = "Finished" THEN 9 ELSE Idle(c)
    BY <1>0, <1>7, <2>1 DEF ToClient
  <2>3. /\ m.name = "ServerHello" => m.ri = c.prev
        /\ m.name = "Finished" => m.md = <<S, Master(s), ServerCovers(conf, s)>>
    BY <1>2, <1>7, <2>1 DEF ServerSaid
  <2>4. m.name \notin {"ServerHello", "Certificate", "CertificateStatus", "ServerKeyExchange",
                       "CertificateRequest", "ServerHelloDone", "NewSessionTicket", "Finished"}
        => m.name = "HelloRequest"
    BY <2>1 DEF ServerFlight
  <2> HIDE DEF m
  <2>5. ASSUME m.name # "HelloRequest" PROVE TakesMessage(C, m)
    <3>1. CASE c.state = "CR_SRVR_HELLO"
      <4>1. m.name = "ServerHello"
        BY <1>2, <2>2, <2>4, <2>5, <3>1
      <4> QED
        BY <2>3, <3>1, <4>1 DEF TakesMessage
    <3>2. CASE c.state = "CR_CERT"
      <4>1. m.name = "Certificate"
        BY <1>2, <2>2, <3>2 DEF Idle
      <4> QED
        BY <3>2, <4>1 DEF TakesMessage
    <3>3. CASE c.state = "CR_CERT_STATUS"
      <4>1. m.name = "CertificateStatus"
        BY <1>2, <2>2, <3>3 DEF Idle
      <4> QED
        BY <3>3, <4>1 DEF TakesMessage
    <3>4. CASE c.state = "CR_KEY_EXCH"
      BY <3>4 DEF TakesMessage
    <3>5. CASE c.state = "CR_CERT_REQ"
      <4>1. m.name = "ServerHelloDone" \/ (m.name = "CertificateRequest" /\ conf.kx # "anon")
        BY <1>2, <2>2, <3>5 DEF Idle
      <4> QED
        BY <3>5, <4>1 DEF TakesMessage
    <3>6. CASE c.state = "CR_SRVR_DONE"
      <4>1. m.name = "ServerHelloDone"
        BY <1>2, <2>2, <3>6 DEF Idle
      <4> QED
        BY <3>6, <4>1 DEF TakesMessage
    <3>7. CASE c.state = "CR_SESSION_TICKET"
      <4>1. m.name = "NewSessionTicket"
        BY <1>2, <2>2, <3>7 DEF Idle
      <4> QED
        BY <3>7, <4>1 DEF TakesMessage
    <3>8. CASE c.state = "CR_FINISHED"
      <4>1. m.name = "Finished" /\ c.ccs
        BY <1>2, <2>2, <3>8 DEF Idle
      <4>2. c.peer_md = <<S, c.master, c.mac>> /\ c.mac = ServerCovers(conf, c) /\ c.master = Master(c)
        BY <3>8, <4>1, ClientNow DEF ClientWill, ClientHeard, ClientSent
      <4>3. ServerCovers(conf, c) = ServerCovers(conf, s) /\ Master(c) = Master(s)
        BY <3>8, InRun DEF ServerCovers, Master
      <4>4. m.md = c.peer_md
        BY <2>3, <4>1, <4>2, <4>3
      <4> QED
        BY <3>8, <4>1, <4>4 DEF TakesMessage, FinishedOk, m
    <3>9. CASE c.state = "OK"
      <4>1. FALSE
        BY <1>2, <2>2, <2>4, <2>5, <3>9
      <4> QED
        BY <4>1
    <3> QED
      BY <1>1, <3>1, <3>2, <3>3, <3>4, <3>5, <3>6, <3>7, <3>8, <3>9 DEF ClientReads
  <2>6. m.name = "HelloRequest" => TakesMessage(C, m)
    BY DEF TakesMessage
  <2> QED
    BY <2>1, <2>5, <2>6 DEF Takes, m
<1> QED
  BY <1>3, <1>4, <1>5, <1>6, <1>7

\* The same of the server, until it has closed.
LEMMA ServerExpects ==
  ASSUME Ready, wire[S] # <<>>, "sent" \notin ssl[S].shutdown, NEW n, n = ToServer(Head(Line(S)))
  PROVE  /\ ssl[S].state = "SR_CLNT_HELLO" => n = 8
         /\ ssl[S].state = "SR_CERT" => n \in {2, 3} /\ (Requested(conf) => n = 2)
         /\ ssl[S].state = "SR_KEY_EXCH" => n = 3
         /\ ssl[S].state = "SR_CERT_VRFY" =>
              n = IF ssl[S].ccs THEN 6 ELSE IF Proven(conf) THEN 4 ELSE 5
         /\ ssl[S].state = "SR_FINISHED" => n = IF ssl[S].ccs THEN 6 ELSE 5
         /\ ssl[S].state = "OK" => n \in {7, 8}
<1> DEFINE s == ssl[S]
           N == ClientSends(conf, ssl[S])
           lo == ServerReadsFrom(ssl[S])
<1>1. n \in Nat /\ n \in N \cup {7} /\ lo <= n /\ \A x \in N : lo <= x => n <= x
  BY ServerRank
<1>2. N \in SUBSET (1 .. 8) /\ 5 \in N /\ 6 \in N /\ 8 \in N
  <2>1. N \in SUBSET ((1 .. 8) \ {7}) /\ {5, 6, 8} \subseteq N
    BY Tables
  <2> QED
    BY <2>1
<1>3. s.state \in FullStates =>
        /\ 3 \in N /\ (2 \in N <=> Requested(conf)) /\ (4 \in N <=> Proven(conf))
  BY ServerNow DEF ClientSends, Keys
<1>4. s.state = "SR_CLNT_HELLO" => n = 8
  BY ServerHead, ServerNow DEF Locked, Starting
<1> HIDE DEF N, lo
<1>5. CASE s.state = "SR_CERT"
  <2>1. lo = 2
    BY <1>5 DEF ServerReadsFrom, lo
  <2>2. n <= 3 /\ (Requested(conf) => n <= 2)
    BY <1>1, <1>3, <1>5, <2>1 DEF FullStates
  <2> QED
    BY <1>1, <1>5, <2>1, <2>2
<1>6. CASE s.state = "SR_KEY_EXCH"
  <2>1. lo = 3
    BY <1>6 DEF ServerReadsFrom, lo
  <2>2. n <= 3
    BY <1>1, <1>3, <1>6, <2>1 DEF FullStates
  <2> QED
    BY <1>1, <1>6, <2>1, <2>2
<1>7. CASE s.state = "SR_CERT_VRFY"
  <2>1. lo = IF s.ccs THEN 6 ELSE 4
    BY <1>7 DEF ServerReadsFrom, lo
  <2>2. CASE s.ccs
    <3>1. n <= 6
      BY <1>1, <1>2, <2>1, <2>2
    <3> QED
      BY <1>1, <1>7, <2>1, <2>2, <3>1
  <2>3. CASE ~s.ccs
    <3>1. n <= 5 /\ (Proven(conf) => n <= 4) /\ (n = 4 => Proven(conf))
      BY <1>1, <1>2, <1>3, <1>7, <2>1, <2>3 DEF FullStates
    <3> QED
      BY <1>1, <1>7, <2>1, <2>3, <3>1
  <2> QED
    BY <2>2, <2>3
<1>8. CASE s.state = "SR_FINISHED"
  <2>1. lo = IF s.ccs THEN 6 ELSE 5
    BY <1>8 DEF ServerReadsFrom, lo
  <2>2. n <= IF s.ccs THEN 6 ELSE 5
    BY <1>1, <1>2, <2>1
  <2> QED
    BY <1>1, <1>8, <2>1, <2>2
<1>9. CASE s.state = "OK"
  <2>1. lo = 7
    BY <1>9 DEF ServerReadsFrom, lo
  <2>2. n <= 8
    BY <1>1, <1>2, <2>1
  <2> QED
    BY <1>1, <1>9, <2>1, <2>2
<1> QED
  BY <1>4, <1>5, <1>6, <1>7, <1>8, <1>9

LEMMA ServerOpensAll ==
  ASSUME Ready, wire[S] # <<>>, "received" \notin ssl[S].shutdown, "sent" \notin ssl[S].shutdown,
         ssl[S].state \in ServerReads \cup {"OK"}, NEW n, n = ToServer(Head1(S))
  PROVE  /\ Arrives(S, Head1(S).type) /\ ClientSaid(conf, ssl[C], ssl[S], Head1(S))
         /\ ssl[S].state = "SR_CLNT_HELLO" => n = 8
         /\ ssl[S].state = "SR_CERT" => n \in {2, 3} /\ (Requested(conf) => n = 2)
         /\ ssl[S].state = "SR_KEY_EXCH" => n = 3
         /\ ssl[S].state = "SR_CERT_VRFY" =>
              n = IF ssl[S].ccs THEN 6 ELSE IF Proven(conf) THEN 4 ELSE 5
         /\ ssl[S].state = "SR_FINISHED" => n = IF ssl[S].ccs THEN 6 ELSE 5
         /\ ssl[S].state = "OK" => n \in {7, 8}
<1> DEFINE c == ssl[C]
           s == ssl[S]
           r == Head1(S)
<1>1. Head(Line(S)) = r /\ ClientSaid(conf, c, s, r)
  BY ServerHead
<1>2. n = ToServer(Head(Line(S)))
  BY <1>1
<1>3. /\ s.state = "SR_CLNT_HELLO" => n = 8
      /\ s.state = "SR_CERT" => n \in {2, 3} /\ (Requested(conf) => n = 2)
      /\ s.state = "SR_KEY_EXCH" => n = 3
      /\ s.state = "SR_CERT_VRFY" => n = IF s.ccs THEN 6 ELSE IF Proven(conf) THEN 4 ELSE 5
      /\ s.state = "SR_FINISHED" => n = IF s.ccs THEN 6 ELSE 5
      /\ s.state = "OK" => n \in {7, 8}
  BY <1>2, ServerExpects
<1>4. r.key = s.rkey
  <2>1. CASE n <= 5
    BY <1>1, <2>1 DEF ClientSaid
  <2>2. CASE ~(n <= 5)
    <3>1. ~Between(ServerReadsFrom(s), 5, ToServerBelow(c, s))
      <4>1. ~(ServerReadsFrom(s) <= 5)
        BY <1>3, <2>2 DEF ServerReads, ServerReadsFrom
      <4> QED
        BY <4>1 DEF Between
    <3>2. s.rkey = c.wkey
      BY <3>1, ServerNow DEF ToServerOk
    <3> QED
      BY <1>1, <2>2, <3>2 DEF ClientSaid
  <2> QED
    BY <2>1, <2>2
<1>5. s.ccs => r.type = "handshake"
  <2>1. ASSUME s.ccs PROVE n = 6
    BY <1>3, <2>1, ServerNow DEF ServerWill
  <2>2. n = 6 => r.type = "handshake"
    BY DEF ToServer
  <2> QED
    BY <2>1, <2>2
<1>6. Arrives(S, r.type)
  BY <1>4, <1>5 DEF Arrives
<1> QED
  BY <1>1, <1>3, <1>6

\* A server that has closed throws away what it reads.
LEMMA ClosedTakesAll ==
  ASSUME Ready, wire[S] # <<>>, "received" \notin ssl[S].shutdown, "sent" \in ssl[S].shutdown
  PROVE  Takes(S)
<1> DEFINE c == ssl[C]
           s == ssl[S]
           r == Head1(S)
<1>1. s.state = "OK" /\ s.shutdown = {"sent"} /\ ~s.ccs
  BY ServerNow DEF ServerCalls, Typed, ServerWill
<1>2. ClientSaid(conf, c, s, r)
  BY ServerHead
<1>3. ServerReadsFrom(s) = 7
  BY <1>1 DEF ServerReadsFrom
<1>4. s.rkey = c.wkey
  BY <1>3, ServerNow DEF ToServerOk, Between
<1>5. ~(ToServer(r) <= 5)
  <2> DEFINE n == ToServer(Head(Line(S)))
  <2>1. n = ToServer(Head(Line(S))) /\ n = ToServer(r)
    BY ServerHead
  <2> HIDE DEF n
  <2>2. 7 <= n /\ n \in Nat
    BY <1>3, <2>1, ServerRank
  <2> QED
    BY <2>1, <2>2
<1>6. r.key = s.rkey
  BY <1>2, <1>4, <1>5 DEF ClientSaid
<1>7. r.type \in {"handshake", "ccs", "app", "close_notify"}
  BY <1>2 DEF ClientSaid
<1>8. CASE r.type = "close_notify"
  BY <1>1, <1>6, <1>8 DEF Takes, Arrives
<1>9. CASE r.type # "close_notify"
  BY <1>1, <1>6, <1>7, <1>9, PeerFacts DEF Takes, Discards
<1> QED
  BY <1>8, <1>9

LEMMA ServerTakesAll ==
  ASSUME Ready, wire[S] # <<>>, "received" \notin ssl[S].shutdown, "sent" \notin ssl[S].shutdown,
         ssl[S].state \in Reads \/ Reading(S)
  PROVE  Takes(S)
<1> DEFINE c == ssl[C]
           s == ssl[S]
           r == Head1(S)
           n == ToServer(Head1(S))
<1>1. s.state \in ServerReads \cup {"OK"}
  BY ServerNow DEF Reads, ServerCalls, Reading
<1>0. n = ToServer(r)
  OBVIOUS
<1> HIDE DEF n
<1>2. /\ Arrives(S, r.type) /\ ClientSaid(conf, c, s, r)
      /\ s.state = "SR_CLNT_HELLO" => n = 8
      /\ s.state = "SR_CERT" => n \in {2, 3} /\ (Requested(conf) => n = 2)
      /\ s.state = "SR_KEY_EXCH" => n = 3
      /\ s.state = "SR_CERT_VRFY" => n = IF s.ccs THEN 6 ELSE IF Proven(conf) THEN 4 ELSE 5
      /\ s.state = "SR_FINISHED" => n = IF s.ccs THEN 6 ELSE 5
      /\ s.state = "OK" => n \in {7, 8}
  BY <1>0, <1>1, ServerOpensAll
<1>3. r.type \in {"handshake", "ccs", "app", "close_notify"}
  BY <1>2 DEF ClientSaid
<1>4. CASE r.type = "close_notify"
  BY <1>2, <1>4 DEF Takes
<1>5. CASE r.type = "ccs"
  <2>1. n = 5
    BY <1>0, <1>5 DEF ToServer
  <2>2. s.state \in {"SR_CERT_VRFY", "SR_FINISHED"}
    BY <1>1, <1>2, <2>1 DEF ServerReads
  <2>3. s.cr # 0 /\ s.cr \in Nat
    BY <2>2, InService
  <2>4. s.new_cipher
    BY <2>3, ServerNow DEF ServerWill
  <2> QED
    BY <1>2, <1>5, <2>2, <2>4 DEF Takes, Reads, ServerReads
<1>6. CASE r.type = "app"
  <2>1. n = 7
    BY <1>0, <1>6 DEF ToServer
  <2>2. s.state = "OK"
    BY <1>1, <1>2, <2>1 DEF ServerReads
  <2>3. Reading(S)
    BY <2>2 DEF Reads, ClientReads, ServerReads
  <2> QED
    BY <1>2, <1>6, <2>3 DEF Takes
<1>7. CASE r.type = "handshake"
  <2> DEFINE m == Message(S)
  <2>1. /\ m = r.body /\ m.name \in {"ClientHello", "Finished"} \cup ClientFlies
        /\ Arrives(S, "handshake")
    BY <1>2, <1>7 DEF Message, ClientSaid
  <2>2. n = IF m.name = "Certificate" THEN 2 ELSE IF m.name = "ClientKeyExchange" THEN 3
            ELSE IF m.name = "CertificateVerify" THEN 4 ELSE IF m.name = "Finished" THEN 6
            ELSE 8
    BY <1>0, <1>7, <2>1 DEF ToServer, ClientFlies
  <2>3. /\ m.name = "ClientHello" => (m.scsv <=> c.cr = 1) /\ m.ri = c.prev[C]
        /\ m.name = "CertificateVerify" => m.signed = AfterExchange(conf, s.cr, s.sr)
        /\ m.name = "Finished" => m.md = <<C, Master(s), ClientCovers(conf, s)>>
    BY <1>2, <1>7, <2>1 DEF ClientSaid
  <2>4. m.name \in {"ClientHello", "Certificate", "ClientKeyExchange", "CertificateVerify",
                    "Finished"}
    BY <2>1 DEF ClientFlies
  <2> HIDE DEF m
  <2>5. TakesMessage(S, m)
    <3>1. CASE s.state = "SR_CLNT_HELLO"
      <4>1. m.name = "ClientHello"
        BY <1>2, <2>2, <2>4, <3>1
      <4>2. Waiting(c, s)
        BY <2>1, <4>1, HelloLast DEF IsNext, m
      <4>3. s.cr = 0 => s.new_session = 0
        BY ServerNow DEF Locked, Starting
      <4>4. c.cr = s.cr + 1 /\ s.cr \in Nat
        BY <4>2, ServerNow DEF Locked, SameRun, Typed
      <4>5. s.prev[C] = c.prev[C]
        <5>1. ~Between(ServerReadsFrom(s), 6, ToServerBelow(c, s))
          BY <3>1 DEF ServerReadsFrom, Between
        <5> QED
          BY <5>1, ServerNow DEF ToServerOk
      <4>6. BindingOk(m)
        BY <2>3, <4>1, <4>3, <4>4, <4>5 DEF BindingOk
      <4> QED
        BY <3>1, <4>1, <4>6 DEF TakesMessage
    <3>2. CASE s.state = "SR_CERT"
      <4>1. s.cert_req = 1 <=> Requested(conf)
        BY <3>2, ServerNow DEF ServerKnows, Asks, Requested
      <4>2. m.name # "ClientHello" /\ (Requested(conf) => m.name = "Certificate")
        BY <1>2, <2>2, <3>2
      <4> QED
        BY <3>2, <4>1, <4>2 DEF TakesMessage
    <3>3. CASE s.state = "SR_KEY_EXCH"
      <4>1. m.name = "ClientKeyExchange"
        BY <1>2, <2>2, <3>3
      <4> QED
        BY <3>3, <4>1 DEF TakesMessage
    <3>4. CASE s.state = "SR_CERT_VRFY"
      <4>1. s.peer <=> Proven(conf)
        BY <3>4, ServerNow DEF ServerKnows, Unknown, Known, Proven, Keys, FullStates,
                               ServerNumbers, Answers, ServerEarly, ServerIdle, Typed
      <4>2. CASE Proven(conf)
        <5>1. ~s.ccs
          BY <3>4, <4>2, ServerNow DEF ServerWill
        <5>2. m.name = "CertificateVerify"
          BY <1>2, <2>2, <3>4, <4>2, <5>1
        <5>3. s.mac = AfterExchange(conf, s.cr, s.sr)
          BY <3>4, ServerNow DEF ServerHeard
        <5>4. VerifyOk
          BY <2>3, <4>1, <4>2, <5>1, <5>2, <5>3 DEF VerifyOk, m
        <5> QED
          BY <3>4, <5>2, <5>4 DEF TakesMessage
      <4>3. CASE ~Proven(conf)
        <5>1. m.name # "CertificateVerify"
          BY <1>2, <2>2, <3>4, <4>3
        <5> QED
          BY <3>4, <4>1, <4>3, <5>1 DEF TakesMessage
      <4> QED
        BY <4>2, <4>3
    <3>5. CASE s.state = "SR_FINISHED"
      <4>1. m.name = "Finished" /\ s.ccs
        BY <1>2, <2>2, <2>4, <3>5
      <4>2. /\ s.peer_md = <<C, s.master, s.mac>> /\ s.mac = ClientCovers(conf, s)
            /\ s.master = Master(s)
        BY <3>5, <4>1, ServerNow DEF ServerWill, ServerHeard
      <4>3. m.md = s.peer_md
        BY <2>3, <4>1, <4>2
      <4> QED
        BY <3>5, <4>1, <4>3 DEF TakesMessage, FinishedOk, m
    <3>6. CASE s.state = "OK"
      <4>1. m.name = "ClientHello"
        BY <1>2, <2>2, <2>4, <3>6
      <4> QED
        BY <3>6, <4>1 DEF TakesMessage
    <3> QED
      BY <1>1, <3>1, <3>2, <3>3, <3>4, <3>5, <3>6 DEF ServerReads
  <2> QED
    BY <2>1, <2>5 DEF Takes, m
<1> QED
  BY <1>3, <1>4, <1>5, <1>6, <1>7

LEMMA NoneRefused == ASSUME Ready, NEW e \in Endpoint PROVE ~Refused(e)
<1>1. CASE e = C
  BY <1>1, ClientTakesAll DEF Refused
<1>2. CASE e = S
  BY <1>2, ServerTakesAll, ClosedTakesAll DEF Refused
<1> QED
  BY <1>1, <1>2, PeerFacts

LEMMA NoneSent == ASSUME Ready, NEW e \in Endpoint PROVE ~ssl3_send_alert(e)
<1>1. <<e, "drive_by_write">> \notin conf.calls
  BY DEF Ready, Calm
<1> QED
  BY <1>1, NoneRefused DEF ssl3_send_alert, May

LEMMA NoneFatal == ASSUME Ready, NEW e \in Endpoint PROVE ~read_fatal_alert(e)
<1>1. wire[e] # <<>> => Head1(e).type # "fatal"
  <2>1. CASE e = C
    BY <2>1, ClientHead DEF ServerSaid
  <2>2. CASE e = S
    BY <2>2, ServerHead DEF ClientSaid
  <2> QED
    BY <2>1, <2>2, PeerFacts
<1> QED
  BY <1>1 DEF read_fatal_alert, Arrives

-----------------------------------------------------------------------------
(* Every step.                                                             *)

LEMMA Lockstep_Init == ASSUME Init PROVE Lockstep
<1> DEFINE c == ssl[C]
           s == ssl[S]
           k == conf
<1>1. /\ c = Offered(conf) /\ s = Fresh
      /\ \A e \in Endpoint : wire[e] = <<>> /\ out[e] = <<>>
  BY PeerFacts DEF Init
<1>2. /\ c.state = "BEFORE" /\ c.cr = 0 /\ c.sr = 0 /\ ~c.ccs /\ ~c.renegotiate /\ c.new_session = 0
      /\ c.shutdown = {} /\ ~c.failed /\ ~c.buffered /\ c.ticket_expected = FALSE /\ c.hit = FALSE
      /\ c.rkey = None /\ c.wkey = None /\ c.prev[S] = None /\ c.prev[C] = None
      /\ c.sid = Offered(k).sid /\ c.tick = Offered(k).tick
      /\ k.offer # "none" => c.master = OldMaster
  BY <1>1, PeerFacts DEF Offered, Fresh
<1>3. /\ s.state = "BEFORE" /\ s.cr = 0 /\ s.sr = 0 /\ ~s.ccs /\ s.new_session = 0
      /\ ~s.failed /\ ~s.buffered /\ s.ticket_expected = FALSE /\ s.hit = FALSE /\ s.sid = None
      /\ s.rkey = None /\ s.wkey = None /\ s.prev[S] = None /\ s.prev[C] = None
  BY <1>1, PeerFacts DEF Fresh
<1>4. c.sid = None \/ c.sid = <<"old">>
  BY <1>1 DEF Offered, Fresh
<1>5. Line(C) = <<>> /\ Line(S) = <<>>
  BY <1>1, PeerFacts DEF Line
<1>6. IsSeq(<<>>) /\ Elements(<<>>) = {} /\ DOMAIN <<>> = {}
  BY EmptyFacts, SeqFacts DEF Elements
<1> HIDE DEF c, s, k
<1>7. ClientHeard(k, c) /\ ServerHeard(k, s)
  BY <1>2, <1>3 DEF ClientHeard, ServerHeard
<1>8. ClientWill(k, c)
  <2>1. \A n \in Nat : c.sid # <<"new", n>>
    <3>1. \A n \in Nat : <<"old">>[1] # <<"new", n>>[1] /\ DOMAIN <<"new", n>> # DOMAIN <<>>
      OBVIOUS
    <3> QED
      BY <1>4, <3>1 DEF None
  <2> QED
    BY <1>2, <2>1 DEF ClientWill, ClientSent
<1>9. ServerWill(k, s)
  BY <1>3 DEF ServerWill, Finishes
<1>10. SameRun(c, s) /\ ~Waiting(c, s)
  BY <1>2, <1>3 DEF SameRun, Waiting
<1>11. Starting(k, c, s, <<>>, <<>>)
  BY <1>2, <1>3, <1>6 DEF Starting
<1>12. ToClientOk(k, c, s, <<>>)
  <2>1. ClientReadsFrom(c) = 10 /\ ToClientBelow(c, s) = 11
    BY <1>2, <1>3, <1>10 DEF ClientReadsFrom, ToClientBelow, ServerWritesFrom
  <2>2. ServerSends(k, s) \subseteq 1 .. 9
    BY DEF ServerSends
  <2> DEFINE N == ServerSends(k, s)
             z == Idle(c)
  <2> HIDE DEF N, z
  <2>3. Queued(C, <<>>, 10, 11, N, z)
    BY <1>6, <2>2 DEF Queued, Rising, N
  <2>4. AllThere(C, <<>>, 10, 11, N, z)
    BY <2>2 DEF AllThere, N
  <2>5. ~Between(10, 8, 11) /\ ~Between(10, 9, 11)
    BY DEF Between
  <2> QED
    BY <1>2, <1>3, <1>6, <2>1, <2>3, <2>4, <2>5 DEF ToClientOk, N, z
<1>13. ToServerOk(k, c, s, <<>>)
  <2>1. ServerReadsFrom(s) = 7 /\ ToServerBelow(c, s) = 8
    BY <1>2, <1>3 DEF ServerReadsFrom, ToServerBelow
  <2>2. ClientSends(k, s) \subseteq Nat /\ 7 \notin ClientSends(k, s)
    BY DEF ClientSends
  <2> DEFINE N == ClientSends(k, s)
  <2> HIDE DEF N
  <2>3. Queued(S, <<>>, 7, 8, N, 7)
    BY <1>6, <2>2 DEF Queued, Rising, N
  <2>4. AllThere(S, <<>>, 7, 8, N, 7)
    BY <2>2 DEF AllThere, N
  <2>5. ~Between(7, 5, 8) /\ ~Between(7, 6, 8)
    BY DEF Between
  <2> QED
    BY <1>2, <1>3, <1>6, <2>1, <2>3, <2>4, <2>5 DEF ToServerOk, N
<1>14. Locked(k, c, s, <<>>, <<>>)
  BY <1>7, <1>8, <1>9, <1>10, <1>11, <1>12, <1>13 DEF Locked
<1>15. NoAlert /\ Buffers
  BY <1>1, <1>2, <1>3, PeerFacts DEF NoAlert, Buffers, c, s
<1> QED
  BY <1>5, <1>14, <1>15 DEF Lockstep, c, s, k

LEMMA ClientLock == ASSUME Ready, ClientHandler \/ ClientStep PROVE Lockstep'
BY get_server_hello_Lock, get_server_certificate_Lock, get_cert_status_Lock, get_key_exchange_Lock,
   get_certificate_request_Lock, get_server_done_Lock, get_new_session_ticket_Lock,
   read_hello_request_Lock, connect_start_Lock, client_hello_Lock, skip_certificate_Lock,
   send_client_certificate_Lock, send_client_key_exchange_Lock, send_client_verify_Lock,
   client_finished_Lock, cutthrough_Lock
   DEF ClientHandler, ClientStep

LEMMA ServerLock == ASSUME Ready, ServerHandler \/ ServerStep PROVE Lockstep'
BY get_client_hello_Lock, get_client_certificate_Lock, get_client_key_exchange_Lock,
   get_cert_verify_Lock, read_client_hello_Lock, accept_start_Lock, send_hello_request_Lock,
   send_server_hello_Lock, send_server_certificate_Lock, send_cert_status_Lock,
   send_server_key_exchange_Lock, send_certificate_request_Lock, send_server_done_Lock,
   send_newsession_ticket_Lock, server_finished_Lock
   DEF ServerHandler, ServerStep

LEMMA HandlerLock == ASSUME Ready, NEW e \in Endpoint, Handler(e) PROVE Lockstep'
<1>1. CASE e = C
  BY <1>1, ClientLock, get_finished_C_Lock, read_change_cipher_spec_C_Lock, read_C_Lock,
     read_close_notify_C_Lock, NoneFatal, discard_C_Lock, PeerFacts DEF Handler
<1>2. CASE e = S
  BY <1>2, ServerLock, get_finished_S_Lock, read_change_cipher_spec_S_Lock, read_S_Lock,
     read_close_notify_S_Lock, NoneFatal, discard_S_Lock, PeerFacts DEF Handler
<1> QED
  BY <1>1, <1>2, PeerFacts

LEMMA StepLock == ASSUME Ready, NEW e \in Endpoint, Step(e) PROVE Lockstep'
<1>1. CASE e = C
  BY <1>1, ClientLock, change_cipher_spec_C_Lock, flush_C_Lock, handshake_done_C_Lock, PeerFacts
     DEF Step
<1>2. CASE e = S
  BY <1>2, ServerLock, change_cipher_spec_S_Lock, flush_S_Lock, handshake_done_S_Lock, PeerFacts
     DEF Step
<1> QED
  BY <1>1, <1>2, PeerFacts

LEMMA LibraryLock == ASSUME Ready, NEW e \in Endpoint, Library(e) PROVE Lockstep'
<1>1. ASSUME ssl3_renegotiate_check(e) PROVE Lockstep'
  BY <1>1, renegotiate_check_C_Lock, renegotiate_check_S_Lock, PeerFacts
<1> QED
  BY <1>1, HandlerLock, StepLock, NoneSent DEF Library

LEMMA ApplicationLock == ASSUME Ready, NEW e \in Endpoint, Application(e) PROVE Lockstep'
<1>1. CASE e = C
  BY <1>1, write_C_Lock, renegotiate_C_Lock, shutdown_C_Lock DEF Application
<1>2. CASE e = S
  BY <1>2, write_S_Lock, renegotiate_S_Lock, shutdown_S_Lock DEF Application
<1> QED
  BY <1>1, <1>2, PeerFacts

LEMMA Lockstep_Next == ASSUME Ready, [Next]_vars PROVE Lockstep'
<1>1. ASSUME UNCHANGED vars PROVE Lockstep'
  <2>1. UNCHANGED <<ssl, wire, out, conf>>
    BY <1>1 DEF vars
  <2>2. Line(C)' = Line(C) /\ Line(S)' = Line(S)
    BY <2>1 DEF Line
  <2>3. NoAlert' /\ Buffers'
    BY <2>1 DEF Ready, Lockstep, NoAlert, Buffers
  <2> QED
    BY <2>1, <2>2, <2>3 DEF Ready, Lockstep
<1> QED
  BY <1>1, LibraryLock, ApplicationLock DEF Next

\* The records the ends are about to read are those they expect, whatever the
\* applications do within Calm.
THEOREM InStep == ASSUME \A k \in Configs : Calm(k) PROVE Spec => []Lockstep
<1>1. Init => Lockstep
  BY Lockstep_Init
<1>2. (Inv /\ Order /\ Talk) /\ Lockstep /\ [Next]_vars => Lockstep'
  <2>1. Inv => Calm(conf)
    BY DEF Inv
  <2> QED
    BY <2>1, Lockstep_Next DEF Ready
<1> QED
  BY <1>1, <1>2, Invariant, Ordered, Talking, PTL DEF Spec

-----------------------------------------------------------------------------
(* What follows.                                                           *)

\* Ends that wait for records, and miss none.
BothRead(c, s) ==
  /\ c.hit \in BOOLEAN /\ s.hit \in BOOLEAN /\ SameRun(c, s)
  /\ c.state \in ClientReads \cup {"OK"} /\ s.state \in ServerReads \cup {"OK"}
  /\ c.state \in FullStates => ~c.hit
  /\ s.state \in FullStates => ~s.hit
  /\ c.state = "CR_SESSION_TICKET" => c.ticket_expected
  /\ s.state = "SR_CLNT_HELLO" => Waiting(c, s)
NoneMissing(k, c, s) ==
  /\ \A n \in ServerSends(k, s) : ~(ClientReadsFrom(c) <= n /\ n < ToClientBelow(c, s))
  /\ \A n \in ClientSends(k, s) : ~(ServerReadsFrom(s) <= n /\ n < ToServerBelow(c, s))

LEMMA Starved ==
  ASSUME NEW k, NEW c, NEW s, BothRead(c, s), NoneMissing(k, c, s)
  PROVE  c.state = "OK" /\ s.state = "OK"
<1> USE DEF BothRead, NoneMissing
<1>1. 6 \in ClientSends(k, s) /\ 8 \in ClientSends(k, s) /\ 1 \in ServerSends(k, s)
      /\ 9 \in ServerSends(k, s) /\ (~s.hit => 6 \in ServerSends(k, s))
      /\ (~s.hit /\ s.ticket_expected => 7 \in ServerSends(k, s))
  BY DEF ClientSends, ServerSends
<1>2. ~Waiting(c, s)
  <2>1. ASSUME Waiting(c, s) PROVE FALSE
    <3>1. ToServerBelow(c, s) = 9
      BY <2>1 DEF ToServerBelow, Waiting
    <3>2. ServerReadsFrom(s) \in 2 .. 7
      BY DEF ServerReadsFrom, ServerReads
    <3> QED
      BY <1>1, <3>1, <3>2
  <2> QED
    BY <2>1
<1>3. s.state \in {"SR_CERT", "SR_KEY_EXCH", "SR_CERT_VRFY", "SR_FINISHED", "OK"}
  BY <1>2 DEF ServerReads
<1>4. /\ ToClientBelow(c, s) = ServerWritesFrom(s)
      /\ s.state # "OK" => ServerReadsFrom(s) \in 2 .. 6
      /\ ServerWritesFrom(s) = (IF s.state = "OK" \/ (s.state = "SR_FINISHED" /\ s.hit) THEN 11 ELSE 7)
  BY <1>2, <1>3 DEF ToClientBelow, ServerReadsFrom, ServerWritesFrom
<1>5. CASE c.state = "CR_SRVR_HELLO"
  <2>1. ClientReadsFrom(c) = 0
    BY <1>5 DEF ClientReadsFrom
  <2> QED
    BY <1>1, <1>4, <2>1
<1>6. CASE c.state \in {"CR_CERT", "CR_CERT_STATUS", "CR_KEY_EXCH", "CR_CERT_REQ", "CR_SRVR_DONE"}
  <2>1. ClientReadsFrom(c) \in 2 .. 6
    BY <1>6 DEF ClientReadsFrom
  <2>2. ~s.hit
    BY <1>6 DEF SameRun, FullStates
  <2> QED
    BY <1>1, <1>4, <2>1, <2>2
<1>7. CASE c.state \in {"CR_SESSION_TICKET", "CR_FINISHED"}
  <2>1. /\ ClientReadsFrom(c) \in 7 .. 9
        /\ c.hit = s.hit /\ c.ticket_expected = s.ticket_expected
    BY <1>7 DEF ClientReadsFrom, SameRun
  <2>2. CASE ServerWritesFrom(s) = 11
    BY <1>1, <1>4, <2>1, <2>2
  <2>3. CASE ServerWritesFrom(s) # 11
    <3>1. s.state # "OK" /\ ~s.hit
      BY <1>3, <1>4, <2>3 DEF FullStates
    <3>2. ToServerBelow(c, s) = 8
      BY <1>7, <2>1, <3>1 DEF ToServerBelow
    <3> QED
      BY <1>1, <1>4, <3>1, <3>2
  <2> QED
    BY <2>2, <2>3
<1>8. CASE c.state = "OK"
  <2>1. ToServerBelow(c, s) = 8
    BY <1>8 DEF ToServerBelow
  <2> QED
    BY <1>1, <1>4, <1>8, <2>1
<1> QED
  BY <1>5, <1>6, <1>7, <1>8 DEF ClientReads

LEMMA NeverStalls == ASSUME Ready PROVE NoStall
<1> SUFFICES ASSUME \A e \in Endpoint : Waits(e) /\ ~ssl[e].failed /\ ssl[e].shutdown = {}
             PROVE  (\A e \in Endpoint : ssl[e].state = "OK") /\ ssl[C].good = ssl[S].good
  BY DEF NoStall
<1> DEFINE c == ssl[C]
           s == ssl[S]
           k == conf
<1>1. /\ wire[C] = <<>> /\ wire[S] = <<>> /\ "sent" \notin s.shutdown
      /\ c.state \in Reads \cup {"OK"} /\ s.state \in Reads \cup {"OK"}
  BY PeerFacts DEF Waits
<1>2. c.state \in ClientReads \cup {"OK"} /\ s.state \in ServerReads \cup {"OK"}
  BY <1>1, ClientNow, ServerNow DEF ClientCalls, ServerCalls, Reads
<1>3. out[C] = <<>> /\ out[S] = <<>>
  <2>1. Buffers
    BY DEF Ready, Lockstep
  <2>2. c.state \notin ClientFills /\ s.state \notin ServerFills
    BY <1>2 DEF ClientFills, ServerFills, ClientWrites, ServerWrites, ClientReads, ServerReads
  <2> QED
    BY <2>1, <2>2 DEF Buffers
<1>4. Line(C) = <<>> /\ Line(S) = <<>> /\ Elements(<<>>) = {}
  <2>1. Line(C) = <<>> /\ Line(S) = <<>>
    BY <1>1, <1>3, PeerFacts DEF Line
  <2> QED
    BY <2>1, EmptyFacts DEF Elements
<1>5. NoneMissing(k, c, s)
  BY <1>1, <1>4, ClientNow DEF ToClientOk, ToServerOk, AllThere, NoneMissing
<1>6. SameRun(c, s) /\ Starting(k, c, s, <<>>, <<>>)
  BY <1>4, ClientNow DEF Locked
<1>7. /\ c.hit \in BOOLEAN /\ s.hit \in BOOLEAN
      /\ c.state \in FullStates => ~c.hit
      /\ s.state \in FullStates => ~s.hit
      /\ c.state = "CR_SESSION_TICKET" => c.ticket_expected
      /\ c.cr # 0
  BY <1>2, ClientNow, ServerNow DEF Typed, Keys, ClientWill, ClientReads
<1>8. s.state = "SR_CLNT_HELLO" => Waiting(c, s)
  BY <1>6, <1>7 DEF Starting
<1>9. c.state = "OK" /\ s.state = "OK"
  <2>1. BothRead(c, s)
    BY <1>2, <1>6, <1>7, <1>8 DEF BothRead
  <2> HIDE DEF c, s, k
  <2> QED
    BY <1>5, <2>1, Starved
<1>10. c.good = c.cr /\ c.cr = c.sr
  BY <1>9, ClientNow DEF ClientNumbers
<1>11. s.good = s.sr
  BY <1>9, ServerNow DEF ServerNumbers, ServerIdle
<1>12. c.sr = s.sr
  BY <1>6, <1>9 DEF SameRun
<1> QED
  BY <1>9, <1>10, <1>11, <1>12, PeerFacts

\* No fatal alert is ever sent: each end opens and accepts every record of the
\* other (Refused, ssl3_read_bytes and the handlers' checks).
THEOREM NeverRefused == ASSUME \A k \in Configs : Calm(k) PROVE Spec => []NoAlert
BY InStep, PTL DEF Lockstep

\* The ends never both wait with nothing on the way, except at rest after the
\* same number of handshakes.
THEOREM NeverStalled == ASSUME \A k \in Configs : Calm(k) PROVE Spec => []NoStall
<1>1. Inv /\ Order /\ Talk /\ Lockstep => NoStall
  <2>1. Inv => Calm(conf)
    BY DEF Inv
  <2> QED
    BY <2>1, NeverStalls DEF Ready
<1> QED
  BY <1>1, InStep, Invariant, Ordered, Talking, PTL

-----------------------------------------------------------------------------
(* The secure channel.  Its invariant says what else the abstract steps need *)
(* to know: a client that begins a handshake is not without the server's   *)
(* last Finished, an end that has read close_notify does nothing more but  *)
(* close, and no data come after close_notify.                             *)

ClientBegins == {"BEFORE", "RENEGOTIATE", "CW_CLNT_HELLO", "CR_SRVR_HELLO"}
Parted(e) ==
  "received" \in ssl[e].shutdown =>
    (e = C /\ ssl[e].state = "CR_SRVR_HELLO") \/ (ssl[e].state = "OK" /\ ~ssl[e].renegotiate)
EndsLast(q) ==
  \A i, j \in DOMAIN q : i < j /\ q[i].type = "close_notify" => q[j].type # "app"
Lasting ==
  /\ ssl[C].state \in ClientBegins => ~Abandons(ssl[C])
  /\ \A e \in Endpoint : Parted(e) /\ EndsLast(Line(e))

\* The lines of a step that writes no data.
LinesKept ==
  \A e \in Endpoint :
    \/ Line(e)' = Line(e)
    \/ Line(e) # <<>> /\ Line(e)' = Tail(Line(e))
    \/ \E r : r.type # "app" /\ Line(e)' = Append(Line(e), r)

LEMMA EndsLastTail ==
  ASSUME NEW q, IsSeq(q), q # <<>>, EndsLast(q)
  PROVE  EndsLast(Tail(q))
<1> DEFINE t == Tail(q)
<1>1. /\ Len(q) \in Nat \ {0} /\ DOMAIN q = 1 .. Len(q) /\ DOMAIN t = 1 .. Len(q) - 1
      /\ \A i \in 1 .. Len(q) - 1 : t[i] = q[i + 1]
  BY TailElements
<1> HIDE DEF t
<1>2. ASSUME NEW i \in DOMAIN t, NEW j \in DOMAIN t, i < j, t[i].type = "close_notify"
      PROVE  t[j].type # "app"
  <2>1. i + 1 \in DOMAIN q /\ j + 1 \in DOMAIN q /\ i + 1 < j + 1 /\ t[i] = q[i + 1] /\ t[j] = q[j + 1]
    BY <1>1, <1>2
  <2> QED
    BY <1>2, <2>1 DEF EndsLast
<1> QED
  BY <1>2 DEF EndsLast, t

LEMMA EndsLastAppend ==
  ASSUME NEW q, IsSeq(q), EndsLast(q), NEW r,
         r.type = "app" => \A x \in Elements(q) : x.type # "close_notify"
  PROVE  EndsLast(Append(q, r))
<1> DEFINE a == Append(q, r)
           l == Len(q)
<1>1. /\ l \in Nat /\ DOMAIN q = 1 .. l /\ DOMAIN a = 1 .. l + 1
      /\ \A i \in 1 .. l : a[i] = q[i]
      /\ a[l + 1] = r
  BY AppendFacts
<1> HIDE DEF a, l
<1>2. ASSUME NEW i \in DOMAIN a, NEW j \in DOMAIN a, i < j, a[i].type = "close_notify"
      PROVE  a[j].type # "app"
  <2>1. i \in DOMAIN q /\ a[i] = q[i] /\ q[i] \in Elements(q)
    BY <1>1, <1>2 DEF Elements
  <2>2. CASE j \in DOMAIN q
    BY <1>1, <1>2, <2>1, <2>2 DEF EndsLast
  <2>3. CASE j \notin DOMAIN q
    <3>1. a[j] = r
      BY <1>1, <2>3
    <3> QED
      BY <1>2, <2>1, <3>1
  <2> QED
    BY <2>2, <2>3
<1> QED
  BY <1>2 DEF EndsLast, a

LEMMA LinesLast ==
  ASSUME Inv, Lasting, LinesKept, NEW e \in Endpoint
  PROVE  EndsLast(Line(e))'
<1>1. IsSeq(Line(e)) /\ EndsLast(Line(e))
  BY LineSeq DEF Inv, Lasting
<1>2. CASE Line(e)' = Line(e)
  BY <1>1, <1>2
<1>3. CASE Line(e) # <<>> /\ Line(e)' = Tail(Line(e))
  BY <1>1, <1>3, EndsLastTail
<1>4. ASSUME NEW r, r.type # "app", Line(e)' = Append(Line(e), r) PROVE EndsLast(Line(e))'
  BY <1>1, <1>4, EndsLastAppend
<1> QED
  BY <1>2, <1>3, <1>4 DEF LinesKept

LEMMA LinesOf ==
  ASSUME Ready, NEW e \in Endpoint
  PROVE  /\ \A r : r.type # "app" /\ Put(e, <<r>>) => LinesKept
         /\ Take(e) /\ wire[e] # <<>> /\ out' = out => LinesKept
         /\ Flush(e) => LinesKept
         /\ DropBuffer(e) /\ out[e] = <<>> => LinesKept
         /\ UNCHANGED <<wire, out>> => LinesKept
<1>1. Streams /\ Endpoint = {e, Peer(e)} /\ Peer(e) \in Endpoint
  BY PeerFacts DEF Ready, Inv
<1>2. out[e] # <<>> => ssl[e].buffered
  BY DEF Ready, Lockstep, Buffers
<1>3. ASSUME NEW r, r.type # "app", Put(e, <<r>>) PROVE LinesKept
  <2>1. Line(Peer(e))' = Append(Line(Peer(e)), r) /\ Line(e)' = Line(e)
    BY <1>1, <1>2, <1>3, LinePut
  <2> QED
    BY <1>1, <1>3, <2>1 DEF LinesKept
<1>4. ASSUME Take(e), wire[e] # <<>>, out' = out PROVE LinesKept
  BY <1>1, <1>4, LineTake DEF LinesKept
<1>5. ASSUME Flush(e) \/ (DropBuffer(e) /\ out[e] = <<>>) PROVE LinesKept
  BY <1>1, <1>5, LineFlush DEF LinesKept
<1>6. ASSUME UNCHANGED <<wire, out>> PROVE LinesKept
  BY <1>6 DEF LinesKept, Line
<1> QED
  BY <1>3, <1>4, <1>5, <1>6

\* Once an end has read close_notify it is at rest for good.
LEMMA Halted ==
  ASSUME Ready, Lasting, NEW e \in Endpoint, "received" \in ssl[e].shutdown,
         Library(e) \/ Application(e)
  PROVE  SSL_write(e) \/ SSL_shutdown(e)
<1>1. /\ ssl[e].state = "OK" \/ (e = C /\ ssl[e].state = "CR_SRVR_HELLO")
      /\ ssl[e].state = "OK" => ~ssl[e].renegotiate
  BY DEF Lasting, Parted
<1>2. ~cutthrough_complete(e)
  BY <1>1 DEF cutthrough_complete
<1>3. \A type : ~Arrives(e, type)
  BY DEF Arrives
<1>4. \A name : ~IsNext(e, name)
  BY <1>3 DEF IsNext
<1>5. ASSUME e = C PROVE ~ClientHandler /\ ~ClientStep
  <2>1. ~ClientHandler
    BY <1>1, <1>4, <1>5
       DEF ClientHandler, ssl3_get_server_hello, ssl3_get_server_certificate, ssl3_get_cert_status,
           ssl3_get_key_exchange, ssl3_get_certificate_request, ssl3_get_server_done,
           ssl3_get_new_session_ticket, read_hello_request
  <2>2. ~ClientStep
    BY <1>1, <1>5
       DEF ClientStep, connect_start, ssl3_client_hello, skip_certificate, ssl3_send_client_certificate,
           ssl3_send_client_key_exchange, ssl3_send_client_verify, client_finished, cutthrough
  <2> QED
    BY <2>1, <2>2
<1>6. ASSUME e = S PROVE ~ServerHandler /\ ~ServerStep
  <2>1. ~ServerHandler
    BY <1>1, <1>4, <1>6, PeerFacts
       DEF ServerHandler, ssl3_get_client_hello, ssl3_get_client_certificate,
           ssl3_get_client_key_exchange, ssl3_get_cert_verify, read_client_hello
  <2>2. ~ServerStep
    BY <1>1, <1>6, PeerFacts
       DEF ServerStep, accept_start, ssl3_send_hello_request, ssl3_send_server_hello,
           ssl3_send_server_certificate, ssl3_send_cert_status, ssl3_send_server_key_exchange,
           ssl3_send_certificate_request, ssl3_send_server_done, ssl3_send_newsession_ticket,
           server_finished
  <2> QED
    BY <2>1, <2>2
<1>7. ~Handler(e)
  <2>1. ~discard(e)
    BY DEF discard, Discards
  <2> QED
    BY <1>3, <1>4, <1>5, <1>6, <2>1
       DEF Handler, ssl3_get_finished, read_change_cipher_spec, SSL_read, read_close_notify,
           read_fatal_alert
<1>8. ~Step(e)
  BY <1>1, <1>5, <1>6 DEF Step, change_cipher_spec, flush, handshake_done
<1>9. ~ssl3_renegotiate_check(e) /\ ~ssl3_send_alert(e) /\ ~SSL_renegotiate(e)
  BY <1>1, <1>2, NoneSent DEF ssl3_renegotiate_check, SSL_in_init, SSL_renegotiate
<1> QED
  BY <1>7, <1>8, <1>9 DEF Library, Application

\* A step that the applications do not notice.
Inside(e, t) ==
  /\ t.good = ssl[e].good /\ t.shutdown = ssl[e].shutdown /\ "received" \notin t.shutdown
  /\ e = C /\ t.state \in ClientBegins => ~Abandons(t)
WithinStep ==
  /\ \E e \in Endpoint : \E t :
       Inside(e, t) /\ ssl'[e] = t /\ \A x \in Endpoint : x # e => ssl'[x] = ssl[x]
  /\ UNCHANGED <<conf, sent, got>> /\ LinesKept

\* What is said of the new state of an end that leaves the beginning of a
\* handshake, or is a server.
Leaving(e, new) ==
  /\ DOMAIN new = FieldNames
  /\ new.good = ssl[e].good /\ new.shutdown = ssl[e].shutdown /\ "received" \notin ssl[e].shutdown
  /\ e = C => new.state \notin ClientBegins

LEMMA WithinBecome ==
  ASSUME Ready, NEW e \in Endpoint, NEW new, Inside(e, new), Become(e, new), LinesKept,
         UNCHANGED <<conf, sent, got>>
  PROVE  WithinStep
BY ClientNow, EndsOf DEF WithinStep, Become

LEMMA LeavingMac ==
  ASSUME NEW e, NEW new, Leaving(e, new), NEW m
  PROVE  Inside(e, ssl3_finish_mac(new, m)) /\ Inside(e, new)
<1>1. /\ ssl3_finish_mac(new, m).good = new.good
      /\ ssl3_finish_mac(new, m).shutdown = new.shutdown
      /\ ssl3_finish_mac(new, m).state = new.state
  BY DEF Leaving, ssl3_finish_mac, FieldNames
<1> QED
  BY <1>1 DEF Leaving, Inside

LEMMA WithinMove ==
  ASSUME Ready, NEW e \in Endpoint, NEW new, Leaving(e, new)
  PROVE  /\ Move(e, new) => WithinStep
         /\ wire[e] # <<>> /\ Receive(e, new) => WithinStep
         /\ \A m : Send(e, new, m) => WithinStep
<1>1. ASSUME Move(e, new) PROVE WithinStep
  BY <1>1, LeavingMac, LinesOf, WithinBecome DEF Move
<1>2. ASSUME wire[e] # <<>>, Receive(e, new) PROVE WithinStep
  BY <1>2, LeavingMac, LinesOf, WithinBecome DEF Receive
<1>3. ASSUME NEW m, Send(e, new, m) PROVE WithinStep
  <2>1. Record(e, "handshake", m).type # "app"
    BY DEF Record
  <2>2. LinesKept
    BY <1>3, <2>1, LinesOf DEF Send
  <2> QED
    BY <1>3, <2>2, LeavingMac, WithinBecome DEF Send
<1> QED
  BY <1>1, <1>2, <1>3

LEMMA FieldsNow ==
  ASSUME Ready
  PROVE  \A e \in Endpoint : DOMAIN ssl[e] = FieldNames /\ ssl[e].shutdown \subseteq {"sent", "received"}
BY ClientNow, PeerFacts DEF Typed

\* What has come can be read.
LEMMA Came ==
  ASSUME NEW e
  PROVE  /\ \A type : Arrives(e, type) => wire[e] # <<>> /\ "received" \notin ssl[e].shutdown
         /\ \A name : IsNext(e, name) => wire[e] # <<>> /\ "received" \notin ssl[e].shutdown
BY DEF Arrives, IsNext

\* The client after the ServerHello.
Greeted(c, st, hit, sd, rn, ti, ma, te) ==
  [c EXCEPT !.state = st, !.hit = hit, !.sid = sd, !.sr = rn, !.new_cipher = TRUE,
            !.tick = ti, !.master = ma, !.ticket_expected = te]

LEMMA GreetedSame ==
  ASSUME NEW c, DOMAIN c = FieldNames
  PROVE  \A st, hit, sd, rn, ti, ma, te :
           LET n == Greeted(c, st, hit, sd, rn, ti, ma, te)
           IN DOMAIN n = FieldNames /\ n.good = c.good /\ n.shutdown = c.shutdown /\ n.state = st
<1> TAKE st, hit, sd, rn, ti, ma, te
<1> DEFINE a == [c EXCEPT !.state = st, !.hit = hit, !.sid = sd, !.sr = rn]
           b == [a EXCEPT !.new_cipher = TRUE, !.tick = ti, !.master = ma, !.ticket_expected = te]
<1>1. DOMAIN a = FieldNames /\ a.good = c.good /\ a.shutdown = c.shutdown /\ a.state = st
  BY DEF FieldNames
<1>2. Greeted(c, st, hit, sd, rn, ti, ma, te) = b
  BY DEF Greeted
<1> HIDE DEF a
<1>3. DOMAIN b = FieldNames /\ b.good = c.good /\ b.shutdown = c.shutdown /\ b.state = st
  BY <1>1 DEF FieldNames
<1> QED
  BY <1>2, <1>3

LEMMA WithinClient ==
  ASSUME Ready, Lasting, "received" \notin ssl[C].shutdown, ClientHandler \/ ClientStep
  PROVE  WithinStep
<1>0. C \in Endpoint /\ DOMAIN ssl[C] = FieldNames
  BY FieldsNow, PeerFacts
<1>1. ASSUME connect_start PROVE WithinStep
  <2> DEFINE t == [ssl[C] EXCEPT !.state = "CW_CLNT_HELLO", !.mac = None, !.buffered = FALSE,
                     !.new_session = IF ssl[C].state = "RENEGOTIATE" THEN 1 ELSE @]
  <2>1. ssl[C].state \in ClientBegins /\ out[C] = <<>>
    BY <1>1, ClientEmpty DEF connect_start, ClientBegins, ClientFills, ClientWrites
  <2>2. t.good = ssl[C].good /\ t.shutdown = ssl[C].shutdown /\ t.prev = ssl[C].prev
    BY <1>0 DEF FieldNames
  <2>3. Become(C, t) /\ DropBuffer(C) /\ UNCHANGED <<conf, sent, got>>
    BY <1>1 DEF connect_start
  <2> HIDE DEF t
  <2>4. Inside(C, t)
    BY <2>1, <2>2 DEF Inside, Lasting, Abandons
  <2> QED
    BY <1>0, <2>1, <2>3, <2>4, LinesOf, WithinBecome
<1>2. ASSUME ssl3_client_hello PROVE WithinStep
  <2> DEFINE n == [ssl[C] EXCEPT !.cr = @ + 1, !.shutdown = {}, !.state = "CR_SRVR_HELLO",
                     !.buffered = TRUE,
                     !.master = IF ssl[C].sid = None /\ ssl[C].tick = None THEN None ELSE @]
             m == ClientHello(n)
             t == ssl3_finish_mac(n, m)
             r == Record(C, "handshake", m)
  <2>1. ssl[C].state \in ClientBegins /\ ssl[C].shutdown = {}
    BY <1>2, FieldsNow, ClientNow, PeerFacts DEF ssl3_client_hello, ClientBegins, ClientWill
  <2>2. DOMAIN n = FieldNames /\ n.good = ssl[C].good /\ n.shutdown = {} /\ n.prev = ssl[C].prev
    BY <1>0 DEF FieldNames
  <2>3. Send(C, n, m)
    BY <1>2 DEF ssl3_client_hello
  <2> HIDE DEF n, m
  <2>4. t.good = ssl[C].good /\ t.shutdown = {} /\ t.prev = ssl[C].prev
    BY <2>2 DEF ssl3_finish_mac, FieldNames
  <2>5. Become(C, t) /\ Put(C, <<r>>) /\ r.type # "app" /\ UNCHANGED <<conf, sent, got>>
    BY <2>3 DEF Send, Record
  <2> HIDE DEF t, r
  <2>6. Inside(C, t)
    BY <2>1, <2>4 DEF Inside, Lasting, Abandons
  <2>7. LinesKept
    BY <1>0, <2>5, LinesOf
  <2> QED
    BY <1>0, <2>5, <2>6, <2>7, WithinBecome
<1>3. ASSUME read_hello_request PROVE WithinStep
  <2> DEFINE n == [ssl[C] EXCEPT !.state = "RENEGOTIATE", !.total = @ + 1]
             t == IF Reading(C) THEN n ELSE ssl[C]
  <2>1. n.good = ssl[C].good /\ n.shutdown = ssl[C].shutdown /\ n.prev = ssl[C].prev
    BY <1>0 DEF FieldNames
  <2>2. ssl[C].state = "OK" => ssl[C].prev[S] # None
    BY ClientNow DEF ClientKeys
  <2>3. Become(C, t) /\ Take(C) /\ wire[C] # <<>> /\ UNCHANGED <<out, conf, sent, got>>
    BY <1>3, Came DEF read_hello_request
  <2> HIDE DEF n
  <2>4. Inside(C, t)
    BY <2>1, <2>2 DEF Inside, Lasting, Abandons, Reading
  <2> QED
    BY <1>0, <2>3, <2>4, LinesOf, WithinBecome
<1>4. ASSUME cutthrough PROVE WithinStep
  <2> DEFINE t == [ssl[C] EXCEPT !.buffered = FALSE,
                     !.state = IF ssl[C].ticket_expected THEN "CR_SESSION_TICKET" ELSE "CR_FINISHED"]
  <2>1. out[C] = <<>> /\ Become(C, t) /\ DropBuffer(C) /\ UNCHANGED <<conf, sent, got>>
    BY <1>4, ClientEmpty DEF cutthrough, ClientFills
  <2>2. Inside(C, t)
    BY <1>0 DEF Inside, FieldNames, ClientBegins
  <2> QED
    BY <1>0, <2>1, <2>2, LinesOf, WithinBecome
<1>5. ASSUME ssl3_get_server_hello PROVE WithinStep
  <2> DEFINE m == Message(C)
             hit == m.sid # None /\ m.sid = ssl[C].sid
             fresh == ~hit /\ ssl[C].sid # None
             te == ssl[C].ticket_expected \/ m.ticket_ext
             st == IF hit THEN "CR_FINISHED" ELSE "CR_CERT"
             ti == IF fresh THEN None ELSE ssl[C].tick
             ma == IF fresh THEN None ELSE ssl[C].master
             sd == m.sid
             rn == m.rnd
             n == Greeted(ssl[C], st, hit, sd, rn, ti, ma, te)
  <2>1. Receive(C, n) /\ wire[C] # <<>>
    BY <1>5, Came DEF ssl3_get_server_hello, Greeted
  <2>3. st \notin ClientBegins
    BY DEF ClientBegins
  <2> HIDE DEF m, hit, fresh, te, st, ti, ma, sd, rn
  <2>5. /\ DOMAIN n = FieldNames /\ n.good = ssl[C].good /\ n.shutdown = ssl[C].shutdown
        /\ n.state = st
    BY <1>0, GreetedSame
  <2> HIDE DEF n
  <2>2. Leaving(C, n)
    BY <2>3, <2>5 DEF Leaving
  <2> QED
    BY <1>0, <2>1, <2>2, WithinMove
<1>6. ASSUME skip_certificate PROVE WithinStep
  BY <1>0, <1>6, WithinMove DEF skip_certificate, Leaving, FieldNames, ClientBegins
<1>7. ASSUME ssl3_get_server_certificate PROVE WithinStep
  BY <1>0, <1>7, Came, WithinMove DEF ssl3_get_server_certificate, Leaving, FieldNames, ClientBegins
<1>8. ASSUME ssl3_get_cert_status PROVE WithinStep
  BY <1>0, <1>8, Came, WithinMove DEF ssl3_get_cert_status, Leaving, FieldNames, ClientBegins
<1>9. ASSUME ssl3_get_key_exchange PROVE WithinStep
  BY <1>0, <1>9, Came, WithinMove DEF ssl3_get_key_exchange, Leaving, FieldNames, ClientBegins
<1>10. ASSUME ssl3_get_certificate_request PROVE WithinStep
  BY <1>0, <1>10, Came, WithinMove DEF ssl3_get_certificate_request, Leaving, FieldNames, ClientBegins
<1>11. ASSUME ssl3_get_server_done PROVE WithinStep
  BY <1>0, <1>11, Came, WithinMove DEF ssl3_get_server_done, Leaving, FieldNames, ClientBegins
<1>12. ASSUME ssl3_send_client_certificate PROVE WithinStep
  BY <1>0, <1>12, WithinMove DEF ssl3_send_client_certificate, Leaving, FieldNames, ClientBegins
<1>13. ASSUME ssl3_send_client_key_exchange PROVE WithinStep
  BY <1>0, <1>13, WithinMove DEF ssl3_send_client_key_exchange, Leaving, FieldNames, ClientBegins
<1>14. ASSUME ssl3_send_client_verify PROVE WithinStep
  BY <1>0, <1>14, WithinMove DEF ssl3_send_client_verify, Leaving, FieldNames, ClientBegins
<1>15. ASSUME client_finished PROVE WithinStep
  BY <1>0, <1>15, WithinMove DEF client_finished, Leaving, FieldNames, ClientBegins
<1>16. ASSUME ssl3_get_new_session_ticket PROVE WithinStep
  BY <1>0, <1>16, Came, WithinMove DEF ssl3_get_new_session_ticket, Leaving, FieldNames, ClientBegins
<1> QED
  BY <1>1, <1>2, <1>3, <1>4, <1>5, <1>6, <1>7, <1>8, <1>9, <1>10, <1>11, <1>12, <1>13, <1>14,
     <1>15, <1>16 DEF ClientHandler, ClientStep

LEMMA WithinServer ==
  ASSUME Ready, Lasting, "received" \notin ssl[S].shutdown, ServerHandler \/ ServerStep
  PROVE  WithinStep
<1>0. S \in Endpoint /\ S # C /\ DOMAIN ssl[S] = FieldNames
  BY FieldsNow, PeerFacts
<1>1. ASSUME accept_start PROVE WithinStep
  <2> DEFINE t == [ssl[S] EXCEPT !.state = "SR_CLNT_HELLO", !.mac = None, !.buffered = TRUE]
  <2>1. out[S] = <<>> /\ Become(S, t) /\ DropBuffer(S) /\ UNCHANGED <<conf, sent, got>>
    BY <1>1, ServerEmpty DEF accept_start, ServerFills, ServerWrites
  <2>2. Inside(S, t)
    BY <1>0 DEF Inside, FieldNames
  <2> QED
    BY <1>0, <2>1, <2>2, LinesOf, WithinBecome
<1>2. "sent" \in ssl[S].shutdown => ssl[S].state = "OK"
  BY ServerNow DEF ServerCalls
<1>3. ASSUME ssl3_send_hello_request PROVE WithinStep
  <2> DEFINE t == [ssl[S] EXCEPT !.state = "DONE", !.new_session = 1, !.shutdown = {}, !.mac = None]
             r == Record(S, "handshake", Plain("HelloRequest"))
  <2>1. ssl[S].shutdown = {}
    BY <1>0, <1>2, <1>3, FieldsNow DEF ssl3_send_hello_request
  <2>2. Become(S, t) /\ Put(S, <<r>>) /\ r.type # "app" /\ UNCHANGED <<conf, sent, got>>
    BY <1>3 DEF ssl3_send_hello_request, Record
  <2>3. Inside(S, t)
    BY <1>0, <2>1 DEF Inside, FieldNames
  <2> HIDE DEF t, r
  <2>4. LinesKept
    BY <1>0, <2>2, LinesOf
  <2> QED
    BY <1>0, <2>2, <2>3, <2>4, WithinBecome
<1>4. ASSUME ssl3_get_client_hello PROVE WithinStep
  <2>1. ssl[S].shutdown = {}
    BY <1>0, <1>2, <1>4, FieldsNow DEF ssl3_get_client_hello
  <2> QED
    BY <1>0, <1>4, <2>1, Came, WithinMove DEF ssl3_get_client_hello, Leaving, FieldNames
<1>5. ASSUME ssl3_send_server_hello PROVE WithinStep
  BY <1>0, <1>5, WithinMove DEF ssl3_send_server_hello, Leaving, FieldNames
<1>6. ASSUME ssl3_send_server_certificate PROVE WithinStep
  BY <1>0, <1>6, WithinMove DEF ssl3_send_server_certificate, Leaving, FieldNames
<1>7. ASSUME ssl3_send_cert_status PROVE WithinStep
  BY <1>0, <1>7, WithinMove DEF ssl3_send_cert_status, Leaving, FieldNames
<1>8. ASSUME ssl3_send_server_key_exchange PROVE WithinStep
  BY <1>0, <1>8, WithinMove DEF ssl3_send_server_key_exchange, Leaving, FieldNames
<1>9. ASSUME ssl3_send_certificate_request PROVE WithinStep
  BY <1>0, <1>9, WithinMove DEF ssl3_send_certificate_request, Leaving, FieldNames
<1>10. ASSUME ssl3_send_server_done PROVE WithinStep
  BY <1>0, <1>10, WithinMove DEF ssl3_send_server_done, Leaving, FieldNames
<1>11. ASSUME ssl3_get_client_certificate PROVE WithinStep
  BY <1>0, <1>11, Came, WithinMove DEF ssl3_get_client_certificate, Leaving, FieldNames
<1>12. ASSUME ssl3_get_client_key_exchange PROVE WithinStep
  BY <1>0, <1>12, Came, WithinMove DEF ssl3_get_client_key_exchange, Leaving, FieldNames
<1>13. ASSUME ssl3_get_cert_verify PROVE WithinStep
  BY <1>0, <1>13, Came, WithinMove DEF ssl3_get_cert_verify, Leaving, FieldNames
<1>14. ASSUME ssl3_send_newsession_ticket PROVE WithinStep
  BY <1>0, <1>14, WithinMove DEF ssl3_send_newsession_ticket, Leaving, FieldNames
<1>15. ASSUME server_finished PROVE WithinStep
  BY <1>0, <1>15, WithinMove DEF server_finished, Leaving, FieldNames
<1>16. ASSUME read_client_hello PROVE WithinStep
  BY <1>0, <1>16, WithinMove DEF read_client_hello, Leaving, FieldNames
<1> QED
  BY <1>1, <1>3, <1>4, <1>5, <1>6, <1>7, <1>8, <1>9, <1>10, <1>11, <1>12, <1>13, <1>14, <1>15,
     <1>16 DEF ServerHandler, ServerStep

LEMMA WithinEither ==
  ASSUME Ready, Lasting, NEW e \in Endpoint, "received" \notin ssl[e].shutdown,
         \/ ssl3_get_finished(e) \/ read_change_cipher_spec(e) \/ discard(e)
         \/ change_cipher_spec(e) \/ flush(e) \/ ssl3_renegotiate_check(e) \/ SSL_renegotiate(e)
  PROVE  WithinStep
<1>0. DOMAIN ssl[e] = FieldNames /\ C # S
  BY FieldsNow, PeerFacts
<1>1. ASSUME ssl3_get_finished(e) PROVE WithinStep
  <2> DEFINE n == [ssl[e] EXCEPT !.state = AfterFinished(e), !.ccs = FALSE,
                     !.prev[Peer(e)] = ssl[e].peer_md, !.vkey = ssl[e].rkey]
  <2>1. Receive(e, n) /\ wire[e] # <<>>
    BY <1>1, Came DEF ssl3_get_finished
  <2>2. Leaving(e, n)
    BY <1>0 DEF Leaving, FieldNames, ClientBegins, AfterFinished
  <2> HIDE DEF n
  <2> QED
    BY <2>1, <2>2, WithinMove
<1> DEFINE b == setup_key_block(ssl[e])
<1>2. DOMAIN b = FieldNames /\ b.good = ssl[e].good /\ b.shutdown = ssl[e].shutdown
      /\ b.state = ssl[e].state
  BY <1>0 DEF setup_key_block, FieldNames
<1>3. ASSUME read_change_cipher_spec(e) PROVE WithinStep
  <2> DEFINE t == [b EXCEPT !.ccs = TRUE, !.rkey = b.key_block, !.peer_md = final_finish_mac(b, Peer(e))]
  <2>1. /\ Become(e, t) /\ Take(e) /\ wire[e] # <<>> /\ UNCHANGED <<out, conf, sent, got>>
        /\ ssl[e].state \in Reads
    BY <1>3, Came DEF read_change_cipher_spec
  <2>2. e = C /\ ssl[e].state \in ClientBegins => ~Abandons(ssl[e])
    BY DEF Lasting
  <2> HIDE DEF b
  <2>3. t.good = ssl[e].good /\ t.shutdown = ssl[e].shutdown /\ t.state = ssl[e].state /\ t.prev = b.prev
    BY <1>2 DEF FieldNames
  <2>4. b.prev = ssl[e].prev
    BY <1>0 DEF b, setup_key_block, FieldNames
  <2> HIDE DEF t
  <2>5. Inside(e, t)
    BY <2>2, <2>3, <2>4 DEF Inside, Abandons
  <2> QED
    BY <2>1, <2>5, LinesOf, WithinBecome
<1>4. ASSUME change_cipher_spec(e) PROVE WithinStep
  <2> DEFINE t == [b EXCEPT !.state = IF e = C THEN "CW_FINISHED" ELSE "SW_FINISHED", !.wkey = b.key_block]
             r == Record(e, "ccs", Plain("ChangeCipherSpec"))
  <2>1. Become(e, t) /\ Put(e, <<r>>) /\ r.type # "app" /\ UNCHANGED <<conf, sent, got>>
    BY <1>4 DEF change_cipher_spec, Record
  <2> HIDE DEF b, r
  <2>2. Inside(e, t)
    BY <1>2 DEF Inside, FieldNames, ClientBegins
  <2> HIDE DEF t
  <2>3. LinesKept
    BY <2>1, LinesOf
  <2> QED
    BY <2>1, <2>2, <2>3, WithinBecome
<1>5. ASSUME flush(e) PROVE WithinStep
  <2> DEFINE t == [ssl[e] EXCEPT !.state = ssl[e].next]
  <2>1. Become(e, t) /\ Flush(e) /\ UNCHANGED <<conf, sent, got>>
    BY <1>5 DEF flush
  <2>2. e = C => ssl[e].next \in {"DONE", "CUTTHROUGH_COMPLETE", "CR_SESSION_TICKET", "CR_FINISHED"}
    BY <1>5, ClientNow DEF flush, ClientKeys
  <2>3. Inside(e, t)
    BY <1>0, <2>2 DEF Inside, FieldNames, ClientBegins
  <2> HIDE DEF t
  <2> QED
    BY <2>1, <2>3, LinesOf, WithinBecome
<1>6. ASSUME ssl3_renegotiate_check(e) PROVE WithinStep
  <2> DEFINE t == [ssl[e] EXCEPT !.state = "RENEGOTIATE", !.renegotiate = FALSE, !.total = @ + 1]
  <2>1. Become(e, t) /\ UNCHANGED <<wire, out, conf, sent, got>>
    BY <1>6 DEF ssl3_renegotiate_check, Move
  <2>2. e = C => ssl[e].prev[S] # None
    BY <1>6, ClientNow DEF ssl3_renegotiate_check, ClientWill, ClientKeys
  <2>3. Inside(e, t)
    BY <1>0, <2>2 DEF Inside, FieldNames, Abandons
  <2> HIDE DEF t
  <2> QED
    BY <2>1, <2>3, LinesOf, WithinBecome
<1>7. ASSUME SSL_renegotiate(e) PROVE WithinStep
  <2> DEFINE t == [ssl[e] EXCEPT !.renegotiate = TRUE,
                     !.new_session = IF ssl[e].new_session = 0 THEN 1 ELSE @]
  <2>1. Become(e, t) /\ UNCHANGED <<wire, out, conf, sent, got>>
    BY <1>7 DEF SSL_renegotiate, Move
  <2>2. t.good = ssl[e].good /\ t.shutdown = ssl[e].shutdown /\ t.state = ssl[e].state /\ t.prev = ssl[e].prev
    BY <1>0 DEF FieldNames
  <2> HIDE DEF t
  <2>3. Inside(e, t)
    BY <2>2 DEF Inside, Abandons, Lasting
  <2> QED
    BY <2>1, <2>3, LinesOf, WithinBecome
<1>8. ASSUME discard(e) PROVE WithinStep
  <2>1. Take(e) /\ wire[e] # <<>> /\ UNCHANGED <<ssl, out, conf, sent, got>>
    BY <1>8 DEF discard, Discards
  <2>2. Inside(e, ssl[e])
    BY DEF Inside, Lasting
  <2> QED
    BY <2>1, <2>2, LinesOf DEF WithinStep
<1> QED
  BY <1>1, <1>3, <1>4, <1>5, <1>6, <1>7, <1>8

\* The steps the applications notice are five.
LEMMA Noticed ==
  ASSUME Ready, Lasting, [Next]_vars
  PROVE  \/ WithinStep \/ UNCHANGED vars
         \/ \E e \in Endpoint : \/ handshake_done(e) \/ SSL_read(e) \/ SSL_write(e)
                                \/ SSL_shutdown(e)
                                \/ read_close_notify(e) /\ "received" \notin ssl[e].shutdown
<1>1. ASSUME NEW e \in Endpoint, "received" \notin ssl[e].shutdown, Library(e) \/ Application(e)
      PROVE  \/ WithinStep
             \/ handshake_done(e) \/ SSL_read(e) \/ SSL_write(e) \/ SSL_shutdown(e)
             \/ read_close_notify(e)
  <2>1. ASSUME Handler(e) PROVE WithinStep \/ SSL_read(e) \/ read_close_notify(e)
    BY <1>1, <2>1, WithinClient, WithinServer, WithinEither, NoneFatal DEF Handler
  <2>2. ASSUME Step(e) PROVE WithinStep \/ handshake_done(e)
    BY <1>1, <2>2, WithinClient, WithinServer, WithinEither DEF Step
  <2> QED
    BY <1>1, <2>1, <2>2, WithinEither, NoneSent DEF Library, Application
<1>2. ASSUME NEW e \in Endpoint, "received" \in ssl[e].shutdown, Library(e) \/ Application(e)
      PROVE  SSL_write(e) \/ SSL_shutdown(e)
  BY <1>2, Halted
<1> QED
  BY <1>1, <1>2 DEF Next

-----------------------------------------------------------------------------
(* The invariant.                                                          *)

LEMMA Lasting_Init == ASSUME Init PROVE Lasting
<1>1. \A e \in Endpoint : Line(e) = <<>>
  BY EmptyFacts, JoinFacts, AppendJoin, PeerFacts DEF Init, Line
<1>2. EndsLast(<<>>)
  BY EmptySeqFacts DEF EndsLast
<1>3. \A e \in Endpoint : Parted(e)
  <2>1. \A e \in Endpoint : ssl[e].shutdown = {}
    BY PeerFacts DEF Init, Offered, Fresh
  <2> QED
    BY <2>1 DEF Parted
<1>4. ~Abandons(ssl[C])
  <2>1. ssl[C].prev[C] = None
    BY PeerFacts DEF Init, Offered, Fresh
  <2> QED
    BY <2>1 DEF Abandons
<1> QED
  BY <1>1, <1>2, <1>3, <1>4 DEF Lasting

\* An end that has changed, where the lines keep in order.
Lasts(e, t) ==
  /\ e = C /\ t.state \in ClientBegins => ~Abandons(t)
  /\ "received" \in t.shutdown =>
       (e = C /\ t.state = "CR_SRVR_HELLO") \/ (t.state = "OK" /\ ~t.renegotiate)

LEMMA LastingBecome ==
  ASSUME Ready, Lasting, NEW e \in Endpoint, NEW t, ssl'[e] = t, Lasts(e, t),
         \A x \in Endpoint : x # e => ssl'[x] = ssl[x],
         \A x \in Endpoint : EndsLast(Line(x))'
  PROVE  Lasting'
<1>1. \A x \in Endpoint : Parted(x)'
  BY DEF Lasting, Lasts, Parted
<1>2. (ssl[C].state \in ClientBegins => ~Abandons(ssl[C]))'
  BY PeerFacts DEF Lasting, Lasts, Abandons
<1> QED
  BY <1>1, <1>2 DEF Lasting

LEMMA LastingNow ==
  ASSUME Ready, Lasting, NEW e \in Endpoint
  PROVE  Lasts(e, ssl[e])
BY DEF Lasting, Lasts, Parted

LEMMA LinesKeptLast ==
  ASSUME Ready, Lasting, LinesKept
  PROVE  \A x \in Endpoint : EndsLast(Line(x))'
BY LinesLast DEF Ready

LEMMA BecomeOthers ==
  ASSUME Ready, NEW e \in Endpoint, NEW t, Become(e, t)
  PROVE  ssl'[e] = t /\ \A x \in Endpoint : x # e => ssl'[x] = ssl[x]
BY EndsOf DEF Ready, Become

LEMMA LastingWithin == ASSUME Ready, Lasting, WithinStep PROVE Lasting'
<1>0. PICK e \in Endpoint : \E t :
        Inside(e, t) /\ ssl'[e] = t /\ \A x \in Endpoint : x # e => ssl'[x] = ssl[x]
  BY DEF WithinStep
<1>1. PICK t : Inside(e, t) /\ ssl'[e] = t /\ \A x \in Endpoint : x # e => ssl'[x] = ssl[x]
  BY <1>0
<1>2. Lasts(e, t)
  BY <1>1 DEF Inside, Lasts
<1>3. \A x \in Endpoint : EndsLast(Line(x))'
  BY LinesKeptLast DEF WithinStep
<1> QED
  BY <1>1, <1>2, <1>3, LastingBecome

LEMMA LastingDone ==
  ASSUME Ready, Lasting, NEW e \in Endpoint, handshake_done(e)
  PROVE  Lasting'
<1> DEFINE t == [ssl[e] EXCEPT !.state = "OK", !.key_block = None, !.buffered = FALSE,
                   !.new_session = IF e = S /\ ssl[e].new_session # 2 THEN @ ELSE 0,
                   !.good = IF e = S /\ ssl[e].new_session # 2 THEN @ ELSE @ + 1]
<1>1. ssl[e].state = "DONE" /\ Become(e, t) /\ DropBuffer(e) /\ DOMAIN ssl[e] = FieldNames
  BY FieldsNow DEF handshake_done
<1>2. out[e] = <<>>
  BY <1>1, ClientEmpty, ServerEmpty, PeerFacts DEF ClientFills, ServerFills, ClientWrites, ServerWrites
<1>3. t.state = "OK" /\ t.shutdown = ssl[e].shutdown
  BY <1>1 DEF FieldNames
<1>4. "received" \notin ssl[e].shutdown
  BY <1>1 DEF Lasting, Parted
<1> HIDE DEF t
<1>5. Lasts(e, t)
  BY <1>3, <1>4 DEF Lasts, ClientBegins
<1>6. \A x \in Endpoint : EndsLast(Line(x))'
  BY <1>1, <1>2, LinesOf, LinesKeptLast
<1> QED
  BY <1>1, <1>5, <1>6, BecomeOthers, LastingBecome

LEMMA LastingData ==
  ASSUME Ready, Lasting, NEW e \in Endpoint, SSL_read(e) \/ SSL_write(e)
  PROVE  Lasting'
<1>1. ssl' = ssl
  BY DEF SSL_read, SSL_write
<1>2. ASSUME SSL_read(e) PROVE \A x \in Endpoint : EndsLast(Line(x))'
  <2>1. Take(e) /\ wire[e] # <<>> /\ out' = out
    BY <1>2, Came DEF SSL_read
  <2> QED
    BY <2>1, LinesOf, LinesKeptLast
<1>3. ASSUME SSL_write(e) PROVE \A x \in Endpoint : EndsLast(Line(x))'
  <2> DEFINE r == Record(e, "app", Plain("data"))
  <2>1. Put(e, <<r>>) /\ "sent" \notin ssl[e].shutdown
    BY <1>3 DEF SSL_write
  <2> HIDE DEF r
  <2>2. Streams /\ Closed /\ Apart(conf) /\ Peer(e) \in Endpoint /\ Peer(Peer(e)) = e
        /\ Endpoint = {e, Peer(e)}
    BY PeerFacts DEF Ready, Inv, Calm
  <2>3. out[e] # <<>> => ssl[e].buffered
    BY DEF Ready, Lockstep, Buffers
  <2>4. Line(Peer(e))' = Append(Line(Peer(e)), r) /\ Line(e)' = Line(e)
    BY <2>1, <2>2, <2>3, LinePut
  <2>5. \A x \in Elements(Line(Peer(e))) : x.type # "close_notify"
    BY <2>1, <2>2, LineSeq DEF Closed
  <2>6. IsSeq(Line(Peer(e))) /\ EndsLast(Line(Peer(e))) /\ EndsLast(Line(e))
    BY <2>2, LineSeq DEF Lasting
  <2>7. EndsLast(Append(Line(Peer(e)), r))
    BY <2>5, <2>6, EndsLastAppend
  <2> QED
    BY <2>2, <2>4, <2>6, <2>7
<1> QED
  BY <1>1, <1>2, <1>3, LastingNow, LastingBecome

\* SSL_shutdown outside a handshake is called at rest.
LEMMA ShutsAtRest ==
  ASSUME Ready, NEW e \in Endpoint, SSL_shutdown(e), ~SSL_in_init(e)
  PROVE  ssl[e].state = "OK"
BY DEF Ready, Calm, SSL_shutdown, May

LEMMA LastingShutdown ==
  ASSUME Ready, Lasting, NEW e \in Endpoint, SSL_shutdown(e)
  PROVE  Lasting'
<1>0. DOMAIN ssl[e] = FieldNames /\ Lasts(e, ssl[e])
  BY FieldsNow, LastingNow
<1>1. ASSUME Move(e, [ssl[e] EXCEPT !.shut = TRUE]) PROVE Lasting'
  <2> DEFINE t == [ssl[e] EXCEPT !.shut = TRUE]
  <2>1. /\ t.state = ssl[e].state /\ t.shutdown = ssl[e].shutdown
        /\ t.prev = ssl[e].prev /\ t.renegotiate = ssl[e].renegotiate
    BY <1>0 DEF FieldNames
  <2>2. Become(e, t) /\ UNCHANGED <<wire, out>>
    BY <1>1 DEF Move
  <2> HIDE DEF t
  <2>3. Lasts(e, t)
    BY <1>0, <2>1 DEF Lasts, Abandons
  <2>4. \A x \in Endpoint : EndsLast(Line(x))'
    BY <2>2, LinesOf, LinesKeptLast
  <2> QED
    BY <2>2, <2>3, <2>4, BecomeOthers, LastingBecome
<1>2. ASSUME ~SSL_in_init(e), "sent" \notin ssl[e].shutdown,
             Become(e, [ssl[e] EXCEPT !.shutdown = @ \cup {"sent"},
                                !.shut = "received" \in ssl[e].shutdown]),
             Put(e, <<Record(e, "close_notify", Plain("close_notify"))>>)
      PROVE  Lasting'
  <2> DEFINE t == [ssl[e] EXCEPT !.shutdown = @ \cup {"sent"}, !.shut = "received" \in ssl[e].shutdown]
             r == Record(e, "close_notify", Plain("close_notify"))
  <2>1. /\ t.state = ssl[e].state /\ t.shutdown = ssl[e].shutdown \cup {"sent"}
        /\ t.prev = ssl[e].prev /\ t.renegotiate = ssl[e].renegotiate
    BY <1>0 DEF FieldNames
  <2>2. Become(e, t) /\ Put(e, <<r>>) /\ r.type # "app"
    BY <1>2 DEF Record
  <2> HIDE DEF t, r
  <2>3. Lasts(e, t)
    BY <1>0, <2>1 DEF Lasts, Abandons
  <2>4. LinesKept
    BY <2>2, LinesOf
  <2>5. \A x \in Endpoint : EndsLast(Line(x))'
    BY <2>4, LinesKeptLast
  <2> QED
    BY <2>2, <2>3, <2>5, BecomeOthers, LastingBecome
<1> QED
  BY <1>1, <1>2 DEF SSL_shutdown

\* close_notify comes to an end at rest that is not about to renegotiate, or to a
\* client that waits for a ServerHello.
LEMMA EndsAtRest ==
  ASSUME Ready, Lasting, NEW e \in Endpoint, read_close_notify(e)
  PROVE  (e = C /\ ssl[e].state = "CR_SRVR_HELLO") \/ (ssl[e].state = "OK" /\ ~ssl[e].renegotiate)
<1>1. /\ Arrives(e, "close_notify") /\ wire[e] # <<>> /\ Head1(e).type = "close_notify"
      /\ ssl[e].state \in Reads \/ Reading(e) \/ (ssl[e].state = "OK" /\ "sent" \in ssl[e].shutdown)
  BY DEF read_close_notify, Arrives
<1>2. \/ ssl[e].state \in Reads \ {"OK"}
      \/ ssl[e].state = "OK" /\ ~ssl[e].renegotiate
      \/ ssl[e].state = "OK" /\ "sent" \in ssl[e].shutdown
  BY <1>1 DEF Reading, Reads, ClientReads, ServerReads
<1>3. CASE e = C
  <2> DEFINE n == ToClient(Head(Line(C)), Idle(ssl[C]))
  <2>1. n = Idle(ssl[C])
    BY <1>1, <1>3, ClientHead DEF ToClient
  <2>2. 9 \in ServerSends(conf, ssl[S])
    BY Figures
  <2>3. ClientReadsFrom(ssl[C]) <= 9 => n <= 9
    BY <1>1, <1>3, <2>2, ClientRank
  <2>4. ssl[C].state \in ClientReads \ {"CR_SRVR_HELLO"} => FALSE
    <3> HIDE DEF n
    <3>1. ssl[C].state \in ClientReads \ {"CR_SRVR_HELLO"} =>
            Idle(ssl[C]) = 10 /\ ClientReadsFrom(ssl[C]) \in 2 .. 9
      BY DEF Idle, ClientReadsFrom, ClientReads
    <3> QED
      BY <2>1, <2>3, <3>1
  <2>5. ssl[C].state \notin ServerReads
    BY ClientNow DEF ClientCalls
  <2>6. "sent" \in ssl[C].shutdown => ~ssl[C].renegotiate
    BY ClientNow DEF ClientCalls, Ready, Calm, Apart
  <2> QED
    BY <1>2, <1>3, <2>4, <2>5, <2>6 DEF Reads
<1>4. CASE e = S
  <2> DEFINE n == ToServer(Head(Line(S)))
  <2>1. n = 7 /\ Head(Line(S)) \in Elements(Line(S))
    BY <1>1, <1>4, ServerHead DEF ToServer
  <2>2. 6 \in ClientSends(conf, ssl[S])
    BY Figures
  <2>3. "sent" \notin ssl[S].shutdown /\ ServerReadsFrom(ssl[S]) <= 6 => n <= 6
    BY <1>1, <1>4, <2>2, ServerRank
  <2>4. "sent" \in ssl[S].shutdown => ssl[S].state = "OK" /\ ~ssl[S].renegotiate
    BY ServerNow DEF ServerCalls, Apart
  <2>5. ssl[S].state \in ServerReads \ {"SR_CLNT_HELLO"} => FALSE
    <3> HIDE DEF n
    <3>1. ssl[S].state \in ServerReads \ {"SR_CLNT_HELLO"} =>
            ServerReadsFrom(ssl[S]) \in 2 .. 6 /\ ssl[S].state # "OK"
      BY DEF ServerReadsFrom, ServerReads
    <3> QED
      BY <2>1, <2>3, <2>4, <3>1
  <2>6. ssl[S].state # "SR_CLNT_HELLO"
    BY <2>1, ServerNow DEF Locked, Starting
  <2>7. ssl[S].state \notin ClientReads
    BY ServerNow DEF ServerCalls
  <2> QED
    BY <1>2, <1>4, <2>4, <2>5, <2>6, <2>7 DEF Reads
<1> QED
  BY <1>3, <1>4, PeerFacts

LEMMA LastingEnds ==
  ASSUME Ready, Lasting, NEW e \in Endpoint, read_close_notify(e)
  PROVE  Lasting'
<1> DEFINE t == [ssl[e] EXCEPT !.shutdown = @ \cup {"received"}]
<1>0. DOMAIN ssl[e] = FieldNames /\ Lasts(e, ssl[e])
  BY FieldsNow, LastingNow
<1>1. /\ t.state = ssl[e].state /\ t.prev = ssl[e].prev /\ t.renegotiate = ssl[e].renegotiate
  BY <1>0 DEF FieldNames
<1>2. Become(e, t) /\ Take(e) /\ wire[e] # <<>> /\ out' = out
  BY Came DEF read_close_notify
<1> HIDE DEF t
<1>3. Lasts(e, t)
  BY <1>0, <1>1, EndsAtRest DEF Lasts, Abandons
<1>4. \A x \in Endpoint : EndsLast(Line(x))'
  BY <1>2, LinesOf, LinesKeptLast
<1> QED
  BY <1>2, <1>3, <1>4, BecomeOthers, LastingBecome

LEMMA Lasting_Next == ASSUME Ready, Lasting, [Next]_vars PROVE Lasting'
<1>1. ASSUME UNCHANGED vars PROVE Lasting'
  <2>1. ssl' = ssl /\ \A e \in Endpoint : Line(e)' = Line(e)
    BY <1>1 DEF vars, Line
  <2>2. \A e \in Endpoint : EndsLast(Line(e))'
    BY <2>1 DEF Lasting
  <2> QED
    BY <2>1, <2>2, LastingNow, LastingBecome, PeerFacts
<1> QED
  BY <1>1, Noticed, LastingWithin, LastingDone, LastingData, LastingShutdown, LastingEnds

-----------------------------------------------------------------------------
(* Each step is one of the channel's, or does not show there.              *)

\* What an end shows of itself.
Shows(s, t) ==
  /\ t.good = s.good
  /\ "sent" \in t.shutdown <=> "sent" \in s.shutdown
  /\ "received" \in t.shutdown <=> "received" \in s.shutdown

LEMMA Unnoticed ==
  ASSUME \A e \in Endpoint : Shows(ssl[e], ssl'[e]), UNCHANGED <<conf, sent, got>>
  PROVE  UNCHANGED Channel!vars
<1>1. completed' = completed /\ closers' = closers /\ told' = told
  BY DEF Shows, completed, closers, told
<1> QED
  BY <1>1 DEF Channel!vars

LEMMA UnnoticedBecome ==
  ASSUME Ready, NEW e \in Endpoint, NEW t, Become(e, t), Shows(ssl[e], t),
         UNCHANGED <<conf, sent, got>>
  PROVE  UNCHANGED Channel!vars
<1>1. \A x \in Endpoint : Shows(ssl[x], ssl'[x])
  BY BecomeOthers DEF Shows
<1> QED
  BY <1>1, Unnoticed

\* How many handshakes the ends may have completed.
LEMMA Together ==
  ASSUME Ready, Lasting
  PROVE  /\ ssl[C].good \in Nat /\ ssl[S].good \in Nat
         /\ ssl[C].state = "DONE" => ssl[C].good <= ssl[S].good
         /\ ssl[S].state = "DONE" /\ ssl[S].new_session = 2 => ssl[S].good <= ssl[C].good
<1> DEFINE c == ssl[C]
           s == ssl[S]
<1>1. /\ c.good \in Nat /\ s.good \in Nat /\ c.cr \in Nat /\ c.sr \in Nat /\ s.sr \in Nat
      /\ s.new_session \in 0 .. 2
  BY ClientNow DEF Typed
<1>2. /\ IF c.state = "CR_SRVR_HELLO" THEN c.cr = c.sr + 1 ELSE c.cr = c.sr
      /\ c.cr = c.good \/ c.cr = c.good + 1
      /\ c.state \in {"DONE", "CR_SRVR_HELLO"} => c.cr = c.good + 1
  BY ClientNow DEF ClientNumbers, Lasting, ClientBegins
<1>3. s.sr = IF s.new_session = 2 THEN s.good + 1 ELSE s.good
  BY ServerNow DEF ServerNumbers
<1>4. IF c.state = "CR_SRVR_HELLO" /\ ~Waiting(c, s) THEN s.sr = c.sr + 1 ELSE s.sr = c.sr
  BY ClientNow DEF Locked, SameRun, Waiting
<1> HIDE DEF c, s
<1>5. c.state = "DONE" => c.good <= s.good
  BY <1>1, <1>2, <1>3, <1>4
<1>6. s.new_session = 2 => s.good <= c.good
  BY <1>1, <1>2, <1>3, <1>4
<1> QED
  BY <1>1, <1>5, <1>6 DEF c, s

LEMMA ChannelCompletes ==
  ASSUME Ready, Lasting, NEW e \in Endpoint, handshake_done(e)
  PROVE  Channel!Complete(e) \/ UNCHANGED Channel!vars
<1> DEFINE t == [ssl[e] EXCEPT !.state = "OK", !.key_block = None, !.buffered = FALSE,
                   !.new_session = IF e = S /\ ssl[e].new_session # 2 THEN @ ELSE 0,
                   !.good = IF e = S /\ ssl[e].new_session # 2 THEN @ ELSE @ + 1]
<1>1. ssl[e].state = "DONE" /\ Become(e, t) /\ UNCHANGED <<conf, sent, got>>
  BY DEF handshake_done
<1>2. /\ t.good = IF e = S /\ ssl[e].new_session # 2 THEN ssl[e].good ELSE ssl[e].good + 1
      /\ t.shutdown = ssl[e].shutdown
  BY FieldsNow DEF FieldNames
<1> HIDE DEF t
<1>3. CASE e = S /\ ssl[e].new_session # 2
  BY <1>1, <1>2, <1>3, UnnoticedBecome DEF Shows
<1>4. CASE ~(e = S /\ ssl[e].new_session # 2)
  <2>1. ssl'[e] = t /\ \A x \in Endpoint : x # e => ssl'[x] = ssl[x]
    BY <1>1, BecomeOthers
  <2>2. completed' = [completed EXCEPT ![e] = @ + 1]
    BY <1>2, <1>4, <2>1 DEF completed
  <2>3. closers' = closers /\ told' = told
    BY <1>2, <2>1 DEF closers, told
  <2>4. completed[e] <= completed[Channel!Other(e)]
    BY <1>1, <1>4, Together, PeerFacts DEF completed, Channel!Other
  <2> QED
    BY <1>1, <2>2, <2>3, <2>4 DEF Channel!Complete
<1> QED
  BY <1>3, <1>4

\* An end at rest has completed a handshake.
LEMMA RestsAfter ==
  ASSUME Ready, Lasting, NEW e \in Endpoint, ssl[e].state = "OK"
  PROVE  ssl[e].good > 0
<1>1. ssl[C].cr \in Nat /\ ssl[S].sr \in Nat
  BY ClientNow DEF Typed
<1>2. ssl[C].state = "OK" => ssl[C].cr # 0 /\ ssl[C].good = ssl[C].cr
  BY ClientNow DEF ClientWill, ClientNumbers
<1>3. ssl[S].state = "OK" => ssl[S].sr > 0 /\ ssl[S].good = ssl[S].sr
  BY ServerNow DEF ServerNumbers, ServerIdle
<1> QED
  BY <1>1, <1>2, <1>3, PeerFacts

LEMMA ChannelWrites ==
  ASSUME Ready, Lasting, NEW e \in Endpoint, SSL_write(e)
  PROVE  Channel!Write(e)
<1>1. /\ "sent" \notin ssl[e].shutdown /\ sent' = [sent EXCEPT ![e] = @ + 1]
      /\ UNCHANGED <<ssl, conf, got>>
      /\ ssl[e].state = "OK" \/ cutthrough_complete(e)
  BY DEF SSL_write, SSL_in_init
<1>2. completed[e] > 0 \/ (e = C /\ conf.cut)
  BY <1>1, RestsAfter DEF completed, cutthrough_complete
<1>3. ~closers[e]
  BY <1>1 DEF closers
<1>4. UNCHANGED <<conf.cut, completed, got, closers, told>>
  BY <1>1 DEF completed, closers, told
<1> QED
  BY <1>1, <1>2, <1>3, <1>4 DEF Channel!Write

LEMMA ChannelReads ==
  ASSUME Ready, Lasting, NEW e \in Endpoint, SSL_read(e)
  PROVE  Channel!Read(e)
<1>1. /\ Arrives(e, "app") /\ got' = [got EXCEPT ![e] = @ + 1]
      /\ UNCHANGED <<ssl, conf, sent>>
      /\ ssl[e].state = "OK" \/ (e = C /\ ssl[C].state = "CR_SRVR_HELLO")
  BY DEF SSL_read, Reading
<1>2. wire[e] # <<>> /\ Head1(e).type = "app" /\ "received" \notin ssl[e].shutdown
  BY <1>1 DEF Arrives
<1>3. ASSUME e = C, ssl[C].state = "CR_SRVR_HELLO" PROVE ssl[e].good > 0
  <2>1. ssl[C].cr # 1
    BY <1>2, <1>3, ClientHead, ClientNow DEF Locked, Starting
  <2>2. ssl[C].cr \in Nat /\ ssl[C].good \in Nat /\ ssl[C].cr # 0 /\ ssl[C].cr = ssl[C].good + 1
    BY <1>3, ClientNow DEF Typed, ClientWill, ClientNumbers, Lasting, ClientBegins
  <2>3. ssl[C].good # 0
    BY <2>1, <2>2
  <2>4. ssl[C].good > 0
    BY <2>2, <2>3
  <2> QED
    BY <1>3, <2>4
<1>4. ssl[e].good > 0
  <2>1. ssl[e].state = "OK" => ssl[e].good > 0
    BY RestsAfter
  <2> QED
    BY <1>1, <1>3, <2>1
<1>5. got[e] < sent[Peer(e)]
  <2>1. Streams /\ Counted /\ Head1(e) \in Traffic(e) /\ Tag(Head1(e)) = App
    BY <1>2, HeadTraffic DEF Ready, Inv, Tag, App
  <2>2. Flying(e, App) > 0 /\ Flying(e, App) \in Nat
    BY <2>1, Present, FlyingFacts
  <2>3. got[e] \in Nat /\ sent[Peer(e)] \in Nat /\ got[e] + Flying(e, App) <= sent[Peer(e)]
    BY <2>1, PeerFacts DEF Counted
  <2> QED
    BY <2>2, <2>3
<1>6. completed[e] > 0 /\ ~told[e] /\ got[e] < sent[Channel!Other(e)]
  BY <1>2, <1>4, <1>5, PeerFacts DEF completed, told, Channel!Other, Peer
<1>7. UNCHANGED <<conf.cut, completed, closers, told>>
  BY <1>1 DEF completed, closers, told
<1> QED
  BY <1>1, <1>6, <1>7 DEF Channel!Read

LEMMA ChannelCloses ==
  ASSUME Ready, Lasting, NEW e \in Endpoint, SSL_shutdown(e)
  PROVE  Channel!Close(e) \/ UNCHANGED Channel!vars
<1>0. DOMAIN ssl[e] = FieldNames
  BY FieldsNow
<1>1. ASSUME Move(e, [ssl[e] EXCEPT !.shut = TRUE]) PROVE UNCHANGED Channel!vars
  <2> DEFINE t == [ssl[e] EXCEPT !.shut = TRUE]
  <2>1. Shows(ssl[e], t)
    BY <1>0 DEF FieldNames, Shows
  <2>2. Become(e, t) /\ UNCHANGED <<conf, sent, got>>
    BY <1>1 DEF Move
  <2> HIDE DEF t
  <2> QED
    BY <2>1, <2>2, UnnoticedBecome
<1>2. ASSUME ~SSL_in_init(e), UNCHANGED <<conf, sent, got>>,
             Become(e, [ssl[e] EXCEPT !.shutdown = @ \cup {"sent"},
                                !.shut = "received" \in ssl[e].shutdown])
      PROVE  Channel!Close(e)
  <2> DEFINE t == [ssl[e] EXCEPT !.shutdown = @ \cup {"sent"}, !.shut = "received" \in ssl[e].shutdown]
  <2>1. t.good = ssl[e].good /\ t.shutdown = ssl[e].shutdown \cup {"sent"}
    BY <1>0 DEF FieldNames
  <2> HIDE DEF t
  <2>2. ssl'[e] = t /\ \A x \in Endpoint : x # e => ssl'[x] = ssl[x]
    BY <1>2, BecomeOthers DEF t
  <2>3. completed' = completed
    BY <2>1, <2>2 DEF completed
  <2>4. closers' = [closers EXCEPT ![e] = TRUE]
    BY <2>1, <2>2 DEF closers
  <2>5. told' = told
    BY <2>1, <2>2 DEF told
  <2>6. completed[e] > 0
    BY <1>2, ShutsAtRest, RestsAfter DEF completed
  <2> QED
    BY <1>2, <2>3, <2>4, <2>5, <2>6 DEF Channel!Close
<1> QED
  BY <1>1, <1>2 DEF SSL_shutdown

\* Behind close_notify there are no data.
LEMMA NothingBehind ==
  ASSUME Ready, Lasting, NEW e \in Endpoint, wire[e] # <<>>, Head1(e).type = "close_notify"
  PROVE  Flying(e, App) = 0
<1> DEFINE q == Line(e)
<1>1. Streams /\ Peer(e) \in Endpoint
  BY PeerFacts DEF Ready, Inv
<1>2. IsSeq(q) /\ EndsLast(q) /\ q # <<>> /\ Head(q) = Head1(e)
  BY <1>1, LineSeq, LineHead DEF Lasting
<1>3. Flying(e, App) = Count(q, App)
  BY <1>1, JoinFacts DEF Line, Flying, Streams
<1> HIDE DEF q
<1>4. Len(q) \in Nat \ {0} /\ DOMAIN q = 1 .. Len(q) /\ Head(q) = q[1]
  BY <1>2, TailElements
<1>5. ASSUME NEW i \in DOMAIN q PROVE q[i].type # "app"
  <2>1. i = 1 \/ (1 \in DOMAIN q /\ 1 < i)
    BY <1>4
  <2> QED
    BY <1>2, <1>4, <2>1 DEF EndsLast
<1>6. {i \in DOMAIN q : Tag(q[i]) = App} = {}
  BY <1>5 DEF Tag, App
<1> QED
  BY <1>3, <1>6, FS_EmptySet DEF Count

LEMMA ChannelEnds ==
  ASSUME Ready, Lasting, NEW e \in Endpoint, read_close_notify(e), "received" \notin ssl[e].shutdown
  PROVE  Channel!EndOfData(e)
<1> DEFINE t == [ssl[e] EXCEPT !.shutdown = @ \cup {"received"}]
<1>1. t.good = ssl[e].good /\ t.shutdown = ssl[e].shutdown \cup {"received"}
  BY FieldsNow DEF FieldNames
<1>2. /\ Become(e, t) /\ UNCHANGED <<conf, sent, got>>
      /\ wire[e] # <<>> /\ Head1(e).type = "close_notify"
  BY DEF read_close_notify, Arrives
<1> HIDE DEF t
<1>3. ssl'[e] = t /\ \A x \in Endpoint : x # e => ssl'[x] = ssl[x]
  BY <1>2, BecomeOthers
<1>4. Inv /\ Counted /\ Closed /\ Apart(conf) /\ Peer(e) \in Endpoint
  BY PeerFacts DEF Ready, Inv, Calm
<1>5. "sent" \in ssl[Peer(e)].shutdown
  BY <1>2, <1>4, HeadTraffic DEF Closed
<1>6. got[e] = sent[Peer(e)] \/ "sent" \in ssl[e].shutdown
  <2>1. Flying(e, App) = 0
    BY <1>2, NothingBehind
  <2>2. got[e] \in Nat
    BY <1>4 DEF Counted
  <2>3. "sent" \notin ssl[e].shutdown => got[e] + Flying(e, App) = sent[Peer(e)]
    BY <1>4 DEF Counted
  <2> QED
    BY <2>1, <2>2, <2>3
<1>7. Channel!Other(e) = Peer(e)
  BY DEF Channel!Other, Peer
<1>8. closers[Channel!Other(e)] /\ ~told[e] /\ (got[e] = sent[Channel!Other(e)] \/ closers[e])
  BY <1>4, <1>5, <1>6, <1>7 DEF closers, told
<1>9. told' = [told EXCEPT ![e] = TRUE]
  BY <1>1, <1>3 DEF told
<1>10. completed' = completed /\ closers' = closers
  BY <1>1, <1>3 DEF completed, closers
<1> QED
  BY <1>2, <1>8, <1>9, <1>10 DEF Channel!EndOfData

LEMMA ChannelStep ==
  ASSUME Ready, Lasting, [Next]_vars
  PROVE  [Channel!Next]_Channel!vars
<1>0. Channel!End = Endpoint
  BY DEF Channel!End, Endpoint
<1>1. ASSUME UNCHANGED vars PROVE UNCHANGED Channel!vars
  BY <1>1 DEF vars, Channel!vars, completed, closers, told
<1>2. ASSUME WithinStep PROVE UNCHANGED Channel!vars
  <2>1. \A x \in Endpoint : Shows(ssl[x], ssl'[x])
    BY <1>2 DEF WithinStep, Inside, Shows
  <2> QED
    BY <1>2, <2>1, Unnoticed DEF WithinStep
<1>3. ASSUME NEW e \in Endpoint,
             \/ handshake_done(e) \/ SSL_read(e) \/ SSL_write(e) \/ SSL_shutdown(e)
             \/ read_close_notify(e) /\ "received" \notin ssl[e].shutdown
      PROVE  [Channel!Next]_Channel!vars
  BY <1>0, <1>3, ChannelCompletes, ChannelReads, ChannelWrites, ChannelCloses, ChannelEnds
     DEF Channel!Next
<1> QED
  BY <1>1, <1>2, <1>3, Noticed

LEMMA ChannelStarts == ASSUME Init PROVE Channel!Init
<1>1. \A e \in Endpoint : ssl[e].good = 0 /\ ssl[e].shutdown = {}
  BY PeerFacts DEF Init, Offered, Fresh
<1>2. completed = [e \in Endpoint |-> 0]
  BY <1>1 DEF completed
<1>4. closers = [e \in Endpoint |-> FALSE]
  <2>1. \A e \in Endpoint : ("sent" \in ssl[e].shutdown) = FALSE
    BY <1>1
  <2> QED
    BY <2>1, Zenon DEF closers
<1>5. told = [e \in Endpoint |-> FALSE]
  <2>1. \A e \in Endpoint : ("received" \in ssl[e].shutdown) = FALSE
    BY <1>1
  <2> QED
    BY <2>1, Zenon DEF told
<1>3. conf.cut \in BOOLEAN
  BY ConfigAssumption DEF Init, Config
<1> QED
  BY <1>2, <1>3, <1>4, <1>5 DEF Init, Channel!Init, Channel!End, Endpoint

\* A connection is a secure channel to its applications: handshakes are completed
\* by both ends in turn, data are read in no greater number than were written and
\* after a handshake only, and the close_notify that SSL_read reports comes after
\* all data of a peer that has closed.
THEOREM SecureChannelKept == ASSUME \A k \in Configs : Calm(k) PROVE Spec => ImplementsChannel
<1>1. Inv => Calm(conf)
  BY DEF Inv
<1>2. Init => Lasting /\ Channel!Init
  BY Lasting_Init, ChannelStarts
<1>3. Inv /\ Order /\ Talk /\ Lockstep /\ Lasting /\ [Next]_vars => Lasting'
  BY <1>1, Lasting_Next DEF Ready
<1>4. Inv /\ Order /\ Talk /\ Lockstep /\ Lasting /\ [Next]_vars => [Channel!Next]_Channel!vars
  BY <1>1, ChannelStep DEF Ready
<1> QED
  BY <1>2, <1>3, <1>4, Invariant, Ordered, Talking, InStep, PTL DEF Spec, ImplementsChannel, Channel!Spec

===============================================================================
