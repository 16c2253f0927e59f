-------------------------------- MODULE Pipe --------------------------------
(***************************************************************************)
(* What a BIO pair promises: two byte queues of bounded length, one for    *)
(* each direction.  A writer may also build bytes in place and hand them   *)
(* over later.  Nothing is lost, repeated, reordered or made up.           *)
(***************************************************************************)
EXTENDS Naturals, Sequences

CONSTANTS End, Byte, Caps, Nobody

VARIABLES
  peer,    \* whom each end is joined with, or Nobody
  queue,   \* the bytes each end has written and its peer has not read
  staged,  \* the bytes each end has built in place and not handed over
  closed,  \* which ends will write no more
  cap,     \* the most bytes each queue holds
  data     \* the bytes the last read returned

vars == <<peer, queue, staged, closed, cap, data>>

Joined(x) == peer[x] # Nobody
Room(x) == cap[x] - Len(queue[x])
Prefix(s, n) == SubSeq(s, 1, n)
Rest(s, n) == SubSeq(s, n + 1, Len(s))

Init ==
  /\ peer = [x \in End |-> Nobody]
  /\ queue = [x \in End |-> <<>>] /\ staged = [x \in End |-> <<>>]
  /\ closed = [x \in End |-> FALSE]
  /\ cap \in [End -> Caps]
  /\ data = <<>>

Write(x, w) ==
  /\ Joined(x) /\ ~closed[x] /\ staged[x] = <<>>
  /\ Len(w) <= Room(x)
  /\ queue' = [queue EXCEPT ![x] = @ \o w]
  /\ data' = <<>>
  /\ UNCHANGED <<peer, staged, closed, cap>>

Stage(x, w) ==
  /\ Joined(x) /\ ~closed[x] /\ Len(w) <= Room(x)
  /\ staged' = [staged EXCEPT ![x] = w]
  /\ data' = <<>>
  /\ UNCHANGED <<peer, queue, closed, cap>>

HandOver(x, n) ==
  /\ Joined(x) /\ ~closed[x] /\ n <= Len(staged[x])
  /\ queue' = [queue EXCEPT ![x] = @ \o Prefix(staged[x], n)]
  /\ staged' = [staged EXCEPT ![x] = Rest(@, n)]
  /\ data' = <<>>
  /\ UNCHANGED <<peer, closed, cap>>

Read(x, n) ==
  /\ Joined(x) /\ n <= Len(queue[peer[x]])
  /\ data' = Prefix(queue[peer[x]], n)
  /\ queue' = [queue EXCEPT ![peer[x]] = Rest(@, n)]
  /\ UNCHANGED <<peer, staged, closed, cap>>

Close(x) ==
  /\ Joined(x)
  /\ closed' = [closed EXCEPT ![x] = TRUE] /\ staged' = [staged EXCEPT ![x] = <<>>]
  /\ data' = <<>>
  /\ UNCHANGED <<peer, queue, cap>>

\* The writer takes back what has not been read.
Drop(x) ==
  /\ queue' = [queue EXCEPT ![x] = <<>>] /\ staged' = [staged EXCEPT ![x] = <<>>]
  /\ data' = <<>>
  /\ UNCHANGED <<peer, closed, cap>>

Resize(x, n) ==
  /\ ~Joined(x)
  /\ cap' = [cap EXCEPT ![x] = n]
  /\ data' = <<>>
  /\ UNCHANGED <<peer, queue, staged, closed>>

\* An end may be joined with itself.
Join(x, y) ==
  /\ ~Joined(x) /\ ~Joined(y)
  /\ peer' = [peer EXCEPT ![x] = y, ![y] = x]
  /\ data' = <<>>
  /\ UNCHANGED <<queue, staged, closed, cap>>

\* Both ends lose what was on its way.
Part(x) ==
  /\ Joined(x)
  /\ LET gone == {x, peer[x]} IN
     /\ peer' = [e \in End |-> IF e \in gone THEN Nobody ELSE peer[e]]
     /\ queue' = [e \in End |-> IF e \in gone THEN <<>> ELSE queue[e]]
     /\ staged' = [e \in End |-> IF e \in gone THEN <<>> ELSE staged[e]]
     /\ closed' = [e \in End |-> IF e \in gone THEN FALSE ELSE closed[e]]
  /\ data' = <<>>
  /\ UNCHANGED cap

\* A call that returns no bytes and moves none.
Nothing == data' = <<>> /\ UNCHANGED <<peer, queue, staged, closed, cap>>

Next ==
  \/ \E x \in End :
       \/ \E n \in 1 .. Room(x) : \E w \in [1 .. n -> Byte] : Write(x, w) \/ Stage(x, w)
       \/ \E n \in 1 .. Len(staged[x]) : HandOver(x, n)
       \/ Joined(x) /\ \E n \in 1 .. Len(queue[peer[x]]) : Read(x, n)
       \/ \E n \in Caps : Resize(x, n)
       \/ Close(x) \/ Drop(x) \/ Part(x)
       \/ \E y \in End : Join(x, y)
  \/ Nothing

Spec == Init /\ [][Next]_vars
=============================================================================
