--------------------------- MODULE SecureChannel ---------------------------
(***************************************************************************)
(* What a TLS connection promises its two applications, with no word of    *)
(* messages, states or keys.  The ends complete handshakes together; data  *)
(* is read in order and only after the reader has completed a handshake;   *)
(* the end of the data is believed only when all of it has been read.      *)
(***************************************************************************)
EXTENDS Naturals

CONSTANTS Client, Server   \* two different values

VARIABLES
  early,   \* the client may write before its first handshake is over
  good,    \* handshakes each end has completed
  sent,    \* records each end has written
  got,     \* records each end has read
  closed,  \* which ends have closed the channel
  ended    \* which ends have been told that the other closed it

vars == <<early, good, sent, got, closed, ended>>

End == {Client, Server}
Other(e) == IF e = Client THEN Server ELSE Client

Init ==
  /\ early \in BOOLEAN
  /\ good = [e \in End |-> 0] /\ sent = [e \in End |-> 0] /\ got = [e \in End |-> 0]
  /\ closed = [e \in End |-> FALSE] /\ ended = [e \in End |-> FALSE]

\* One end completes a handshake before the other, and only one.
Complete(e) ==
  /\ good[e] <= good[Other(e)]
  /\ good' = [good EXCEPT ![e] = @ + 1]
  /\ UNCHANGED <<early, sent, got, closed, ended>>

Write(e) ==
  /\ good[e] > 0 \/ (e = Client /\ early)
  /\ ~closed[e]
  /\ sent' = [sent EXCEPT ![e] = @ + 1]
  /\ UNCHANGED <<early, good, got, closed, ended>>

Read(e) ==
  /\ good[e] > 0 /\ ~ended[e]
  /\ got[e] < sent[Other(e)]
  /\ got' = [got EXCEPT ![e] = @ + 1]
  /\ UNCHANGED <<early, good, sent, closed, ended>>

Close(e) ==
  /\ good[e] > 0
  /\ closed' = [closed EXCEPT ![e] = TRUE]
  /\ UNCHANGED <<early, good, sent, got, ended>>

\* No truncation: all the data has been read, but by an end that had closed the
\* channel itself and did not want it.
EndOfData(e) ==
  /\ closed[Other(e)] /\ ~ended[e]
  /\ got[e] = sent[Other(e)] \/ closed[e]
  /\ ended' = [ended EXCEPT ![e] = TRUE]
  /\ UNCHANGED <<early, good, sent, got, closed>>

Next == \E e \in End : Complete(e) \/ Write(e) \/ Read(e) \/ Close(e) \/ EndOfData(e)

Spec == Init /\ [][Next]_vars
=============================================================================
