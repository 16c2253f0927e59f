-------------------------- MODULE MessageDelivery ---------------------------
(***************************************************************************)
(* What the retransmission of DTLS promises a handshake: each end takes    *)
(* the messages the other has sent, in order and each once, whatever the   *)
(* datagrams do.                                                           *)
(***************************************************************************)
EXTENDS Integers, Sequences

CONSTANTS End, Peer(_), Message

VARIABLES
  said,  \* the messages each end has sent, for the first time
  told   \* the messages each end has taken

vars == <<said, told>>

Init == said = [e \in End |-> <<>>] /\ told = [e \in End |-> <<>>]

\* An end sends a message.
Say(e) ==
  /\ \E m \in Message : said' = [said EXCEPT ![e] = Append(@, m)]
  /\ UNCHANGED told

\* An end takes the next message of the other.
Hear(e) ==
  /\ Len(told[e]) < Len(said[Peer(e)])
  /\ told' = [told EXCEPT ![e] = Append(@, said[Peer(e)][Len(@) + 1])]
  /\ UNCHANGED said

Next == \E e \in End : Say(e) \/ Hear(e)

Spec == Init /\ [][Next]_vars
=============================================================================
