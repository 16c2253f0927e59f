---------------------------- MODULE SessionStore ----------------------------
(***************************************************************************)
(* What the internal session cache promises its users: a store of sessions *)
(* by id, one per id, of at most Size sessions (0: no limit), in which a   *)
(* session stays until it is removed, its id is taken by another session,  *)
(* or Size newer sessions have come (no use of a session makes it newer).  *)
(***************************************************************************)
EXTENDS Naturals, Sequences, SequencesExt

CONSTANTS Id, Sess, Size

VARIABLE store   \* entries, newest first

Entry == [id : Id, obj : Sess]

Limit(s) == IF Size > 0 /\ Len(s) > Size THEN SubSeq(s, 1, Size) ELSE s

\* s without the entry of id i, of which there is at most one.
Without(s, i) == IF \E k \in DOMAIN s : s[k].id = i
                 THEN RemoveAt(s, CHOOSE k \in DOMAIN s : s[k].id = i)
                 ELSE s

Init == store = <<>>

Enter(e) ==
  /\ \A k \in DOMAIN store : store[k] # e
  /\ store' = Limit(<<e>> \o Without(store, e.id))

Leave(k) == store' = RemoveAt(store, k)

Next == (\E e \in Entry : Enter(e)) \/ (\E k \in DOMAIN store : Leave(k))

Spec == Init /\ [][Next]_store
=============================================================================
