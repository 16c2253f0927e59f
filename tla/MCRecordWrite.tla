---------------------------- MODULE MCRecordWrite ---------------------------
(* Small instances of RecordWrite for TLC. *)
EXTENDS RecordWrite

\* Buffers that stay, and either long handshake messages or an application that
\* gets on with a handshake by SSL_write.
Held ==
  {m \in SUBSET (ModeNames \ {"release"}) :
     ("long" \in m <=> "through" \notin m) /\ ("empty" \in m <=> "long" \in m)}
Released == {{"release", "server"}}
Through == {{"moving", "long", "through"}}

\* The records begun are the headers, those out have their last unit on the wire.
Header(u) == u.i = 0
LastUnit(u) == u.i = u.rec.to - u.rec.from + 1
Heads == SelectSeq(Sent, Header)
Stream == INSTANCE RecordStream WITH
            records <- [k \in DOMAIN Heads |-> Heads[k].rec],
            out <- Len(SelectSeq(s3.wire, LastUnit)),
            told <- [app |-> acked, handshake |-> digested]

\* The record buffer is an ordered stream of each type of record.
ImplementsStream == Stream!Spec
=============================================================================
