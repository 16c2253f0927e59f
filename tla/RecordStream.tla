---------------------------- MODULE RecordStream ----------------------------
(***************************************************************************)
(* What the sending side of the record layer promises: the records of a    *)
(* connection leave one after the other, and those of each type carry that *)
(* type's bytes in order, none twice and none left out.  Alerts may be     *)
(* dropped, not repeated or reordered.  Bytes are reported as written once *)
(* their records are out.                                                  *)
(***************************************************************************)
EXTENDS Integers, Sequences, SequencesExt, FiniteSetsExt

VARIABLES
  records,   \* the records begun, each with its type and the bytes it carries
  out,       \* how many of them the transport has taken entirely
  told       \* how many bytes of each type have been reported as written

vars == <<records, out, told>>

\* The last byte of type t that the records rs carry.
End(rs, t) == Max({0} \cup {rs[i].to : i \in {j \in DOMAIN rs : rs[j].type = t}})

\* Record i of rs goes on where the earlier records of its type ended.
Continues(rs, i) ==
  LET before == SubSeq(rs, 1, i - 1) IN
  IF rs[i].type = "alert" THEN rs[i].from > End(before, "alert")
                          ELSE rs[i].from = End(before, rs[i].type) + 1

Init == records = <<>> /\ out = 0 /\ told = [app |-> 0, handshake |-> 0]

\* Further records are begun, each in its place, once all earlier ones are out;
\* one at most, with the empty fragment before it, is then under way.
Next ==
  /\ IsPrefix(records, records')
  /\ \A i \in Len(records) + 1 .. Len(records') : Continues(records', i)
  /\ Len(records') > Len(records) => out' >= Len(records)
  /\ out' \in out .. Len(records') /\ Len(records') - out' <= 2
  /\ \A t \in DOMAIN told :
       told'[t] \in told[t] .. End(SubSeq(records', 1, out'), t)

Spec == Init /\ [][Next]_vars
=============================================================================
