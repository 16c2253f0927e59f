----------------------------- MODULE DTLSRecord -----------------------------
(***************************************************************************)
(* The receiving side of the DTLS record layer, ssl/d1_pkt.c, over a       *)
(* transport that repeats, reorders and damages datagrams at will: the     *)
(* replay window of the current epoch, the records of the next epoch that  *)
(* are kept until it begins, and the change of epochs.                     *)
(***************************************************************************)
EXTENDS Integers, FiniteSets

CONSTANTS
  Bits,      \* the bits of an unsigned long
  MaxSeq,    \* the last record of an epoch that is sent
  MaxEpoch,  \* the last epoch
  Limit      \* records kept for the next epoch

ASSUME ConstantAssumption ==
  Bits \in 1 .. 128 /\ MaxSeq \in Nat /\ MaxEpoch \in Nat /\ Limit \in Nat

VARIABLES
  r_epoch,            \* the epoch being read
  bitmap,             \* the window of that epoch: its last record and a set of distances
  next_bitmap,        \* the window of the next
  unprocessed,        \* records kept for unprocessed_epoch
  unprocessed_epoch,
  processed,          \* records kept whose epoch has begun
  stopped,            \* this call found a kept record damaged and went on without the rest
  times,              \* how often each record has been passed up
  left                \* the records such a call went on without

vars == <<r_epoch, bitmap, next_bitmap, unprocessed, unprocessed_epoch, processed, stopped,
          times, left>>

Epoch == 0 .. MaxEpoch
Number == 0 .. MaxSeq

Empty == [map |-> {}, max_seq_num |-> 0]

Init ==
  /\ r_epoch = 0 /\ bitmap = Empty /\ next_bitmap = Empty
  /\ unprocessed = {} /\ unprocessed_epoch = 0 /\ processed = {}
  /\ stopped = FALSE /\ left = {}
  /\ times = [r \in Epoch \X Number |-> 0]

-----------------------------------------------------------------------------
(* The window.                                                             *)

\* A difference that is cut off at 128.
satsub64be(a, b) == IF a - b > 128 THEN 128 ELSE IF a - b < -128 THEN -128 ELSE a - b

\* The record is new: later than all, or in the window and not marked.
dtls1_record_replay_check(b, n) ==
  LET cmp == satsub64be(n, b.max_seq_num) IN
  \/ cmp > 0
  \/ -cmp < Bits /\ -cmp \notin b.map

\* Mutant: the window is not moved when a later record arrives.
dtls1_record_bitmap_update_Stays(b, n) ==
  LET cmp == satsub64be(n, b.max_seq_num) IN
  IF cmp > 0
  THEN [map |-> b.map \cup {0}, max_seq_num |-> n]
  ELSE IF -cmp < Bits THEN [b EXCEPT !.map = @ \cup {-cmp}] ELSE b

dtls1_record_bitmap_update(b, n) ==
  LET cmp == satsub64be(n, b.max_seq_num) IN
  IF cmp > 0
  THEN [map |-> {0} \cup {d \in 0 .. Bits - 1 : d - cmp \in b.map}, max_seq_num |-> n]
  ELSE IF -cmp < Bits THEN [b EXCEPT !.map = @ \cup {-cmp}] ELSE b

-----------------------------------------------------------------------------

\* Kept records whose epoch has begun are gone through before anything is read.
Begun == unprocessed # {} /\ unprocessed_epoch = r_epoch

\* A queue is in the order of the numbers, which leave out the epoch.
First(q, r) == r \in q /\ \A k \in q : r[2] <= k[2]

\* One that is damaged, or kept for an earlier epoch than its own, is dropped, and
\* the rest of the queue waits for the next call.
Stop(r) ==
  /\ stopped' = TRUE /\ left' = left \cup {k \in unprocessed' : k[1] = r_epoch}
  /\ UNCHANGED <<processed, bitmap>>

Process(r, b) ==
  /\ r[1] = r_epoch /\ processed' = processed \cup {r[2]} /\ bitmap' = b
  /\ UNCHANGED <<stopped, left>>

\* Mutant: kept records are not marked as received.
dtls1_process_buffered_records_Unmarked ==
  /\ Begun /\ ~stopped
  /\ \E r \in unprocessed :
       /\ First(unprocessed, r) /\ unprocessed' = unprocessed \ {r}
       /\ Process(r, bitmap) \/ Stop(r)
  /\ UNCHANGED <<r_epoch, next_bitmap, unprocessed_epoch, times>>

dtls1_process_buffered_records ==
  /\ Begun /\ ~stopped
  /\ \E r \in unprocessed :
       /\ First(unprocessed, r) /\ unprocessed' = unprocessed \ {r}
       /\ Process(r, dtls1_record_bitmap_update(bitmap, r[2])) \/ Stop(r)
  /\ UNCHANGED <<r_epoch, next_bitmap, unprocessed_epoch, times>>

\* A call that has gone through the queue keeps records for the next epoch.
Sync ==
  /\ ~Begun \/ stopped
  /\ unprocessed_epoch' = IF stopped \/ unprocessed # {} THEN unprocessed_epoch ELSE r_epoch + 1

\* Passing up a record ends the call.
PassUp(e, n) == times' = [times EXCEPT ![<<e, n>>] = @ + 1] /\ stopped' = FALSE

\* One that has been gone through is passed up.
dtls1_get_processed_record ==
  /\ Sync
  /\ \E n \in processed :
       (\A k \in processed : n <= k) /\ processed' = processed \ {n} /\ PassUp(r_epoch, n)
  /\ UNCHANGED <<r_epoch, bitmap, next_bitmap, unprocessed, left>>

\* A record of this epoch is passed up unless it is a repetition.  If it is a
\* ChangeCipherSpec the handshake can use, the next epoch begins.
dtls1_process_record(n) ==
  LET b == dtls1_record_bitmap_update(bitmap, n) IN
  /\ dtls1_record_replay_check(bitmap, n)
  /\ PassUp(r_epoch, n)
  /\ \/ bitmap' = b /\ UNCHANGED <<r_epoch, next_bitmap>>
     \/ r_epoch < MaxEpoch /\ r_epoch' = r_epoch + 1 /\ bitmap' = next_bitmap /\ next_bitmap' = Empty
  /\ UNCHANGED unprocessed

\* One of the next epoch is kept, during a handshake and if there is room; a
\* queue has one record of each number.
dtls1_buffer_record(n) ==
  /\ dtls1_record_replay_check(next_bitmap, n)
  /\ Cardinality(unprocessed) < Limit /\ \A k \in unprocessed : k[2] # n
  /\ unprocessed' = unprocessed \cup {<<r_epoch + 1, n>>}
  /\ UNCHANGED <<r_epoch, bitmap, next_bitmap, stopped, times>>

\* Repetitions, damaged records, records of other epochs, and those of the next
\* that find no handshake or no room.
discard == UNCHANGED <<r_epoch, bitmap, next_bitmap, unprocessed, stopped, times>>

dtls1_get_record(e, n) ==
  /\ processed = {} /\ Sync
  /\ \/ e = r_epoch /\ dtls1_process_record(n)
     \/ e = r_epoch + 1 /\ dtls1_buffer_record(n)
     \/ discard
  /\ UNCHANGED <<processed, left>>

\* Nothing has come: the call returns.
nothing ==
  /\ processed = {} /\ Sync /\ stopped' = FALSE
  /\ UNCHANGED <<r_epoch, bitmap, next_bitmap, unprocessed, processed, times, left>>

Next ==
  \/ dtls1_process_buffered_records \/ dtls1_get_processed_record \/ nothing
  \/ \E e \in Epoch, n \in Number : dtls1_get_record(e, n)

Spec == Init /\ [][Next]_vars

-----------------------------------------------------------------------------
(* Properties.                                                             *)

TypeOK ==
  /\ r_epoch \in Epoch /\ unprocessed_epoch \in 0 .. MaxEpoch + 1
  /\ {bitmap, next_bitmap} \subseteq [map : SUBSET (0 .. Bits - 1), max_seq_num : Number]
  /\ unprocessed \subseteq Epoch \X Number /\ processed \subseteq Number
  /\ stopped \in BOOLEAN /\ left \subseteq Epoch \X Number
  /\ times \in [Epoch \X Number -> Nat]

\* No record is passed up twice, however often and late it arrives, and whether
\* it was kept for its epoch or not, but for the records that were waiting when one
\* before them proved damaged.
NoReplay == \A r \in (Epoch \X Number) \ left : times[r] <= 1

\* The window refuses no record it has room for: one of this epoch that has been
\* neither passed up nor gone through, and is not older than the window, is new.
NothingRefused ==
  \A n \in Number :
    times[<<r_epoch, n>>] = 0 /\ n \notin processed /\ n + Bits > bitmap.max_seq_num
      => dtls1_record_replay_check(bitmap, n)
=============================================================================
