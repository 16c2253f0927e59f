-------------------------- MODULE DTLSRecordProofs --------------------------
(***************************************************************************)
(* Proofs about DTLSRecord, for windows of any width up to 128, any number *)
(* of records and epochs and any limit: no record is passed up twice but   *)
(* those a damaged one has left waiting, and none that the window has room *)
(* for is refused.                                                         *)
(***************************************************************************)
EXTENDS DTLSRecord, TLAPS

Windows == [map : SUBSET (0 .. Bits - 1), max_seq_num : Number]

\* The window knows the records of S: none is later than its last, and those
\* it has room for are marked.
Covers(b, S) ==
  \A n \in S : n <= b.max_seq_num /\ (b.max_seq_num - n < Bits => b.max_seq_num - n \in b.map)

\* It marks no others.
Marks(b, S) == \A d \in b.map : b.max_seq_num - d \in S

\* The records of this epoch that were passed up or gone through.
Taken == {n \in Number : times[<<r_epoch, n>>] > 0} \cup processed

\* The parts of the inductive invariant, next to the types.
Window == Covers(bitmap, Taken) /\ Marks(bitmap, Taken) /\ next_bitmap = Empty
Future == \A e \in Epoch, n \in Number : e > r_epoch => times[<<e, n>>] = 0
Waiting == \A n \in processed : times[<<r_epoch, n>>] = 0 \/ <<r_epoch, n>> \in left

\* While the queue is gone through only records left waiting may have been taken.
Kept ==
  /\ unprocessed_epoch <= r_epoch + 1
  /\ \A n \in Number :
       Begun /\ <<r_epoch, n>> \in unprocessed /\ n \in Taken => <<r_epoch, n>> \in left
  /\ \A n \in Number : stopped /\ <<r_epoch, n>> \in unprocessed => <<r_epoch, n>> \in left

Inv == TypeOK /\ NoReplay /\ Window /\ Future /\ Waiting /\ Kept

-----------------------------------------------------------------------------
(* The window's two functions.                                             *)

\* d is the difference of a and b, cut off at 128.
Cut(d, a, b) ==
  /\ d \in -128 .. 128 /\ (d > 0 <=> a > b)
  /\ \/ a - b > 128 /\ d = 128
     \/ a - b < -128 /\ d = -128
     \/ d = a - b

\* Close numbers are told apart exactly, distant ones by their order.
LEMMA Difference ==
  ASSUME NEW a \in Number, NEW b \in Number
  PROVE  Cut(satsub64be(a, b), a, b)
  <1>1. a \in Nat /\ b \in Nat
    BY ConstantAssumption DEF Number
  <1> QED
    BY <1>1 DEF satsub64be, Cut

\* A record the window knows is not taken for a new one.
LEMMA CheckSound ==
  ASSUME NEW b \in Windows, NEW n \in Number, NEW S \in SUBSET Number,
         Covers(b, S), dtls1_record_replay_check(b, n)
  PROVE  n \notin S
  <1> SUFFICES ASSUME n \in S PROVE FALSE
    OBVIOUS
  <1>1. b.max_seq_num \in Number /\ Bits \in 1 .. 128
    BY ConstantAssumption DEF Windows
  <1>2. n <= b.max_seq_num /\ (b.max_seq_num - n < Bits => b.max_seq_num - n \in b.map)
    BY DEF Covers
  <1> DEFINE cmp == satsub64be(n, b.max_seq_num)
  <1>3. cmp \in -128 .. 0 /\ (-cmp < Bits => -cmp = b.max_seq_num - n)
    <2>1. Cut(cmp, n, b.max_seq_num)
      BY <1>1, Difference
    <2> QED
      BY <1>1, <1>2, <2>1 DEF Number, Cut
  <1>4. ~(cmp > 0) /\ ~(-cmp < Bits /\ -cmp \notin b.map)
    BY <1>2, <1>3
  <1> QED
    BY <1>4 DEF dtls1_record_replay_check

\* One it does not know and has room for is.
LEMMA CheckComplete ==
  ASSUME NEW b \in Windows, NEW n \in Number, NEW S \in SUBSET Number,
         Marks(b, S), n \notin S, n + Bits > b.max_seq_num
  PROVE  dtls1_record_replay_check(b, n)
  <1>1. b.max_seq_num \in Number /\ Bits \in 1 .. 128
    BY ConstantAssumption DEF Windows
  <1> DEFINE cmp == satsub64be(n, b.max_seq_num)
  <1>4. Cut(cmp, n, b.max_seq_num)
    BY <1>1, Difference
  <1>2. CASE n > b.max_seq_num
    <2>1. cmp > 0
      BY <1>2, <1>4 DEF Cut
    <2> QED
      BY <2>1 DEF dtls1_record_replay_check
  <1>3. CASE ~(n > b.max_seq_num)
    <2>2. -cmp = b.max_seq_num - n /\ -cmp < Bits
      BY <1>1, <1>3, <1>4 DEF Number, Cut
    <2>3. b.max_seq_num - (b.max_seq_num - n) = n
      BY <1>1 DEF Number
    <2>4. -cmp \notin b.map
      BY <2>2, <2>3 DEF Marks
    <2> QED
      BY <2>2, <2>4 DEF dtls1_record_replay_check
  <1> QED
    BY <1>2, <1>3

\* The updated window knows the new record and all it knew before, and no others.
LEMMA UpdateFacts ==
  ASSUME NEW b \in Windows, NEW n \in Number, NEW S \in SUBSET Number,
         Covers(b, S), Marks(b, S)
  PROVE  LET c == dtls1_record_bitmap_update(b, n) IN
         c \in Windows /\ Covers(c, S \cup {n}) /\ Marks(c, S \cup {n})
  <1> DEFINE cmp == satsub64be(n, b.max_seq_num)
             c == dtls1_record_bitmap_update(b, n)
             shifted == {0} \cup {d \in 0 .. Bits - 1 : d - cmp \in b.map}
  <1>1. b.max_seq_num \in Nat /\ Bits \in 1 .. 128 /\ n \in Nat /\ Cut(cmp, n, b.max_seq_num)
    BY ConstantAssumption, Difference DEF Windows, Number
  <1>2. b.map \subseteq 0 .. Bits - 1
    BY DEF Windows
  <1>3. CASE cmp > 0
    <2>1. c = [map |-> shifted, max_seq_num |-> n]
      BY <1>3 DEF dtls1_record_bitmap_update
    <2>2. n > b.max_seq_num /\ (cmp = n - b.max_seq_num \/ (n - b.max_seq_num > 128 /\ cmp = 128))
      BY <1>1, <1>3 DEF Cut
    <2>3. c \in Windows
      BY <1>1, <2>1 DEF Windows
    <2>4. Covers(c, S \cup {n})
      <3> SUFFICES ASSUME NEW t \in S \cup {n}
                   PROVE  t <= n /\ (n - t < Bits => n - t \in shifted)
        BY <2>1 DEF Covers
      <3>1. CASE t = n
        BY <1>1, <3>1
      <3>2. CASE t # n
        <4>1. t \in Nat /\ t <= b.max_seq_num
              /\ (b.max_seq_num - t < Bits => b.max_seq_num - t \in b.map)
          BY <3>2 DEF Covers, Number
        <4>2. SUFFICES ASSUME n - t < Bits PROVE n - t \in shifted
          BY <1>1, <2>2, <4>1
        <4>3. cmp = n - b.max_seq_num
          BY <1>1, <2>2, <4>1, <4>2
        <4>4. (n - t) - cmp = b.max_seq_num - t /\ b.max_seq_num - t < Bits /\ n - t \in 0 .. Bits - 1
          BY <1>1, <2>2, <4>1, <4>2, <4>3
        <4> QED
          BY <4>1, <4>4
      <3> QED
        BY <3>1, <3>2
    <2>5. Marks(c, S \cup {n})
      <3> SUFFICES ASSUME NEW d \in shifted PROVE n - d \in S \cup {n}
        BY <2>1 DEF Marks
      <3>1. CASE d = 0
        BY <1>1, <3>1
      <3>2. CASE d # 0
        <4>1. d \in 0 .. Bits - 1 /\ d - cmp \in b.map
          BY <3>2
        <4>2. d - cmp \in 0 .. Bits - 1
          BY <1>2, <4>1
        <4>3. cmp = n - b.max_seq_num
          BY <1>1, <2>2, <4>1, <4>2
        <4>4. b.max_seq_num - (d - cmp) = n - d
          BY <1>1, <4>1, <4>3
        <4> QED
          BY <4>1, <4>4 DEF Marks
      <3> QED
        BY <3>1, <3>2
    <2> QED
      BY <2>3, <2>4, <2>5
  <1>4. CASE ~(cmp > 0) /\ -cmp < Bits
    <2>1. c = [map |-> b.map \cup {-cmp}, max_seq_num |-> b.max_seq_num]
      BY <1>4 DEF dtls1_record_bitmap_update, Windows
    <2>2. n <= b.max_seq_num /\ -cmp = b.max_seq_num - n
      BY <1>1, <1>4 DEF Cut
    <2>3. c \in Windows
      BY <1>1, <1>4, <2>1, <2>2 DEF Windows
    <2>4. Covers(c, S \cup {n})
      BY <2>1, <2>2 DEF Covers
    <2>5. Marks(c, S \cup {n})
      <3> SUFFICES ASSUME NEW d \in b.map \cup {-cmp} PROVE b.max_seq_num - d \in S \cup {n}
        BY <2>1 DEF Marks
      <3>1. CASE d = -cmp
        BY <1>1, <2>2, <3>1
      <3>2. CASE d \in b.map
        BY <3>2 DEF Marks
      <3> QED
        BY <3>1, <3>2
    <2> QED
      BY <2>3, <2>4, <2>5
  <1>5. CASE ~(cmp > 0) /\ ~(-cmp < Bits)
    <2>1. c = b
      BY <1>5 DEF dtls1_record_bitmap_update
    <2>2. n <= b.max_seq_num /\ ~(b.max_seq_num - n < Bits)
      BY <1>1, <1>5 DEF Cut
    <2> QED
      BY <2>1, <2>2 DEF Covers, Marks
  <1> QED
    BY <1>3, <1>4, <1>5

-----------------------------------------------------------------------------
(* The steps.                                                              *)

LEMMA InitInv == Init => Inv
  <1> SUFFICES ASSUME Init PROVE Inv
    OBVIOUS
  <1>1. Empty \in Windows /\ Empty.map = {} /\ 0 \in Epoch /\ 0 \in Number
    BY ConstantAssumption DEF Empty, Windows, Number, Epoch
  <1>2. times \in [Epoch \X Number -> Nat] /\ \A e \in Epoch, n \in Number : times[<<e, n>>] = 0
    BY DEF Init
  <1>3. Taken = {}
    BY <1>1, <1>2 DEF Init, Taken
  <1>4. TypeOK
    <2>1. 0 \in 0 .. MaxEpoch + 1
      BY ConstantAssumption
    <2> QED
      BY <1>1, <1>2, <2>1 DEF Init, TypeOK, Windows
  <1>5. NoReplay
    BY DEF Init, NoReplay
  <1>6. Window
    BY <1>1, <1>3 DEF Init, Window, Covers, Marks
  <1>7. Future /\ Waiting /\ Kept
    BY <1>1, <1>2 DEF Init, Future, Waiting, Kept, Begun
  <1> QED
    BY <1>4, <1>5, <1>6, <1>7 DEF Inv

\* What TypeOK says, one by one.
LEMMA Types ==
  ASSUME TypeOK
  PROVE  /\ r_epoch \in Epoch /\ r_epoch \in Nat /\ bitmap \in Windows
         /\ unprocessed \in SUBSET (Epoch \X Number) /\ left \in SUBSET (Epoch \X Number)
         /\ unprocessed_epoch \in Nat /\ processed \in SUBSET Number
         /\ Taken \in SUBSET Number /\ times \in [Epoch \X Number -> Nat]
  BY ConstantAssumption DEF TypeOK, Windows, Epoch, Taken

\* Passing up a record changes one number.
LEMMA PassUpFacts ==
  ASSUME NEW e \in Epoch, NEW n \in Number, times \in [Epoch \X Number -> Nat], PassUp(e, n)
  PROVE  /\ times' \in [Epoch \X Number -> Nat]
         /\ times'[<<e, n>>] = times[<<e, n>>] + 1
         /\ \A f \in Epoch, k \in Number :
              <<f, k>> # <<e, n>> => times'[<<f, k>>] = times[<<f, k>>]
  BY DEF PassUp

\* A record kept has not been taken, unless it was left waiting; marking it adds it.
LEMMA ProcessInv ==
  ASSUME Inv, NEW r \in unprocessed, Begun, unprocessed' = unprocessed \ {r},
         Process(r, dtls1_record_bitmap_update(bitmap, r[2])),
         UNCHANGED <<r_epoch, next_bitmap, unprocessed_epoch, times>>
  PROVE  Inv'
  <1> USE DEF Inv
  <1> DEFINE n == r[2]
  <1>1. /\ r_epoch' = r_epoch /\ next_bitmap' = next_bitmap /\ times' = times
        /\ unprocessed_epoch' = unprocessed_epoch /\ stopped' = stopped /\ left' = left
        /\ processed' = processed \cup {n} /\ bitmap' = dtls1_record_bitmap_update(bitmap, n)
        /\ unprocessed' \subseteq unprocessed
    BY DEF Process
  <1>2. n \in Number /\ r = <<r_epoch, n>>
    <2>1. r \in Epoch \X Number
      BY Types
    <2> QED
      BY <2>1 DEF Process
  <1>3. n \in Taken => <<r_epoch, n>> \in left
    BY <1>2 DEF Kept
  <1> HIDE DEF n
  <1>4. Taken' = Taken \cup {n}
    BY <1>1, <1>2 DEF Taken
  <1>5. bitmap' \in Windows /\ Window'
    <2>1. bitmap \in Windows /\ Taken \in SUBSET Number
      BY Types
    <2>2. Covers(bitmap, Taken) /\ Marks(bitmap, Taken)
      BY DEF Window
    <2> QED
      BY <1>1, <1>2, <1>4, <2>1, <2>2, UpdateFacts DEF Window, Covers, Marks
  <1>6. TypeOK'
    BY <1>1, <1>2, <1>5 DEF TypeOK, Windows
  <1>7. NoReplay' /\ Future'
    BY <1>1 DEF NoReplay, Future
  <1>8. Waiting'
    <2>1. times[<<r_epoch, n>>] = 0 \/ <<r_epoch, n>> \in left
      <3>1. times[<<r_epoch, n>>] \in Nat
        BY <1>2, Types
      <3> QED
        BY <1>2, <1>3, <3>1 DEF Taken
    <2> QED
      BY <1>1, <2>1 DEF Waiting
  <1>9. Kept'
    <2> SUFFICES ASSUME NEW k \in Number, <<r_epoch, k>> \in unprocessed',
                        (Begun' /\ k \in Taken') \/ stopped'
                 PROVE  <<r_epoch, k>> \in left
      BY <1>1 DEF Kept
    <2>1. k # n /\ <<r_epoch, k>> \in unprocessed
      BY <1>2
    <2> QED
      BY <1>1, <1>4, <2>1 DEF Kept
  <1> QED
    BY <1>5, <1>6, <1>7, <1>8, <1>9

\* One that is dropped changes nothing; those behind it are left waiting.
LEMMA StopInv ==
  ASSUME Inv, NEW r \in unprocessed, Begun, unprocessed' = unprocessed \ {r}, Stop(r),
         UNCHANGED <<r_epoch, next_bitmap, unprocessed_epoch, times>>
  PROVE  Inv'
  <1> USE DEF Inv
  <1>1. /\ r_epoch' = r_epoch /\ next_bitmap' = next_bitmap /\ times' = times /\ bitmap' = bitmap
        /\ unprocessed_epoch' = unprocessed_epoch /\ processed' = processed /\ stopped' = TRUE
        /\ unprocessed' \subseteq unprocessed /\ left \subseteq left' /\ left' \subseteq left \cup unprocessed
        /\ \A n \in Number : <<r_epoch, n>> \in unprocessed' => <<r_epoch, n>> \in left'
    BY DEF Stop
  <1>2. Taken' = Taken
    BY <1>1 DEF Taken
  <1>3. TypeOK'
    BY <1>1 DEF TypeOK
  <1>4. NoReplay' /\ Window' /\ Future' /\ Waiting'
    BY <1>1, <1>2 DEF NoReplay, Window, Future, Waiting
  <1>5. Kept'
    BY <1>1, <1>2 DEF Kept
  <1> QED
    BY <1>3, <1>4, <1>5

\* Records are read with the rest of the queue left waiting, or with nothing in
\* it of this epoch that still would be gone through.
LEMMA SyncKept ==
  ASSUME TypeOK, Kept, Sync, UNCHANGED <<r_epoch, left>>, stopped' => stopped,
         \A n \in Number : <<r_epoch, n>> \in unprocessed' => <<r_epoch, n>> \in unprocessed
  PROVE  Kept'
  <1>1. r_epoch \in Nat /\ unprocessed_epoch \in Nat
    BY Types
  <1>2. unprocessed_epoch' <= r_epoch + 1 /\ (unprocessed_epoch' = r_epoch => unprocessed = {} \/ stopped)
    BY <1>1 DEF Kept, Begun, Sync
  <1>3. ASSUME NEW n \in Number, Begun' \/ stopped', <<r_epoch, n>> \in unprocessed'
        PROVE  <<r_epoch, n>> \in left
    <2>1. stopped /\ <<r_epoch, n>> \in unprocessed
      BY <1>2, <1>3 DEF Begun
    <2> QED
      BY <2>1 DEF Kept
  <1> QED
    BY <1>2, <1>3 DEF Kept

\* A record gone through is passed up, for the first time unless it was left waiting.
LEMMA GetProcessedInv ==
  ASSUME Inv, dtls1_get_processed_record
  PROVE  Inv'
  <1> USE DEF Inv
  <1>1. PICK n \in processed :
          processed' = processed \ {n} /\ PassUp(r_epoch, n)
    BY DEF dtls1_get_processed_record
  <1>2. /\ Sync /\ r_epoch' = r_epoch /\ bitmap' = bitmap
        /\ next_bitmap' = next_bitmap /\ unprocessed' = unprocessed /\ left' = left
        /\ stopped' = FALSE
    BY <1>1 DEF dtls1_get_processed_record, PassUp
  <1>3. /\ n \in Number /\ r_epoch \in Epoch /\ r_epoch \in Nat
        /\ times[<<r_epoch, n>>] = 0 \/ <<r_epoch, n>> \in left
    BY Types DEF Waiting
  <1>4. /\ times' \in [Epoch \X Number -> Nat]
        /\ times'[<<r_epoch, n>>] = times[<<r_epoch, n>>] + 1
        /\ \A f \in Epoch, k \in Number :
             <<f, k>> # <<r_epoch, n>> => times'[<<f, k>>] = times[<<f, k>>]
    <2>1. times \in [Epoch \X Number -> Nat]
      BY Types
    <2> QED
      BY <1>1, <1>3, <2>1, PassUpFacts
  <1>5. Taken' = Taken
    <2>1. ASSUME NEW k \in Number PROVE k \in Taken' <=> k \in Taken
      <3>1. CASE k = n
        <4>1. times[<<r_epoch, n>>] \in Nat
          BY <1>3, Types
        <4> QED
          BY <1>1, <1>2, <1>3, <1>4, <3>1, <4>1 DEF Taken
      <3>2. CASE k # n
        <4>1. times'[<<r_epoch, k>>] = times[<<r_epoch, k>>]
          BY <1>3, <1>4, <3>2
        <4> QED
          BY <1>1, <1>2, <3>2, <4>1 DEF Taken
      <3> QED
        BY <3>1, <3>2
    <2>2. Taken' \subseteq Number /\ Taken \subseteq Number
      BY <1>1, Types DEF Taken
    <2> QED
      BY <2>1, <2>2
  <1>6. TypeOK'
    <2>1. unprocessed_epoch' \in 0 .. MaxEpoch + 1
      BY <1>2, <1>3, ConstantAssumption DEF TypeOK, Sync, Epoch
    <2>2. processed' \subseteq Number /\ stopped' \in BOOLEAN
      BY <1>1, <1>2, Types
    <2> QED
      BY <1>2, <1>4, <2>1, <2>2 DEF TypeOK
  <1>7. NoReplay'
    <2> SUFFICES ASSUME NEW f \in Epoch, NEW k \in Number, <<f, k>> \notin left
                 PROVE  times'[<<f, k>>] <= 1
      BY <1>2 DEF NoReplay
    <2>1. times[<<f, k>>] <= 1
      BY DEF NoReplay
    <2>2. CASE f = r_epoch /\ k = n
      BY <1>3, <1>4, <2>2
    <2>3. CASE ~(f = r_epoch /\ k = n)
      <3>1. times'[<<f, k>>] = times[<<f, k>>]
        BY <1>3, <1>4, <2>3
      <3> QED
        BY <2>1, <3>1
    <2> QED
      BY <2>2, <2>3
  <1>8. Window'
    BY <1>2, <1>5 DEF Window
  <1>9. Future'
    BY <1>2, <1>3, <1>4 DEF Future
  <1>10. Waiting'
    <2> SUFFICES ASSUME NEW k \in processed, k # n
                 PROVE  times'[<<r_epoch, k>>] = 0 \/ <<r_epoch, k>> \in left
      BY <1>1, <1>2 DEF Waiting
    <2> QED
      BY <1>3, <1>4, Types DEF Waiting
  <1>11. Kept'
    BY <1>2, <1>5, SyncKept
  <1> QED
    BY <1>6, <1>7, <1>8, <1>9, <1>10, <1>11

\* A record that the window does not know is passed up for the first time, and
\* a new epoch begins with nothing taken.
LEMMA ReadInv ==
  ASSUME Inv, processed = {}, Sync, UNCHANGED <<processed, left>>,
         NEW n \in Number, dtls1_process_record(n)
  PROVE  Inv'
  <1> USE DEF Inv
  <1> DEFINE b == dtls1_record_bitmap_update(bitmap, n)
  <1>1. /\ dtls1_record_replay_check(bitmap, n) /\ PassUp(r_epoch, n)
        /\ unprocessed' = unprocessed /\ processed' = {} /\ left' = left /\ stopped' = FALSE
        /\ unprocessed_epoch' \in 0 .. r_epoch + 1
    BY Types DEF dtls1_process_record, PassUp, Kept, Sync
  <1>2. n \notin Taken /\ b \in Windows /\ Covers(b, Taken \cup {n}) /\ Marks(b, Taken \cup {n})
    BY <1>1, Types, CheckSound, UpdateFacts DEF Window
  <1>3. r_epoch \in Epoch /\ r_epoch \in Nat /\ times[<<r_epoch, n>>] = 0
    BY <1>2, Types DEF Taken
  <1>4. /\ times' \in [Epoch \X Number -> Nat]
        /\ times'[<<r_epoch, n>>] = 1
        /\ \A f \in Epoch, k \in Number :
             <<f, k>> # <<r_epoch, n>> => times'[<<f, k>>] = times[<<f, k>>]
    <2>1. times \in [Epoch \X Number -> Nat]
      BY Types
    <2>2. /\ times' \in [Epoch \X Number -> Nat]
          /\ times'[<<r_epoch, n>>] = times[<<r_epoch, n>>] + 1
          /\ \A f \in Epoch, k \in Number :
               <<f, k>> # <<r_epoch, n>> => times'[<<f, k>>] = times[<<f, k>>]
      BY <1>1, <1>3, <2>1, PassUpFacts
    <2>3. times'[<<r_epoch, n>>] = 1
      BY <1>3, <2>2
    <2> QED
      BY <2>2, <2>3, Zenon
  <1>5. NoReplay'
    <2> SUFFICES ASSUME NEW f \in Epoch, NEW k \in Number, <<f, k>> \notin left
                 PROVE  times'[<<f, k>>] <= 1
      BY <1>1 DEF NoReplay
    <2>1. times[<<f, k>>] <= 1
      BY DEF NoReplay
    <2> QED
      BY <1>4, <2>1
  <1>6. Waiting'
    BY <1>1 DEF Waiting
  <1>7. CASE bitmap' = b /\ UNCHANGED <<r_epoch, next_bitmap>>
    <2>1. Taken' = Taken \cup {n}
      <3>1. ASSUME NEW k \in Number PROVE k \in Taken' <=> k \in Taken \/ k = n
        BY <1>1, <1>3, <1>4, <1>7 DEF Taken
      <3>2. Taken' \subseteq Number /\ Taken \subseteq Number
        BY <1>1, Types DEF Taken
      <3> QED
        BY <3>1, <3>2
    <2>2. TypeOK'
      <3>1. unprocessed_epoch' \in 0 .. MaxEpoch + 1
        BY <1>1, <1>3, ConstantAssumption DEF Epoch
      <3>2. {bitmap', next_bitmap'} \subseteq Windows
        BY <1>2, <1>7 DEF TypeOK, Windows
      <3> QED
        BY <1>1, <1>4, <1>7, <3>1, <3>2 DEF TypeOK, Windows
    <2>3. Window'
      BY <1>2, <1>7, <2>1 DEF Window, Covers, Marks
    <2>4. Future'
      <3> SUFFICES ASSUME NEW f \in Epoch, NEW k \in Number, f > r_epoch PROVE times'[<<f, k>>] = 0
        BY <1>7 DEF Future
      <3>1. <<f, k>> # <<r_epoch, n>>
        BY <1>3
      <3> QED
        BY <1>4, <3>1 DEF Future
    <2>5. Kept'
      BY <1>1, <1>7, SyncKept
    <2> QED
      BY <1>5, <1>6, <2>2, <2>3, <2>4, <2>5
  <1>8. CASE r_epoch < MaxEpoch /\ r_epoch' = r_epoch + 1 /\ bitmap' = next_bitmap /\ next_bitmap' = Empty
    <2>1. r_epoch' \in Epoch /\ r_epoch' \in Nat /\ r_epoch' > r_epoch
      BY <1>3, <1>8, ConstantAssumption DEF Epoch
    <2>2. Taken' = {}
      <3> SUFFICES ASSUME NEW k \in Number PROVE times'[<<r_epoch', k>>] = 0
        BY <1>1 DEF Taken
      <3>1. times[<<r_epoch', k>>] = 0
        BY <2>1 DEF Future
      <3> QED
        BY <1>3, <1>4, <2>1, <3>1
    <2>3. Empty \in Windows /\ Empty.map = {} /\ bitmap' = Empty /\ next_bitmap' = Empty
      BY <1>8, ConstantAssumption DEF Window, Empty, Windows, Number
    <2>4. TypeOK'
      <3>1. unprocessed_epoch' \in 0 .. MaxEpoch + 1
        BY <1>1, <1>3, ConstantAssumption DEF Epoch
      <3> QED
        BY <1>1, <1>4, <2>1, <2>3, <3>1 DEF TypeOK, Windows
    <2>5. Window'
      BY <2>2, <2>3 DEF Window, Covers, Marks
    <2>6. Future'
      <3> SUFFICES ASSUME NEW f \in Epoch, NEW k \in Number, f > r_epoch' PROVE times'[<<f, k>>] = 0
        BY DEF Future
      <3>1. f > r_epoch
        BY <1>3, <2>1 DEF Epoch
      <3> QED
        BY <1>3, <1>4, <3>1 DEF Future
    <2>7. Kept'
      BY <1>1, <1>3, <1>8, <2>2 DEF Kept
    <2> QED
      BY <1>5, <1>6, <2>4, <2>5, <2>6, <2>7
  <1> QED
    BY <1>1, <1>7, <1>8 DEF dtls1_process_record

\* One that is kept or discarded leaves the window alone, and so does a call
\* that finds none.
LEMMA KeepInv ==
  ASSUME Inv, Sync, UNCHANGED <<r_epoch, bitmap, next_bitmap, times, processed, left>>,
         stopped' \in BOOLEAN, stopped' => stopped,
         \/ UNCHANGED unprocessed
         \/ \E n \in Number : r_epoch + 1 \in Epoch /\ unprocessed' = unprocessed \cup {<<r_epoch + 1, n>>}
  PROVE  Inv'
  <1> USE DEF Inv
  <1>1. Taken' = Taken /\ r_epoch \in Epoch /\ r_epoch \in Nat
    BY Types DEF Taken
  <1>2. /\ unprocessed' \in SUBSET (Epoch \X Number)
        /\ \A n \in Number : <<r_epoch, n>> \in unprocessed' => <<r_epoch, n>> \in unprocessed
    BY <1>1, Types
  <1>3. Kept'
    BY <1>2, SyncKept
  <1>4. unprocessed_epoch' \in 0 .. MaxEpoch + 1
    BY <1>1, ConstantAssumption DEF TypeOK, Sync, Epoch
  <1>5. TypeOK'
    BY <1>2, <1>4 DEF TypeOK
  <1>6. NoReplay' /\ Window' /\ Future' /\ Waiting'
    BY <1>1 DEF NoReplay, Window, Future, Waiting
  <1> QED
    BY <1>3, <1>5, <1>6

LEMMA NextInv == Inv /\ [Next]_vars => Inv'
  <1> SUFFICES ASSUME Inv, [Next]_vars PROVE Inv'
    OBVIOUS
  <1>1. CASE dtls1_process_buffered_records
    BY <1>1, ProcessInv, StopInv DEF dtls1_process_buffered_records
  <1>2. CASE dtls1_get_processed_record
    BY <1>2, GetProcessedInv
  <1>3. CASE \E e \in Epoch, n \in Number : dtls1_get_record(e, n)
    <2>1. PICK e \in Epoch, n \in Number : dtls1_get_record(e, n)
      BY <1>3
    <2>2. CASE dtls1_process_record(n)
      BY <2>1, <2>2, ReadInv DEF dtls1_get_record
    <2>3. stopped \in BOOLEAN
      BY DEF Inv, TypeOK
    <2>4. CASE dtls1_buffer_record(n) /\ e = r_epoch + 1
      BY <2>1, <2>3, <2>4, KeepInv DEF dtls1_get_record, dtls1_buffer_record
    <2>5. CASE discard
      BY <2>1, <2>3, <2>5, KeepInv DEF dtls1_get_record, discard
    <2> QED
      BY <2>1, <2>2, <2>4, <2>5 DEF dtls1_get_record
  <1>5. CASE nothing
    BY <1>5, KeepInv DEF nothing
  <1>4. CASE UNCHANGED vars
    BY <1>4 DEF vars, Inv, TypeOK, NoReplay, Window, Covers, Marks, Taken, Future, Waiting,
                Kept, Begun
  <1> QED
    BY <1>1, <1>2, <1>3, <1>4, <1>5 DEF Next

\* The inductive invariant holds in every reachable state.
THEOREM Invariance == Spec => []Inv
  BY InitInv, NextInv, PTL DEF Spec

\* The windows, queues and counters of dtls1_get_record keep their types.
THEOREM Typing == Spec => []TypeOK
  <1>1. Inv => TypeOK
    BY DEF Inv
  <1> QED
    BY <1>1, Invariance, PTL

\* dtls1_get_record passes no record up twice, whatever the network repeats,
\* whether a record was kept for its epoch or not, but for those that
\* dtls1_process_buffered_records leaves waiting behind a damaged one.
THEOREM Once == Spec => []NoReplay
  <1>1. Inv => NoReplay
    BY DEF Inv
  <1> QED
    BY <1>1, Invariance, PTL

\* dtls1_record_replay_check refuses no record that is new and not older than
\* the window.
THEOREM Accepted == Spec => []NothingRefused
  <1>1. Inv => NothingRefused
    <2> SUFFICES ASSUME Inv, NEW n \in Number, times[<<r_epoch, n>>] = 0, n \notin processed,
                        n + Bits > bitmap.max_seq_num
                 PROVE  dtls1_record_replay_check(bitmap, n)
      BY DEF NothingRefused
    <2>1. n \notin Taken
      BY DEF Taken
    <2> QED
      BY <2>1, Types, CheckComplete DEF Inv, Window
  <1> QED
    BY <1>1, Invariance, PTL
=============================================================================
