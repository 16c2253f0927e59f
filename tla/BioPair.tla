------------------------------- MODULE BioPair -------------------------------
(***************************************************************************)
(* BIO pairs, crypto/bio/bss_bio.c: two BIOs joined so that what is written *)
(* to one is read from the other.  Each end owns the ring buffer for what  *)
(* is written to it; reading works on the peer's.  An SSL object at one    *)
(* end and an application that moves bytes to and from a socket at the     *)
(* other call in any order, so every interleaving of calls is one to       *)
(* expect.  place[x] is what the application at x has stored where         *)
(* BIO_nwrite0 told it to and not handed over with BIO_nwrite.             *)
(***************************************************************************)
EXTENDS Naturals, Sequences

CONSTANTS
  Bio,       \* the BIOs
  Byte,      \* the bytes written
  Sizes,     \* the buffer sizes asked for
  Default,   \* the size bio_new gives
  MaxAsk,    \* the most bytes one call asks for
  Writers,   \* the BIOs that are written to
  Careful,   \* no read empties a buffer in which bytes are being built
  NoBio,     \* NULL
  Junk       \* a byte nobody has written

ASSUME ConstantAssumption ==
  /\ Sizes \subseteq Nat \ {0} /\ Default \in Sizes
  /\ MaxAsk \in Nat /\ Writers \subseteq Bio /\ Careful \in BOOLEAN
  /\ NoBio \notin Bio /\ Junk \notin Byte

VARIABLES
  bio,     \* the struct bio_bio_st of each BIO, with init of the BIO itself
  place,   \* bytes stored in place and not handed over
  data,    \* the bytes the last call returned
  live     \* the BIOs that exist

vars == <<bio, place, data, live>>

Least(a, b) == IF a < b THEN a ELSE b

\* A buffer that is not there is the empty function.
NoBuf == <<>>
Buffer(n) == [0 .. n - 1 -> Byte \cup {Junk}]
malloc(n) == [i \in 0 .. n - 1 |-> Junk]

\* bio_new leaves closed, len, offset and request as they come from malloc.
Fresh == [peer : {NoBio}, init : {FALSE}, closed : BOOLEAN, len : 0 .. 1, offset : 0 .. 1,
          size : {Default}, buf : {NoBuf}, request : 0 .. 1]

Init ==
  /\ bio \in [Bio -> Fresh]
  /\ place = [x \in Bio |-> <<>>]
  /\ data = <<>>
  /\ live = Bio

-----------------------------------------------------------------------------
(* The ring buffer.  The loops of bio_write and bio_read run once, or twice *)
(* when they wrap around.                                                  *)

First(s, n) == SubSeq(s, 1, n)
Rest(s, n) == SubSeq(s, n + 1, Len(s))

\* Mutant: no wrap-around.
WriteOffset_NoWrap(b) == b.offset + b.len

WriteOffset(b) ==
  IF b.offset + b.len >= b.size THEN b.offset + b.len - b.size ELSE b.offset + b.len

Space(b) == b.size - b.len
WriteChunk(b) == Least(Space(b), b.size - WriteOffset(b))
ReadChunk(b) == Least(b.len, b.size - b.offset)

Stored(b, w) ==
  [i \in DOMAIN b.buf |->
     IF i \in WriteOffset(b) .. WriteOffset(b) + Len(w) - 1
     THEN w[i - WriteOffset(b) + 1] ELSE b.buf[i]]

Put(b, w) == [b EXCEPT !.buf = Stored(b, w), !.len = b.len + Len(w)]

Fill(b, w) ==
  IF Len(w) <= WriteChunk(b) THEN Put(b, w)
  ELSE Put(Put(b, First(w, WriteChunk(b))), Rest(w, WriteChunk(b)))

Bytes(b, n) == [i \in 1 .. n |-> b.buf[b.offset + i - 1]]

\* Mutant: the offset stays where it is when the buffer is emptied.
Advance_Stay(b, n) ==
  [b EXCEPT !.len = b.len - n,
            !.offset = IF b.offset + n = b.size THEN 0 ELSE b.offset + n]

Advance(b, n) ==
  [b EXCEPT !.len = b.len - n,
            !.offset = IF b.len = n \/ b.offset + n = b.size THEN 0 ELSE b.offset + n]

Drained(b, n) ==
  IF n <= ReadChunk(b) THEN Advance(b, n)
  ELSE Advance(Advance(b, ReadChunk(b)), n - ReadChunk(b))

BytesRead(b, n) ==
  IF n <= ReadChunk(b) THEN Bytes(b, n)
  ELSE Bytes(b, ReadChunk(b)) \o Bytes(Advance(b, ReadChunk(b)), n - ReadChunk(b))

-----------------------------------------------------------------------------
(* Reading.                                                                *)

Ready(x) == x \in live /\ bio[x].init
Source(x) == bio[bio[x].peer]
Set(x, b) == bio' = [bio EXCEPT ![x] = b]
NoData == data' = <<>> /\ UNCHANGED <<place, live>>

\* What the reader is left wanting: nothing when there is data or the writer
\* has closed, and no more than one write can deliver.
Asks(b, n) == IF b.len # 0 \/ b.closed THEN 0 ELSE Least(n, b.size)

\* An application that is careful does not let a read empty the buffer while
\* bytes are being built in it: that moves the place they are to be at.
Calm(x, n) == ~Careful \/ place[bio[x].peer] = <<>> \/ n < Source(x).len

bio_read(x, n) ==
  /\ Ready(x)
  /\ LET b == Source(x)
         m == Least(n, b.len)
     IN /\ Calm(x, m) \/ m = 0
        /\ Set(bio[x].peer, [Drained(b, m) EXCEPT !.request = Asks(b, n)])
        /\ data' = BytesRead(b, m)
  /\ UNCHANGED <<place, live>>

\* BIO_nread0 looks for one byte when there is none.
bio_nread0(x) ==
  /\ Ready(x)
  /\ Set(bio[x].peer, [Source(x) EXCEPT !.request = Asks(Source(x), 1)])
  /\ NoData

bio_nread(x, n) ==
  /\ Ready(x) /\ Source(x).len # 0
  /\ LET b == Source(x)
         m == Least(n, ReadChunk(b))
     IN /\ Calm(x, m)
        /\ Set(bio[x].peer, [Advance(b, m) EXCEPT !.request = 0])
        /\ data' = Bytes(b, m)
  /\ UNCHANGED <<place, live>>

-----------------------------------------------------------------------------
(* Writing.                                                                *)

Broken(b) == b.closed \/ b.len = b.size

\* Broken pipe or a full buffer: bio_write and bio_nwrite0 return -1.
write_refused(x) ==
  /\ Ready(x) /\ Broken(bio[x])
  /\ Set(x, [bio[x] EXCEPT !.request = 0])
  /\ NoData

bio_write(x, w) ==
  /\ Ready(x) /\ ~Broken(bio[x]) /\ place[x] = <<>>
  /\ LET n == Least(Len(w), Space(bio[x]))
     IN Set(x, [Fill(bio[x], First(w, n)) EXCEPT !.request = 0])
  /\ NoData

\* The application then stores w at the pointer it is given.
bio_nwrite0(x, w) ==
  /\ Ready(x) /\ ~Broken(bio[x]) /\ place[x] = <<>>
  /\ Len(w) <= WriteChunk(bio[x])
  /\ Set(x, [bio[x] EXCEPT !.buf = Stored(bio[x], w), !.request = 0])
  /\ place' = [place EXCEPT ![x] = w]
  /\ data' = <<>> /\ UNCHANGED live

bio_nwrite(x, n) ==
  /\ Ready(x) /\ n <= Len(place[x])
  /\ LET k == Least(n, WriteChunk(bio[x]))
     IN /\ Set(x, [bio[x] EXCEPT !.len = bio[x].len + k, !.request = 0])
        /\ place' = [place EXCEPT ![x] = Rest(place[x], k)]
  /\ data' = <<>> /\ UNCHANGED live

-----------------------------------------------------------------------------
(* bio_ctrl and the pairing.  What is being built in a buffer is given up   *)
(* when the buffer is closed, reset or parted.                             *)

Forget(xs) ==
  /\ place' = [x \in Bio |-> IF x \in xs THEN <<>> ELSE place[x]]
  /\ data' = <<>>

set_write_buf_size(x, n) ==
  /\ x \in live /\ bio[x].peer = NoBio
  /\ Set(x, [bio[x] EXCEPT !.size = n, !.buf = IF bio[x].size = n THEN bio[x].buf ELSE NoBuf])
  /\ NoData

reset_read_request(x) == x \in live /\ Set(x, [bio[x] EXCEPT !.request = 0]) /\ NoData

shutdown_wr(x) ==
  /\ x \in live
  /\ Set(x, [bio[x] EXCEPT !.closed = TRUE])
  /\ Forget({x}) /\ UNCHANGED live

ctrl_reset(x) ==
  /\ x \in live /\ bio[x].buf # NoBuf
  /\ Set(x, [bio[x] EXCEPT !.len = 0, !.offset = 0])
  /\ Forget({x}) /\ UNCHANGED live

Allocated(b) ==
  IF b.buf = NoBuf THEN [b EXCEPT !.buf = malloc(b.size), !.len = 0, !.offset = 0] ELSE b

Linked(b, y) ==
  [Allocated(b) EXCEPT !.peer = y, !.init = TRUE, !.closed = FALSE, !.request = 0]

bio_make_pair(x, y) ==
  /\ {x, y} \subseteq live /\ bio[x].peer = NoBio /\ bio[y].peer = NoBio
  /\ bio' = [bio EXCEPT ![x] = Linked(bio[x], y), ![y] = Linked(bio[y], x)]
  /\ NoData

\* The second malloc fails: the first buffer stays.
make_pair_fails(x) ==
  /\ x \in live /\ bio[x].peer = NoBio
  /\ Set(x, Allocated(bio[x]))
  /\ NoData

\* Mutant: only the caller's end is cleared.
Parted_Full(b) == [b EXCEPT !.peer = NoBio, !.init = FALSE]

Parted(b) == [b EXCEPT !.peer = NoBio, !.init = FALSE, !.len = 0, !.offset = 0]
Pair(x) == {x, bio[x].peer}

bio_destroy_pair(x) ==
  /\ x \in live /\ bio[x].peer # NoBio
  /\ bio' = [e \in Bio |-> IF e \in Pair(x) THEN Parted(bio[e]) ELSE bio[e]]
  /\ Forget(Pair(x)) /\ UNCHANGED live

bio_free(x) ==
  /\ x \in live
  /\ bio' = [e \in Bio |->
       IF e = x THEN [Parted(bio[e]) EXCEPT !.buf = NoBuf]
       ELSE IF e = bio[x].peer THEN Parted(bio[e]) ELSE bio[e]]
  /\ Forget(Pair(x))
  /\ live' = live \ {x}

bio_new(x) ==
  /\ x \in Bio \ live
  /\ \E b \in Fresh : Set(x, b)
  /\ live' = live \cup {x}
  /\ data' = <<>> /\ UNCHANGED place

-----------------------------------------------------------------------------
Words(n) == [1 .. n -> Byte]

Next ==
  \/ \E x \in Writers, n \in 1 .. MaxAsk :
       \E w \in Words(n) : bio_write(x, w) \/ bio_nwrite0(x, w)
  \/ \E x \in Bio, n \in 1 .. MaxAsk : bio_read(x, n) \/ bio_nread(x, n) \/ bio_nwrite(x, n)
  \/ \E x \in Bio : bio_nread0(x) \/ write_refused(x)
  \/ \E x \in Bio : reset_read_request(x) \/ shutdown_wr(x) \/ ctrl_reset(x)
  \/ \E x \in Bio, n \in Sizes : set_write_buf_size(x, n)
  \/ \E x, y \in Bio : bio_make_pair(x, y)
  \/ \E x \in Bio : make_pair_fails(x) \/ bio_destroy_pair(x) \/ bio_free(x) \/ bio_new(x)

Spec == Init /\ [][Next]_vars

-----------------------------------------------------------------------------
(* Properties.                                                             *)

\* The bytes on their way, in the order in which bio_read returns them.
Contents(b) ==
  [i \in 1 .. b.len |->
     b.buf[IF b.offset + i - 1 >= b.size THEN b.offset + i - 1 - b.size ELSE b.offset + i - 1]]

Buffers == {NoBuf} \cup UNION {Buffer(n) : n \in Sizes}
Struct == [peer : Bio \cup {NoBio}, init : BOOLEAN, closed : BOOLEAN, len : Nat, offset : Nat,
           size : Sizes, buf : Buffers, request : Nat]

\* Every field has its type, and every buffer the length of its size.
TypeOK ==
  /\ bio \in [Bio -> Struct]
  /\ \A x \in Bio : bio[x].buf = NoBuf \/ bio[x].buf \in Buffer(bio[x].size)
  /\ place \in [Bio -> Seq(Byte)]
  /\ data \in Seq(Byte \cup {Junk})
  /\ live \subseteq Bio

\* The comments in struct bio_bio_st: peer points back, and is there iff init
\* and buf are; where the fields are valid, offset is 0 if len is, request is 0
\* if len is not, and never more than the buffer space.
Sound(b) ==
  /\ b.offset < b.size /\ b.len <= b.size
  /\ b.len = 0 => b.offset = 0

Wanted(b) == (b.len # 0 => b.request = 0) /\ b.request <= b.size - b.len

Documented ==
  \A x \in Bio :
    LET b == bio[x] IN
    /\ b.init <=> b.peer # NoBio
    /\ b.peer # NoBio => {x, b.peer} \subseteq live /\ bio[b.peer].peer = x /\ b.buf # NoBuf
    /\ b.buf # NoBuf => Sound(b)
    /\ b.buf # NoBuf /\ b.peer = NoBio => b.len = 0
    /\ b.peer # NoBio => Wanted(b)

\* BIO_ctrl_get_write_guarantee bytes can be written at once, or with two calls
\* of BIO_nwrite.
get_write_guarantee(b) == IF b.peer = NoBio \/ b.closed THEN 0 ELSE b.size - b.len
GuaranteeKept ==
  \A x \in Bio :
    LET b == bio[x]
        one == [b EXCEPT !.len = b.len + WriteChunk(b)]
    IN get_write_guarantee(b) > 0 =>
         /\ ~Broken(b)
         /\ WriteChunk(b) + (IF Broken(one) THEN 0 ELSE WriteChunk(one)) = get_write_guarantee(b)

\* The pair is two byte queues: what is read is what was written, in order, and
\* nothing of an earlier pair.  A field that means nothing without a peer
\* stands for its first value.
Joined(x) == bio[x].peer # NoBio
Queues == INSTANCE Pipe WITH
            End <- Bio, Caps <- Sizes, Nobody <- NoBio,
            peer <- [x \in Bio |-> bio[x].peer],
            queue <- [x \in Bio |-> IF Joined(x) THEN Contents(bio[x]) ELSE <<>>],
            staged <- place,
            closed <- [x \in Bio |-> Joined(x) /\ bio[x].closed],
            cap <- [x \in Bio |-> bio[x].size]
ImplementsPipe == Queues!Spec
=============================================================================
