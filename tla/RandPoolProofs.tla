--------------------------- MODULE RandPoolProofs ---------------------------
(***************************************************************************)
(* Proofs about RandPool, for any number of threads, calls, nested calls   *)
(* and blocks: only the holder of CRYPTO_LOCK_RAND is inside the pool, no  *)
(* counter is used by two calls, and no input is lost.                     *)
(***************************************************************************)
EXTENDS RandPool, TLAPS

\* The places the three functions come through.
Where(t) ==
  /\ Nested(t) => /\ api[t] # "add" /\ (back[t] = "stir" => api[t] = "bytes")
                  /\ pc[t] \in {"check", "compare", "copy", "count", "unlock", "mix", "mixed", "leave"}
  /\ pc[t] \in {"id", "flag", "poll", "clear"} => api[t] # "add"
  /\ pc[t] = "stir" => api[t] = "bytes"
  /\ ~Nested(t) /\ pc[t] \in {"copy", "count", "relock", "mix", "mixed", "leave"} => api[t] # "status"

\* A call of the application always locks, a nested one never.
Skipping(t) ==
  /\ 0 \notin do_not_lock[t]
  /\ Nested(t) /\ pc[t] \notin {"check", "compare"} => 1 \in do_not_lock[t]

\* Between setting crypto_lock_rand and clearing it.
Flagged(t) ==
  \/ pc[t] \in {"poll", "stir", "clear"} \/ Nested(t)
  \/ api[t] = "bytes" /\ pc[t] \in {"copy", "count"}

\* The holder knows the flag; nobody else finds the flag set and its own id.
Owner(t) ==
  /\ lock = t => visible[t] = {crypto_lock_rand} /\ (crypto_lock_rand = 1 <=> Flagged(t))
  /\ lock = t /\ (Flagged(t) \/ pc[t] = "flag") => locking_threadid = t
  /\ 1 \in visible[t] /\ locking_threadid = t => lock = t
  /\ pc[t] = "compare" /\ ~Nested(t) => locking_threadid # t

\* What is said of each thread.
Kept(t) == Where(t) /\ Skipping(t) /\ Owner(t) /\ (lock = t <=> Inside(t))

\* The flag is clear when nobody holds the lock.
Free == lock = NoThread => crypto_lock_rand = 0

Control == Free /\ \A t \in Thread : Kept(t)

\* The counters of an entry are behind md_count.
Past(d) ==
  /\ d.from[1] <= md_count[1]
  /\ d.from[1] = md_count[1] => d.from[2] + d.blocks <= md_count[2]

\* All are, but for those of a call that has copied them and not yet counted.
Counted ==
  /\ \A t \in Thread :
       pc[t] = "count" => mine[t] \in DOMAIN drawn /\ drawn[mine[t]].from = md_count
  /\ \A i \in DOMAIN drawn :
       Past(drawn[i]) \/ \E t \in Thread : pc[t] = "count" /\ mine[t] = i

\* Between copying the counters and mixing its digest in, a call has one.
Holds(t) ==
  \/ pc[t] \in {"count", "relock", "mix", "mixed"}
  \/ pc[t] \in {"clear", "unlock"} /\ (Nested(t) \/ api[t] # "status")

\* Digests are those of calls.
Named ==
  /\ md \subseteq DOMAIN drawn
  /\ \A t \in Thread : Holds(t) => mine[t] \in DOMAIN drawn /\ local_md[t] \subseteq DOMAIN drawn

Inv == TypeOK /\ Control /\ Named /\ Counted /\ Unique

\* A digest not yet mixed in is one of its own, which the pool's does not have.
Own(t) == local_md[t] = {mine[t]} /\ mine[t] \notin md

Sown ==
  /\ \A c \in DOMAIN drawn : c \in drawn[c].of
  /\ \A t \in Thread : Holds(t) /\ pc[t] # "mixed" => Own(t)
  /\ \A t, u \in Thread : t # u /\ Holds(t) /\ Holds(u) => mine[t] # mine[u]

\* A thread that has read the pool's digest still has all of it.
Carries(t) ==
  /\ local_md[t] \subseteq md \cup {mine[t]}
  /\ Within(md) \cup {mine[t]} \subseteq Within(local_md[t])

Mixing == \A t \in Thread : pc[t] = "mixed" => Carries(t)

Digests == Sown /\ Mixing /\ NothingLost

-----------------------------------------------------------------------------
(* Types.                                                                  *)

LEMMA InitInv == Init => Inv
  <1> SUFFICES ASSUME Init PROVE Inv
    OBVIOUS
  <1>1. TypeOK
    BY DEF Init, TypeOK, Place
  <1>2. Control
    BY ConstantAssumption
    DEF Init, Control, Free, Kept, Where, Skipping, Owner, Flagged, Inside, Nested
  <1>3. Named /\ Counted /\ Unique
    BY DEF Init, Named, Holds, Counted, Unique
  <1> QED
    BY <1>1, <1>2, <1>3 DEF Inv

LEMMA CallType ==
  ASSUME TypeOK, NEW t \in Thread, RAND_add(t) \/ RAND_status(t) \/ RAND_bytes(t)
  PROVE  TypeOK'
  <1>1. PICK f \in {"add", "status", "bytes"}, p \in Place : Call(t, f, p)
    BY DEF RAND_add, RAND_status, RAND_bytes, Place
  <1> QED
    BY <1>1, ConstantAssumption DEF TypeOK, Call, flag, pool, history

LEMMA CheckType ==
  ASSUME TypeOK, NEW t \in Thread, check(t) \/ compare(t)
  PROVE  TypeOK'
  <1>1. PICK p \in Place : Goto(t, p)
    BY DEF check, compare, Compared, Place
  <1>2. do_not_lock' \in [Thread -> SUBSET {0, 1}]
    <2>1. Depth(t) \in {0, 1}
      BY DEF Depth
    <2>2. /\ do_not_lock[t] \ {Depth(t)} \in SUBSET {0, 1}
          /\ do_not_lock[t] \cup {Depth(t)} \in SUBSET {0, 1}
      BY <2>1 DEF TypeOK
    <2>3. \E s \in SUBSET {0, 1} : do_not_lock' = [do_not_lock EXCEPT ![t] = s]
      BY <2>2 DEF check, compare, Compared
    <2> QED
      BY <2>3 DEF TypeOK
  <1>3. UNCHANGED <<lock, flag, pool, ok, mine, local_md, history, calls>>
    BY DEF check, compare, Compared
  <1> QED
    BY <1>1, <1>2, <1>3 DEF TypeOK, Goto, flag, pool, history

LEMMA LockType ==
  ASSUME TypeOK, NEW t \in Thread, w_lock(t) \/ unlock(t)
  PROVE  TypeOK'
  <1>1. PICK p \in Place : Goto(t, p)
    BY DEF w_lock, unlock, Place
  <1>2. lock' \in Thread \cup {NoThread}
    BY DEF TypeOK, w_lock, unlock, Release
  <1>3. visible' \in [Thread -> SUBSET {0, 1}]
    <2>1. {crypto_lock_rand} \in SUBSET {0, 1}
      BY DEF TypeOK
    <2> QED
      BY <2>1 DEF TypeOK, w_lock, unlock, flag
  <1>4. UNCHANGED <<crypto_lock_rand, locking_threadid, pool, locals, history, calls>>
    BY DEF w_lock, unlock, flag
  <1> QED
    BY <1>1, <1>2, <1>3, <1>4 DEF TypeOK, Goto, pool, locals, history

LEMMA FlagType ==
  ASSUME TypeOK, NEW t \in Thread, set_id(t) \/ set_flag(t) \/ clear(t)
  PROVE  TypeOK'
  <1>1. PICK p \in Place : Goto(t, p)
    BY DEF set_id, set_flag, clear, Place
  <1>2. CASE set_id(t)
    BY <1>1, <1>2 DEF TypeOK, set_id, Goto, pool, locals, history
  <1>3. CASE \E v \in {0, 1} : Write(t, v)
    <2>1. PICK v \in {0, 1} : Write(t, v)
      BY <1>3
    <2>2. \A u \in Thread : {v} \in SUBSET {0, 1} /\ visible[u] \cup {v} \in SUBSET {0, 1}
      BY DEF TypeOK
    <2>3. visible' \in [Thread -> SUBSET {0, 1}]
      BY <2>1, <2>2 DEF Write
    <2> QED
      BY <1>1, <2>1, <2>3 DEF TypeOK, Goto, Write, pool, locals, history
  <1> QED
    BY <1>2, <1>3 DEF set_flag, clear

LEMMA PollType ==
  ASSUME TypeOK, NEW t \in Thread, poll(t) \/ stir(t)
  PROVE  TypeOK'
  <1>1. CASE NestedAdd(t) /\ pc[t] \in {"poll", "stir"}
    <2>1. rest[t] - 1 \in Nat
      BY <1>1 DEF TypeOK, NestedAdd
    <2> QED
      BY <1>1, <2>1 DEF TypeOK, Place, NestedAdd, flag, pool, locals, history
  <1>2. CASE Polled(t) /\ api[t] = "bytes"
    <2>1. entropy' \in Nat
      BY <1>2 DEF TypeOK, Polled, Estimate, Less
    <2>2. ok' \in [Thread -> {0, 1}]
      BY <1>2 DEF TypeOK, Polled, Estimate
    <2>3. rest' \in [Thread -> Nat]
      BY <1>2, ConstantAssumption DEF TypeOK, Polled, Estimate
    <2>4. pc' \in [Thread -> Place]
      BY <1>2 DEF TypeOK, Place, Polled, Estimate
    <2> QED
      BY <1>2, <2>1, <2>2, <2>3, <2>4 DEF TypeOK, Polled, Estimate, flag, history
  <1>3. CASE Polled(t) /\ api[t] # "bytes"
    <2>1. PICK p \in Place : Goto(t, p)
      BY <1>3 DEF Polled, Place
    <2> QED
      BY <1>3, <2>1 DEF TypeOK, Polled, Goto, flag, history
  <1>4. CASE stir(t) /\ ~NestedAdd(t)
    <2>1. stirred_pool' \in {0, 1} /\ Goto(t, "copy")
      BY <1>4 DEF TypeOK, stir
    <2> QED
      BY <1>4, <2>1 DEF TypeOK, Place, stir, Goto, flag, locals, history
  <1> QED
    BY <1>1, <1>2, <1>3, <1>4 DEF poll, stir

LEMMA WithinType ==
  ASSUME TypeOK, Named
  PROVE  Within(md) \in SUBSET Nat
  <1>1. \A c \in md : drawn[c] \in Entry
    BY DEF TypeOK, Named
  <1>2. \A c \in md : drawn[c].of \in SUBSET Nat
    BY <1>1 DEF Entry
  <1> QED
    BY <1>2 DEF Within

\* The output's digest comes to depend on the pool's; no other entry changes.
LEMMA MixDrawn ==
  ASSUME TypeOK, Named, NEW t \in Thread, NEW m, Mix(t, m)
  PROVE  /\ drawn' \in Seq(Entry) /\ DOMAIN drawn' = DOMAIN drawn
         /\ \A c \in DOMAIN drawn : drawn'[c].from = drawn[c].from /\ drawn'[c].blocks = drawn[c].blocks
         /\ \A c \in DOMAIN drawn : c # mine[t] \/ Adding(t) => drawn'[c].of = drawn[c].of
         /\ ~Adding(t) => drawn'[mine[t]].of = drawn[mine[t]].of \cup Within(md)
  <1>1. mine[t] \in DOMAIN drawn
    BY DEF Named, Holds, Mix
  <1>2. \A c \in DOMAIN drawn : drawn[c] \in Entry
    BY DEF TypeOK
  <1>3. CASE Adding(t)
    BY <1>3 DEF Mix, TypeOK
  <1>4. CASE ~Adding(t)
    <2> DEFINE e == [drawn[mine[t]] EXCEPT !.of = @ \cup Within(md)]
    <2>1. drawn' = [drawn EXCEPT ![mine[t]] = e]
      BY <1>4 DEF Mix
    <2>2. Within(md) \in SUBSET Nat
      BY WithinType
    <2>3. /\ e \in Entry /\ e.from = drawn[mine[t]].from /\ e.blocks = drawn[mine[t]].blocks
          /\ e.of = drawn[mine[t]].of \cup Within(md)
      BY <1>1, <1>2, <2>2 DEF Entry
    <2> HIDE DEF e
    <2>4. drawn' \in Seq(Entry) /\ DOMAIN drawn' = DOMAIN drawn
      BY <1>1, <2>1, <2>3 DEF TypeOK
    <2>5. drawn'[mine[t]] = e /\ \A c \in DOMAIN drawn : c # mine[t] => drawn'[c] = drawn[c]
      BY <1>1, <2>1 DEF TypeOK
    <2> QED
      BY <1>4, <2>3, <2>4, <2>5
  <1> QED
    BY <1>3, <1>4

LEMMA PoolType ==
  ASSUME TypeOK, Named, Counted, NEW t \in Thread, copy(t) \/ count(t) \/ mix(t) \/ mixed(t) \/ leave(t)
  PROVE  TypeOK'
  <1>1. CASE copy(t)
    <2> DEFINE c == Len(drawn) + 1
               W == Within(md) \cup {c}
    <2>1. PICK n \in Blocks(t) :
            /\ drawn' = Append(drawn, [from |-> md_count, blocks |-> n, of |-> W])
            /\ local_md' = [local_md EXCEPT ![t] = IF n = 0 THEN md ELSE {c}]
      BY <1>1 DEF copy
    <2>2. n \in Nat
      BY <2>1, ConstantAssumption DEF Blocks
    <2>3. W \in SUBSET Nat /\ c \in Nat
      BY WithinType DEF TypeOK
    <2> HIDE DEF W, c
    <2>4. drawn' \in Seq(Entry)
      <3>1. [from |-> md_count, blocks |-> n, of |-> W] \in Entry
        BY <2>2, <2>3 DEF TypeOK, Entry
      <3> QED
        BY <2>1, <3>1 DEF TypeOK
    <2>5. local_md' \in [Thread -> SUBSET Nat]
      <3>1. (IF n = 0 THEN md ELSE {c}) \in SUBSET Nat
        BY <2>3 DEF TypeOK
      <3> QED
        BY <2>1, <3>1 DEF TypeOK
    <2>6. mine' \in [Thread -> Nat]
      BY <1>1, <2>3 DEF TypeOK, copy, c
    <2>7. /\ Goto(t, "count")
          /\ UNCHANGED <<lock, flag, pool, do_not_lock, ok, finished, calls>>
      BY <1>1 DEF copy
    <2> QED
      BY <2>4, <2>5, <2>6, <2>7 DEF TypeOK, Place, Goto, flag, pool
  <1>2. CASE count(t)
    <2>1. drawn[mine[t]].blocks \in Nat
      <3>1. mine[t] \in DOMAIN drawn
        BY <1>2 DEF count, Counted
      <3>2. drawn[mine[t]] \in Entry
        BY <3>1 DEF TypeOK
      <3> QED
        BY <3>2 DEF Entry
    <2>2. md_count' \in Nat \X Nat
      <3>1. md_count' \in {Plus(<<0, drawn[mine[t]].blocks>>), Plus(<<1, 0>>)}
        BY <1>2 DEF count
      <3>2. md_count[1] \in Nat /\ md_count[2] \in Nat
        BY DEF TypeOK
      <3> QED
        BY <2>1, <3>1, <3>2 DEF Plus
    <2>3. PICK p \in Place : Goto(t, p)
      BY <1>2 DEF count, Place
    <2> QED
      BY <1>2, <2>2, <2>3 DEF TypeOK, count, Goto, flag, locals, history
  <1>3. CASE mix(t)
    <2>1. PICK m \in {Xor(md, local_md[t]), {mine[t]}} : Mix(t, m)
      BY <1>3 DEF mix
    <2>2. m \in SUBSET Nat
      <3>1. local_md[t] \in SUBSET Nat /\ md \in SUBSET Nat /\ mine[t] \in Nat
        BY DEF TypeOK
      <3>2. Xor(md, local_md[t]) \in SUBSET Nat /\ {mine[t]} \in SUBSET Nat
        BY <3>1 DEF Xor
      <3> QED
        BY <3>2
    <2>3. local_md' \in [Thread -> SUBSET Nat]
      BY <2>1, <2>2 DEF TypeOK, Mix
    <2>4. drawn' \in Seq(Entry)
      BY <2>1, MixDrawn DEF TypeOK
    <2>5. /\ Goto(t, "mixed")
          /\ UNCHANGED <<lock, flag, pool, do_not_lock, ok, mine, finished, calls>>
      BY <2>1 DEF Mix
    <2> QED
      BY <2>3, <2>4, <2>5 DEF TypeOK, Place, Goto, flag, pool
  <1>4. CASE mixed(t)
    <2>1. finished' \in SUBSET Nat
      <3>1. mine[t] \in Nat /\ finished \in SUBSET Nat
        BY DEF TypeOK
      <3> QED
        BY <1>4, <3>1 DEF mixed
    <2>2. entropy' \in Nat
      BY <1>4, ConstantAssumption DEF TypeOK, mixed
    <2> QED
      BY <1>4, <2>1, <2>2 DEF TypeOK, Place, mixed, Goto, flag, locals
  <1>5. CASE leave(t)
    <2>1. lock' \in Thread \cup {NoThread}
      BY <1>5 DEF TypeOK, leave, Release
    <2> QED
      BY <1>5, <2>1 DEF TypeOK, Place, leave, flag, pool, locals, history
  <1> QED
    BY <1>1, <1>2, <1>3, <1>4, <1>5

Act(t) == RAND_add(t) \/ RAND_status(t) \/ RAND_bytes(t) \/ Step(t)

LEMMA ActType ==
  ASSUME TypeOK, Named, Counted, NEW t \in Thread, Act(t)
  PROVE  TypeOK'
  BY CallType, CheckType, LockType, FlagType, PollType, PoolType DEF Act, Step

-----------------------------------------------------------------------------
(* The threads that do not move.                                           *)

\* A step of t changes no other thread's place.
Aside(u) ==
  /\ pc'[u] = pc[u] /\ api'[u] = api[u] /\ back'[u] = back[u] /\ do_not_lock'[u] = do_not_lock[u]
  /\ mine'[u] = mine[u] /\ local_md'[u] = local_md[u]

LEMMA OthersStay ==
  ASSUME TypeOK, NEW t \in Thread, Act(t), NEW u \in Thread, u # t
  PROVE  Aside(u)
  <1>1. CASE RAND_add(t) \/ RAND_status(t) \/ RAND_bytes(t)
    BY <1>1 DEF TypeOK, RAND_add, RAND_status, RAND_bytes, Call, Aside
  <1>2. CASE check(t) \/ compare(t)
    BY <1>2 DEF TypeOK, check, compare, Compared, Goto, Aside
  <1>3. CASE w_lock(t) \/ set_id(t) \/ set_flag(t) \/ clear(t) \/ unlock(t)
    BY <1>3 DEF TypeOK, w_lock, set_id, set_flag, clear, unlock, Write, Goto, locals, Aside
  <1>4. CASE poll(t) \/ stir(t)
    BY <1>4 DEF TypeOK, poll, stir, NestedAdd, Polled, Estimate, Goto, locals, Aside
  <1>5. CASE copy(t) \/ count(t) \/ mix(t)
    BY <1>5 DEF TypeOK, copy, count, mix, Mix, Goto, locals, Aside
  <1>6. CASE mixed(t) \/ leave(t)
    BY <1>6 DEF TypeOK, mixed, leave, Goto, locals, Aside
  <1> QED
    BY <1>1, <1>2, <1>3, <1>4, <1>5, <1>6 DEF Act, Step

\* It takes the lock when that is free, or gives back its own.
LEMMA LockMoves ==
  ASSUME Control, NEW t \in Thread, Act(t)
  PROVE  \/ lock' = lock
         \/ lock = NoThread /\ lock' = t
         \/ lock = t /\ lock' = NoThread
  <1>1. CASE w_lock(t)
    BY <1>1 DEF w_lock
  <1>2. CASE unlock(t) \/ leave(t)
    BY <1>2 DEF unlock, leave, Release, Control, Kept, Inside
  <1>3. CASE ~(w_lock(t) \/ unlock(t) \/ leave(t))
    BY <1>3 DEF Act, Step, RAND_add, RAND_status, RAND_bytes, Call, check, compare, Compared, set_id,
                set_flag, clear, Write, poll, stir, NestedAdd, Polled, copy, count, mix, Mix, mixed
  <1> QED
    BY <1>1, <1>2, <1>3

\* It changes the flag and the id while it holds the lock only, the flag when
\* the id is its own.
LEMMA FlagMoves ==
  ASSUME TypeOK, Control, NEW t \in Thread, Act(t), NEW u \in Thread, u # t
  PROVE  \/ UNCHANGED <<crypto_lock_rand, locking_threadid>> /\ visible'[u] = visible[u]
         \/ lock = t /\ locking_threadid' = t /\ UNCHANGED lock
  <1>1. CASE set_id(t)
    BY <1>1 DEF set_id, TypeOK, Control, Kept, Inside
  <1>2. CASE set_flag(t) \/ clear(t)
    <2>1. lock = t
      BY <1>2 DEF set_flag, clear, Control, Kept, Inside
    <2>2. locking_threadid = t
      BY <1>2, <2>1 DEF set_flag, clear, Control, Kept, Owner, Flagged
    <2>3. UNCHANGED <<lock, locking_threadid>>
      BY <1>2 DEF set_flag, clear, Write
    <2> QED
      BY <2>1, <2>2, <2>3
  <1>3. CASE w_lock(t)
    BY <1>3 DEF w_lock, TypeOK
  <1>4. CASE ~(set_id(t) \/ set_flag(t) \/ clear(t) \/ w_lock(t))
    BY <1>4 DEF Act, Step, RAND_add, RAND_status, RAND_bytes, Call, check, compare, Compared, unlock,
                leave, poll, stir, NestedAdd, Polled, copy, count, mix, Mix, mixed, flag
  <1> QED
    BY <1>1, <1>2, <1>3, <1>4

LEMMA Bystander ==
  ASSUME TypeOK, Control, NEW t \in Thread, Act(t), NEW u \in Thread, u # t
  PROVE  Kept(u)'
  <1>1. Aside(u)
    BY OthersStay
  <1>2. Kept(u)
    BY DEF Control
  <1>3. (Nested(u)' <=> Nested(u)) /\ (Flagged(u)' <=> Flagged(u)) /\ (Inside(u)' <=> Inside(u))
    BY <1>1 DEF Aside, Nested, Flagged, Inside
  <1>4. Where(u)' /\ Skipping(u)'
    BY <1>1, <1>2, <1>3 DEF Aside, Kept, Where, Skipping
  <1>5. lock' = u <=> lock = u
    BY LockMoves, ConstantAssumption
  <1>6. Owner(u)'
    <2>1. CASE UNCHANGED <<crypto_lock_rand, locking_threadid>> /\ visible'[u] = visible[u]
      BY <1>1, <1>2, <1>3, <1>5, <2>1 DEF Aside, Kept, Owner
    <2>2. CASE lock = t /\ locking_threadid' = t /\ UNCHANGED lock
      BY <1>5, <2>2 DEF Owner
    <2> QED
      BY <2>1, <2>2, FlagMoves
  <1> QED
    BY <1>3, <1>4, <1>5, <1>2, <1>6 DEF Kept

-----------------------------------------------------------------------------
(* The thread that moves.                                                  *)

LEMMA CallKept ==
  ASSUME TypeOK, Control, NEW t \in Thread, RAND_add(t) \/ RAND_status(t) \/ RAND_bytes(t)
  PROVE  Kept(t)' /\ Free'
  <1>1. Kept(t)
    BY DEF Control
  <1>2. ~Nested(t) /\ ~Nested(t)'
    BY <1>1 DEF RAND_add, RAND_status, RAND_bytes, Call, Kept, Where, Nested
  <1>3. pc'[t] \in {"check", "lock"} /\ do_not_lock'[t] = {}
    BY DEF RAND_add, RAND_status, RAND_bytes, Call, TypeOK
  <1>4. UNCHANGED <<lock, flag>> /\ pc[t] = "idle"
    BY DEF RAND_add, RAND_status, RAND_bytes, Call
  <1>5. Where(t)' /\ Skipping(t)'
    BY <1>2, <1>3 DEF Where, Skipping
  <1>6. lock # t /\ ~Inside(t)'
    BY <1>1, <1>2, <1>3, <1>4 DEF Kept, Inside
  <1>7. Owner(t)'
    BY <1>1, <1>3, <1>4, <1>6 DEF Kept, Owner, flag
  <1> QED
    BY <1>4, <1>5, <1>6, <1>7 DEF Kept, Control, Free, flag

LEMMA CheckKept ==
  ASSUME TypeOK, Control, NEW t \in Thread, check(t)
  PROVE  Kept(t)' /\ Free'
  <1>1. Kept(t)
    BY DEF Control
  <1>2. /\ pc[t] = "check" /\ pc'[t] \in {"compare", "lock"}
        /\ UNCHANGED <<lock, flag, api, back>>
        /\ pc'[t] = "compare" <=> 1 \in visible[t] /\ pc'[t] # "lock"
        /\ pc'[t] = "lock" => 0 \in visible[t]
        /\ do_not_lock'[t] = do_not_lock[t] \ {Depth(t)}
    BY DEF TypeOK, check, Goto
  <1>3. Nested(t)' = Nested(t)
    BY <1>2 DEF Nested
  <1>4. Nested(t) => lock = t /\ visible[t] = {1}
    BY <1>1, <1>2 DEF TypeOK, Kept, Inside, Owner, Flagged
  <1>5. Nested(t) => pc'[t] = "compare"
    BY <1>2, <1>4
  <1>6. ~Nested(t) => lock # t
    BY <1>1, <1>2 DEF Kept, Inside
  <1>7. Where(t)' /\ Skipping(t)'
    BY <1>1, <1>2, <1>3, <1>5 DEF Kept, Where, Skipping
  <1>8. lock' = t <=> Inside(t)'
    BY <1>2, <1>3, <1>4, <1>5, <1>6 DEF Inside
  <1>9. Owner(t)'
    <2>1. CASE Nested(t)
      BY <1>1, <1>2, <1>3, <1>4, <2>1 DEF Kept, Owner, Flagged, flag
    <2>2. CASE ~Nested(t)
      BY <1>1, <1>2, <1>3, <1>6, <2>2 DEF Kept, Owner, flag
    <2> QED
      BY <2>1, <2>2
  <1> QED
    BY <1>2, <1>7, <1>8, <1>9 DEF Kept, Control, Free, flag

LEMMA CompareKept ==
  ASSUME TypeOK, Control, NEW t \in Thread, compare(t)
  PROVE  Kept(t)' /\ Free'
  <1>1. Kept(t)
    BY DEF Control
  <1>2. /\ pc[t] = "compare" /\ UNCHANGED <<lock, flag, api, back>>
        /\ locking_threadid = t => /\ pc'[t] = IF Adding(t) THEN "copy" ELSE "poll"
                                   /\ do_not_lock'[t] = do_not_lock[t] \cup {Depth(t)}
        /\ locking_threadid # t => pc'[t] = "lock" /\ do_not_lock'[t] = do_not_lock[t] \ {Depth(t)}
    BY DEF TypeOK, compare, Compared, Goto
  <1>3. Nested(t)' = Nested(t)
    BY <1>2 DEF Nested
  <1>4. CASE Nested(t)
    <2>1. lock = t /\ locking_threadid = t /\ Flagged(t)
      BY <1>1, <1>2, <1>4 DEF Kept, Inside, Owner, Flagged
    <2>2. pc'[t] = "copy" /\ do_not_lock'[t] = do_not_lock[t] \cup {1}
      BY <1>2, <1>4, <2>1 DEF Adding, Depth
    <2> QED
      BY <1>1, <1>2, <1>3, <1>4, <2>1, <2>2
      DEF Kept, Where, Skipping, Owner, Flagged, Inside, Control, Free, flag
  <1>5. CASE ~Nested(t)
    <2>1. locking_threadid # t /\ lock # t
      BY <1>1, <1>2, <1>5 DEF Kept, Owner, Inside
    <2> QED
      BY <1>1, <1>2, <1>3, <1>5, <2>1
      DEF Kept, Where, Skipping, Owner, Inside, Control, Free, flag
  <1> QED
    BY <1>4, <1>5

LEMMA EnterKept ==
  ASSUME TypeOK, Control, NEW t \in Thread, w_lock(t)
  PROVE  Kept(t)' /\ Free'
  <1>1. Kept(t)
    BY DEF Control
  <1>2. /\ lock = NoThread /\ lock' = t /\ visible'[t] = {crypto_lock_rand}
        /\ UNCHANGED <<crypto_lock_rand, locking_threadid, api, back>> /\ do_not_lock'[t] = do_not_lock[t]
        /\ pc[t] = "relock" => pc'[t] = "mix"
        /\ pc[t] = "lock" => pc'[t] = IF Adding(t) THEN "copy" ELSE "id"
        /\ pc[t] \in {"lock", "relock"}
    BY DEF TypeOK, w_lock, Goto, locals
  <1>3. ~Nested(t) /\ ~Nested(t)'
    BY <1>1, <1>2 DEF Kept, Where, Nested
  <1>4. crypto_lock_rand = 0
    BY <1>2 DEF Control, Free
  <1>5. ~Flagged(t)' /\ pc'[t] # "flag"
    BY <1>2, <1>3 DEF Flagged, Adding
  <1>6. Where(t)' /\ Skipping(t)' /\ Inside(t)'
    BY <1>1, <1>2, <1>3 DEF Kept, Where, Skipping, Inside, Adding
  <1>7. Owner(t)'
    BY <1>2, <1>4, <1>5 DEF Owner, TypeOK
  <1> QED
    BY <1>2, <1>4, <1>6, <1>7 DEF Kept, Free

LEMMA FlagKept ==
  ASSUME TypeOK, Control, NEW t \in Thread, set_id(t) \/ set_flag(t) \/ clear(t)
  PROVE  Kept(t)' /\ Free'
  <1>1. Kept(t)
    BY DEF Control
  <1>2. lock = t /\ ~Nested(t) /\ api[t] # "add"
    BY <1>1 DEF set_id, set_flag, clear, Kept, Where, Inside
  <1>3. UNCHANGED <<lock, api, back, do_not_lock>> /\ (Nested(t)' <=> Nested(t))
    BY DEF set_id, set_flag, clear, Write, Goto, locals, Nested
  <1>4. CASE set_id(t)
    <2>1. /\ pc[t] = "id" /\ pc'[t] = "flag" /\ locking_threadid' = t
          /\ UNCHANGED <<crypto_lock_rand, visible>>
      BY <1>4 DEF TypeOK, set_id, Goto
    <2> QED
      BY <1>1, <1>2, <1>3, <2>1, ConstantAssumption
      DEF Kept, Where, Skipping, Owner, Flagged, Inside, Free
  <1>5. CASE set_flag(t)
    <2>1. /\ pc[t] = "flag" /\ pc'[t] = "poll" /\ crypto_lock_rand' = 1 /\ visible'[t] = {1}
          /\ UNCHANGED locking_threadid
      BY <1>5 DEF TypeOK, set_flag, Write, Goto
    <2> QED
      BY <1>1, <1>2, <1>3, <2>1, ConstantAssumption
      DEF Kept, Where, Skipping, Owner, Flagged, Inside, Free
  <1>6. CASE clear(t)
    <2>1. /\ pc[t] = "clear" /\ pc'[t] = "unlock" /\ crypto_lock_rand' = 0 /\ visible'[t] = {0}
          /\ UNCHANGED locking_threadid
      BY <1>6 DEF TypeOK, clear, Write, Goto
    <2> QED
      BY <1>1, <1>2, <1>3, <2>1 DEF Kept, Where, Skipping, Owner, Flagged, Inside, Free
  <1> QED
    BY <1>4, <1>5, <1>6

\* A thread that stays inside and touches neither the lock nor the flag.
LEMMA StayKept ==
  ASSUME TypeOK, Control, NEW t \in Thread,
         UNCHANGED <<lock, flag, do_not_lock, api>>, Inside(t),
         Where(t)', Skipping(t)', Inside(t)', Flagged(t)' <=> Flagged(t),
         pc'[t] # "flag", pc'[t] = "compare" => Nested(t)'
  PROVE  Kept(t)' /\ Free'
  <1>1. Kept(t)
    BY DEF Control
  <1>2. Owner(t)'
    BY <1>1 DEF Kept, Owner, flag
  <1> QED
    BY <1>1, <1>2 DEF Kept, Control, Free, flag

LEMMA PollKept ==
  ASSUME TypeOK, Control, NEW t \in Thread, poll(t) \/ stir(t)
  PROVE  Kept(t)' /\ Free'
  <1>1. Kept(t)
    BY DEF Control
  <1>2. pc[t] \in {"poll", "stir"} /\ ~Nested(t) /\ api[t] # "add" /\ (pc[t] = "stir" => api[t] = "bytes")
    BY <1>1 DEF poll, stir, Kept, Where
  <1>3. UNCHANGED <<lock, flag, do_not_lock, api>>
    BY DEF poll, stir, NestedAdd, Polled, Estimate, Goto, locals
  <1>4. Inside(t) /\ Flagged(t) /\ ~Skips(t)
    BY <1>1, <1>2 DEF Inside, Flagged, Skips, Depth, Kept, Skipping
  <1>5. CASE pc'[t] = "check" /\ back'[t] = pc[t]
    <2>1. Nested(t)'
      BY <1>2, <1>5 DEF Nested
    <2> QED
      BY <1>1, <1>2, <1>3, <1>4, <1>5, <2>1, StayKept
      DEF Where, Skipping, Inside, Flagged, Kept
  <1>6. CASE /\ back' = back
             /\ (pc'[t] \in {"stir", "copy"} /\ api[t] = "bytes") \/ pc'[t] = "clear"
    <2>1. ~Nested(t)'
      BY <1>2, <1>6 DEF Nested
    <2> QED
      BY <1>1, <1>2, <1>3, <1>4, <1>6, <2>1, StayKept
      DEF Where, Skipping, Inside, Flagged, Kept
  <1>7. CASE NestedAdd(t)
    BY <1>5, <1>7 DEF TypeOK, NestedAdd
  <1>8. CASE Polled(t)
    <2>1. CASE api[t] = "bytes"
      BY <1>6, <1>8, <2>1 DEF TypeOK, Polled, Estimate
    <2>2. CASE api[t] # "bytes"
      BY <1>4, <1>6, <1>8, <2>2 DEF TypeOK, Polled, Goto
    <2> QED
      BY <2>1, <2>2
  <1>9. CASE stir(t) /\ Goto(t, "copy")
    BY <1>2, <1>6, <1>9 DEF TypeOK, stir, Goto
  <1> QED
    BY <1>7, <1>8, <1>9 DEF poll, stir

LEMMA DrawKept ==
  ASSUME TypeOK, Control, NEW t \in Thread, copy(t) \/ count(t) \/ mix(t) \/ mixed(t)
  PROVE  Kept(t)' /\ Free'
  <1>1. Kept(t)
    BY DEF Control
  <1>2. /\ UNCHANGED <<lock, flag, do_not_lock, api, back>> /\ Inside(t)
        /\ \/ pc[t] = "copy" /\ pc'[t] = "count"
           \/ pc[t] = "count" /\ pc'[t] = IF Adding(t) THEN "unlock" ELSE "clear"
           \/ pc[t] = "mix" /\ pc'[t] = "mixed"
           \/ pc[t] = "mixed" /\ pc'[t] = "leave"
    BY DEF TypeOK, copy, count, mix, Mix, mixed, Goto, locals, Inside
  <1>3. Nested(t)' <=> Nested(t)
    BY <1>2 DEF Nested
  <1>4. Where(t)'
    BY <1>1, <1>2, <1>3 DEF Kept, Where, Adding
  <1>5. Skipping(t)' /\ Inside(t)' /\ pc'[t] \notin {"flag", "compare"}
    BY <1>1, <1>2, <1>3 DEF Kept, Skipping, Inside
  <1>6. Flagged(t)' <=> Flagged(t)
    BY <1>1, <1>2, <1>3 DEF Kept, Where, Flagged, Adding, TypeOK
  <1> QED
    BY <1>2, <1>4, <1>5, <1>6, StayKept

LEMMA LeaveKept ==
  ASSUME TypeOK, Control, NEW t \in Thread, unlock(t) \/ leave(t)
  PROVE  Kept(t)' /\ Free'
  <1>1. Kept(t)
    BY DEF Control
  <1>2. /\ UNCHANGED <<flag, do_not_lock, api>> /\ lock' = IF Skips(t) THEN lock ELSE NoThread
        /\ \/ /\ pc[t] = "unlock" /\ back' = back
              /\ pc'[t] = IF api[t] = "status" /\ ~Nested(t) THEN "idle" ELSE IF Skips(t) THEN "mix" ELSE "relock"
           \/ pc[t] = "leave" /\ pc'[t] = back[t] /\ back'[t] = "idle"
    BY DEF TypeOK, unlock, leave, Release, Goto, locals
  <1>3. lock = t
    BY <1>1, <1>2 DEF Kept, Inside
  <1>4. CASE Nested(t)
    <2>1. Skips(t)
      BY <1>1, <1>2, <1>4 DEF Kept, Skipping, Skips, Depth
    <2>2. CASE pc[t] = "unlock" /\ back' = back
      <3>1. pc'[t] = "mix" /\ Nested(t)'
        BY <1>2, <1>4, <2>1, <2>2 DEF Nested
      <3> QED
        BY <1>1, <1>2, <1>3, <1>4, <2>1, <2>2, <3>1, StayKept
        DEF Kept, Where, Skipping, Inside, Flagged
    <2>3. CASE pc[t] = "leave" /\ pc'[t] = back[t] /\ back'[t] = "idle"
      <3>1. back[t] \in {"poll", "stir"} /\ ~Nested(t)'
        BY <1>4, <2>3 DEF TypeOK, Nested
      <3> QED
        BY <1>1, <1>2, <1>3, <1>4, <2>1, <2>3, <3>1, StayKept
        DEF Kept, Where, Skipping, Inside, Flagged
    <2> QED
      BY <1>2, <2>2, <2>3
  <1>5. CASE ~Nested(t)
    <2>1. ~Skips(t) /\ back[t] = "idle"
      BY <1>1, <1>5 DEF Kept, Skipping, Skips, Depth, Nested
    <2>2. lock' = NoThread /\ pc'[t] \in {"idle", "relock"} /\ ~Nested(t)'
      BY <1>2, <1>5, <2>1 DEF Nested
    <2>3. lock' # t
      BY <2>2, ConstantAssumption
    <2>4. ~Flagged(t)
      BY <1>2, <1>5, <1>1 DEF Flagged
    <2>5. crypto_lock_rand' = 0 /\ visible'[t] = {0}
      BY <1>1, <1>2, <1>3, <2>4 DEF TypeOK, Kept, Owner, flag
    <2>6. Where(t)'
      BY <1>1, <1>2, <1>5, <2>1, <2>2 DEF Kept, Where
    <2>7. Skipping(t)' /\ ~Inside(t)'
      BY <1>1, <1>2, <2>2 DEF Kept, Skipping, Inside
    <2>8. Owner(t)'
      BY <2>2, <2>3, <2>5 DEF Owner
    <2> QED
      BY <2>3, <2>5, <2>6, <2>7, <2>8 DEF Kept, Free
  <1> QED
    BY <1>4, <1>5

LEMMA ControlNext ==
  ASSUME TypeOK, Control, NEW t \in Thread, Act(t)
  PROVE  Control'
  <1>1. Kept(t)' /\ Free'
    BY CallKept, CheckKept, CompareKept, EnterKept, FlagKept, PollKept, DrawKept, LeaveKept
    DEF Act, Step
  <1>2. \A u \in Thread : Kept(u)'
    BY <1>1, Bystander
  <1> QED
    BY <1>1, <1>2 DEF Control

-----------------------------------------------------------------------------
(* The counters.                                                           *)

\* One thread at most is inside the pool.
LEMMA Alone ==
  ASSUME Control, NEW t \in Thread, Inside(t), NEW u \in Thread, u # t
  PROVE  ~Inside(u)
  BY DEF Control, Kept

\* What is behind md_count has no counter in common with what starts there.
LEMMA PastApart ==
  ASSUME TypeOK, NEW d \in Entry, Past(d), NEW e \in Entry, e.from = md_count
  PROVE  Counters(d) \cap Counters(e) = {}
  <1> SUFFICES ASSUME NEW j \in 0 .. d.blocks - 1, NEW k \in 0 .. e.blocks - 1,
                      d.from[1] = md_count[1], d.from[2] + j = md_count[2] + k
               PROVE  FALSE
    BY DEF Counters
  <1>1. d.from[2] \in Nat /\ md_count[2] \in Nat /\ d.blocks \in Nat /\ e.blocks \in Nat
    BY DEF TypeOK, Entry
  <1> QED
    BY <1>1 DEF Past

LEMMA CopyDrawn ==
  ASSUME TypeOK, Named, NEW t \in Thread, copy(t)
  PROVE  \E e \in Entry : e.from = md_count /\ drawn' = Append(drawn, e)
  <1>1. PICK n \in Blocks(t) :
          drawn' = Append(drawn, [from |-> md_count, blocks |-> n, of |-> Within(md) \cup {Len(drawn) + 1}])
    BY DEF copy
  <1>2. n \in Nat
    BY <1>1, ConstantAssumption DEF Blocks
  <1>3. Within(md) \cup {Len(drawn) + 1} \in SUBSET Nat
    BY WithinType DEF TypeOK
  <1>4. [from |-> md_count, blocks |-> n, of |-> Within(md) \cup {Len(drawn) + 1}] \in Entry
    BY <1>2, <1>3 DEF TypeOK, Entry
  <1> QED
    BY <1>1, <1>4

LEMMA CopyCounted ==
  ASSUME TypeOK, Control, Named, Counted, Unique, NEW t \in Thread, copy(t)
  PROVE  Counted' /\ Unique'
  <1>1. PICK e \in Entry : e.from = md_count /\ drawn' = Append(drawn, e)
    BY CopyDrawn
  <1>4. /\ Len(drawn) \in Nat /\ DOMAIN drawn = 1 .. Len(drawn)
        /\ DOMAIN drawn' = 1 .. Len(drawn) + 1
        /\ drawn'[Len(drawn) + 1] = e
        /\ \A i \in DOMAIN drawn : drawn'[i] = drawn[i] /\ drawn[i] \in Entry
    BY <1>1 DEF TypeOK
  <1>5. \A u \in Thread : pc[u] # "count"
    BY Alone DEF copy, Inside
  <1>6. \A i \in DOMAIN drawn : Past(drawn[i])
    BY <1>5 DEF Counted
  <1>7. /\ UNCHANGED md_count /\ pc'[t] = "count" /\ mine'[t] = Len(drawn) + 1
        /\ \A u \in Thread \ {t} : pc'[u] = pc[u]
    BY DEF TypeOK, copy, Goto, pool
  <1>8. Counted'
    <2>1. \A u \in Thread : pc'[u] = "count" => u = t
      BY <1>5, <1>7
    <2>2. mine'[t] \in DOMAIN drawn' /\ drawn'[mine'[t]].from = md_count'
      BY <1>1, <1>4, <1>7
    <2>3. \A i \in DOMAIN drawn' : i \in DOMAIN drawn \/ i = mine'[t]
      BY <1>4, <1>7
    <2>4. \A i \in DOMAIN drawn : Past(drawn[i])'
      BY <1>4, <1>6, <1>7 DEF Past
    <2>5. \A i \in DOMAIN drawn' : Past(drawn[i])' \/ (pc'[t] = "count" /\ mine'[t] = i)
      BY <1>7, <2>3, <2>4
    <2> QED
      BY <2>1, <2>2, <2>5 DEF Counted
  <1>9. Unique'
    <2>1. \A i \in DOMAIN drawn : Counters(drawn[i]) \cap Counters(e) = {}
      BY <1>1, <1>4, <1>6, PastApart
    <2> SUFFICES ASSUME NEW i \in DOMAIN drawn', NEW j \in DOMAIN drawn', i # j
                 PROVE  Counters(drawn'[i]) \cap Counters(drawn'[j]) = {}
      BY DEF Unique, Counters
    <2>2. CASE i \in DOMAIN drawn /\ j \in DOMAIN drawn
      BY <1>4, <2>2 DEF Unique
    <2>3. CASE i = Len(drawn) + 1 /\ j \in DOMAIN drawn
      BY <1>4, <2>1, <2>3
    <2>4. CASE j = Len(drawn) + 1 /\ i \in DOMAIN drawn
      BY <1>4, <2>1, <2>4
    <2> QED
      BY <1>4, <2>2, <2>3, <2>4
  <1> QED
    BY <1>8, <1>9

LEMMA CountCounted ==
  ASSUME TypeOK, Control, Counted, Unique, NEW t \in Thread, count(t)
  PROVE  Counted' /\ Unique'
  <1>1. mine[t] \in DOMAIN drawn /\ drawn[mine[t]].from = md_count
    BY DEF count, Counted
  <1>2. \A i \in DOMAIN drawn : drawn[i] \in Entry
    BY DEF TypeOK
  <1>3. drawn[mine[t]].blocks \in Nat
    BY <1>1, <1>2 DEF Entry
  <1>4. PICK c \in {<<0, drawn[mine[t]].blocks>>, <<1, 0>>} : md_count' = Plus(c)
    BY DEF count
  <1>5. UNCHANGED drawn /\ \A u \in Thread : pc'[u] # "count"
    <2>1. \A u \in Thread : u # t => pc[u] # "count"
      BY Alone DEF count, Inside
    <2> QED
      BY <2>1 DEF TypeOK, count, Goto, history
  <1>6. \A i \in DOMAIN drawn : Past(drawn[i])'
    <2> SUFFICES ASSUME NEW i \in DOMAIN drawn PROVE Past(drawn[i])'
      OBVIOUS
    <2>1. CASE Past(drawn[i])
      <3>1. c \in Nat \X Nat /\ (c[1] = 0 \/ c[2] = 0)
        BY <1>3, <1>4
      <3>2. Past(drawn[i])' <=> /\ drawn[i].from[1] <= md_count'[1]
                                /\ drawn[i].from[1] = md_count'[1]
                                     => drawn[i].from[2] + drawn[i].blocks <= md_count'[2]
        BY <1>5 DEF Past
      <3>3. /\ drawn[i].from[1] \in Nat /\ drawn[i].from[2] \in Nat /\ drawn[i].blocks \in Nat
            /\ md_count[1] \in Nat /\ md_count[2] \in Nat /\ c[1] \in Nat /\ c[2] \in Nat
        BY <1>2, <3>1 DEF TypeOK, Entry
      <3>4. md_count'[1] = md_count[1] + c[1] /\ md_count'[2] = md_count[2] + c[2]
        BY <1>4 DEF Plus
      <3> QED
        BY <2>1, <3>1, <3>2, <3>3, <3>4 DEF Past
    <2>2. CASE i = mine[t]
      <3>1. md_count[1] \in Nat /\ md_count[2] \in Nat
        BY DEF TypeOK
      <3>2. CASE c = <<0, drawn[i].blocks>>
        BY <1>1, <1>3, <1>4, <1>5, <2>2, <3>1, <3>2 DEF Past, Plus
      <3>3. CASE c = <<1, 0>>
        BY <1>1, <1>3, <1>4, <1>5, <2>2, <3>1, <3>3 DEF Past, Plus
      <3> QED
        BY <1>4, <2>2, <3>2, <3>3
    <2>3. Past(drawn[i]) \/ i = mine[t]
      <3>1. \A u \in Thread : pc[u] = "count" => u = t
        BY Alone DEF count, Inside
      <3> QED
        BY <3>1 DEF Counted
    <2> QED
      BY <2>1, <2>2, <2>3
  <1> QED
    BY <1>5, <1>6 DEF Counted, Unique, Counters

\* The other steps leave the counters alone.
LEMMA ElseCounted ==
  ASSUME TypeOK, Named, Counted, Unique, NEW t \in Thread, Act(t), ~copy(t), ~count(t)
  PROVE  Counted' /\ Unique'
  <1>1. UNCHANGED <<md_count, mine>> /\ pc'[t] # "count" /\ pc[t] # "count"
    BY DEF Act, Step, TypeOK, RAND_add, RAND_status, RAND_bytes, Call, check, compare, Compared,
           w_lock, set_id, set_flag, clear, Write, unlock, poll, stir, NestedAdd, Polled, Estimate,
           mix, Mix, mixed, leave, Goto, pool, locals, history
  <1>2. \A u \in Thread : u # t => pc'[u] = pc[u]
    BY OthersStay DEF Aside
  <1>3. \A u \in Thread : pc'[u] = "count" <=> pc[u] = "count"
    BY <1>1, <1>2
  <1>4. /\ DOMAIN drawn' = DOMAIN drawn
        /\ \A c \in DOMAIN drawn : drawn'[c].from = drawn[c].from /\ drawn'[c].blocks = drawn[c].blocks
    <2>1. CASE mix(t)
      BY <2>1, MixDrawn DEF mix
    <2>2. CASE ~mix(t)
      BY <2>2
      DEF Act, Step, RAND_add, RAND_status, RAND_bytes, Call, check, compare, Compared,
          w_lock, set_id, set_flag, clear, Write, unlock, poll, stir, NestedAdd, Polled,
          mixed, leave, history
    <2> QED
      BY <2>1, <2>2
  <1>5. \A i \in DOMAIN drawn : (Past(drawn[i])' <=> Past(drawn[i])) /\ Counters(drawn[i])' = Counters(drawn[i])
    BY <1>1, <1>4 DEF Past, Counters
  <1>6. Counted'
    <2>1. \A u \in Thread :
            pc'[u] = "count" => mine'[u] \in DOMAIN drawn' /\ drawn'[mine'[u]].from = md_count'
      BY <1>1, <1>3, <1>4 DEF Counted
    <2>2. \A i \in DOMAIN drawn' : Past(drawn[i])' \/ \E u \in Thread : pc'[u] = "count" /\ mine'[u] = i
      BY <1>1, <1>3, <1>4, <1>5 DEF Counted
    <2> QED
      BY <2>1, <2>2 DEF Counted
  <1>7. Unique'
    BY <1>4, <1>5 DEF Unique
  <1> QED
    BY <1>6, <1>7

-----------------------------------------------------------------------------
(* The digest.                                                             *)

LEMMA HoldsStays ==
  ASSUME TypeOK, Control, NEW t \in Thread, Act(t), ~copy(t), ~mix(t), Holds(t)'
  PROVE  Holds(t) /\ mine'[t] = mine[t] /\ local_md'[t] = local_md[t] /\ pc[t] # "mixed" /\ pc'[t] # "mixed"
  <1>1. Kept(t)
    BY DEF Control
  <1>2. CASE RAND_add(t) \/ RAND_status(t) \/ RAND_bytes(t)
    BY <1>1, <1>2 DEF TypeOK, RAND_add, RAND_status, RAND_bytes, Call, Holds, Kept, Where, Nested
  <1>3. CASE check(t) \/ compare(t) \/ w_lock(t) \/ set_id(t) \/ set_flag(t) \/ poll(t) \/ stir(t)
    BY <1>1, <1>3
    DEF TypeOK, check, compare, Compared, w_lock, set_id, set_flag, Write, poll, stir, NestedAdd, Polled,
        Estimate, Goto, locals, Holds, Kept, Where, Nested
  <1>4. CASE count(t) \/ clear(t)
    BY <1>4 DEF TypeOK, count, clear, Write, Goto, locals, Holds, Nested
  <1>5. CASE unlock(t)
    BY <1>5 DEF TypeOK, unlock, Goto, locals, Holds, Nested
  <1>6. CASE mixed(t) \/ leave(t)
    BY <1>1, <1>6 DEF TypeOK, mixed, leave, Goto, locals, Holds, Nested
  <1> QED
    BY <1>2, <1>3, <1>4, <1>5, <1>6 DEF Act, Step

LEMMA OthersHold ==
  ASSUME TypeOK, NEW t \in Thread, Act(t), NEW u \in Thread, u # t
  PROVE  (Holds(u)' <=> Holds(u)) /\ Aside(u)
  <1>1. Aside(u)
    BY OthersStay
  <1> QED
    BY <1>1 DEF Aside, Holds, Nested

\* The digest and the history of the steps that do not touch them.
LEMMA PoolStays ==
  ASSUME NEW t \in Thread, Act(t), ~copy(t), ~mix(t)
  PROVE  UNCHANGED drawn /\ (~mixed(t) => UNCHANGED <<md, finished>>)
  BY DEF Act, Step, RAND_add, RAND_status, RAND_bytes, Call, check, compare, Compared, w_lock, set_id,
         set_flag, clear, Write, unlock, poll, stir, NestedAdd, Polled, count, mixed, leave, Goto, pool,
         history

LEMMA NamedNext ==
  ASSUME TypeOK, Control, Named, NEW t \in Thread, Act(t)
  PROVE  Named'
  <1>1. \A u \in Thread : u # t => (Holds(u)' <=> Holds(u)) /\ Aside(u)
    BY OthersHold
  <1>2. CASE copy(t)
    <2> DEFINE c == Len(drawn) + 1
    <2>1. PICK e \in Entry : drawn' = Append(drawn, e)
      BY <1>2, CopyDrawn
    <2>2. DOMAIN drawn' = DOMAIN drawn \cup {c}
      BY <2>1 DEF TypeOK
    <2>3. mine'[t] = c /\ local_md'[t] \in {md, {c}} /\ UNCHANGED md
      BY <1>2 DEF TypeOK, copy, pool
    <2> HIDE DEF c
    <2> QED
      BY <1>1, <2>2, <2>3 DEF Named, Aside
  <1>3. CASE mix(t)
    <2>1. PICK m \in {Xor(md, local_md[t]), {mine[t]}} : Mix(t, m)
      BY <1>3 DEF mix
    <2>2. DOMAIN drawn' = DOMAIN drawn
      BY <2>1, MixDrawn
    <2>3. Holds(t) /\ local_md'[t] = m /\ UNCHANGED <<md, mine>>
      BY <2>1 DEF TypeOK, Holds, Mix, pool
    <2>4. m \subseteq DOMAIN drawn
      BY <2>1, <2>3 DEF Named, Xor
    <2> QED
      BY <1>1, <2>2, <2>3, <2>4 DEF Named, Aside
  <1>4. CASE ~copy(t) /\ ~mix(t)
    <2>1. Holds(t)' => Holds(t) /\ mine'[t] = mine[t] /\ local_md'[t] = local_md[t]
      BY <1>4, HoldsStays
    <2>2. UNCHANGED drawn /\ md' \subseteq DOMAIN drawn
      <3>1. CASE mixed(t)
        BY <1>4, <3>1, PoolStays DEF Named, mixed, Holds
      <3>2. CASE ~mixed(t)
        BY <1>4, <3>2, PoolStays DEF Named
      <3> QED
        BY <3>1, <3>2
    <2> QED
      BY <1>1, <2>1, <2>2 DEF Named, Aside
  <1> QED
    BY <1>2, <1>3, <1>4

LEMMA CopyDigests ==
  ASSUME MinBlocks > 0, TypeOK, Control, Named, Digests, NEW t \in Thread, copy(t)
  PROVE  Digests'
  <1> DEFINE c == Len(drawn) + 1
  <1>1. PICK n \in Blocks(t) :
          /\ drawn' = Append(drawn, [from |-> md_count, blocks |-> n, of |-> Within(md) \cup {c}])
          /\ local_md' = [local_md EXCEPT ![t] = IF n = 0 THEN md ELSE {c}]
    BY DEF copy
  <1>2. n # 0
    BY <1>1, ConstantAssumption DEF Blocks
  <1>3. /\ mine'[t] = c /\ local_md'[t] = {c} /\ pc'[t] = "count"
        /\ UNCHANGED <<md, finished>>
    BY <1>1, <1>2 DEF TypeOK, copy, Goto, pool
  <1>4. /\ c \notin DOMAIN drawn /\ DOMAIN drawn' = DOMAIN drawn \cup {c}
        /\ \A d \in DOMAIN drawn : drawn'[d] = drawn[d]
        /\ drawn'[c].of = Within(md) \cup {c}
    <2> DEFINE e == [from |-> md_count, blocks |-> n, of |-> Within(md) \cup {c}]
    <2>1. drawn' = Append(drawn, e) /\ e.of = Within(md) \cup {c}
      BY <1>1
    <2> HIDE DEF e
    <2> QED
      BY <2>1 DEF TypeOK
  <1> HIDE DEF c
  <1>5. \A u \in Thread : u # t => (Holds(u)' <=> Holds(u)) /\ Aside(u)
    BY OthersHold DEF Act, Step
  <1>6. \A u \in Thread : pc'[u] # "mixed"
    <2>1. \A u \in Thread : u # t => pc[u] # "mixed"
      BY Alone DEF copy, Inside
    <2> QED
      BY <1>3, <1>5, <2>1 DEF Aside
  <1>7. Sown'
    <2>1. \A d \in DOMAIN drawn' : d \in drawn'[d].of
      BY <1>4 DEF Digests, Sown
    <2>2. \A u \in Thread : Holds(u)' /\ pc'[u] # "mixed" => Own(u)'
      BY <1>3, <1>4, <1>5 DEF Digests, Sown, Named, Own, Aside
    <2>3. \A u, w \in Thread : u # w /\ Holds(u)' /\ Holds(w)' => mine'[u] # mine'[w]
      BY <1>3, <1>4, <1>5 DEF Digests, Sown, Named, Aside
    <2> QED
      BY <2>1, <2>2, <2>3 DEF Sown
  <1>8. NothingLost'
    BY <1>3, <1>4 DEF Digests, Named, NothingLost, Within
  <1> QED
    BY <1>6, <1>7, <1>8 DEF Digests, Mixing

LEMMA MixDigests ==
  ASSUME TypeOK, Control, Named, Digests, NEW t \in Thread, mix(t)
  PROVE  Digests'
  <1> DEFINE m == IF Adding(t) THEN Xor(md, local_md[t]) ELSE {mine[t]}
  <1>1. Mix(t, m)
    BY DEF mix
  <1>2. Holds(t) /\ pc[t] # "mixed" /\ Own(t)
    BY DEF mix, Mix, Holds, Digests, Sown
  <1>3. m = IF Adding(t) THEN md \cup {mine[t]} ELSE {mine[t]}
    BY <1>2 DEF Own, Xor
  <1> HIDE DEF m
  <1>4. /\ local_md'[t] = m /\ pc'[t] = "mixed"
        /\ UNCHANGED <<md, finished, mine>>
    BY <1>1 DEF TypeOK, Mix, Goto, pool
  <1>5. /\ DOMAIN drawn' = DOMAIN drawn
        /\ \A d \in DOMAIN drawn : d # mine[t] \/ Adding(t) => drawn'[d].of = drawn[d].of
        /\ ~Adding(t) => drawn'[mine[t]].of = drawn[mine[t]].of \cup Within(md)
    BY <1>1, MixDrawn
  <1>6. \A u \in Thread : u # t => (Holds(u)' <=> Holds(u)) /\ Aside(u)
    BY OthersHold DEF Act, Step
  <1>7. mine[t] \in DOMAIN drawn /\ mine[t] \in drawn[mine[t]].of
    BY <1>2 DEF Named, Digests, Sown
  <1>8. Within(md)' = Within(md)
    <2>1. \A d \in md : drawn'[d].of = drawn[d].of
      BY <1>2, <1>5 DEF Own, Named
    <2> QED
      BY <1>4, <2>1 DEF Within
  <1>9. Sown'
    <2>1. \A d \in DOMAIN drawn' : d \in drawn'[d].of
      BY <1>5, <1>7 DEF Digests, Sown
    <2>2. \A u \in Thread : Holds(u)' /\ pc'[u] # "mixed" => Own(u)'
      BY <1>4, <1>6 DEF Digests, Sown, Own, Aside
    <2>3. \A u, w \in Thread : u # w /\ Holds(u)' /\ Holds(w)' => mine'[u] # mine'[w]
      BY <1>2, <1>4, <1>6 DEF Digests, Sown
    <2> QED
      BY <2>1, <2>2, <2>3 DEF Sown
  <1>10. Carries(t)'
    <2>1. m \subseteq md \cup {mine[t]}
      BY <1>3
    <2>2. Within(md) \cup {mine[t]} \subseteq UNION {drawn'[d].of : d \in m}
      <3>1. CASE Adding(t)
        <4>1. \A d \in md \cup {mine[t]} : drawn'[d].of = drawn[d].of
          BY <1>5, <1>7, <3>1 DEF Named
        <4> QED
          BY <1>3, <1>7, <3>1, <4>1 DEF Within
      <3>2. CASE ~Adding(t)
        BY <1>3, <1>5, <1>7, <3>2
      <3> QED
        BY <3>1, <3>2
    <2> QED
      BY <1>4, <1>8, <2>1, <2>2 DEF Carries, Within
  <1>11. Mixing'
    <2>1. \A u \in Thread : u # t => pc[u] # "mixed"
      BY Alone DEF mix, Mix, Inside
    <2> QED
      BY <1>6, <1>10, <2>1 DEF Mixing, Aside
  <1>12. NothingLost'
    BY <1>4, <1>8 DEF Digests, NothingLost
  <1> QED
    BY <1>9, <1>11, <1>12 DEF Digests

LEMMA MixedDigests ==
  ASSUME TypeOK, Control, Named, Digests, NEW t \in Thread, mixed(t)
  PROVE  Digests'
  <1>1. /\ pc[t] = "mixed" /\ pc'[t] = "leave" /\ md' = local_md[t]
        /\ finished' \subseteq finished \cup {mine[t]} /\ UNCHANGED <<drawn, mine>>
    BY DEF TypeOK, mixed, Goto, locals
  <1>2. Holds(t) /\ Carries(t) /\ ~Holds(t)'
    BY <1>1 DEF Holds, Digests, Mixing
  <1>3. \A u \in Thread : u # t => (Holds(u)' <=> Holds(u)) /\ Aside(u)
    BY OthersHold DEF Act, Step
  <1>4. \A u \in Thread : u # t => pc[u] # "mixed"
    BY <1>1, Alone DEF Inside
  <1>5. Sown'
    <2>1. \A u \in Thread : Holds(u)' /\ pc'[u] # "mixed" => Own(u)'
      BY <1>1, <1>2, <1>3, <1>4 DEF Digests, Sown, Own, Carries, Aside
    <2>2. \A u, w \in Thread : u # w /\ Holds(u)' /\ Holds(w)' => mine'[u] # mine'[w]
      BY <1>1, <1>2, <1>3 DEF Digests, Sown
    <2> QED
      BY <1>1, <2>1, <2>2 DEF Digests, Sown
  <1>6. Mixing'
    BY <1>1, <1>3, <1>4 DEF Mixing, Aside
  <1>7. NothingLost'
    BY <1>1, <1>2 DEF Digests, NothingLost, Carries, Within
  <1> QED
    BY <1>5, <1>6, <1>7 DEF Digests

LEMMA ElseDigests ==
  ASSUME TypeOK, Control, Digests, NEW t \in Thread, Act(t), ~copy(t), ~mix(t), ~mixed(t)
  PROVE  Digests'
  <1>1. UNCHANGED <<drawn, md, finished>>
    BY PoolStays
  <1>2. pc'[t] # "mixed"
    BY DEF Act, Step, TypeOK, RAND_add, RAND_status, RAND_bytes, Call, check, compare, Compared,
           w_lock, set_id, set_flag, clear, Write, unlock, poll, stir, NestedAdd, Polled, Estimate,
           count, leave, Goto, Inside
  <1>3. Holds(t)' => Holds(t) /\ mine'[t] = mine[t] /\ local_md'[t] = local_md[t] /\ pc[t] # "mixed"
    BY HoldsStays
  <1>4. \A u \in Thread : u # t => (Holds(u)' <=> Holds(u)) /\ Aside(u)
    BY OthersHold
  <1>5. Sown'
    <2>1. \A u \in Thread : Holds(u)' /\ pc'[u] # "mixed" => Own(u)'
      BY <1>1, <1>3, <1>4 DEF Digests, Sown, Own, Aside
    <2>2. \A u, w \in Thread : u # w /\ Holds(u)' /\ Holds(w)' => mine'[u] # mine'[w]
      BY <1>1, <1>3, <1>4 DEF Digests, Sown, Aside
    <2> QED
      BY <1>1, <2>1, <2>2 DEF Digests, Sown
  <1>6. Mixing'
    BY <1>1, <1>2, <1>4 DEF Digests, Mixing, Carries, Within, Aside
  <1>7. NothingLost'
    BY <1>1 DEF Digests, NothingLost, Within
  <1> QED
    BY <1>5, <1>6, <1>7 DEF Digests

LEMMA DigestNext ==
  ASSUME MinBlocks > 0, Inv, Digests, [Next]_vars
  PROVE  Digests'
  <1>1. TypeOK /\ Control /\ Named
    BY DEF Inv
  <1>2. CASE Next
    <2>1. PICK t \in Thread : Act(t)
      BY <1>2 DEF Next, Act
    <2> QED
      BY <1>1, <2>1, CopyDigests, MixDigests, MixedDigests, ElseDigests
  <1>3. CASE UNCHANGED vars
    BY <1>3
    DEF Digests, Sown, Own, Holds, Nested, Mixing, Carries, NothingLost, Within, vars, pool, place,
        locals, history
  <1> QED
    BY <1>2, <1>3

-----------------------------------------------------------------------------

LEMMA NextInv == Inv /\ [Next]_vars => Inv'
  <1> SUFFICES ASSUME Inv, [Next]_vars PROVE Inv'
    OBVIOUS
  <1>1. TypeOK /\ Control /\ Named /\ Counted /\ Unique
    BY DEF Inv
  <1>2. CASE Next
    <2>1. PICK t \in Thread : Act(t)
      BY <1>2 DEF Next, Act
    <2>2. TypeOK'
      BY <1>1, <2>1, ActType
    <2>3. Control'
      BY <1>1, <2>1, ControlNext
    <2>4. Counted' /\ Unique'
      BY <1>1, <2>1, CopyCounted, CountCounted, ElseCounted
    <2>5. Named'
      BY <1>1, <2>1, NamedNext
    <2> QED
      BY <2>2, <2>3, <2>4, <2>5 DEF Inv
  <1>3. CASE UNCHANGED vars
    <2>1. /\ UNCHANGED <<lock, crypto_lock_rand, locking_threadid, visible, initialized, stirred_pool,
                         entropy, md, md_count>>
          /\ UNCHANGED <<pc, api, back, rest, do_not_lock, ok, mine, local_md, drawn, finished, calls>>
      BY <1>3 DEF vars, flag, pool, place, locals, history
    <2>2. TypeOK'
      BY <1>1, <2>1 DEF TypeOK
    <2>3. Control'
      BY <1>1, <2>1 DEF Control, Free, Kept, Where, Skipping, Owner, Flagged, Inside, Nested
    <2>4. Named' /\ Counted' /\ Unique'
      BY <1>1, <2>1 DEF Named, Holds, Nested, Counted, Past, Unique, Counters
    <2> QED
      BY <2>2, <2>3, <2>4 DEF Inv
  <1> QED
    BY <1>2, <1>3

\* The inductive invariant holds in every reachable state.
THEOREM Invariance == Spec => []Inv
  BY InitInv, NextInv, PTL DEF Spec

\* The variables of md_rand.c and the places in it keep their types.
THEOREM Typing == Spec => []TypeOK
  <1>1. Inv => TypeOK
    BY DEF Inv
  <1> QED
    BY <1>1, Invariance, PTL

\* A thread inside the pool of ssleay_rand_add, ssleay_rand_bytes and
\* ssleay_rand_status holds CRYPTO_LOCK_RAND, and one that holds it waits for
\* nothing, although crypto_lock_rand is read without that lock.
THEOREM Guarded == Spec => []Exclusive
  <1>1. Inv => Exclusive
    BY DEF Inv, Control, Kept, Exclusive
  <1> QED
    BY <1>1, Invariance, PTL

\* No two calls hash with the same counters md_c.
THEOREM Different == Spec => []Unique
  <1>1. Inv => Unique
    BY DEF Inv
  <1> QED
    BY <1>1, Invariance, PTL

\* While no application adds zero bytes, what a call has mixed into md stays in
\* what md depends on, whatever other threads mix in at the same time.
THEOREM Preserved ==
  ASSUME MinBlocks > 0
  PROVE  Spec => []NothingLost
  <1>1. Init => Digests
    BY DEF Init, Digests, Sown, Mixing, NothingLost, Holds, Nested
  <1>2. Inv /\ Digests /\ [Next]_vars => Digests'
    BY DigestNext
  <1>3. Digests => NothingLost
    BY DEF Digests
  <1> QED
    BY <1>1, <1>2, <1>3, Invariance, PTL DEF Spec
=============================================================================
