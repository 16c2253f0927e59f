------------------------------ MODULE RandPool ------------------------------
(***************************************************************************)
(* The random pool of crypto/rand/md_rand.c, used by several threads.      *)
(* CRYPTO_LOCK_RAND guards it.  ssleay_rand_bytes and ssleay_rand_status   *)
(* hold it while they call RAND_poll, which calls RAND_add, which must not *)
(* lock again: crypto_lock_rand and locking_threadid, read without         *)
(* CRYPTO_LOCK_RAND, say whether this thread has the lock already.         *)
(***************************************************************************)
EXTENDS Integers, Sequences, FiniteSets

CONSTANTS
  Thread,
  NoThread,
  Polls,      \* calls of RAND_add that RAND_poll makes
  Stirs,      \* calls of ssleay_rand_add that stir the pool
  MinBlocks,  \* blocks of one digest in the application's input to RAND_add,
  MaxBlocks,  \* at the least and at the most
  Needed,     \* ENTROPY_NEEDED
  MaxCalls    \* calls the application makes in all

ASSUME ConstantAssumption ==
  /\ NoThread \notin Thread
  /\ Polls \in Nat /\ Stirs \in Nat /\ Needed \in Nat /\ MaxCalls \in Nat
  /\ MinBlocks \in Nat /\ MaxBlocks \in Nat \ {0}

VARIABLES
  lock,              \* who holds CRYPTO_LOCK_RAND
  crypto_lock_rand,
  locking_threadid,
  visible,           \* what a thread that reads crypto_lock_rand now may see
  initialized, stirred_pool, entropy,
  md,                \* the calls whose digests, XORed, are the pool's
  md_count,
  pc,                \* where a thread is, within
  api,               \* the function it called and,
  back,              \* in a nested ssleay_rand_add, where that returns to
  do_not_lock,       \* the calls of a thread, nested or not, that take no lock
  rest,              \* nested calls still to make
  ok,
  mine,              \* the entry of a call in drawn
  local_md,
  drawn,             \* the counters each call has copied, for how many blocks, and
                     \* the calls its digest depends on
  finished,          \* the inputs whose call has mixed them in
  calls

flag == <<crypto_lock_rand, locking_threadid, visible>>
pool == <<initialized, stirred_pool, entropy, md, md_count>>
place == <<pc, api, back, rest>>
locals == <<do_not_lock, ok, mine, local_md>>
history == <<drawn, finished>>
vars == <<lock, flag, pool, place, locals, history, calls>>

Init ==
  /\ lock = NoThread
  /\ crypto_lock_rand = 0 /\ locking_threadid = NoThread
  /\ visible = [t \in Thread |-> {0}]
  /\ initialized = 0 /\ stirred_pool = 0 /\ entropy = 0
  /\ md = {} /\ md_count = <<0, 0>>
  /\ pc = [t \in Thread |-> "idle"] /\ api = [t \in Thread |-> "add"]
  /\ back = [t \in Thread |-> "idle"] /\ rest = [t \in Thread |-> 0]
  /\ do_not_lock = [t \in Thread |-> {}]
  /\ ok = [t \in Thread |-> 0]
  /\ mine = [t \in Thread |-> 0] /\ local_md = [t \in Thread |-> {}]
  /\ drawn = <<>> /\ finished = {} /\ calls = 0

Nested(t) == back[t] # "idle"
Adding(t) == Nested(t) \/ api[t] = "add"
Depth(t) == IF Nested(t) THEN 1 ELSE 0
Skips(t) == Depth(t) \in do_not_lock[t]

Goto(t, p) == pc' = [pc EXCEPT ![t] = p] /\ UNCHANGED <<api, back, rest>>

-----------------------------------------------------------------------------
(* Calls of the application.                                               *)

Call(t, f, p) ==
  /\ pc[t] = "idle" /\ calls < MaxCalls /\ calls' = calls + 1
  /\ pc' = [pc EXCEPT ![t] = p] /\ api' = [api EXCEPT ![t] = f]
  /\ rest' = [rest EXCEPT ![t] = Polls]
  /\ do_not_lock' = [do_not_lock EXCEPT ![t] = {}]
  /\ UNCHANGED <<lock, flag, pool, back, ok, mine, local_md, history>>

RAND_add(t) == Call(t, "add", "check")
RAND_status(t) == Call(t, "status", "check")
RAND_bytes(t) == Call(t, "bytes", "lock")

-----------------------------------------------------------------------------
(* Into the pool.                                                          *)

\* "check if we already have the lock"
check(t) ==
  /\ pc[t] = "check"
  /\ do_not_lock' = [do_not_lock EXCEPT ![t] = @ \ {Depth(t)}]
  /\ \E seen \in visible[t] : Goto(t, IF seen = 1 THEN "compare" ELSE "lock")
  /\ UNCHANGED <<lock, flag, pool, ok, mine, local_md, history, calls>>

\* A critical section of CRYPTO_LOCK_RAND2.
Compared(t, own) ==
  /\ pc[t] = "compare"
  /\ do_not_lock' = [do_not_lock EXCEPT ![t] = IF own THEN @ \cup {Depth(t)} ELSE @ \ {Depth(t)}]
  /\ Goto(t, IF ~own THEN "lock" ELSE IF Adding(t) THEN "copy" ELSE "poll")
  /\ UNCHANGED <<lock, flag, pool, ok, mine, local_md, history, calls>>

\* Mutant: somebody holds the lock, so this thread does.
compare_Flag(t) == Compared(t, TRUE)

compare(t) == Compared(t, locking_threadid = t)

w_lock(t) ==
  /\ pc[t] \in {"lock", "relock"} /\ lock = NoThread /\ lock' = t
  /\ visible' = [visible EXCEPT ![t] = {crypto_lock_rand}]
  /\ Goto(t, IF pc[t] = "relock" THEN "mix" ELSE IF Adding(t) THEN "copy" ELSE "id")
  /\ UNCHANGED <<crypto_lock_rand, locking_threadid, pool, locals, history, calls>>

\* Mutant: the thread does not leave its id.
set_id_Not(t) ==
  /\ pc[t] = "id" /\ Goto(t, "flag")
  /\ UNCHANGED <<lock, flag, pool, locals, history, calls>>

\* "prevent ssleay_rand_bytes() from trying to obtain the lock again"
set_id(t) ==
  /\ pc[t] = "id" /\ Goto(t, "flag")
  /\ locking_threadid' = t
  /\ UNCHANGED <<lock, crypto_lock_rand, visible, pool, locals, history, calls>>

\* Others may see this at once, later, or when they next get the lock.
Write(t, v) ==
  /\ crypto_lock_rand' = v
  /\ visible' = [u \in Thread |-> IF u = t THEN {v} ELSE visible[u] \cup {v}]
  /\ UNCHANGED <<lock, locking_threadid, pool, locals, history, calls>>

set_flag(t) == pc[t] = "flag" /\ Goto(t, "poll") /\ Write(t, 1)

-----------------------------------------------------------------------------
(* RAND_poll and the stirring of the pool.                                 *)

NestedAdd(t) ==
  /\ rest[t] > 0 /\ rest' = [rest EXCEPT ![t] = @ - 1]
  /\ back' = [back EXCEPT ![t] = pc[t]] /\ pc' = [pc EXCEPT ![t] = "check"]
  /\ UNCHANGED <<lock, flag, pool, api, locals, history, calls>>

Less(n, k) == IF n > k THEN n - k ELSE 0

\* ssleay_rand_bytes: while the pool is not seeded every byte it gives out
\* lowers the estimate.
Estimate(t) ==
  /\ ok' = [ok EXCEPT ![t] = IF entropy >= Needed THEN 1 ELSE 0]
  /\ IF entropy >= Needed THEN UNCHANGED entropy
     ELSE \E n \in 1 .. Needed : entropy' = Less(entropy, n)
  /\ rest' = [rest EXCEPT ![t] = IF stirred_pool = 1 THEN 0 ELSE Stirs]
  /\ pc' = [pc EXCEPT ![t] = "stir"]
  /\ UNCHANGED <<api, back>>

Polled(t) ==
  /\ initialized = 1 \/ rest[t] = 0
  /\ initialized' = 1
  /\ \/ api[t] = "bytes" /\ Estimate(t)
     \/ /\ api[t] # "bytes" /\ Goto(t, IF Skips(t) THEN "idle" ELSE "clear")
        /\ UNCHANGED <<entropy, ok>>
  /\ UNCHANGED <<lock, flag, stirred_pool, md, md_count, do_not_lock, mine, local_md,
                 history, calls>>

poll(t) ==
  /\ pc[t] = "poll"
  /\ \/ initialized = 0 /\ NestedAdd(t)
     \/ Polled(t)

stir(t) ==
  /\ pc[t] = "stir"
  /\ \/ NestedAdd(t)
     \/ /\ rest[t] = 0 /\ Goto(t, "copy")
        /\ stirred_pool' = IF ok[t] = 1 THEN 1 ELSE stirred_pool
        /\ UNCHANGED <<lock, flag, initialized, entropy, md, md_count, locals, history, calls>>

-----------------------------------------------------------------------------
(* The counters and the digest.                                            *)

\* Blocks are hashed under one counter each; the output under one for all.
Blocks(t) == IF api[t] = "add" THEN MinBlocks .. MaxBlocks
             ELSE IF back[t] = "poll" THEN 1 .. MaxBlocks ELSE {1}

\* The calls a digest put together of others depends on.
Within(m) == UNION {drawn[c].of : c \in m}

\* "use our own copies of the counters".  The digest of the call's blocks, which
\* only it sees until it mixes it in, is hashed with the pool's; without blocks
\* it is the pool's.
copy(t) ==
  /\ pc[t] = "copy" /\ Goto(t, "count")
  /\ LET c == Len(drawn) + 1 IN
       /\ mine' = [mine EXCEPT ![t] = c]
       /\ \E n \in Blocks(t) :
            /\ drawn' = Append(drawn, [from |-> md_count, blocks |-> n, of |-> Within(md) \cup {c}])
            /\ local_md' = [local_md EXCEPT ![t] = IF n = 0 THEN md ELSE {c}]
  /\ UNCHANGED <<lock, flag, pool, do_not_lock, ok, finished, calls>>

Plus(c) == <<md_count[1] + c[1], md_count[2] + c[2]>>

\* Mutant: a call of RAND_add is counted once.
count_Once(t) ==
  /\ pc[t] = "count"
  /\ md_count' = Plus(IF Adding(t) THEN <<0, 1>> ELSE <<1, 0>>)
  /\ Goto(t, IF Adding(t) THEN "unlock" ELSE "clear")
  /\ UNCHANGED <<lock, flag, initialized, stirred_pool, entropy, md, locals, history, calls>>

count(t) ==
  /\ pc[t] = "count"
  /\ md_count' = Plus(IF Adding(t) THEN <<0, drawn[mine[t]].blocks>> ELSE <<1, 0>>)
  /\ Goto(t, IF Adding(t) THEN "unlock" ELSE "clear")
  /\ UNCHANGED <<lock, flag, initialized, stirred_pool, entropy, md, locals, history, calls>>

\* "before unlocking, we must clear 'crypto_lock_rand'"
clear(t) == pc[t] = "clear" /\ Goto(t, "unlock") /\ Write(t, 0)

Release(t) == lock' = IF Skips(t) THEN lock ELSE NoThread

\* Input and output are hashed without the lock.
unlock(t) ==
  /\ pc[t] = "unlock" /\ Release(t)
  /\ Goto(t, IF api[t] = "status" /\ ~Nested(t) THEN "idle" ELSE IF Skips(t) THEN "mix" ELSE "relock")
  /\ UNCHANGED <<flag, pool, locals, history, calls>>

Xor(m, n) == (m \ n) \cup (n \ m)

Mix(t, m) ==
  /\ pc[t] = "mix" /\ Goto(t, "mixed")
  /\ local_md' = [local_md EXCEPT ![t] = m]
  /\ drawn' = IF Adding(t) THEN drawn ELSE [drawn EXCEPT ![mine[t]].of = @ \cup Within(md)]
  /\ UNCHANGED <<lock, flag, pool, do_not_lock, ok, mine, finished, calls>>

\* Mutant: "just copy back local_md into md".
mix_Copies(t) == Mix(t, local_md[t])

\* The pool's digest is read: an input's digest is XORed to it, the output's is
\* hashed with it.
mix(t) == Mix(t, IF Adding(t) THEN Xor(md, local_md[t]) ELSE {mine[t]})

\* It is written back.  The stirring counts for nothing in the estimate.
mixed(t) ==
  /\ pc[t] = "mixed" /\ Goto(t, "leave")
  /\ md' = local_md[t]
  /\ finished' = IF drawn[mine[t]].blocks = 0 THEN finished ELSE finished \cup {mine[t]}
  /\ \E add \in 0 .. Needed :
       /\ ~Adding(t) \/ back[t] = "stir" => add = 0
       /\ entropy' = IF entropy < Needed THEN entropy + add ELSE entropy
  /\ UNCHANGED <<lock, flag, initialized, stirred_pool, md_count, locals, drawn, calls>>

leave(t) ==
  /\ pc[t] = "leave" /\ Release(t)
  /\ pc' = [pc EXCEPT ![t] = back[t]] /\ back' = [back EXCEPT ![t] = "idle"]
  /\ UNCHANGED <<flag, pool, api, rest, locals, history, calls>>

-----------------------------------------------------------------------------

Step(t) ==
  \/ check(t) \/ compare(t) \/ w_lock(t) \/ set_id(t) \/ set_flag(t) \/ poll(t) \/ stir(t)
  \/ copy(t) \/ count(t) \/ clear(t) \/ unlock(t) \/ mix(t) \/ mixed(t) \/ leave(t)

Next == \E t \in Thread : RAND_add(t) \/ RAND_status(t) \/ RAND_bytes(t) \/ Step(t)

Spec == Init /\ [][Next]_vars

\* Threads inside the library run on.
FairSpec == Spec /\ \A t \in Thread : WF_vars(Step(t))

-----------------------------------------------------------------------------
(* Properties.                                                             *)

Place == {"idle", "check", "compare", "lock", "relock", "id", "flag", "poll", "stir",
          "copy", "count", "clear", "unlock", "mix", "mixed", "leave"}

Entry == [from : Nat \X Nat, blocks : Nat, of : SUBSET Nat]

TypeOK ==
  /\ lock \in Thread \cup {NoThread} /\ locking_threadid \in Thread \cup {NoThread}
  /\ crypto_lock_rand \in {0, 1} /\ visible \in [Thread -> SUBSET {0, 1}]
  /\ initialized \in {0, 1} /\ stirred_pool \in {0, 1} /\ entropy \in Nat
  /\ md_count \in Nat \X Nat
  /\ pc \in [Thread -> Place]
  /\ api \in [Thread -> {"add", "status", "bytes"}] /\ back \in [Thread -> {"idle", "poll", "stir"}]
  /\ do_not_lock \in [Thread -> SUBSET {0, 1}]
  /\ rest \in [Thread -> Nat] /\ ok \in [Thread -> {0, 1}]
  /\ drawn \in Seq(Entry)
  /\ mine \in [Thread -> Nat] /\ local_md \in [Thread -> SUBSET Nat]
  /\ md \in SUBSET Nat /\ finished \in SUBSET Nat /\ calls \in Nat

\* Between taking the lock and giving it back, nested calls included.
Inside(t) ==
  \/ pc[t] \in {"id", "flag", "poll", "stir", "copy", "count", "clear", "unlock", "mix", "mixed", "leave"}
  \/ Nested(t) /\ pc[t] \in {"check", "compare"}

\* "to prevent double locking": a thread is inside the pool exactly if it holds
\* CRYPTO_LOCK_RAND, so that no two are inside and none waits for itself,
\* whatever a read of crypto_lock_rand returns.
Exclusive == \A t \in Thread : lock = t <=> Inside(t)

\* The counters a call hashes its blocks with.
Counters(d) == {<<d.from[1], d.from[2] + k>> : k \in 0 .. d.blocks - 1}

\* "even if a concurrent thread seeds with exactly the same data ... there's
\* _some_ difference", and output is "guaranteed to be unique": no counter is
\* used by two calls.
Unique ==
  \A i, j \in DOMAIN drawn : i # j => Counters(drawn[i]) \cap Counters(drawn[j]) = {}

\* "this could mean that other thread's seeding remains without effect": what
\* a call has mixed in stays in the pool's digest, itself or in what that is
\* hashed from.
NothingLost == finished \subseteq Within(md)

\* Every call returns: no thread waits for a lock it holds.
Returns == \A t \in Thread : pc[t] # "idle" ~> pc[t] = "idle"
=============================================================================
