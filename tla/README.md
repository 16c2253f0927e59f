# A verification development for OpenSSL on Android

This directory holds TLA+ models of parts of the OpenSSL 1.0 tree of this
repository, the TLC configurations that check them, and proofs checked by TLAPS.
The models are read off the C code, function by function; `PROJECT.json` maps
every definition to the lines it stands for.

| module | what it is |
|---|---|
| `SessionCache` | the session cache of an `SSL_CTX`, used by several threads |
| `SessionStore` | what that cache promises: a bounded first-in first-out store |
| `SessionCacheProofs` | proofs about `SessionCache`, for any number of threads and sessions, and that it implements `SessionStore` |
| `MCSessionCache` | small instances |
| `Handshake` | one TLS connection: client, server, record reader, two applications |
| `HandshakeProofs` | proofs about `Handshake`, for any configurations, data and renegotiations |
| `LockstepProofs` | that its ends keep in step: no record refused, no wait for each other, and that it implements `SecureChannel` |
| `SecureChannel` | what a connection promises its applications |
| `MCHandshake` | the configurations considered |
| `BioPair` | the BIO pair: two BIOs over two ring buffers, and its refinement |
| `Pipe` | what a pair promises: two byte queues |
| `BioPairProofs` | proofs about `BioPair`, for any BIOs, bytes and buffer sizes, and that it implements `Pipe` |
| `MCBioPair` | small instances |
| `RecordWrite` | the sending record layer over a transport that takes writes in part |
| `RecordStream` | what it promises: whole records, each type's bytes once and in order |
| `RecordWriteProofs` | proofs about `RecordWrite`, for any sizes of records, messages and data |
| `MCRecordWrite` | small instances and the refinement `RecordWrite` => `RecordStream` |
| `DTLSHandshake` | a DTLS handshake over a transport that loses and reorders |
| `MessageDelivery` | what retransmission promises it: messages once and in order |
| `DTLSHandshakeProofs` | proofs about `DTLSHandshake`, and that it implements `MessageDelivery` |
| `MCDTLS` | the handshakes considered |
| `DTLSRecord` | the receiving DTLS record layer: replay window and epochs |
| `DTLSRecordProofs` | proofs about `DTLSRecord`, for any window, record number and epoch |
| `MCDTLSRecord` | a small instance |
| `RandPool` | the random pool, used by several threads |
| `RandPoolProofs` | proofs about `RandPool`, for any number of threads and calls |
| `MCRandPool` | a small instance |

Run a model with `tlc -config X.cfg MCmodule` and the proofs with `tlapm` on
`SessionCacheProofs.tla`, `HandshakeProofs.tla`, `LockstepProofs.tla`,
`BioPairProofs.tla`, `RecordWriteProofs.tla`, `DTLSHandshakeProofs.tla`,
`DTLSRecordProofs.tla` and `RandPoolProofs.tla`. The two about the handshake take a
quarter of an hour and more each.

## 1. Inventory

The tree is OpenSSL 1.0.0-era `crypto/`, `ssl/` and `apps/` with the Android
patches (`patches/README`: handshake cutthrough, small records, JSSE support),
an RDP client (`rdesktop/`) and a Java view for it (`src/`). There is no `docs`
directory: what the code promises is said in its comments, its headers, and in
`ssl/ssltest.c`. `PROJECT.json` lists 42 components. Those with control state:

**Session cache** (`ssl/ssl_sess.c`, callers in `ssl/ssl_lib.c`, `ssl/s3_pkt.c`).
*State*: `SSL_SESSION` objects with a reference count, the `lhash`
`ctx->sessions`, the list from `session_cache_head` to `session_cache_tail`, and
`s->session` of every connection. *Operations*: make a session, look one up by
id, by ticket or in an external cache, add, evict, remove, flush, time out.
*Interaction*: every connection of a context, on its own thread, under the lock
`CRYPTO_LOCK_SSL_CTX`; counts move with `CRYPTO_add` outside it; callbacks of the
application run in between. *Hard*: each operation is several critical sections.
*Correct if*: every reference is counted, hash and list agree, one session per
id, the size is kept, a failed connection's session cannot be resumed.

**TLS handshake** (`ssl/s3_srvr.c`, `ssl/s3_clnt.c`, `ssl/s3_both.c`,
`ssl/t1_lib.c`, `ssl/t1_reneg.c`, `ssl/t1_enc.c`, `ssl/s3_enc.c`). *State*:
`s->state`, `s->hit`, the session, the transcript, key blocks, the last Finished
messages, `renegotiate` and `new_session`, the buffering BIO. *Operations*: one
case of a switch for every message sent or awaited. *Interaction*: two machines,
written apart, that must stay in step over a stream; `SSL_read` enters them again.
*Hard*: optional messages, resumption, cutthrough, data and alerts that cross a
renegotiation. *Correct if*: both end with the same keys and session, no record is
refused, data moves only under authenticated keys, nobody waits for ever.

**Record layer** (`ssl/s3_pkt.c`). *State*: read and write keys, fragments,
`wpend_*`, `alert_dispatch`, `s->shutdown`. *Operations*: read a record and act on
its type; write, possibly in part; send an alert. *Hard*: partial writes retried,
an alert between, `SSL_shutdown` in any state. *Correct if*: a retry sends the same
record once; close_notify is final.

**DTLS** (`ssl/d1_*.c`, `crypto/pqueue`). *State*: message numbers, the flight kept
to be sent again, messages kept until their turn, a timer, an epoch and a replay
window each way, records kept for the next epoch. *Operations*: send a message in
fragments, put one together, repeat a flight, take a record. *Hard*: everything may be
lost, repeated or overtaken, and the two ends change keys at different times.
*Correct if*: each message arrives once and in order, no record is taken twice, and a
handshake ends although datagrams are lost. (`ssl/Android.mk` does not build it.)

**BIO pair** (`crypto/bio/bss_bio.c`). *State*: per BIO a peer, a ring buffer
(`buf`, `size`, `len`, `offset`), `closed`, `request`. *Operations*: read and write
with and without copying, `bio_ctrl`, join and part. *Interaction*: an SSL object
at one end and an application with a socket at the other. *Hard*: wrap-around, the
two-step calls without copying, joining again. *Correct if*: it is two byte queues.

**Other BIOs** (`bf_buff.c` under the handshake; sockets, memory, files): filters
and system calls. **Hash table** (`crypto/lhash`): linear hashing, one bucket split
or joined at a time, `malloc` may fail in each. **Error queue** (`crypto/err`): a
ring of sixteen per thread, with marks. **Random pool** (`crypto/rand/md_rand.c`).
*State*: bytes, a digest and counters; two locks, and a flag and a thread id that say
who holds the first. *Operations*: add, draw, ask. *Hard*: functions that hold the lock
call themselves, and the flag is read without it. *Correct if*: who is inside holds the
lock, no thread waits for itself, no two calls hash the same, no seed is lost. **RSA blinding**
(`crypto/rsa/rsa_eay.c`): per-key factors set up by whoever comes first.
**Engines**: two kinds of references; compiled out (`OPENSSL_NO_ENGINE`).
**Locks, memory, ex_data**: callbacks of the application and tables.

Without control state worth a model: ciphers and hashes, big numbers and public
keys (arithmetic at full width), ASN.1, X.509, PEM, PKCS, OCSP (formats and
sequential searches), configuration, objects, dialogues, command line tools, and
the vendored rdesktop client (one blocking loop; its bitmap cache and its pending
device requests are the parts with state) with the Java view over it.

How they interact: an application calls `SSL_connect/accept/read/write/shutdown`
on an SSL object; that runs the handshake machine, which writes records through
the buffering BIO and the record layer to a BIO (a socket or a BIO pair) and reads
them back; at the start and the end of a handshake it goes to the context's session
cache, which other threads use at the same time.

What is hard to test is listed under `hazards` in `PROJECT.json`, with the line
where it bites and the properties that would catch it.

## 2. Plan

1. `SessionCache`, `SessionStore`, their runs; the proofs of all its safety properties
   and that it implements `SessionStore`. **Done.**
2. `Handshake`, `SecureChannel`, their runs; the proofs of its invariants and that it
   implements `SecureChannel`. **Done.**
3. `BioPair`, `Pipe`, their runs; the proofs of its invariants and that it implements
   `Pipe`. **Done.**
4. `RecordWrite`, `RecordStream`: partial writes, alerts between them, the record
   buffer. **Done; its invariants proved.** Left: the contexts' free lists of buffers.
5. `RandPool`: its two locks and the flag. **Done and proved.** `LHash` (split, join and
   failed allocations against a set), `ErrorQueue` (the ring and its marks) and the RSA
   blinding: left.
6. `DTLSHandshake`, `MessageDelivery`: flights, fragments, timer, epochs over a lossy
   transport. **Done; safety proved.** `DTLSRecord`: the replay window. **Done and proved.**
7. Proofs: every invariant a run checks is proved, under the assumptions named, and every
   refinement but `ImplementsStream`, which stays with TLC as liveness does (section 11).

## 3. The session cache

**Correspondence.** `heap` holds the objects at the addresses `Sess`; an object with
no references is free memory, and using it again is `SSL_SESSION_new`. `table` is
the lhash, a set of nodes with the key each was hashed under; `list` the doubly
linked list, newest first. `lock` is `CRYPTO_LOCK_SSL_CTX`. `pc`, `cont`, `loc`,
`arg` are a thread's place in the C functions, its continuation after a call, and
the locals that own a reference.

| code | actions |
|---|---|
| `ssl_get_new_session` 193 | `ssl_get_new_session`, `choose_id`, `choose_id_fails`, `new_free`, `new_null` |
| `ssl_get_prev_session` 420 | `ssl_get_prev_session`, `get_session_cb`, `get_session_cb_copy`, `tls1_process_ticket`, `prev_timeout`, `prev_drop`, `prev_hit`, `prev_free`, `prev_set` |
| `SSL_CTX_add_session` 595 | `add_insert`, `add_present`, `add_evict`, `add_unlock` |
| `remove_session_lock` 665 | `rm_lock`, `rm_free` |
| `SSL_CTX_flush_sessions` 928 | `flush_begin`, `timeout_doall_arg`, `flush_end` |
| `ssl_update_cache`, alerts, `SSL_clear`, `SSL_free` | actions of those names |
| calls of the application | `SSL_get1_session`, `SSL_SESSION_free`, `SSL_set_session`, `SSL_CTX_add_session`, `SSL_CTX_remove_session`, `SSL_set_SSL_CTX` |

A stretch of code under the lock is one step, because nothing that reads `table` or
`list` runs outside it; only the eviction and flush loops are cut, one step per
session, since counts move with `CRYPTO_add` meanwhile. Between `SSL_SESSION_free(
s->session)` and the assignment that follows there is a step, in which `s->session`
dangles (`Stale`). The hash is abstracted to what `lh_insert`, `lh_retrieve` and
`lh_delete` do with a set of nodes, including an insertion that fails for lack of
memory (`Oom`). Session ids come from a finite set, so two sessions may get the same.
Time is a flag: a session is in date or not. The callback of an external cache returns a
fresh object (`get_session_cb`), or one the application holds, of which the library takes a
reference of its own if `copy` is 1 (`get_session_cb_copy`). An application may hand
`SSL_CTX_add_session` a session that has no id, which the code does not refuse: `AddNoId`.

Left out: ids of zero length from a peer, `session_id_context`, `ex_data`, verify
results, statistics, Kerberos; what the external cache itself keeps.

**Properties.** `RefCount`: an object's count is the number of references held, at
every step. `DoubleAccess`: hash and list hold the same sessions. `UniqueId`: each
once, under its own id, one per id. `CacheBound`: with the lock free, at most
`session_cache_size`. `FailedNotCached`: a session whose connection failed is not in
the cache. `LockReleased`: the loops under the lock end. `ImplementsStore`: list and hash
together are a bounded first-in first-out store (a lookup does not refresh).

**Runs.**

* `sesscache_server`: two threads, three addresses and ids, a cache of two. Three
  objects overflow it while another thread removes, flushes, resumes or fails.
* `sesscache_collide`: one id for everything, or none (`AddNoId`), a client and server
  cache without limit, and applications that keep one reference each, add their
  sessions and return them from the callback: `SSL_CTX_add_session` displaces sessions
  all the time. It asks for `RefCount` and `UniqueId`.
* `sesscache_oom`: one thread, failing insertions and a servername callback that
  switches the context; counts, and that the lock comes free.

Two threads are enough for what one does between two steps of another; a third adds
only longer waits for the lock. Three objects are the least that make a cache of two
overflow. Threads, objects and ids are symmetric; the run with a liveness property
uses no symmetry. Deadlock is checked: some call is always possible.

*Fairness.* `FairSpec` asks only that a thread that holds the lock goes on: no code
under the lock waits for anything but the allocator.

**Proofs** (`SessionCacheProofs`). For every number of threads, addresses and ids,
every cache size and every number of references applications keep:

* `Typing`: `Spec => []TypeOK`,
* `Counting`: `Spec => []RefCount`,
* `BothPaths`: `Spec => []DoubleAccess`,
* `OnePerId`: `Spec => []UniqueId`,

assuming `~Oom`, `~AddNoId` and `~SharedSsl`: with any of them, the code does not have all
the properties proved here (section 10). `Thread` and `Sess` are finite, and the constants are as
`ConstantAssumption` says.

`TypeOK` is proved and not checked in a run. None of them is inductive by itself.
`TypeOK` is not: that a count never goes below zero follows only from counting.
`RefCount` is not: an evicted session loses the cache's reference, and that it had
exactly one needs hash and list to agree. So they are proved together. `Inv` is the conjunction of

* `WeakType`: `TypeOK` with counts that are integers;
* `Control`: at every place in the code, what the thread's locals hold (a thread at
  `rm_free` has an operand, one at `prev_set` a session it owns, ...);
* `Locking`: who is in a critical section holds the lock, and `todo` belongs to a flush;
* `MakingOf`, `AddIdOf`: a session being made has one reference and nobody else's; a
  session on its way into the cache has an id;
* the cache conditions: `NoDup(list)`, one node per id, keys that match,
  `DoubleAccess`;
* `RefCount`.

The counting argument: `RefCount` is a sum of five cardinalities, over threads. A
step of thread `t` changes the membership of `t` alone, so `Count` and `Moves` turn
each cardinality into "the others" plus zero or one, and `Balance` reduces
`RefCount'` to `Balanced(t)`: for every object, the change of its count is the change
of `Own(t, y)`, what `t` and the cache hold of it. `Positive` and `Apart` read it the
other way: a held object is live, and one with a single reference is held by nobody
else. With those, there is one lemma for every action, `..._Inv`; the steps that cut
a session out of the cache (`rm_lock`, `add_evict`, `timeout_doall_arg`) share `Cut`
and `Discarded`, and those that leave the cache alone share `CacheUnchanged`.
`NextInv` puts them together and `Invariance` is the temporal step.

The second half of the module builds on that invariant, under the same assumptions:

* `Bounded`: `Spec => []CacheBound`,
* `FailedLeaves`: `Spec => []FailedNotCached`, assuming `~Sni` as well (section 10 says
  what a servername callback that switches contexts does to it),
* `Refinement`: `Spec => ImplementsStore`.

For `Bounded`, the eviction loop must not give up while the cache is too large:
`FullEvictable` shows from `DoubleAccess` that the tail is then in the hash. `FailedLeaves`
needs `Fit`: a thread removes only what it holds (`HeldOf`), and the session it has just
made and is about to add (`MadeOf`, `FullOf`, `AddedOf`) has not failed, since nobody else
has a reference to it to fail with. The refinement maps the store to `Stored`, the list up
to the limit: what is linked beyond it while the lock is held is as good as gone. The
inductions over the list are avoided by `Without(s, i)`, the store's removal said by its
effect, and by taking a session out of a list at its one position (`RemoveAtFacts`).

Model-checked only: `LockReleased` (liveness is out of the prover's reach), and the counts
with failing insertions (`sesscache_oom`) and with sessions that have no id
(`sesscache_collide`).

## 4. The handshake

**Correspondence.** `ssl[e]` is what the control flow reads of the SSL object of end
`e`: `state` and `next` (`s3->tmp.next_state`), `hit`, keys and key block, the
transcript, both Finished messages, flags. The values of `state` are the source's,
without `SSL3_ST_` and `_A`/`_B`. Every case of `ssl3_connect` and `ssl3_accept` is
an action with the name of the function it calls; those both ends run
(`change_cipher_spec`, `flush`, `ssl3_get_finished`, `handshake_done`) take the end
as a parameter. `ssl3_read_bytes` is `SSL_read`, `read_hello_request`,
`read_client_hello`, `read_change_cipher_spec`, `read_close_notify`,
`read_fatal_alert`, `discard`, and, when a record fits none of them,
`ssl3_send_alert`. Which records fit is written out in `Takes` and `TakesMessage`, from
the checks of `ssl3_read_bytes` and `ssl3_get_message`; `Refused` is the rest: in the code,
the else branch of those checks. `out[e]` is the buffering BIO `s->bbio`, `wire[e]` the stream to
`e`. A key is a master secret and two randoms; a Finished is a label, a master
secret and a transcript; so two that should differ do.

Kept: full and resumed handshakes by session id and by ticket, lost sessions,
rejected tickets, tickets renewed by the key callback, RSA, ephemeral DH and
anonymous key exchange, client certificates asked for and given, withheld or not,
OCSP status, cutthrough, the renegotiation extension, HelloRequest, renegotiation by
either end or both, close_notify, fatal alerts.

Left out, and assumed: TLS 1.0 between two ends of this library; a transport that
neither loses nor blocks; one message per record; no read-ahead;
`SSL3_FLAGS_DELAY_CLIENT_FINISHED` (under `#if 0`), the second ClientHello of
MS SGC, `tls_session_secret_cb`, `SSL_VERIFY_CLIENT_ONCE`, the end of the transport;
sessions to resume were made without a client certificate; `SSL_connect` again after
it returned 1. The buffering BIO may spill at any record. A reading end may return
`WANT_READ` at any time: the model's steps are the library's between such returns.
Where `ssl3_read_bytes` would refuse data because the renegotiation is driven by a
call other than `SSL_read`, the model lets it (`drive_by_write`, a careless setting). A
handshake record that is thrown away (`discard`) is dropped whole: the code has by then
copied its first four bytes to `handshake_fragment` (`ssl/s3_pkt.c:1083`) and keeps them.
That happens after a close, or with applications that are not orderly, and matters only if
another handshake record follows there.

**Properties.** `NoAlert`: no end refuses a record of the other. `Agreement`: ends at
rest after the same handshakes have the same session, keys both ways and Finished
messages, and the server knows the client by its certificate exactly when it should.
`DataAfterFinished`: data is read only under keys a Finished vouched for, and written
only then, but for a client with cutthrough in its first handshake. `NoDataLost`:
records written are read, on the wire or in the buffer. `NoStall`: the ends never
wait for each other. `ShutdownComplete`, `CloseIsFinal`: what `SSL_shutdown` returning
1 means, and that close_notify is not taken back. `ImplementsChannel`: the connection
is a `SecureChannel`. `Completes`: a handshake or renegotiation asked for takes place.

**Runs.** `Configs` is a set of records; a behaviour has one. `calls` in it says which
calls, besides connecting, reading and writing, each application makes.

* `handshake`: orderly applications. 288 settings with a first handshake, 48 with a
  renegotiation by either end, 4 with shutdowns, 4 with a shutdown that crosses a
  renegotiation.
* `handshake_live`: `Completes` in four settings with renegotiation by either end, and
  in three settings with calls at careless moments (`SSL_shutdown` in a handshake or in
  the cutthrough window, `SSL_renegotiate` before the first handshake or in that window,
  a renegotiation driven by `SSL_write`). Connections do fail in those three, and
  `Completes` says nothing of them: `Agreement` and `DataAfterFinished` are asked of all.
* `handshake_renew`: a disagreement of section 10.

*Bounds.* `MaxData = 2`: one record before and one after a change of keys;
`MaxRenego = 1` for each end: two crossing, and key and Finished state that is left
over from one handshake meets the next. The settings are a product of small sets.
Deadlock is off: a closed or failed connection stops.

*Fairness.* Weak fairness of what the library does at each end, which is that both
applications keep calling it, as a program that waits for its connection does
(`ssl/ssltest.c` loops over both ends). Applications owe no call of their own.

Careless calls that end a connection, found and left as documented behaviour:
`SSL_shutdown` in the cutthrough window sends close_notify into a handshake and
`SSL_renegotiate` there is answered by a fatal alert, because `SSL_in_init` is false
(`ssl/ssl_lib.c:3066`); `SSL_renegotiate` before the first handshake makes a server
refuse the SCSV of the first ClientHello (`new_session` is set already).

**Proofs** (`HandshakeProofs`), for any set of configurations, any number of records of
data and any number of renegotiations:

* `TypeCorrect`: `Spec => []TypeOK`, `Protected`: `Spec => DataAfterFinished`, and `Agreed`:
  `Spec => []Agreement`, whatever the applications call;
* `Final`: `Spec => CloseIsFinal`, and `NothingLost`: `Spec => []NoDataLost`, if every
  configuration keeps `Apart`: no end closes what it may renegotiate, and the client nothing
  that the server may renegotiate;
* `Complete`: `Spec => []ShutdownComplete`, if also `NoHurry`: no application calls
  `SSL_shutdown` inside a handshake, where it returns 1 and does nothing.

These conditions are about the calls in a configuration, and every configuration of the run
`handshake` satisfies all of them, the renegotiation that crosses the server's close_notify
included. Without `Apart` a renegotiation clears `s->shutdown` (section 10, 5). Without
`NoHurry` an answer of 1 means nothing.

None of the six is inductive. `Inv` is proved at once for all configurations, orderly or
not, and the conditions stand inside it as premises. It was checked by TLC before, on orderly
and on careless configurations, and is the conjunction of

* `Ends`, of each end by itself: types (`Typed`) and what the state says about the keys
  (`Keys`, `ClientKeys`, `ServerKeys`). `Vouched` is that the end reads with the keys of a
  verified Finished, `Settled` that it writes with them too. At rest an end is settled because
  every path to `DONE` passes `ssl3_get_finished`, which vouches for the key block, after or
  before the end's own ChangeCipherSpec: hence `WritesNew` and `ReadsNew` for the states
  between. `ClientWindow` and `ClientCalls` say how a handshake after the first can begin;
* `Streams` and `Records`: what is under way are sequences of records, and no data wait in
  the buffering BIO, so that what it drops is not data;
* `Hellos`: every ClientHello, HelloRequest and renegotiation under way is accounted for by a
  call of an application. `TypeOK` needs that: the bound on hellos at the server depends on
  how many are on the wire, and that on what both applications have asked for;
* `Counted`: data read and under way are at most what was written, and all of it while the
  reader has not closed;
* `Closed`: a close_notify under way, or taken, comes from an end that has `sent` set, and a
  return of 1 saw both.

`Flying(e, t)` counts the records of a kind on the way to `e`, on the wire or in the peer's
buffer. `PutAdds`, `FlushKeeps`, `DropKeeps` and `TakeLoses` say what writing, flushing,
dropping the buffer and reading do to that count, so that no action has to be looked at
record by record; there is then one lemma for each, `..._Inv`, and `Next_Inv` puts them
together. `Quiet` and `Restarts` sort the steps for the action properties.

`Protected` needs more of a client that renegotiates out of the cutthrough window, before it
has the server's first Finished: it reads application data until the next ServerHello
(`ssl/s3_pkt.c:1363`), and it must not do so in the clear or under keys no Finished vouches
for. The second invariant, `Order`, proved on top of `Inv` in `Ordered`, says what one end
may conclude from what it has seen:

* `ClientFirst`: before the server's first Finished the client reads in the clear or has read
  a ChangeCipherSpec and waits for the Finished; before its own, it has sent one hello;
* `ServerFirst`: the server has both Finished messages or neither when it answers a hello, so
  a client that lacks one refuses the ServerHello by its renegotiation extension;
* `Sealed`: the server's data are encrypted from the first, so a client that still reads in
  the clear cannot open them;
* `Caused`: the client's Finished stands behind the server's ChangeCipherSpec, unless the
  server resumes; `Resuming`: both ends agree on that in the first handshake, from the id the
  client offers to the one the server answers with. So no ChangeCipherSpec reaches the client
  before it clears `ccs` on its way to its own (`ssl/s3_clnt.c:418`, `430`), which would leave it
  reading with keys not vouched for.

Each step preserves it by `ClientCalm` or `ServerCalm`, what a step of one end may change
without the other's conclusions being affected (`ClientMoves`, `ServerMoves`), or has a lemma
of its own, `..._Order`.

`Agreed` relates the two ends field by field, through everything they have said to each
other. The third invariant, `Talk`, proved on top of both in `Talking` and checked by TLC
before on orderly and careless configurations, ties each end's fields to the handshake it is in and
the records under way to the end that sent them. A handshake is named by the randoms of its
hellos, which number them; a Finished is label, master secret and transcript, so the Finished
messages an end holds (`prev`) name the handshake and the session they were made in
(`Names`), and whether the transcript holds a ClientKeyExchange says if it was resumed
(`Tells`).

* `ClientSide`, `ServerSide`, one end by itself, in every state of its machine: how the
  randoms stand to the completed handshakes (`...Numbers`), whether the key block is unset or
  of this handshake (`...Run`), what the transcript holds so far (`...Talk`), which of the two
  Finished messages are of this handshake already (`...Told`), and whom the server knows
  (`ServerKnows`). A server that has sent a HelloRequest passes through `DONE` without a
  handshake; a client that renegotiates out of the cutthrough window (`Abandons`) leaves one
  unfinished and gets no further than the ServerHello, by `Order`;
* `Numbered`: each hello under way is newer than the last one its reader has read, and there
  is one at most; so the ServerHello a client reads answers its last ClientHello (`Answered`),
  and the ClientHello a server reads is the only one (`Asked`);
* `Keyed`: a flight goes out under the keys of an earlier handshake, if under any. A
  ChangeCipherSpec that comes too early (the checks for it are in the Finished alone,
  `ssl/s3_both.c:225`) makes keys of the present handshake, under which no message of the
  flight opens: the end that took it makes no progress instead of a wrong one (`Opened`);
* `Bound`: a Finished that was sent, read or remembered, and names the handshake its sender
  is in, is the sender's last one. At rest the numbers are equal, so each end's Finished
  messages are the other's, and with them master secret and resumption.

A step of one end that keeps to `ClientSteady` or `ServerSteady` leaves what the other may
conclude as it is (`ClientTalks`, `ServerTalks`); the hellos and the Finished messages, which
do not, have lemmas of their own (`TalkClientHello` to `TalkServerFinished`).

**Proofs** (`LockstepProofs`), for any number of records of data and of renegotiations, if
every configuration is `Calm`:

* `NeverRefused`: `Spec => []NoAlert`, and `NeverStalled`: `Spec => []NoStall`;
* `SecureChannelKept`: `Spec => ImplementsChannel`.

`Calm` says that the applications renegotiate and shut down outside handshakes only (or call
`SSL_shutdown` inside one, which then does nothing) and keep `Apart`, and that no ticket is
renewed in a resumption. The 344 configurations of the run `handshake` are all calm; the
theorems hold of any set of calm ones. The conditions are what the code needs: the client
refuses a renewed ticket (`handshake_renew`), the careless calls of `handshake_live` break the
connection, and section 10, 5 is what happens without `Apart`.

Neither `NoAlert` nor `NoStall` says anything of a record before it is at the head of the
queue, so the invariant has to say what all of them are. `Line(e)` is the whole way to an end,
wire and the peer's buffer together, and the records of a handshake are numbered in the order
of the protocol, in each direction by itself (`ToClient`, `ToServer`); what is sent at rest,
data, HelloRequest and close_notify, has one number `z`. `Lockstep`, proved on top of `Inv`,
`Order` and `Talk` in `InStep`, and checked by TLC before, is the conjunction of

* `ClientHeard`, `ServerHeard`: the transcript of each end in each state, spelled out from the
  configuration; `ClientWill`, `ServerWill`: what it will do next, and under which master secret;
* `SameRun`: both ends are in the same handshake and agree on resumption and tickets, or the
  server has yet to read the hello the client waits on;
* `ToClientOk`, `ToServerOk`: a line holds numbers that rise, from the least its reader
  may still read (`ClientReadsFrom`, `ServerReadsFrom`) to below the least its writer has not
  written yet (`ToClientBelow`, `ToServerBelow`), only numbers that this handshake sends
  (`ServerSends`, `ClientSends`), and every one of them (`AllThere`); each says what its sender
  knew (`ServerSaid`, `ClientSaid`); and as long as the ChangeCipherSpec is in that interval
  the writer writes with the new keys and the reader reads with the old, afterwards they
  are the same;
* `Starting` for the first hello and the next, `Buffers` for what the buffering BIO holds.

`NoAlert` is in it, since after an alert nothing of the rest holds. A step moves one bound
of one interval: `ClientGoesOn`, `ServerGoesOn` and the lemmas about queues (`Skips`, `Gap`,
`Follows`) say which numbers it may pass over, and each action has a lemma `..._Lock`. That a
record is not refused is then that the head of the line is the number the state expects
(section "No record is refused" of the module), and that there is no stall that two ends that
both wait have intervals with a number in one of them (`NeverStalls`).

The refinement needs `Lasting` as well: a client that begins a handshake has the server's last
Finished, an end that was told of the close does nothing but close, and no data follow a
close_notify. `Channel!Next` is shown step by step: a step that leaves what an end `Shows`
as it was is `Unnoticed`, each of the others is an action of the channel.

Model-checked only: `Completes` (liveness).

## 5. The BIO pair

**Correspondence.** `bio[x]` is `struct bio_bio_st` with `init` of the BIO; `place[x]`
is what the application stored where `BIO_nwrite0` pointed and did not hand over;
`data` is what the last call returned. Each function of the method table is an action;
the two turns of the copying loops are `Fill` and `Drained`. `bio_make_pair` keeps a
buffer that is there, `make_pair_fails` is the failing second allocation, a BIO may be
joined with itself (the code does not object), parted, freed, made again. Fields that
`bio_new` leaves as `malloc` gave them start with either of two values.

`Careful` is an obligation on the application: no read empties a buffer while bytes
are being built in it. Without it the code does not give a queue (section 10). A
`BIO_nwrite` without `BIO_nwrite0`, which publishes bytes to be stored later, is left
out, and so are `BIO_eof`, which passes no BIO and always says 1
(`bss_bio.c:688`), and the calls that only look. `BIO_CTRL_DUP` gives a new BIO the
size of another, which is what `set_write_buf_size` does to one without a buffer.

**Properties.** `Documented`: the comments in the struct (peers point at each other,
`offset` is 0 if `len` is, `request` is 0 if `len` is not, ...). `GuaranteeKept`:
`BIO_get_write_guarantee` bytes fit now, in one `BIO_write` or two `BIO_nwrite`.
`ImplementsPipe`: the pair is two byte queues; nothing is lost, repeated, reordered or
left over from an earlier pair.

**Runs.** `bio_pair`: two BIOs, buffers of one and three bytes, calls of up to four
bytes, two values of a byte (exchangeable), one writer. Three is the least size in
which a write can wrap at more than one offset, four the least call a buffer refuses
in part; the two directions do not touch each other's buffers, so one writer shows
what two would. Deadlock is checked.

**Proofs.** For any number of BIOs, any bytes and any sizes of at least one byte:

* `Typing`: `Spec => []TypeOK` (proved, not checked in a run),
* `Valid`: `Spec => []Documented`,
* `Guarantee`: `Spec => []GuaranteeKept`,
* `Implements`: `Spec => ImplementsPipe`, assuming `Careful` (section 10 says what happens
  without).

First come the facts about the ring: `Cell(b, i)` is where the `i`-th byte of the
queue is. `StoredFacts` shows that a chunk lands on no such cell, `PutFacts` that it
appends to `Contents`, `AdvanceFacts` that reading a chunk takes a prefix off. The
two chunks of a wrapped write or read, `FillFacts` and `DrainedFacts`, are those twice
with laws of concatenation. Then the invariant: `TypeOK` is inductive only together
with `Documented` (that a read stays in the buffer needs `offset` and `len` bounded,
that its struct exists needs peers to point at each other). `Shape` is their
conjunction, cut into what each struct satisfies (`Good`) and how structs are linked
(`Links`); a step at one end keeps it by `OneEnd`, and there is one lemma for every
action, `...Shape`.

The refinement needs one thing more, `Built`: bytes built in place are still in the
buffer, at `WriteOffset`, and fit. It is what a reader that empties the buffer breaks,
so `Careful` is used in `ReadRefines` and `NreadRefines` only. `View` names the
refinement mapping (`peers`, `queues`, `closeds`, `caps`); the lemmas `...Step` state
the steps of `Pipe` over it, and `...Refines` say for every action that it keeps
`Built` and is such a step. `HandOver` is the interesting one: what `BIO_nwrite`
counts in `len` is, by `Built`, what a `Put` of the same bytes would have stored.

## 6. The sending record layer

**Correspondence.** `s3` holds what `ssl/s3_pkt.c` keeps between calls: the buffer
(`buf`, and in `left` what the transport has not taken), the four `wpend_*`, `wnum`,
`alert_dispatch`, `send_alert`, `empty_fragment_done`; `wire` is what the transport has.
A byte is its number in its stream, a record its type and the numbers it carries; `left`
and `wire` hold a record's header and bytes one by one, so that the transport may take
any part of them (`Taken`). `call` is the `ssl3_write_bytes` under way, below the
`SSL_write` that came to it through the handshake. One step is one round of its loop:
`do_ssl3_write` with the alert it may send first, and `ssl3_write_pending`. The functions
return sets of outcomes, one for every part the transport may take.

| code | definitions |
|---|---|
| `ssl3_write` | `SSL_write` (resets `wnum`, renegotiates first if it must) |
| `ssl3_write_bytes` 585 | `Frame`, `ssl3_write_bytes`, `Fragment`, `Whole`, `GivesUp`, `Returns` |
| `do_ssl3_write` 653 | `do_ssl3_write`, `Prefix`, `Built` |
| `ssl3_write_pending` 853 | `ssl3_write_pending`, `BadRetry`, `Taken` |
| `ssl3_send_alert`, `ssl3_dispatch_alert` | the same names; asked for by `refuse_renegotiation`, `SSL_shutdown` |
| `ssl3_do_write` | `Message`, `handshake_func`, `Returns` |

The application keeps the rule of `SSL_write`: it repeats the call it was told to repeat,
with no fewer bytes and the same buffer unless `SSL_MODE_ACCEPT_MOVING_WRITE_BUFFER` is
set. Left out: encryption, compression, the length of a record on the wire, the second
byte of an alert, the contexts' free lists, DTLS.

**Properties.** `Framing`: what was put out reads as whole records, header, then each
byte announced, whatever got between two calls of the transport, and no record holds
bytes its writer was not given. `ImplementsStream`: it is a `RecordStream`, each type's
bytes once and in order, reported as written only once they are out. `AlertKept`: an
alert asked for is out, under way or still marked. `EmptyFirst`: with
`need_empty_fragments`, application data begins with an empty fragment. `WriteCompletes`:
a write that is repeated gets done. `BufferHeld`: records are built in a buffer.

Three of them state an exception, and each exception is something the code does:

* `AlertKept` leaves out an alert asked for while another is half written: finishing the
  first clears `alert_dispatch`, which is by then the second's, and the second is lost.
  `SSL_shutdown` in that moment returns as if its close_notify were waiting; its comment
  (`ssl/s3_lib.c:3168`) says `alert_dispatch` "will be true" if it "still needs to be
  written".
* `EmptyFirst` lets an alert stand for the empty fragment: `do_ssl3_write` sets
  `empty_fragment_done` whatever it sends, and only `ssl3_write_bytes` resets it.
* `WriteCompletes` ends at `Blocked`: a record of one type half written can only be
  finished by a write of that type. `SSL_write` after a half written alert returns
  `BAD_WRITE_RETRY` until something calls `ssl3_dispatch_alert` by itself, which only
  `SSL_shutdown` does; a server that gets a ClientHello with application data half written
  cannot write its handshake messages, nor the data before the handshake.

**Runs.** `records`: every combination of partial writes, moving buffers and role; with
long handshake messages and empty fragments together, or neither and `SSL_write` going
on with a handshake (`through`). Fragments of one byte and three bytes of data make every
write take several records, messages of two bytes take two, two alerts are enough for one
to cross or to replace another, one renegotiation for handshake and application records
to meet. `records_release`: `SSL_MODE_RELEASE_BUFFERS`, a disagreement of section 10.
Deadlock is off: the application may have written everything.

*Fairness.* The application repeats what it was told to repeat; a function that was
entered goes on; a handshake gets its answer; a transport asked again and again takes
something in the end (`SF(Progress)`). New calls are owed by nobody.

Long messages together with `through` are left out because `ImplementsStream` fails there
(section 10, 6).

**Proofs** (`RecordWriteProofs`), for any sizes of records, messages and data and any
number of alerts and renegotiations:

* `TypeCorrect`: `Spec => []TypeOK`,
* `AlertsStay`: `Spec => []AlertKept`,
* `Buffered`: `Spec => []BufferHeld`, if no mode has `release` (`records_release` shows the
  other case),
* `Framed`: `Spec => []Framing`, and `Emptied`: `Spec => EmptyFirst`, if no mode has both
  `long` and `through`: with both, TLC finds `Framing` violated too (section 10, 6).

The functions of `s3_pkt.c` are taken one by one. `PendingFacts`, `BuiltFacts`,
`AlertFacts` and `WriteFacts` say what each may leave behind and return; by them a round of
`ssl3_write_bytes` (`Round`) either goes on with the record under way, or does not get past
an alert, or begins its own record. What was put out only grows, and by whole records
(`ChainConcat`, `UnitsFacts`), and moving it from the buffer to the wire leaves the stream
`Flow` as it is (`SplitFacts`). Four inductive invariants rest on that:

* `Inv`: types, that a record under way has bytes and returns as many, and that a marked
  alert was asked for;
* `AlertInv`: `AlertKept` and, since a half written alert takes the mark with it,
  `Crossing`: the one half written is the one in the slot or was crossed;
* `FrameInv`: `Chain`, that records are whole, is nearly immediate; that they stay
  `Bounded` is not. It needs to know where each writer is: whose calls are under way
  (`Calls`, `Owner`), that `wnum` is left over only with a record under way (`Zero`), and
  that progress plus what is under way is what is out, for the handshake message
  (`Shake`) and for the application's write (`Reach`). A message `Stuck` behind another's
  record is the exception, and `Roles` says which end can get there;
* `EmptyInv`: the stream is `Leading`, and `empty_fragment_done` is set only with an alert
  at the end, a record under way or a write beyond its first record (`Flag`).

Model-checked only: `WriteCompletes` (liveness) and `ImplementsStream`, whose mapping
selects the headers of a sequence, a recursion over data.

## 7. DTLS

### The handshake

**Correspondence.** `dtls1_connect(c)` and `dtls1_accept(c)` are the two machines as
sequences of the messages each sends and gets, with what the case does to the timer;
`ssl[e].at` is the state. `sent` is the queue of sent messages, `buffered` that of messages
kept, `unprocessed` the records of the next epoch. A datagram on `wire` is a record
with a message or one of its two halves; `part` of a kept message is what its bitmap says
has come. The bitmap does not always say so: a piece of more than eight bytes that ends at
a multiple of eight leaves the bits of its last eight bytes unset (`RSMBLY_BITMASK_MARK`, with
`bitmask_end_values[0]` 0), and a message whose length is a multiple of eight is complete
only if they are. `aligned` names the messages whose cut is at such a place, and `Covered`
says what is marked of them. A Finished is the sequence of messages it digests. `said` and `told` are history.

| code | definitions |
|---|---|
| `dtls1_do_write`, `dtls1_buffer_message` | `send_message`, `Fragments`, `FirstFragments` |
| `dtls1_get_message` | `dtls1_get_message`, `Ready` |
| `dtls1_get_message_fragment`, `dtls1_reassemble_fragment`, `dtls1_process_out_of_seq_message` | the same names |
| `dtls1_get_record`, `dtls1_buffer_record`, `dtls1_read_bytes` | `dtls1_get_record`, `dtls1_get_processed_record`, `dtls1_read_bytes`, `Answer` |
| `dtls1_handle_timeout`, `dtls1_retransmit_buffered_messages` | the same names |
| the transport | `lose`; any datagram may be read next |

Left out: renegotiation, HelloRequest, application data, alerts, `dtls1_listen`, the MTU,
datagrams of several records, a resumed handshake that renews its ticket; the replay
window is the next section's. What the transport repeats the record layer drops, so a
copy on `wire` is a retransmission.

**Properties.** `FinishedMatch`: no message is refused, no Finished fails: whatever was
lost, cut or overtaken, both digest the same. `ImplementsDelivery`: the messages an end
takes are those the other sent, in order and each once. `Completes`: both ends finish.

`Completes` excepts four kinds of settings, in each of which TLC finds a handshake that
never ends (drop the exception to see it; the other properties hold there):

* *A NewSessionTicket.* The client, having taken it, clears its flight
  (`ssl/d1_both.c:479`, "we don't need to retransmit of the buffered messages"), though it
  still waits for the Finished: if the server's ChangeCipherSpec or Finished is lost,
  nobody sends again what makes the server repeat them. The comment above says as much of
  the server.
* *A client certificate.* The server allows a ChangeCipherSpec from the moment it waits
  for CertificateVerify (`ssl/d1_srvr.c:523`). One that overtakes that message changes
  the reading epoch, and the message is never read.
* *A message cut at first and whole later, and a later one always cut.* The kept half
  stays at the head of the queue when the whole message is taken from the wire, and
  nothing behind it is taken again.
* *A message always cut at a multiple of eight bytes, beyond the first eight*
  (`ssl/d1_both.c:128-157`), or one whose length is a multiple of eight, always cut so that
  eight bytes or fewer are left. Its bitmap never says that it is complete, however often
  both pieces come.

**Run.** `dtls`: eleven settings, short and full handshakes with and without cookie,
ServerKeyExchange, client certificate, ticket and messages cut where the bitmap can and
where it cannot put them together, with one or two
datagrams lost anywhere, and one timer that expires while answers are under way. One loss
reaches every single retransmission, two a lost retransmission; reordering is not bounded.
`AlertCount` is the code's 12; `Window` is 2 where the code keeps ten messages ahead,
which no handshake here is long enough to exceed. Deadlock is off: a handshake ends.

*Fairness.* Both applications keep calling the library and its timer, as a program
waiting for a handshake does; losses are finitely many, so fairness of the transport is
not asked for.

**Proofs** (`DTLSHandshakeProofs`), for every setting, any cut of the messages, any number
of losses, timeouts and early datagrams and any window:

* `Refinement`: `Spec => ImplementsDelivery`,
* `Matched`: `Spec => []FinishedMatch`.

For the refinement, `Inv` says of either end that whatever carries a message to it (on the
wire, kept, or waiting for its epoch) `Fits`: it carries, under its number, the message the
peer said with that number; and that `read_seq` and `write_seq` count the messages told
and said. An action changes one end (`Heard`), and each has a lemma that keeps `Inv` and
is a step of `MessageDelivery`.

`FinishedMatch` needs both ends at once. `Talk(c)` is the handshake as a single sequence
of lines, written once; `Aligned` and the lemmas about it show that the two scripts follow
it, each with its ChangeCipherSpec put in before its Finished (`Close`). `Agreement` then
says of each end, at its `Place` in the talk: what it said and was told is the talk up to there
(`Counted`), its Finished MAC is `Mac`, the same for both (`Digests`), and records are of
the epoch their message belongs to (`Marked`, `Epochs`). The delicate part is `Changed`: a
ChangeCipherSpec that came early. Either the Finished is the next message and its MAC was
taken at the right moment, or it came so early that the end will never again find its next
message (`Stalled`): the handshake stops, as in the second exception of `Completes`, and
does not take a wrong Finished.

### The replay window

**Correspondence.** `bitmap` and `next_bitmap` are the windows: `max_seq_num` and the set
of distances whose bit is set. `satsub64be` cuts off at 128, as the code does.
`unprocessed` and `processed` are the queues of records of the next epoch; going through
them (`dtls1_process_buffered_records`), passing one up, and reading from the wire are
actions, and so is a call that finds nothing; any record of any epoch may come at any time,
again and again, whole or damaged. `times` counts how often each was passed up. A kept
record that is damaged, or was kept under the label of an epoch not its own, ends the loop
over the queue (`Stop`): the rest of this call (`stopped`) goes on without those behind it.
`left` remembers them.

**Properties.** `NoReplay`: none twice, kept or not, across the change of epochs, but for the
records in `left`: while those wait, the same record read from the wire is taken, and the
kept one is passed up as well (section 10, 12).
`NothingRefused`: a record the window has room for and that has not been taken is new.

**Run.** `dtls_records`: a window of two, four records, three epochs, two kept: a record
can fall out of the window on either side of the shift, and a kept record can arrive
again before, while and after its epoch begins.

**Proofs** (`DTLSRecordProofs`), for every window of 1 to 128 bits, every last record and
epoch and every limit: `Typing` (`TypeOK`), `Once` (`NoReplay`), `Accepted`
(`NothingRefused`). `Bits` goes up to 128 because a difference is cut off there: with a
wider window a record 128 or more behind would be looked up in the wrong bit. `Covers` and
`Marks` say what a window knows: every record of a set that it has room for, and no
others. `CheckSound`, `CheckComplete` and `UpdateFacts` are the window's two functions in
those terms. The invariant then is `TypeOK`, `NoReplay` and

* `Window`: the window covers and marks exactly `Taken`, records passed up or gone
  through in this epoch, and the next epoch's window is empty;
* `Future`: nothing of a later epoch was passed up;
* `Waiting`: what was gone through was not, unless it is in `left`;
* `Kept`: the queue is of this epoch or the next, and while it is gone through none of its
  records is taken yet but those in `left`; after a stop all of them are in `left`.

`Window` alone does not last: when the epoch changes, `Taken` becomes empty because of
`Future`, and because nothing is read while records that were gone through are waiting.
There is one lemma for every action.

## 8. The random pool

**Correspondence.** `RAND_add`, `RAND_bytes` and `RAND_status` are calls of any thread;
`pc` is its place in `ssleay_rand_add`, `_bytes` or `_status`, `back` where a nested
`ssleay_rand_add` returns to: `RAND_poll` makes `Polls` of them, the stirring `Stirs`,
both while the caller holds `CRYPTO_LOCK_RAND` (`lock`). A section under
`CRYPTO_LOCK_RAND2` is one step. The unlocked read of `crypto_lock_rand` is a data race:
`visible[t]` is the set of values thread `t` may get, all those written since it last had
the lock. `do_not_lock` is the local of each depth. `md` is abstracted to the set of calls
whose digests, XORed, it is: mixing in what is there already takes it out again. A call's
digest is hashed from what `md` was when it began, so `Within(m)` is all that the digests in
`m` depend on. `drawn` (of each call, the counters it copied, its number of blocks and what
its digest depends on), `mine` and `finished` are history.

| code | actions |
|---|---|
| `crypto_lock_rand`, `locking_threadid` (lines 213, 553) | `check`, `compare`, `set_id`, `set_flag`, `clear` |
| `CRYPTO_w_lock`, `CRYPTO_w_unlock` | `w_lock`, `unlock`, `leave` |
| `RAND_poll` and stirring, `initialized`, `stirred_pool`, `entropy` | `poll`, `stir`, `NestedAdd`, `Estimate` |
| counters and digest | `copy`, `count`, `mix`, `mixed` |

Left out: the pool's bytes (`state`, written by several threads at once, as its comment
says), `RAND_cleanup` (which takes no lock), engines, seed files,
overflow of the counters, the `RAND_status` inside `RAND_poll`.

**Properties.** `Exclusive`: a thread is inside exactly if it holds the lock, so no two are
and none waits for itself, whatever a stale read returned. `Unique`: no two calls
hash with the same counters. `NothingLost`: what a finished call mixed in stays in the
digest, itself or in what that is hashed from. `Returns`: every call returns.

**Run.** `rand_pool`: two threads, three calls between them, one nested call of each kind,
one or two blocks. `MinBlocks` is 1: an application's `RAND_add` of no bytes hashes
nothing, and its `local_md`, the copy of `md`, takes out of `md` what is there (section 10,
11); nested calls and `RAND_bytes` always have a block. Two threads suffice for a flag set by one and read by the other; the
third call makes a thread come back with what an earlier one left behind. (Three threads
with the same bounds pass as well.) Deadlock is off: the calls are finitely many.

*Fairness.* Weak fairness of a thread inside the library. As calls are finitely many, the
lock need not be fair.

**Proofs** (`RandPoolProofs`), for any threads, calls, nested calls and blocks: `Typing`
(`TypeOK`), `Guarded` (`Exclusive`), `Different` (`Unique`), `Preserved` (`NothingLost`, if
`MinBlocks > 0`).
`Exclusive` is not inductive: why is a thread that reads 1 and finds its own id the holder?
`Control` says, for each thread (`Kept`), where it may be (`Where`), that calls of the
application lock and nested ones do not (`Skipping`), and (`Owner`) that the holder sees the
flag as it is and left its id before setting it, and that whoever may see 1 next to its own
id holds the lock; and that the flag is clear when the lock is free. A step of one thread
keeps `Kept` of the others (`OthersStay`, `LockMoves`, `FlagMoves`, according to whether it
moves the lock or writes the flag). `Counted` says that the counters drawn are behind `md_count`
but for those of the one call between copying and counting; `Named` that digests are those of
calls. `Digests` is a second invariant, on top of the first, and needs `MinBlocks > 0`: a digest
not yet mixed in is one of its own, which the pool's does not have (`Sown`), so that the XOR
adds it; and a thread between reading and writing the pool's digest has all of it (`Mixing`).
`Counted` and `Mixing` rest on `Exclusive`: at most one thread is there. `Returns` is model-checked only.

## 9. How the checks are made to bite

Each property of each passing run has a mutant in `PROJECT.json`: an operator next to
the one it replaces, marked *Mutant* and doing what a plausible slip would (a dropped
reference, a loop without its break, an offset left where it is). TLC finds the property
violated under the same configuration.

## 10. Where code and comments disagree

Two runs end in such a state:

1. *A renewed ticket breaks the resumption* (`ssl/s3_clnt.c:295`; run
   `handshake_renew`). The server sends NewSessionTicket on a hit; the client goes
   straight to the Finished.
2. *A record is built without a buffer* (`ssl/s3_pkt.c:676`; run `records_release`). With
   `SSL_MODE_RELEASE_BUFFERS`, the alert sent first gives the buffer back.

The others have no run of their own; the setting given shows them:

3. *A failed `lh_insert` is taken for a new entry* (`ssl/ssl_sess.c:607`;
   `SessionCacheOom.cfg` with `INVARIANTS CacheBound`). The session is linked but not
   hashed; once it is the tail, eviction stops there and the cache outgrows
   `session_cache_size`.
4. *`SSL_get1_session` can take a reference to a freed session* (`ssl/ssl_sess.c:583`;
   `SessionCacheCollide.cfg` with `SharedSsl = TRUE` and `RefCount`). Its comment says the lock prevents
   that; other functions free `s->session` and overwrite it afterwards, outside the lock.
5. *close_notify taken back* (`ssl/s3_lib.c:3191`; `HandshakeOrderly.cfg` with
   `Configs <- MCCrossed` and `CloseIsFinal`). `SSL_shutdown` waiting for the peer meets a
   HelloRequest, renegotiates and clears `s->shutdown`.
6. *A handshake message repeats its beginning* (`ssl/s3_lib.c:3205`; `RecordWrite.cfg` with
   `Modes <- Through` and `ImplementsStream`). `SSL_write` resets `wnum` before it goes on
   with a renegotiation whose message is half written.
7. *Reading while bytes are built in place* (`crypto/bio/bss_bio.c:263`; `BioPairRing.cfg`
   with `Careful = FALSE`). The emptied buffer's offset moves to 0, away from the pointer
   `BIO_nwrite0` gave; `ImplementsPipe` is violated.
8. The four DTLS handshakes of section 7 that do not end. `dtls1_get_message` is to "read an
   entire handshake message" (`ssl/d1_both.c:406`); in the fourth (`DTLSHandshake.cfg` without
   `conf.aligned` in `Completes`) it never has one, though all its bytes came.
9. *A session that is added again is counted again* (`ssl/ssl_sess.c:601`;
   `SessionCacheOom.cfg` with `AppMax = 1`; `RefCount`). "If session c is in already in
   cache, we take back the increment later": one that is linked but, after a failed
   `lh_insert`, not hashed is taken for new, and keeps a reference nobody holds.
10. *A session without an id cannot be removed* (`ssl/ssl_sess.c:671`;
    `SessionCacheServer.cfg` with `AddNoId = TRUE`, `ClientCache = TRUE`, `AppMax = 1`,
    `CacheSize = 1`; `CacheBound` or `FailedNotCached`). `SSL_CTX_add_session` takes it, and
    when it is the tail, eviction stops there as in 3.
11. *Seeding with no bytes takes earlier seeds out of the digest*
    (`crypto/rand/md_rand.c:315`; `RandPool.cfg` with `MinBlocks = 0`; `NothingLost`). "By
    XORing it we keep at least as much entropy as fits into md": without a block hashed,
    `local_md` is the `md` copied at line 235, and the XOR cancels what `md` still has of it.
12. *A damaged kept record leaves the others waiting* (`ssl/d1_pkt.c:310`; `DTLSRecord.cfg`
    with `NoReplay` asked of all records). The loop is to "process all the records"; it
    returns at the first that fails, its caller goes on to read, and a record that is both
    kept and on the wire is passed up twice.

With a servername callback that switches contexts, `FailedNotCached` does not hold
either: removal goes to the context of the moment. It is a hazard with a note.

## 11. Not modelled

See the components marked `not_modelled`. The larger gaps, in the order of the plan:
the hash table's own splitting and joining, the error queue, RSA blinding, the free lists
of buffers, DTLS beyond a first handshake. Arithmetic (ciphers, big numbers, public keys)
and formats (ASN.1, X.509) are outside what these tools can say.

Nothing about liveness is proved: fairness is out of the prover's reach, and so `Completes`
(twice), `WriteCompletes`, `LockReleased` and `Returns` are model-checked on the instances
named above. So is `ImplementsStream`: its mapping picks the headers out of a sequence of
any length, and what such a recursive function returns can only be proved by induction over
data.
