---------------------------- MODULE SessionCache ----------------------------
(***************************************************************************)
(* The internal session cache of an SSL_CTX (ssl/ssl_sess.c with its       *)
(* callers in ssl/ssl_lib.c), used by several threads.  Each thread t runs *)
(* one SSL; session[t] is its s->session.  SSL_SESSION objects live at the *)
(* addresses Sess; an object with no references is free memory.  The cache *)
(* is an lhash (table, a set of nodes) and a doubly linked list (list,     *)
(* newest first).  CRYPTO_LOCK_SSL_CTX is the variable lock; CRYPTO_add is *)
(* one atomic step.  A section of code under the lock is one step, except  *)
(* the eviction and flush loops: they take one step per session, because   *)
(* reference counts move outside the lock while they run.                  *)
(***************************************************************************)
EXTENDS Naturals, FiniteSets, Sequences, SequencesExt

CONSTANTS
  Thread,       \* threads, each with its own SSL
  Sess,         \* addresses at which SSL_SESSION objects live
  Id,           \* nonempty session ids
  CacheSize,    \* ctx->session_cache_size; 0 means no limit
  AppMax,       \* how many references a thread's application code keeps
  NoSess,       \* NULL
  NoThread,     \* the lock is free
  NoId,         \* session_id_length = 0
  ClientCache,  \* session_cache_mode has SSL_SESS_CACHE_CLIENT
  Sni,          \* a servername callback may call SSL_set_SSL_CTX
  Oom,          \* malloc may fail in lh_insert
  AddNoId,      \* applications may add sessions that have no id
  SharedSsl     \* threads call SSL_get1_session on each other's SSL

ASSUME ConstantAssumption ==
  /\ CacheSize \in Nat /\ AppMax \in Nat
  /\ NoSess \notin Sess /\ NoThread \notin Thread /\ NoId \notin Id
  /\ {ClientCache, Sni, Oom, AddNoId, SharedSsl} \subseteq BOOLEAN
  /\ IsFiniteSet(Thread) /\ IsFiniteSet(Sess)

VARIABLES
  heap,      \* the SSL_SESSION objects
  table,     \* ctx->sessions: nodes [key, obj], key hashed at insertion
  list,      \* ctx->session_cache_head .. session_cache_tail
  lock,      \* holder of CRYPTO_LOCK_SSL_CTX
  todo,      \* nodes SSL_CTX_flush_sessions has still to visit
  session,   \* s->session
  switched,  \* s->ctx is no longer s->session_ctx
  loc,       \* the local that owns a reference (ret, ss)
  arg,       \* the operand of the add or remove under way
  pc, cont,  \* where the thread is; where it goes after a call
  app        \* references held by application code

cacheVars == <<table, list, lock, todo>>
sslVars == <<session, switched>>
callVars == <<loc, arg, pc, cont>>
vars == <<heap, cacheVars, sslVars, callVars, app>>

Node == [key : Id \cup {NoId}, obj : Sess]

\* failed is a history field: the session's connection got a fatal alert, or
\* the application removed it from the cache, and did not add it again.
Object == [references : Nat, session_id : Id \cup {NoId}, expired : BOOLEAN,
           not_resumable : BOOLEAN, failed : BOOLEAN]

PC == {"idle", "new_free", "new_null", "new_id", "full", "resumed", "add_lock",
       "evict", "newcb", "prev_check", "prev_drop", "prev_free", "prev_set",
       "rm_lock", "rm_free", "flush", "clear", "clear_null"}

TypeOK ==
  /\ heap \in [Sess -> Object]
  /\ table \in SUBSET Node
  /\ list \in Seq(Sess)
  /\ lock \in Thread \cup {NoThread}
  /\ todo \in SUBSET Node
  /\ session \in [Thread -> Sess \cup {NoSess}]
  /\ switched \in [Thread -> BOOLEAN]
  /\ loc \in [Thread -> Sess \cup {NoSess}]
  /\ arg \in [Thread -> Sess \cup {NoSess}]
  /\ pc \in [Thread -> PC]
  /\ cont \in [Thread -> PC]
  /\ app \in [Thread -> SUBSET Sess]

\* A zeroed object but for its id and n references; with none it is free memory.
Zeroed(id, n) == [references |-> n, session_id |-> id, expired |-> FALSE,
                  not_resumable |-> FALSE, failed |-> FALSE]
Freed == Zeroed(NoId, 0)

Init ==
  /\ heap = [x \in Sess |-> Freed]
  /\ table = {} /\ list = <<>> /\ lock = NoThread /\ todo = {}
  /\ session = [t \in Thread |-> NoSess]
  /\ switched = [t \in Thread |-> FALSE]
  /\ loc = [t \in Thread |-> NoSess]
  /\ arg = [t \in Thread |-> NoSess]
  /\ pc = [t \in Thread |-> "idle"]
  /\ cont = [t \in Thread |-> "idle"]
  /\ app = [t \in Thread |-> {}]

-----------------------------------------------------------------------------
(* Objects, their references, and the two access paths.                    *)

refs(x) == heap[x].references
sid(x) == heap[x].session_id

\* SSL_SESSION_new and the d2i of a session made elsewhere, with n references.
New(x, id, n) == [heap EXCEPT ![x] = Zeroed(id, n)]
Unused(x) == refs(x) = 0

\* Mutant: a reference is taken without being counted.
Up_Uncounted(h, x) == h

\* CRYPTO_add(&x->references, 1).
Up(h, x) == [h EXCEPT ![x].references = @ + 1]

\* Mutant: the object is freed at the last reference but one.
Free_Early(h, x) ==
  IF x = NoSess THEN h
  ELSE IF h[x].references <= 2 THEN [h EXCEPT ![x] = Freed]
  ELSE [h EXCEPT ![x].references = @ - 1]

\* SSL_SESSION_free: the last reference cleanses the object.
Free(h, x) ==
  IF x = NoSess THEN h
  ELSE IF h[x].references = 1 THEN [h EXCEPT ![x] = Freed]
  ELSE [h EXCEPT ![x].references = @ - 1]

\* The end of a removal: not_resumable is set, the cache's reference dropped.
Discard(x) == Free([heap EXCEPT ![x].not_resumable = TRUE], x)

\* lh_retrieve: the node must lie in the bucket of the id's hash (the key it
\* was inserted under) and its session must compare equal now.
Match(i) == {n \in table : n.key = i /\ sid(n.obj) = i}
Retrieve(i) == IF Match(i) = {} THEN NoSess ELSE (CHOOSE n \in Match(i) : TRUE).obj

\* Mutant: a session is not unlinked.
Unlinked_Not(s, x) == s

\* SSL_SESSION_list_remove: nothing happens to a session that is not linked.
Unlinked(s, x) == IF \E k \in DOMAIN s : s[k] = x
                  THEN RemoveAt(s, CHOOSE k \in DOMAIN s : s[k] = x)
                  ELSE s

\* Mutant: added at the tail.
Linked_Tail(s, x) == Append(Unlinked(s, x), x)

\* SSL_SESSION_list_add: a linked session is unlinked first.
Linked(s, x) == <<x>> \o Unlinked(s, x)

Goto(t, l) == pc' = [pc EXCEPT ![t] = l]

\* An add or a remove returns to its caller.
Return(t, l) == /\ Goto(t, l)
                /\ arg' = [arg EXCEPT ![t] = NoSess]
                /\ cont' = [cont EXCEPT ![t] = "idle"]

-----------------------------------------------------------------------------
(* ssl_get_new_session.                                                    *)

\* SSL_SESSION_new, for a full handshake on a fresh or a connected SSL.
ssl_get_new_session(t) ==
  /\ pc[t] = "idle"
  /\ \E x \in Sess : /\ Unused(x)
                     /\ heap' = New(x, NoId, 1)
                     /\ loc' = [loc EXCEPT ![t] = x]
  /\ Goto(t, IF session[t] = NoSess THEN "new_id" ELSE "new_free")
  /\ UNCHANGED <<cacheVars, sslVars, arg, cont, app>>

\* SSL_SESSION_free(s->session), leaving s->session behind ...
new_free(t) ==
  /\ pc[t] = "new_free"
  /\ heap' = Free(heap, session[t])
  /\ Goto(t, "new_null")
  /\ UNCHANGED <<cacheVars, sslVars, loc, arg, cont, app>>

\* ... until it is overwritten.
new_null(t) ==
  /\ pc[t] = "new_null"
  /\ session' = [session EXCEPT ![t] = NoSess]
  /\ Goto(t, "new_id")
  /\ UNCHANGED <<heap, cacheVars, switched, loc, arg, cont, app>>

\* A server takes an id that SSL_has_matching_session_id does not find in
\* s->ctx->sessions, which is another cache once the context was switched.
\* A client, or a server that will issue a ticket, starts without an id.
choose_id(t) ==
  /\ pc[t] = "new_id" /\ lock = NoThread
  /\ \E i \in Id \cup {NoId} :
       /\ i # NoId /\ ~switched[t] => Match(i) = {}
       /\ heap' = [heap EXCEPT ![loc[t]].session_id = i]
  /\ session' = [session EXCEPT ![t] = loc[t]]
  /\ loc' = [loc EXCEPT ![t] = NoSess]
  /\ Goto(t, "full")
  /\ UNCHANGED <<cacheVars, switched, arg, cont, app>>

\* The id callback fails, or every id it tried is taken.
choose_id_fails(t) ==
  /\ pc[t] = "new_id"
  /\ heap' = Free(heap, loc[t])
  /\ loc' = [loc EXCEPT ![t] = NoSess]
  /\ Goto(t, "idle")
  /\ UNCHANGED <<cacheVars, sslVars, arg, cont, app>>

\* A client learns the id of a new session from ServerHello, or derives it
\* from a NewSessionTicket, which only a full handshake lets it accept.
ssl3_get_new_session_ticket(t) ==
  /\ ClientCache
  /\ pc[t] = "full" /\ sid(session[t]) = NoId
  /\ \E i \in Id : heap' = [heap EXCEPT ![session[t]].session_id = i]
  /\ UNCHANGED <<cacheVars, sslVars, callVars, app>>

-----------------------------------------------------------------------------
(* ssl_get_prev_session.                                                   *)

\* Lookup and increment under the lock: "don't allow other threads to steal it".
ssl_get_prev_session(t) ==
  /\ pc[t] = "idle" /\ lock = NoThread
  /\ \E i \in Id : /\ Match(i) # {}
                   /\ heap' = Up(heap, Retrieve(i))
                   /\ loc' = [loc EXCEPT ![t] = Retrieve(i)]
  /\ Goto(t, "prev_check")
  /\ UNCHANGED <<cacheVars, sslVars, arg, cont, app>>

\* tls1_process_ticket decodes the session from the client's ticket; it gets
\* the id the client sent, perhaps none, and is not looked up in the cache.
tls1_process_ticket(t) ==
  /\ pc[t] = "idle"
  /\ \E x \in Sess, i \in Id \cup {NoId} : /\ Unused(x)
                                          /\ heap' = New(x, i, 1)
                                          /\ loc' = [loc EXCEPT ![t] = x]
  /\ Goto(t, "prev_check")
  /\ UNCHANGED <<cacheVars, sslVars, arg, cont, app>>

\* A miss, and get_session_cb decodes the session from the application's own
\* cache: a fresh object with one reference (copy = 0), added to this cache.
\* The lock was released, so the id may be in the cache again by now.
get_session_cb(t) ==
  /\ pc[t] = "idle"
  /\ \E x \in Sess, i \in Id : /\ Unused(x)
                               /\ heap' = New(x, i, 2)
                               /\ loc' = [loc EXCEPT ![t] = x]
                               /\ arg' = [arg EXCEPT ![t] = x]
  /\ cont' = [cont EXCEPT ![t] = "prev_check"]
  /\ Goto(t, "add_lock")
  /\ UNCHANGED <<cacheVars, sslVars, app>>

\* Mutant: SSL_CTX_add_session is relied on to count, as if copy were 0.
get_session_cb_copy_Once(t) ==
  /\ pc[t] = "idle"
  /\ \E x \in app[t] : /\ sid(x) # NoId \/ AddNoId
                      /\ heap' = Up(heap, x)
                      /\ loc' = [loc EXCEPT ![t] = x]
                      /\ arg' = [arg EXCEPT ![t] = x]
  /\ cont' = [cont EXCEPT ![t] = "prev_check"]
  /\ Goto(t, "add_lock")
  /\ UNCHANGED <<cacheVars, sslVars, app>>

\* It returns an object the application keeps, of any id: "increment reference
\* count now if the session callback asks us to do so" (copy = 1), once more
\* for the cache.  It may be there already, or have been taken out of it.
get_session_cb_copy(t) ==
  /\ pc[t] = "idle"
  /\ \E x \in app[t] : /\ sid(x) # NoId \/ AddNoId
                      /\ heap' = Up(Up(heap, x), x)
                      /\ loc' = [loc EXCEPT ![t] = x]
                      /\ arg' = [arg EXCEPT ![t] = x]
  /\ cont' = [cont EXCEPT ![t] = "prev_check"]
  /\ Goto(t, "add_lock")
  /\ UNCHANGED <<cacheVars, sslVars, app>>

\* The session has timed out: SSL_CTX_remove_session(s->session_ctx, ret).
prev_timeout(t) ==
  /\ pc[t] = "prev_check" /\ heap[loc[t]].expired
  /\ arg' = [arg EXCEPT ![t] = loc[t]]
  /\ cont' = [cont EXCEPT ![t] = "prev_drop"]
  /\ Goto(t, "rm_lock")
  /\ UNCHANGED <<heap, cacheVars, sslVars, loc, app>>

\* SSL_SESSION_free(ret): timed out, or sid_ctx or cipher does not fit.
prev_drop(t) ==
  /\ pc[t] \in {"prev_check", "prev_drop"}
  /\ heap' = Free(heap, loc[t])
  /\ loc' = [loc EXCEPT ![t] = NoSess]
  /\ Goto(t, "idle")
  /\ UNCHANGED <<cacheVars, sslVars, arg, cont, app>>

prev_hit(t) ==
  /\ pc[t] = "prev_check" /\ ~heap[loc[t]].expired
  /\ cont' = [cont EXCEPT ![t] = "resumed"]
  /\ Goto(t, "prev_free")
  /\ UNCHANGED <<heap, cacheVars, sslVars, loc, arg, app>>

\* if (s->session != NULL) SSL_SESSION_free(s->session);  (SSL_set_session too)
prev_free(t) ==
  /\ pc[t] = "prev_free"
  /\ heap' = Free(heap, session[t])
  /\ Goto(t, "prev_set")
  /\ UNCHANGED <<cacheVars, sslVars, loc, arg, cont, app>>

\* s->session = ret;  A server goes on with the abbreviated handshake; after
\* SSL_set_session the client has the session it may offer.
prev_set(t) ==
  /\ pc[t] = "prev_set"
  /\ session' = [session EXCEPT ![t] = loc[t]]
  /\ loc' = [loc EXCEPT ![t] = NoSess]
  /\ Return(t, cont[t])
  /\ UNCHANGED <<heap, cacheVars, switched, app>>

-----------------------------------------------------------------------------
(* SSL_CTX_add_session.                                                    *)

\* CRYPTO_add(&c->references, 1): "if session c is in already in cache, we take
\* back the increment later".
StartAdd(t, x, next) ==
  /\ heap' = Up(heap, x)
  /\ arg' = [arg EXCEPT ![t] = x]
  /\ cont' = [cont EXCEPT ![t] = next]
  /\ Goto(t, "add_lock")

\* Under the lock, s = lh_insert(ctx->sessions, c) returns the session that
\* had the same id, if there was one.
add_insert(t) ==
  LET c == arg[t]
      s == Retrieve(sid(c))
  IN /\ pc[t] = "add_lock" /\ lock = NoThread
     /\ s # c
     /\ \/ table' = (table \ Match(sid(c))) \cup {[key |-> sid(c), obj |-> c]}
        \/ Oom /\ s = NoSess /\ table' = table
     /\ list' = Linked(Unlinked(list, s), c)
     /\ heap' = Free([heap EXCEPT ![c].failed = @ /\ cont[t] = "newcb"], s)
     /\ lock' = t
     /\ Goto(t, "evict")
     /\ UNCHANGED <<todo, sslVars, loc, arg, cont, app>>

\* c is in the cache already: the increment is taken back, the result is 0
\* and new_session_cb is not called.
add_present(t) ==
  /\ pc[t] = "add_lock" /\ lock = NoThread
  /\ Retrieve(sid(arg[t])) = arg[t]
  /\ heap' = Free(heap, arg[t])
  /\ Return(t, IF cont[t] = "newcb" THEN "idle" ELSE cont[t])
  /\ UNCHANGED <<cacheVars, sslVars, loc, app>>

\* Mutant: the limit is off by one.
Full_OffByOne == CacheSize > 0 /\ Cardinality(table) > CacheSize + 1

Full == CacheSize > 0 /\ Cardinality(table) > CacheSize
CacheTail == IF list = <<>> THEN NoSess ELSE list[Len(list)]
Evictable == /\ CacheTail # NoSess
             /\ sid(CacheTail) # NoId /\ Retrieve(sid(CacheTail)) = CacheTail

\* One turn of the while loop: remove_session_lock(ctx, tail, 0).
add_evict(t) ==
  /\ pc[t] = "evict" /\ Full /\ Evictable
  /\ table' = table \ Match(sid(CacheTail))
  /\ list' = Unlinked(list, CacheTail)
  /\ heap' = Discard(CacheTail)
  /\ UNCHANGED <<lock, todo, sslVars, callVars, app>>

\* Mutant: the loop does not end when the tail cannot be removed.
add_unlock_NoBreak(t) ==
  /\ pc[t] = "evict" /\ ~Full
  /\ lock' = NoThread
  /\ Return(t, cont[t])
  /\ UNCHANGED <<heap, table, list, todo, sslVars, loc, app>>

\* The cache is small enough, or the tail cannot be removed (break).
add_unlock(t) ==
  /\ pc[t] = "evict" /\ ~(Full /\ Evictable)
  /\ lock' = NoThread
  /\ Return(t, cont[t])
  /\ UNCHANGED <<heap, table, list, todo, sslVars, loc, app>>

-----------------------------------------------------------------------------
(* SSL_CTX_remove_session.                                                 *)

\* Mutant: the hash entry is deleted and the list is left alone.
rm_lock_HashOnly(t) ==
  LET c == arg[t] IN
  /\ pc[t] = "rm_lock" /\ lock = NoThread
  /\ heap' = [heap EXCEPT ![c].failed = @ \/ cont[t] # "prev_drop"]
  /\ table' = table \ Match(sid(c))
  /\ IF Retrieve(sid(c)) = c
     THEN Goto(t, "rm_free") /\ UNCHANGED <<arg, cont>>
     ELSE Return(t, cont[t])
  /\ UNCHANGED <<list, lock, todo, sslVars, loc, app>>

\* Both access paths are cut under the lock ...
rm_lock(t) ==
  LET c == arg[t] IN
  /\ pc[t] = "rm_lock" /\ lock = NoThread
  /\ heap' = [heap EXCEPT ![c].failed = @ \/ cont[t] # "prev_drop"]
  /\ \/ /\ sid(c) # NoId /\ Retrieve(sid(c)) = c
        /\ table' = table \ Match(sid(c))
        /\ list' = Unlinked(list, c)
        /\ Goto(t, "rm_free") /\ UNCHANGED <<arg, cont>>
     \/ /\ sid(c) = NoId \/ Retrieve(sid(c)) # c
        /\ Return(t, cont[t]) /\ UNCHANGED <<table, list>>
  /\ UNCHANGED <<lock, todo, sslVars, loc, app>>

\* ... the rest happens after it is released.
rm_free(t) ==
  /\ pc[t] = "rm_free"
  /\ heap' = Discard(arg[t])
  /\ Return(t, cont[t])
  /\ UNCHANGED <<cacheVars, sslVars, loc, app>>

-----------------------------------------------------------------------------
(* SSL_CTX_flush_sessions.                                                 *)

flush_begin(t) ==
  /\ pc[t] = "idle" /\ lock = NoThread
  /\ lock' = t
  /\ \E all \in BOOLEAN : todo' = {n \in table : all \/ heap[n.obj].expired}
  /\ Goto(t, "flush")
  /\ UNCHANGED <<heap, table, list, sslVars, loc, arg, cont, app>>

\* timeout_doall_arg on one node: the deletion goes by the session's id.
timeout_doall_arg(t) ==
  /\ pc[t] = "flush"
  /\ \E n \in todo : /\ todo' = todo \ {n}
                     /\ table' = table \ Match(sid(n.obj))
                     /\ list' = Unlinked(list, n.obj)
                     /\ heap' = Discard(n.obj)
  /\ UNCHANGED <<lock, sslVars, callVars, app>>

flush_end(t) ==
  /\ pc[t] = "flush" /\ todo = {}
  /\ lock' = NoThread
  /\ Goto(t, "idle")
  /\ UNCHANGED <<heap, table, list, todo, sslVars, loc, arg, cont, app>>

-----------------------------------------------------------------------------
(* The connection: end of handshake, alerts, clearing; application calls.  *)

\* ssl_update_cache: the session of a full handshake goes to the cache, if
\* it has an id.
ssl_update_cache(t) ==
  /\ pc[t] \in {"full", "resumed"}
  /\ IF pc[t] = "full" /\ sid(session[t]) # NoId
     THEN StartAdd(t, session[t], "newcb")
     ELSE Goto(t, "idle") /\ UNCHANGED <<heap, arg, cont>>
  /\ UNCHANGED <<cacheVars, sslVars, loc, app>>

\* new_session_cb, between an increment and (result 0) a decrement.
new_session_cb(t) ==
  LET x == session[t] IN
  /\ pc[t] = "newcb"
  /\ \/ UNCHANGED <<heap, app>>
     \/ /\ x \notin app[t] /\ Cardinality(app[t]) < AppMax
        /\ heap' = Up(heap, x)
        /\ app' = [app EXCEPT ![t] = @ \cup {x}]
  /\ Goto(t, "idle")
  /\ UNCHANGED <<cacheVars, sslVars, loc, arg, cont>>

\* Mutant: a failed connection leaves its session in the cache.
RemoveOwn_Not(t, next) ==
  /\ session[t] # NoSess
  /\ heap' = [heap EXCEPT ![session[t]].failed = TRUE]
  /\ Goto(t, next)
  /\ UNCHANGED <<arg, cont>>

\* SSL_CTX_remove_session(s->ctx, s->session): after a switch of contexts it
\* looks into a cache that does not hold the session.
RemoveOwn(t, next) ==
  /\ session[t] # NoSess
  /\ IF switched[t]
     THEN /\ heap' = [heap EXCEPT ![session[t]].failed = TRUE]
          /\ Goto(t, next)
          /\ UNCHANGED <<arg, cont>>
     ELSE /\ arg' = [arg EXCEPT ![t] = session[t]]
          /\ cont' = [cont EXCEPT ![t] = next]
          /\ Goto(t, "rm_lock")
          /\ UNCHANGED heap

\* A fatal alert is sent (ssl3_send_alert) or received (ssl3_read_bytes).
fatal_alert(t) ==
  /\ pc[t] \in {"idle", "full", "resumed"}
  /\ RemoveOwn(t, "idle")
  /\ UNCHANGED <<cacheVars, sslVars, loc, app>>

\* SSL_free and SSL_clear of a connection that was open and not shut down
\* (ssl_clear_bad_session), and of one that was shut down properly.
ssl_clear_bad_session(t) ==
  /\ pc[t] = "idle"
  /\ RemoveOwn(t, "clear")
  /\ UNCHANGED <<cacheVars, sslVars, loc, app>>

SSL_free(t) ==
  /\ pc[t] = "idle" /\ session[t] # NoSess
  /\ Goto(t, "clear")
  /\ UNCHANGED <<heap, cacheVars, sslVars, loc, arg, cont, app>>

clear_session(t) ==
  /\ pc[t] = "clear"
  /\ heap' = Free(heap, session[t])
  /\ Goto(t, "clear_null")
  /\ UNCHANGED <<cacheVars, sslVars, loc, arg, cont, app>>

\* The thread goes on with a new SSL or, after SSL_clear, with this one, whose
\* context stays what it was.
clear_null(t) ==
  /\ pc[t] = "clear_null"
  /\ session' = [session EXCEPT ![t] = NoSess]
  /\ switched' \in {switched, [switched EXCEPT ![t] = FALSE]}
  /\ Goto(t, "idle")
  /\ UNCHANGED <<heap, cacheVars, loc, arg, cont, app>>

\* The servername callback moves the SSL to another SSL_CTX.
SSL_set_SSL_CTX(t) ==
  /\ Sni /\ pc[t] \in {"idle", "full", "resumed"} /\ ~switched[t]
  /\ switched' = [switched EXCEPT ![t] = TRUE]
  /\ UNCHANGED <<heap, cacheVars, session, callVars, app>>

\* SSL_get1_session on u's SSL, pointer read and increment under one lock.
SSL_get1_session(t, u) ==
  LET x == session[u] IN
  /\ pc[t] = "idle" /\ (u = t \/ SharedSsl)
  /\ x # NoSess /\ x \notin app[t] /\ Cardinality(app[t]) < AppMax
  /\ heap' = Up(heap, x)
  /\ app' = [app EXCEPT ![t] = @ \cup {x}]
  /\ UNCHANGED <<cacheVars, sslVars, callVars>>

SSL_SESSION_free(t) ==
  /\ pc[t] = "idle"
  /\ \E x \in app[t] : /\ heap' = Free(heap, x)
                       /\ app' = [app EXCEPT ![t] = @ \ {x}]
  /\ UNCHANGED <<cacheVars, sslVars, callVars>>

\* SSL_set_session(s, x) takes its own reference, then frees the old session.
SSL_set_session(t) ==
  /\ pc[t] = "idle"
  /\ \E x \in app[t] : /\ heap' = Up(heap, x)
                       /\ loc' = [loc EXCEPT ![t] = x]
  /\ cont' = [cont EXCEPT ![t] = "idle"]
  /\ Goto(t, "prev_free")
  /\ UNCHANGED <<cacheVars, sslVars, arg, app>>

\* ssl3_client_hello offers s->session unless it was taken out of a cache, and
\* the server agrees to resume it.
ssl3_client_hello(t) ==
  LET x == session[t] IN
  /\ ClientCache /\ pc[t] = "idle"
  /\ x # NoSess /\ sid(x) # NoId /\ ~heap[x].not_resumable
  /\ Goto(t, "resumed")
  /\ UNCHANGED <<heap, cacheVars, sslVars, loc, arg, cont, app>>

\* The application adds or removes a session it holds.  The code does not ask
\* for an id here, though without one a session cannot be removed again.
SSL_CTX_add_session(t) ==
  /\ pc[t] = "idle"
  /\ \E x \in app[t] : (sid(x) # NoId \/ AddNoId) /\ StartAdd(t, x, "idle")
  /\ UNCHANGED <<cacheVars, sslVars, loc, app>>

SSL_CTX_remove_session(t) ==
  /\ pc[t] = "idle"
  /\ \E x \in app[t] : arg' = [arg EXCEPT ![t] = x]
  /\ cont' = [cont EXCEPT ![t] = "idle"]
  /\ Goto(t, "rm_lock")
  /\ UNCHANGED <<heap, cacheVars, sslVars, loc, app>>

\* The clock passes a session's end of life.
Expire(x) ==
  /\ ~Unused(x) /\ ~heap[x].expired
  /\ heap' = [heap EXCEPT ![x].expired = TRUE]
  /\ UNCHANGED <<cacheVars, sslVars, callVars, app>>

-----------------------------------------------------------------------------
NewSession(t) == ssl_get_new_session(t) \/ new_free(t) \/ new_null(t)
                   \/ choose_id(t) \/ choose_id_fails(t)
PrevSession(t) == ssl_get_prev_session(t) \/ tls1_process_ticket(t)
                    \/ get_session_cb(t) \/ get_session_cb_copy(t)
                    \/ prev_timeout(t) \/ prev_drop(t)
                    \/ prev_hit(t) \/ prev_free(t) \/ prev_set(t)
AddSession(t) == add_insert(t) \/ add_present(t) \/ add_evict(t) \/ add_unlock(t)
RemoveSession(t) == rm_lock(t) \/ rm_free(t)
Flush(t) == flush_begin(t) \/ timeout_doall_arg(t) \/ flush_end(t)
Connection(t) == ssl3_get_new_session_ticket(t) \/ ssl_update_cache(t)
                   \/ new_session_cb(t) \/ fatal_alert(t) \/ ssl_clear_bad_session(t)
                   \/ SSL_free(t) \/ clear_session(t) \/ clear_null(t)
                   \/ SSL_set_SSL_CTX(t) \/ ssl3_client_hello(t)
Application(t) == (\E u \in Thread : SSL_get1_session(t, u))
                    \/ SSL_SESSION_free(t) \/ SSL_set_session(t)
                    \/ SSL_CTX_add_session(t) \/ SSL_CTX_remove_session(t)

Next ==
  \/ \E t \in Thread : \/ NewSession(t) \/ PrevSession(t) \/ AddSession(t)
                       \/ RemoveSession(t) \/ Flush(t) \/ Connection(t) \/ Application(t)
  \/ \E x \in Sess : Expire(x)

Spec == Init /\ [][Next]_vars

\* A thread that holds the lock is never preempted for ever.
Fairness == \A t \in Thread : WF_vars(lock = t /\ (AddSession(t) \/ Flush(t)))
FairSpec == Spec /\ Fairness

-----------------------------------------------------------------------------
(* Properties.                                                             *)

Cached == {list[k] : k \in DOMAIN list}

\* s->session has been freed but not yet overwritten.
Stale == {"new_null", "prev_set", "clear_null"}

\* Where references to x are held: s->session, a local of ssl_get_new_session,
\* ssl_get_prev_session or SSL_set_session, an addition that has not got the
\* lock yet, a removal that has released it, application code, the cache.
BySsl(x) == {t \in Thread : session[t] = x /\ pc[t] \notin Stale}
ByLocal(x) == {t \in Thread : loc[t] = x}
ByAdd(x) == {t \in Thread : arg[t] = x /\ pc[t] = "add_lock"}
ByRemove(x) == {t \in Thread : arg[t] = x /\ pc[t] = "rm_free"}
ByApp(x) == {t \in Thread : x \in app[t]}
ByCache(x) == IF x \in Cached THEN 1 ELSE 0

\* Every reference that is held is counted and every counted one is held, at
\* every step of every interleaving: no leak, no use after free, no double
\* free.  The cache counts once ("add just 1 reference count for the SSL_CTX's
\* session cache even though it has two ways of access").
RefCount ==
  \A x \in Sess :
    refs(x) = Cardinality(BySsl(x)) + Cardinality(ByLocal(x)) + Cardinality(ByAdd(x))
                + Cardinality(ByRemove(x)) + Cardinality(ByApp(x)) + ByCache(x)

\* "each session is in a doubly linked list and an lhash": the two access paths
\* lead to the same sessions, whatever interrupts whatever.
DoubleAccess == {n.obj : n \in table} = Cached

\* One cached session per id, found under the id it has, linked once.
UniqueId ==
  /\ \A n \in table : n.key = sid(n.obj)
  /\ \A m, n \in table : m.key = n.key => m = n
  /\ \A j, k \in DOMAIN list : list[j] = list[k] => j = k

\* "implement a maximum cache size": outside the critical section the cache
\* holds at most session_cache_size sessions.
CacheBound == lock = NoThread /\ CacheSize > 0 => Cardinality(table) <= CacheSize

\* "If a fatal one, remove from cache": a session whose connection failed is
\* not resumable from the cache, unless the application put it back.
FailedNotCached == \A n \in table : ~heap[n.obj].failed

\* The store the cache stands for: its list, up to the limit.  While the lock
\* is held the sessions beyond the limit are as good as gone.
Entries == [k \in DOMAIN list |-> [id |-> sid(list[k]), obj |-> list[k]]]
Stored == IF CacheSize > 0 /\ Len(list) > CacheSize
          THEN SubSeq(Entries, 1, CacheSize) ELSE Entries
Store == INSTANCE SessionStore WITH Size <- CacheSize, store <- Stored

\* The cache is a bounded store, first in first out, by session id.
ImplementsStore == Store!Spec

\* The eviction and flush loops end: the lock is always released.
LockReleased == \A t \in Thread : lock = t ~> lock = NoThread
=============================================================================
