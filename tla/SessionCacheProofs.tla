------------------------- MODULE SessionCacheProofs -------------------------
(***************************************************************************)
(* Theorems about SessionCache for every number of threads, objects, ids   *)
(* and every cache size, and that it implements SessionStore.              *)
(***************************************************************************)
EXTENDS SessionCache, FiniteSetTheorems, SequenceTheorems, TLAPS

-----------------------------------------------------------------------------
(* The objects.  IntObject lets the count be any integer, as in the code:  *)
(* that it is never negative is a consequence, not an assumption.          *)

IntObject == [references : Int, session_id : Id \cup {NoId}, expired : BOOLEAN,
              not_resumable : BOOLEAN, failed : BOOLEAN]

\* One more reference, nothing else.
LEMMA UpFacts ==
  ASSUME NEW h \in [Sess -> IntObject], NEW x \in Sess
  PROVE  /\ Up(h, x) \in [Sess -> IntObject]
         /\ Up(h, x)[x].references = h[x].references + 1
         /\ Up(h, x)[x].session_id = h[x].session_id
         /\ \A y \in Sess \ {x} : Up(h, x)[y] = h[y]
  BY DEF Up, IntObject

\* A freed reference is one reference less; the id of an object changes only
\* when the last reference goes.
LEMMA FreeFacts ==
  ASSUME NEW h \in [Sess -> IntObject], NEW x \in Sess
  PROVE  /\ Free(h, x) \in [Sess -> IntObject]
         /\ Free(h, x)[x].references = h[x].references - 1
         /\ h[x].references # 1 => Free(h, x)[x].session_id = h[x].session_id
         /\ \A y \in Sess \ {x} : Free(h, x)[y] = h[y]
  <1>1. x # NoSess
    BY ConstantAssumption
  <1>2. Freed \in IntObject /\ Freed.references = 0
    BY DEF Freed, Zeroed, IntObject
  <1> QED
    BY <1>1, <1>2 DEF Free, IntObject

\* Releasing a null pointer changes nothing (SSL_SESSION_free returns at once).
LEMMA FreeNull ==
  ASSUME NEW h PROVE Free(h, NoSess) = h
  BY DEF Free

\* A new object has the id and the references it is made with.
LEMMA NewFacts ==
  ASSUME heap \in [Sess -> IntObject], NEW t, NEW x \in Sess, NEW i \in Id \cup {NoId}, NEW n \in Nat
  PROVE  /\ New(x, i, n) \in [Sess -> IntObject]
         /\ New(x, i, n)[x].references = n
         /\ New(x, i, n)[x].session_id = i
         /\ \A y \in Sess \ {x} : New(x, i, n)[y] = heap[y]
  <1>1. /\ Zeroed(i, n) \in IntObject
        /\ Zeroed(i, n).references = n /\ Zeroed(i, n).session_id = i
    BY DEF Zeroed, IntObject
  <1> QED
    BY <1>1 DEF New

\* Discarding a session costs the cache's reference.
LEMMA DiscardFacts ==
  ASSUME heap \in [Sess -> IntObject], NEW t, NEW x \in Sess
  PROVE  /\ Discard(x) \in [Sess -> IntObject]
         /\ Discard(x)[x].references = heap[x].references - 1
         /\ heap[x].references # 1 => Discard(x)[x].session_id = heap[x].session_id
         /\ \A y \in Sess \ {x} : Discard(x)[y] = heap[y]
  <1> DEFINE h == [heap EXCEPT ![x].not_resumable = TRUE]
  <1>1. /\ h \in [Sess -> IntObject]
        /\ h[x].references = heap[x].references
        /\ h[x].session_id = heap[x].session_id
        /\ \A y \in Sess \ {x} : h[y] = heap[y]
    BY DEF IntObject
  <1>2. Discard(x) = Free(h, x)
    BY DEF Discard
  <1> HIDE DEF h
  <1> QED
    BY <1>1, <1>2, FreeFacts

-----------------------------------------------------------------------------
(* The list.                                                               *)

InSeq(s) == {s[k] : k \in DOMAIN s}
NoDup(s) == \A j, k \in DOMAIN s : s[j] = s[k] => j = k

\* A sequence without its i-th element.
LEMMA RemoveAtFacts ==
  ASSUME NEW S, NEW s \in Seq(S), NEW i \in 1..Len(s)
  PROVE  /\ RemoveAt(s, i) \in Seq(S) /\ Len(RemoveAt(s, i)) = Len(s) - 1
         /\ \A k \in 1..Len(s)-1 : RemoveAt(s, i)[k] = IF k < i THEN s[k] ELSE s[k+1]
  <1> DEFINE a == SubSeq(s, 1, i-1)
             b == SubSeq(s, i+1, Len(s))
             u == RemoveAt(s, i)
  <1>1. Len(s) \in Nat
    BY LenProperties
  <1>2. \A k \in 1..Len(s) : s[k] \in S
    BY LenProperties
  <1>3. /\ a \in Seq(S) /\ Len(a) = i-1
        /\ \A k \in 1..(i-1) : a[k] = s[k]
    BY <1>1, <1>2, SubSeqProperties
  <1>4. /\ b \in Seq(S) /\ Len(b) = Len(s)-i
        /\ \A k \in 1..(Len(s)-i) : b[k] = s[k+i]
    <2>1. i+1 \in Int /\ Len(s) \in Int /\ \A k \in (i+1)..Len(s) : s[k] \in S
      BY <1>1, <1>2
    <2>2. /\ b \in Seq(S)
          /\ Len(b) = IF i+1 <= Len(s) THEN Len(s)-(i+1)+1 ELSE 0
          /\ \A k \in 1..Len(s)-(i+1)+1 : b[k] = s[(i+1)+k-1]
      BY <2>1, SubSeqProperties
    <2> HIDE DEF b
    <2>3. \A k \in 1..(Len(s)-i) : b[k] = s[k+i]
      <3> SUFFICES ASSUME NEW k \in 1..(Len(s)-i) PROVE b[k] = s[k+i]
        OBVIOUS
      <3>1. k \in 1..Len(s)-(i+1)+1 /\ (i+1)+k-1 = k+i
        BY <1>1
      <3>2. b[k] = s[(i+1)+k-1]
        BY <2>2, <3>1
      <3> QED
        BY <3>1, <3>2
    <2>4. Len(b) = Len(s)-i
      <3>1. \A n \in Nat : \A j \in 1..n : (IF j+1 <= n THEN n-(j+1)+1 ELSE 0) = n-j
        OBVIOUS
      <3>2. (IF i+1 <= Len(s) THEN Len(s)-(i+1)+1 ELSE 0) = Len(s)-i
        BY <1>1, <3>1
      <3> QED
        BY <2>2, <3>2
    <2> QED
      BY <2>2, <2>3, <2>4
  <1>5. u = a \o b
    BY DEF RemoveAt
  <1> HIDE DEF a, b, u
  <1>6. /\ u \in Seq(S) /\ Len(u) = Len(a) + Len(b)
        /\ \A k \in 1..Len(a)+Len(b) : u[k] = IF k <= Len(a) THEN a[k] ELSE b[k - Len(a)]
    BY <1>3, <1>4, <1>5, ConcatProperties
  <1>7. Len(u) = Len(s) - 1
    BY <1>1, <1>3, <1>4, <1>6
  <1>8. ASSUME NEW k \in 1..Len(s)-1 PROVE u[k] = IF k < i THEN s[k] ELSE s[k+1]
    <2>1. CASE k < i
      BY <1>1, <1>3, <1>4, <1>6, <2>1
    <2>2. CASE ~(k < i)
      <3>1. k - (i-1) \in 1..(Len(s)-i) /\ (k - (i-1)) + i = k+1
        BY <1>1, <1>7, <2>2
      <3>2. k \in 1..Len(a)+Len(b) /\ ~(k <= Len(a)) /\ k - Len(a) = k - (i-1)
        BY <1>1, <1>3, <1>4, <2>2
      <3>3. u[k] = b[k - (i-1)]
        BY <1>6, <3>2
      <3> QED
        BY <1>4, <2>2, <3>1, <3>3
    <2> QED
      BY <2>1, <2>2
  <1> QED
    BY <1>6, <1>7, <1>8 DEF u

\* SSL_SESSION_list_remove takes out exactly the session it is given.
LEMMA UnlinkedFacts ==
  ASSUME NEW s \in Seq(Sess), NEW x, NoDup(s)
  PROVE  /\ Unlinked(s, x) \in Seq(Sess)
         /\ InSeq(Unlinked(s, x)) = InSeq(s) \ {x}
         /\ NoDup(Unlinked(s, x))
  <1>1. CASE \A k \in DOMAIN s : s[k] # x
    <2>1. Unlinked(s, x) = s
      BY <1>1 DEF Unlinked
    <2> QED
      BY <2>1, <1>1 DEF InSeq
  <1>2. CASE \E k \in DOMAIN s : s[k] = x
    <2> DEFINE i == CHOOSE k \in DOMAIN s : s[k] = x
    <2>1. i \in DOMAIN s /\ s[i] = x
      BY <1>2
    <2> HIDE DEF i
    <2>2. i \in 1..Len(s) /\ Len(s) \in Nat /\ DOMAIN s = 1..Len(s)
      BY <2>1, LenProperties
    <2> DEFINE u == Unlinked(s, x)
    <2>4. /\ u \in Seq(Sess)
          /\ Len(u) = Len(s) - 1
          /\ \A k \in 1..Len(u) : u[k] = IF k < i THEN s[k] ELSE s[k+1]
      <3>1. u = RemoveAt(s, i)
        BY <1>2 DEF Unlinked, i
      <3>2. /\ RemoveAt(s, i) \in Seq(Sess) /\ Len(RemoveAt(s, i)) = Len(s) - 1
            /\ \A k \in 1..Len(s)-1 : RemoveAt(s, i)[k] = IF k < i THEN s[k] ELSE s[k+1]
        BY <2>2, RemoveAtFacts
      <3> HIDE DEF u
      <3> QED
        BY <3>1, <3>2
    <2> HIDE DEF u
    <2>5. DOMAIN u = 1..Len(u) /\ Len(u) \in Nat
      BY <2>4, LenProperties
    <2> DEFINE old(k) == IF k < i THEN k ELSE k+1
    <2>9. /\ \A k \in 1..Len(u) : old(k) \in 1..Len(s) /\ old(k) # i /\ u[k] = s[old(k)]
          /\ \A j, k \in 1..Len(u) : old(j) = old(k) => j = k
      BY <2>2, <2>4
    <2> HIDE DEF old
    <2>6. NoDup(u)
      BY <2>2, <2>5, <2>9 DEF NoDup
    <2>7. ASSUME NEW y \in InSeq(u) PROVE y \in InSeq(s) \ {x}
      <3>1. PICK k \in 1..Len(u) : u[k] = y
        BY <2>5 DEF InSeq
      <3>2. old(k) \in DOMAIN s /\ s[old(k)] = y /\ old(k) # i
        BY <2>2, <2>9, <3>1
      <3> QED
        BY <2>1, <3>2 DEF NoDup, InSeq
    <2>8. ASSUME NEW y \in InSeq(s) \ {x} PROVE y \in InSeq(u)
      <3>1. PICK k \in 1..Len(s) : s[k] = y /\ k # i
        BY <2>1, <2>2 DEF InSeq
      <3>2. CASE k < i
        <4>1. k \in 1..Len(u) /\ u[k] = s[k]
          BY <2>2, <2>4, <3>1, <3>2
        <4> QED
          BY <4>1, <3>1, <2>5 DEF InSeq
      <3>3. CASE k > i
        <4>1. k-1 \in 1..Len(u) /\ u[k-1] = s[k]
          BY <2>2, <2>4, <3>1, <3>3
        <4> QED
          BY <4>1, <3>1, <2>5 DEF InSeq
      <3> QED
        BY <2>2, <3>1, <3>2, <3>3
    <2> QED
      BY <2>4, <2>6, <2>7, <2>8 DEF u
  <1> QED
    BY <1>1, <1>2

\* SSL_SESSION_list_add puts the session in front, once.
LEMMA LinkedFacts ==
  ASSUME NEW s \in Seq(Sess), NEW x \in Sess, NoDup(s)
  PROVE  /\ Linked(s, x) \in Seq(Sess)
         /\ InSeq(Linked(s, x)) = InSeq(s) \cup {x}
         /\ NoDup(Linked(s, x))
  <1> DEFINE u == Unlinked(s, x)
             v == Linked(s, x)
  <1>1. u \in Seq(Sess) /\ InSeq(u) = InSeq(s) \ {x} /\ NoDup(u)
    BY UnlinkedFacts
  <1>2. v = <<x>> \o u
    BY DEF Linked
  <1> HIDE DEF u, v
  <1>3. Len(u) \in Nat /\ DOMAIN u = 1..Len(u)
    BY <1>1, LenProperties
  <1>4. /\ v \in Seq(Sess) /\ Len(v) = Len(u) + 1 /\ v[1] = x
        /\ \A k \in 1..Len(u) : v[k+1] = u[k]
    <2>1. <<x>> \in Seq(Sess) /\ Len(<<x>>) = 1 /\ <<x>>[1] = x
      OBVIOUS
    <2>2. /\ v \in Seq(Sess) /\ Len(v) = 1 + Len(u)
          /\ \A k \in 1..1+Len(u) : v[k] = IF k <= 1 THEN <<x>>[k] ELSE u[k - 1]
      BY <1>1, <1>2, <2>1, ConcatProperties
    <2>3. ASSUME NEW k \in 1..Len(u) PROVE v[k+1] = u[k]
      <3>1. k+1 \in 1..1+Len(u) /\ ~(k+1 <= 1) /\ (k+1) - 1 = k
        BY <1>3
      <3> QED
        BY <2>2, <3>1
    <2>4. v[1] = x
      BY <1>3, <2>1, <2>2
    <2> QED
      BY <1>3, <2>2, <2>3, <2>4
  <1>5. DOMAIN v = 1..Len(u)+1
    BY <1>4, LenProperties
  <1>6. \A k \in 1..Len(u) : u[k] # x
    BY <1>1, <1>3 DEF InSeq
  <1>8. \A j \in 2..Len(u)+1 : j-1 \in 1..Len(u) /\ v[j] = u[j-1]
    <2> SUFFICES ASSUME NEW j \in 2..Len(u)+1 PROVE j-1 \in 1..Len(u) /\ v[j] = u[j-1]
      OBVIOUS
    <2>1. j-1 \in 1..Len(u) /\ (j-1)+1 = j
      BY <1>3
    <2> QED
      BY <1>4, <2>1
  <1>9. NoDup(v)
    <2> SUFFICES ASSUME NEW j \in 1..Len(u)+1, NEW k \in 1..Len(u)+1, v[j] = v[k] PROVE j = k
      BY <1>5 DEF NoDup
    <2>1. CASE j = 1 \/ k = 1
      BY <1>3, <1>4, <1>6, <1>8, <2>1
    <2>2. CASE j # 1 /\ k # 1
      <3>1. j \in 2..Len(u)+1 /\ k \in 2..Len(u)+1
        BY <1>3, <2>2
      <3>2. j-1 = k-1
        BY <1>1, <1>3, <1>8, <3>1 DEF NoDup
      <3> QED
        BY <1>3, <3>2
    <2> QED
      BY <2>1, <2>2
  <1>7. InSeq(v) = InSeq(u) \cup {x}
    <2>1. ASSUME NEW y \in InSeq(v) PROVE y \in InSeq(u) \cup {x}
      <3>1. PICK j \in 1..Len(u)+1 : v[j] = y
        BY <1>5 DEF InSeq
      <3>2. j = 1 \/ j \in 2..Len(u)+1
        BY <1>3
      <3> QED
        BY <1>3, <1>4, <1>8, <3>1, <3>2 DEF InSeq
    <2>2. ASSUME NEW y \in InSeq(u) PROVE y \in InSeq(v)
      <3>1. PICK k \in 1..Len(u) : u[k] = y
        BY <1>3 DEF InSeq
      <3>2. k+1 \in 1..Len(u)+1
        BY <1>3
      <3> QED
        BY <1>4, <1>5, <3>1, <3>2 DEF InSeq
    <2>3. x \in InSeq(v)
      BY <1>3, <1>4, <1>5 DEF InSeq
    <2> QED
      BY <2>1, <2>2, <2>3
  <1> QED
    BY <1>1, <1>4, <1>7, <1>9 DEF u, v

-----------------------------------------------------------------------------
(* The inductive invariant.                                                *)

\* The nodes of sessions that have an id.
IdNode == [key : Id, obj : Sess]

WeakType ==
  /\ heap \in [Sess -> IntObject]
  /\ table \in SUBSET IdNode /\ list \in Seq(Sess)
  /\ lock \in Thread \cup {NoThread} /\ todo \in SUBSET IdNode
  /\ session \in [Thread -> Sess \cup {NoSess}] /\ switched \in [Thread -> BOOLEAN]
  /\ loc \in [Thread -> Sess \cup {NoSess}] /\ arg \in [Thread -> Sess \cup {NoSess}]
  /\ pc \in [Thread -> PC] /\ cont \in [Thread -> PC]
  /\ app \in [Thread -> SUBSET Sess]

Adding == {"add_lock", "evict"}
Removing == {"rm_lock", "rm_free"}
Making == {"new_free", "new_null", "new_id"}
Looking == {"prev_check", "prev_drop", "prev_free", "prev_set"}

\* Which pointers a thread has, by where it is.
ControlOf(t) ==
  /\ loc[t] \in Sess <=> \/ pc[t] \in Making \cup Looking
                         \/ pc[t] \in Adding \cup Removing /\ cont[t] \in Looking
  /\ arg[t] \in Sess <=> pc[t] \in Adding \cup Removing
  /\ pc[t] \in {"full", "resumed", "newcb", "clear", "new_free"} => session[t] \in Sess
  /\ pc[t] = "new_id" => session[t] = NoSess
  /\ pc[t] \in Adding => /\ cont[t] \in {"newcb", "prev_check", "idle"}
                         /\ cont[t] = "newcb" => session[t] \in Sess
  /\ pc[t] \in Removing => /\ cont[t] \in {"idle", "clear", "prev_drop"}
                           /\ cont[t] = "clear" => session[t] \in Sess
  /\ pc[t] \in {"prev_free", "prev_set"} => cont[t] \in {"resumed", "idle"}
Control == \A t \in Thread : ControlOf(t)

\* The lock is held in the eviction and the flush loop, and todo is only used
\* by the latter.
Locking ==
  /\ \A t \in Thread : lock = t <=> pc[t] \in {"evict", "flush"}
  /\ todo \subseteq table
  /\ (\A t \in Thread : lock = t => pc[t] # "flush") => todo = {}

\* A session that is being made has no other reference than the maker's; one
\* that is being added has an id.
MakingOf(t) == pc[t] \in Making => refs(loc[t]) = 1
AddIdOf(t) == pc[t] = "add_lock" => sid(arg[t]) # NoId

Inv == /\ WeakType /\ Control /\ Locking
       /\ RefCount /\ DoubleAccess /\ UniqueId
       /\ \A t \in Thread : MakingOf(t) /\ AddIdOf(t)

-----------------------------------------------------------------------------
(* Counting: in a step of one thread the count of an object must follow    *)
(* the references that thread and the cache hold.                          *)

\* Nobody but t moves.
Others(t) == \A u \in Thread \ {t} :
  /\ session'[u] = session[u] /\ loc'[u] = loc[u] /\ arg'[u] = arg[u]
  /\ pc'[u] = pc[u] /\ cont'[u] = cont[u] /\ app'[u] = app[u]

\* How many of the references to y are t's.
Own(t, y) == (IF session[t] = y /\ pc[t] \notin Stale THEN 1 ELSE 0)
               + (IF loc[t] = y THEN 1 ELSE 0)
               + (IF arg[t] = y /\ pc[t] = "add_lock" THEN 1 ELSE 0)
               + (IF arg[t] = y /\ pc[t] = "rm_free" THEN 1 ELSE 0)
               + (IF y \in app[t] THEN 1 ELSE 0)

Balanced(t) == \A y \in Sess :
  refs(y)' = refs(y) + (Own(t, y)' - Own(t, y)) + (ByCache(y)' - ByCache(y))

\* A set of threads has a natural size, zero when it is empty.
LEMMA Count ==
  ASSUME NEW S \in SUBSET Thread
  PROVE  Cardinality(S) \in Nat /\ (Cardinality(S) = 0 <=> S = {})
  BY ConstantAssumption, FS_Subset, FS_EmptySet, FS_CardinalityType

\* A set of threads that only t enters or leaves changes its size by one.
LEMMA Moves ==
  ASSUME NEW S \in SUBSET Thread, NEW S2 \in SUBSET Thread, NEW t \in Thread, S \ {t} = S2 \ {t}
  PROVE  /\ Cardinality(S) \in Nat /\ Cardinality(S2) \in Nat
         /\ Cardinality(S2) - Cardinality(S) =
              (IF t \in S2 THEN 1 ELSE 0) - (IF t \in S THEN 1 ELSE 0)
  <1>1. IsFiniteSet(S \ {t}) /\ t \notin S \ {t}
    BY ConstantAssumption, FS_Subset
  <1>2. /\ Cardinality(S \ {t}) \in Nat
        /\ Cardinality((S \ {t}) \cup {t}) = Cardinality(S \ {t}) + 1
    BY <1>1, FS_CardinalityType, FS_AddElement
  <1>3. ASSUME NEW R \in {S, S2}
        PROVE  Cardinality(R) = Cardinality(S \ {t}) + (IF t \in R THEN 1 ELSE 0)
    <2>1. R \ {t} = S \ {t}
      OBVIOUS
    <2>2. CASE t \in R
      <3>1. R = (S \ {t}) \cup {t}
        BY <2>1, <2>2
      <3> QED
        BY <1>2, <2>2, <3>1
    <2>3. CASE t \notin R
      <3>1. R = S \ {t}
        BY <2>1, <2>3
      <3> QED
        BY <1>2, <2>3, <3>1
    <2> QED
      BY <2>2, <2>3
  <1> QED
    BY <1>2, <1>3

\* If t's holdings and the count of x move together, the counts of all stay right.
LEMMA Balance ==
  ASSUME Inv, NEW t \in Thread, WeakType', Others(t), Balanced(t)
  PROVE  RefCount'
  <1> SUFFICES ASSUME NEW y \in Sess
               PROVE  refs(y)' = (Cardinality(BySsl(y)) + Cardinality(ByLocal(y)) + Cardinality(ByAdd(y))
                        + Cardinality(ByRemove(y)) + Cardinality(ByApp(y)) + ByCache(y))'
    BY DEF RefCount
  <1>1. refs(y) = Cardinality(BySsl(y)) + Cardinality(ByLocal(y)) + Cardinality(ByAdd(y))
                    + Cardinality(ByRemove(y)) + Cardinality(ByApp(y)) + ByCache(y)
    BY DEF Inv, RefCount
  <1>2. /\ BySsl(y) \in SUBSET Thread /\ BySsl(y)' \in SUBSET Thread
        /\ BySsl(y) \ {t} = BySsl(y)' \ {t}
    BY DEF BySsl, Others
  <1>3. /\ ByLocal(y) \in SUBSET Thread /\ ByLocal(y)' \in SUBSET Thread
        /\ ByLocal(y) \ {t} = ByLocal(y)' \ {t}
    BY DEF ByLocal, Others
  <1>4. /\ ByAdd(y) \in SUBSET Thread /\ ByAdd(y)' \in SUBSET Thread
        /\ ByAdd(y) \ {t} = ByAdd(y)' \ {t}
    BY DEF ByAdd, Others
  <1>5. /\ ByRemove(y) \in SUBSET Thread /\ ByRemove(y)' \in SUBSET Thread
        /\ ByRemove(y) \ {t} = ByRemove(y)' \ {t}
    BY DEF ByRemove, Others
  <1>6. /\ ByApp(y) \in SUBSET Thread /\ ByApp(y)' \in SUBSET Thread
        /\ ByApp(y) \ {t} = ByApp(y)' \ {t}
    BY DEF ByApp, Others
  <1>7. /\ Own(t, y) = (IF t \in BySsl(y) THEN 1 ELSE 0) + (IF t \in ByLocal(y) THEN 1 ELSE 0)
                         + (IF t \in ByAdd(y) THEN 1 ELSE 0) + (IF t \in ByRemove(y) THEN 1 ELSE 0)
                         + (IF t \in ByApp(y) THEN 1 ELSE 0)
        /\ Own(t, y)' = (IF t \in BySsl(y)' THEN 1 ELSE 0) + (IF t \in ByLocal(y)' THEN 1 ELSE 0)
                         + (IF t \in ByAdd(y)' THEN 1 ELSE 0) + (IF t \in ByRemove(y)' THEN 1 ELSE 0)
                         + (IF t \in ByApp(y)' THEN 1 ELSE 0)
    BY DEF Own, BySsl, ByLocal, ByAdd, ByRemove, ByApp
  <1>8. ByCache(y) \in Nat /\ ByCache(y)' \in Nat
    BY DEF ByCache
  <1>9. refs(y)' = refs(y) + (Own(t, y)' - Own(t, y)) + (ByCache(y)' - ByCache(y))
    BY DEF Balanced
  <1>a. /\ Cardinality(BySsl(y)) \in Nat /\ Cardinality(BySsl(y)') \in Nat
        /\ Cardinality(BySsl(y)') - Cardinality(BySsl(y)) =
             (IF t \in BySsl(y)' THEN 1 ELSE 0) - (IF t \in BySsl(y) THEN 1 ELSE 0)
    BY <1>2, Moves
  <1>b. /\ Cardinality(ByLocal(y)) \in Nat /\ Cardinality(ByLocal(y)') \in Nat
        /\ Cardinality(ByLocal(y)') - Cardinality(ByLocal(y)) =
             (IF t \in ByLocal(y)' THEN 1 ELSE 0) - (IF t \in ByLocal(y) THEN 1 ELSE 0)
    BY <1>3, Moves
  <1>c. /\ Cardinality(ByAdd(y)) \in Nat /\ Cardinality(ByAdd(y)') \in Nat
        /\ Cardinality(ByAdd(y)') - Cardinality(ByAdd(y)) =
             (IF t \in ByAdd(y)' THEN 1 ELSE 0) - (IF t \in ByAdd(y) THEN 1 ELSE 0)
    BY <1>4, Moves
  <1>d. /\ Cardinality(ByRemove(y)) \in Nat /\ Cardinality(ByRemove(y)') \in Nat
        /\ Cardinality(ByRemove(y)') - Cardinality(ByRemove(y)) =
             (IF t \in ByRemove(y)' THEN 1 ELSE 0) - (IF t \in ByRemove(y) THEN 1 ELSE 0)
    BY <1>5, Moves
  <1>e. /\ Cardinality(ByApp(y)) \in Nat /\ Cardinality(ByApp(y)') \in Nat
        /\ Cardinality(ByApp(y)') - Cardinality(ByApp(y)) =
             (IF t \in ByApp(y)' THEN 1 ELSE 0) - (IF t \in ByApp(y) THEN 1 ELSE 0)
    BY <1>6, Moves
  <1> HIDE DEF Inv, Balanced, Others, WeakType
  <1> QED
    BY <1>1, <1>7, <1>8, <1>9, <1>a, <1>b, <1>c, <1>d, <1>e

\* What is held or cached has been counted, and two holders count as two.
Counted == \A y \in Sess :
  /\ refs(y) \in Nat
  /\ \A t \in Thread : Own(t, y) \in Nat /\ refs(y) >= Own(t, y) + ByCache(y)
  /\ \A t, u \in Thread : t # u /\ Own(t, y) >= 1 /\ Own(u, y) >= 1 => refs(y) >= 2

\* Whoever holds x keeps its count positive.
LEMMA Positive ==
  ASSUME RefCount, NEW y \in Sess
  PROVE  /\ refs(y) \in Nat
         /\ \A t \in Thread : Own(t, y) \in Nat /\ refs(y) >= Own(t, y) + ByCache(y)
  <1>1. refs(y) = Cardinality(BySsl(y)) + Cardinality(ByLocal(y)) + Cardinality(ByAdd(y))
                    + Cardinality(ByRemove(y)) + Cardinality(ByApp(y)) + ByCache(y)
    BY DEF RefCount
  <1>2. \A S \in SUBSET Thread : /\ Cardinality(S) \in Nat
                                 /\ S # {} => Cardinality(S) >= 1
    <2> SUFFICES ASSUME NEW S \in SUBSET Thread
                 PROVE  Cardinality(S) \in Nat /\ (S # {} => Cardinality(S) >= 1)
      OBVIOUS
    <2>1. Cardinality(S) \in Nat /\ (Cardinality(S) = 0 <=> S = {})
      BY Count
    <2> QED
      BY <2>1
  <1>3. /\ BySsl(y) \in SUBSET Thread /\ ByLocal(y) \in SUBSET Thread /\ ByAdd(y) \in SUBSET Thread
        /\ ByRemove(y) \in SUBSET Thread /\ ByApp(y) \in SUBSET Thread
    BY DEF BySsl, ByLocal, ByAdd, ByRemove, ByApp
  <1>4. ByCache(y) \in Nat
    BY DEF ByCache
  <1>5. refs(y) \in Nat
    BY <1>1, <1>2, <1>3, <1>4
  <1>6. ASSUME NEW t \in Thread PROVE Own(t, y) \in Nat /\ refs(y) >= Own(t, y) + ByCache(y)
    <2>1. Own(t, y) = (IF t \in BySsl(y) THEN 1 ELSE 0) + (IF t \in ByLocal(y) THEN 1 ELSE 0)
                         + (IF t \in ByAdd(y) THEN 1 ELSE 0) + (IF t \in ByRemove(y) THEN 1 ELSE 0)
                         + (IF t \in ByApp(y) THEN 1 ELSE 0)
      BY DEF Own, BySsl, ByLocal, ByAdd, ByRemove, ByApp
    <2> QED
      BY <1>1, <1>2, <1>3, <1>4, <2>1
  <1> QED
    BY <1>5, <1>6

\* Two threads never share a reference: what each of them holds of y is counted.
LEMMA Apart ==
  ASSUME RefCount, NEW y \in Sess, NEW t \in Thread, NEW u \in Thread \ {t}
  PROVE  refs(y) >= Own(t, y) + Own(u, y) + ByCache(y)
  <1>1. refs(y) = Cardinality(BySsl(y)) + Cardinality(ByLocal(y)) + Cardinality(ByAdd(y))
                    + Cardinality(ByRemove(y)) + Cardinality(ByApp(y)) + ByCache(y)
    BY DEF RefCount
  <1>2. \A S \in SUBSET Thread :
          /\ Cardinality(S) \in Nat
          /\ Cardinality(S) >= (IF t \in S THEN 1 ELSE 0) + (IF u \in S THEN 1 ELSE 0)
    <2> SUFFICES ASSUME NEW S \in SUBSET Thread
                 PROVE  /\ Cardinality(S) \in Nat
                        /\ Cardinality(S) >= (IF t \in S THEN 1 ELSE 0) + (IF u \in S THEN 1 ELSE 0)
      OBVIOUS
    <2>1. /\ Cardinality(S) \in Nat /\ Cardinality(S \ {t}) \in Nat
          /\ Cardinality(S \ {t}) - Cardinality(S) = 0 - (IF t \in S THEN 1 ELSE 0)
      <3>1. S \ {t} \in SUBSET Thread /\ S \ {t} = (S \ {t}) \ {t} /\ t \notin S \ {t}
        OBVIOUS
      <3> QED
        BY <3>1, Moves
    <2>2. u \in S => Cardinality(S \ {t}) # 0
      BY Count
    <2> QED
      BY <2>1, <2>2
  <1>3. /\ BySsl(y) \in SUBSET Thread /\ ByLocal(y) \in SUBSET Thread /\ ByAdd(y) \in SUBSET Thread
        /\ ByRemove(y) \in SUBSET Thread /\ ByApp(y) \in SUBSET Thread
    BY DEF BySsl, ByLocal, ByAdd, ByRemove, ByApp
  <1>4. ByCache(y) \in Nat
    BY DEF ByCache
  <1>5. \A v \in {t, u} :
          Own(v, y) = (IF v \in BySsl(y) THEN 1 ELSE 0) + (IF v \in ByLocal(y) THEN 1 ELSE 0)
                        + (IF v \in ByAdd(y) THEN 1 ELSE 0) + (IF v \in ByRemove(y) THEN 1 ELSE 0)
                        + (IF v \in ByApp(y) THEN 1 ELSE 0)
    BY DEF Own, BySsl, ByLocal, ByAdd, ByRemove, ByApp
  <1> QED
    BY <1>1, <1>2, <1>3, <1>4, <1>5

\* Equal to a sum of cardinalities, the count is in particular a natural number.
LEMMA RefCountCounted == RefCount => Counted
  <1> SUFFICES ASSUME RefCount, NEW y \in Sess
               PROVE  /\ refs(y) \in Nat
                      /\ \A t \in Thread : Own(t, y) \in Nat /\ refs(y) >= Own(t, y) + ByCache(y)
                      /\ \A t, u \in Thread : t # u /\ Own(t, y) >= 1 /\ Own(u, y) >= 1 => refs(y) >= 2
    BY DEF Counted
  <1>1. /\ refs(y) \in Nat /\ ByCache(y) \in Nat
        /\ \A t \in Thread : Own(t, y) \in Nat /\ refs(y) >= Own(t, y) + ByCache(y)
    BY Positive DEF ByCache
  <1>2. \A t, u \in Thread : t # u => refs(y) >= Own(t, y) + Own(u, y) + ByCache(y)
    BY Apart
  <1> QED
    BY <1>1, <1>2

-----------------------------------------------------------------------------
(* What a step does to the objects and to its thread's references.         *)

\* Ids of live objects stay; but t may give an id to one that has none, and
\* change that of one nobody else refers to.
SidKept(t) == \A x \in Sess :
  /\ sid(x) # NoId /\ refs(x) >= 1 /\ refs(x)' >= 1
  /\ ~(refs(x) = 1 /\ Own(t, x) >= 1)
  => sid(x)' = sid(x)

\* The count of x changes by n, as does the number of t's references to x.
HeapBy(t, x, n) == /\ heap' \in [Sess -> IntObject]
                   /\ \A y \in Sess : refs(y)' = refs(y) + (IF y = x THEN n ELSE 0)
                   /\ SidKept(t)
OwnBy(t, x, n) == \A y \in Sess : Own(t, y)' = Own(t, y) + (IF y = x THEN n ELSE 0)

\* An untouched heap is a heap step that moves no reference.
LEMMA HeapKept ==
  ASSUME heap \in [Sess -> IntObject], NEW t, heap' = heap PROVE HeapBy(t, NoSess, 0)
  BY DEF HeapBy, SidKept, refs, sid, IntObject

\* A mark on an object: expired, or failed.
LEMMA HeapMark ==
  ASSUME heap \in [Sess -> IntObject], NEW t, NEW x \in Sess, NEW b \in BOOLEAN,
         \/ heap' = [heap EXCEPT ![x].failed = b]
         \/ heap' = [heap EXCEPT ![x].expired = b]
  PROVE  HeapBy(t, NoSess, 0)
  <1>1. heap' \in [Sess -> IntObject]
    BY DEF IntObject
  <1>2. \A y \in Sess : refs(y)' = refs(y) /\ sid(y)' = sid(y)
    BY DEF refs, sid, IntObject
  <1> QED
    BY <1>1, <1>2, ConstantAssumption DEF HeapBy, SidKept, refs, IntObject

\* Another id, for a session without one or held by nobody else.
LEMMA HeapId ==
  ASSUME heap \in [Sess -> IntObject], NEW t, NEW x \in Sess, NEW i \in Id \cup {NoId},
         sid(x) = NoId \/ (refs(x) = 1 /\ Own(t, x) >= 1),
         heap' = [heap EXCEPT ![x].session_id = i]
  PROVE  HeapBy(t, NoSess, 0)
  <1>1. heap' \in [Sess -> IntObject]
    BY DEF IntObject
  <1>2. \A y \in Sess : refs(y)' = refs(y) /\ (y # x => sid(y)' = sid(y))
    BY DEF refs, sid, IntObject
  <1>3. SidKept(t)
    BY <1>2 DEF SidKept
  <1> QED
    BY <1>1, <1>2, <1>3, ConstantAssumption DEF HeapBy, refs, IntObject

\* CRYPTO_add moves the count of one session by one.
LEMMA HeapUp ==
  ASSUME heap \in [Sess -> IntObject], NEW t, NEW x \in Sess, heap' = Up(heap, x)
  PROVE  HeapBy(t, x, 1)
  <1>1. \A y \in Sess : refs(y)' = refs(y) + (IF y = x THEN 1 ELSE 0)
    BY UpFacts DEF refs, IntObject
  <1>2. SidKept(t)
    <2>1. \A y \in Sess : sid(y)' = sid(y)
      BY UpFacts DEF sid
    <2> QED
      BY <2>1 DEF SidKept
  <1> QED
    BY <1>1, <1>2, UpFacts DEF HeapBy

LEMMA HeapUpTwice ==
  ASSUME heap \in [Sess -> IntObject], NEW t, NEW x \in Sess, heap' = Up(Up(heap, x), x)
  PROVE  HeapBy(t, x, 2)
  <1> DEFINE h == Up(heap, x)
  <1>1. /\ h \in [Sess -> IntObject]
        /\ h[x].references = heap[x].references + 1 /\ h[x].session_id = heap[x].session_id
        /\ \A y \in Sess \ {x} : h[y] = heap[y]
    BY UpFacts
  <1>2. heap' = Up(h, x)
    OBVIOUS
  <1> HIDE DEF h
  <1>3. /\ heap' \in [Sess -> IntObject]
        /\ heap'[x].references = h[x].references + 1 /\ heap'[x].session_id = h[x].session_id
        /\ \A y \in Sess \ {x} : heap'[y] = h[y]
    BY <1>1, <1>2, UpFacts
  <1>4. \A y \in Sess : refs(y)' = refs(y) + (IF y = x THEN 2 ELSE 0)
    BY <1>1, <1>3 DEF refs, IntObject
  <1>5. \A y \in Sess : sid(y)' = sid(y)
    BY <1>1, <1>3 DEF sid
  <1> QED
    BY <1>3, <1>4, <1>5 DEF HeapBy, SidKept

\* SSL_SESSION_free moves the count of one session by minus one.
LEMMA HeapFree ==
  ASSUME heap \in [Sess -> IntObject], NEW t, NEW x \in Sess \cup {NoSess}, heap' = Free(heap, x)
  PROVE  HeapBy(t, x, -1)
  <1>1. CASE x = NoSess
    <2>1. heap' = heap
      BY <1>1, FreeNull
    <2> QED
      BY <1>1, <2>1, ConstantAssumption DEF HeapBy, SidKept, refs, sid, IntObject
  <1>2. CASE x \in Sess
    <2>1. \A y \in Sess : refs(y)' = refs(y) + (IF y = x THEN -1 ELSE 0)
      BY <1>2, FreeFacts DEF refs, IntObject
    <2>2. SidKept(t)
      <3> SUFFICES ASSUME NEW y \in Sess, refs(y)' >= 1 PROVE sid(y)' = sid(y)
        BY DEF SidKept
      <3>1. CASE y = x
        <4>1. refs(x) # 1
          BY <2>1, <3>1
        <4> QED
          BY <1>2, <3>1, <4>1, FreeFacts DEF sid, refs
      <3>2. CASE y # x
        BY <1>2, <3>2, FreeFacts DEF sid
      <3> QED
        BY <3>1, <3>2
    <2> QED
      BY <1>2, <2>1, <2>2, FreeFacts DEF HeapBy
  <1> QED
    BY <1>1, <1>2

\* So does the end of a removal, which also marks the session.
LEMMA HeapDiscard ==
  ASSUME heap \in [Sess -> IntObject], NEW t, NEW x \in Sess, heap' = Discard(x)
  PROVE  HeapBy(t, x, -1)
  <1>1. \A y \in Sess : refs(y)' = refs(y) + (IF y = x THEN -1 ELSE 0)
    BY DiscardFacts DEF refs, IntObject
  <1>2. SidKept(t)
    <2> SUFFICES ASSUME NEW y \in Sess, refs(y)' >= 1 PROVE sid(y)' = sid(y)
      BY DEF SidKept
    <2>1. CASE y = x
      <3>1. refs(x) # 1
        BY <1>1, <2>1
      <3> QED
        BY <2>1, <3>1, DiscardFacts DEF sid, refs
    <2>2. CASE y # x
      BY <2>2, DiscardFacts DEF sid
    <2> QED
      BY <2>1, <2>2
  <1> QED
    BY <1>1, <1>2, DiscardFacts DEF HeapBy

\* A new session starts with the references its maker holds.
LEMMA HeapNew ==
  ASSUME heap \in [Sess -> IntObject], NEW t, NEW x \in Sess, refs(x) = 0,
         NEW i \in Id \cup {NoId}, NEW n \in Nat, heap' = New(x, i, n)
  PROVE  HeapBy(t, x, n)
  <1>1. \A y \in Sess : refs(y)' = refs(y) + (IF y = x THEN n ELSE 0)
    BY NewFacts DEF refs, IntObject
  <1>2. SidKept(t)
    <2> SUFFICES ASSUME NEW y \in Sess, refs(y) >= 1 PROVE sid(y)' = sid(y)
      BY DEF SidKept
    <2> QED
      BY NewFacts DEF sid
  <1> QED
    BY <1>1, <1>2, NewFacts DEF HeapBy

-----------------------------------------------------------------------------
(* The cache: what a lookup finds, and what is in the list.                *)

\* What lh_retrieve returns is a session in the table that has the id.
LEMMA RetrieveFacts ==
  ASSUME WeakType, DoubleAccess, UniqueId, NEW i
  PROVE  /\ Match(i) = {} => Retrieve(i) = NoSess
         /\ Match(i) # {} => /\ Retrieve(i) \in Sess /\ Retrieve(i) \in Cached
                             /\ sid(Retrieve(i)) = i /\ i \in Id
                             /\ Match(i) = {[key |-> i, obj |-> Retrieve(i)]}
  <1>1. CASE Match(i) = {}
    BY <1>1 DEF Retrieve
  <1>2. CASE Match(i) # {}
    <2> DEFINE m == CHOOSE n \in Match(i) : TRUE
    <2>1. m \in Match(i)
      BY <1>2
    <2>2. Retrieve(i) = m.obj
      BY <1>2 DEF Retrieve
    <2> HIDE DEF m
    <2>3. m \in table /\ m.key = i /\ sid(m.obj) = i
      BY <2>1 DEF Match
    <2>4. m.obj \in Sess /\ m.key \in Id /\ m = [key |-> m.key, obj |-> m.obj]
      BY <2>3 DEF WeakType, IdNode
    <2>5. m.obj \in Cached
      BY <2>3 DEF DoubleAccess
    <2>6. Match(i) = {m}
      BY <2>1, <2>3 DEF UniqueId, Match
    <2> QED
      BY <1>2, <2>2, <2>3, <2>4, <2>5, <2>6
  <1> QED
    BY <1>1, <1>2

\* A session in the table is in the list and is not free.
LEMMA CachedFacts ==
  ASSUME WeakType, DoubleAccess, UniqueId, NEW x \in Cached
  PROVE  /\ x \in Sess /\ sid(x) \in Id
         /\ Match(sid(x)) = {[key |-> sid(x), obj |-> x]}
         /\ Retrieve(sid(x)) = x
  <1>1. PICK n \in table : n.obj = x
    BY DEF DoubleAccess
  <1>2. n.key = sid(x) /\ n.key \in Id /\ x \in Sess /\ n = [key |-> n.key, obj |-> x]
    BY <1>1 DEF UniqueId, WeakType, IdNode
  <1>3. n \in Match(sid(x))
    BY <1>1, <1>2 DEF Match
  <1>4. Match(sid(x)) = {[key |-> sid(x), obj |-> Retrieve(sid(x))]}
    BY <1>3, RetrieveFacts
  <1> QED
    BY <1>1, <1>2, <1>3, <1>4

-----------------------------------------------------------------------------
(* Steps that leave the table and the list alone.                          *)

CacheKept == table' = table /\ list' = list

\* A thread that is making a session holds it.
LEMMA MakerOwns ==
  ASSUME WeakType, Control, NEW u \in Thread, pc[u] \in Making
  PROVE  loc[u] \in Sess /\ Own(u, loc[u]) >= 1
  BY DEF WeakType, Control, ControlOf, Own, Making

\* Whoever is making or adding a session is not disturbed by t: a count only
\* rises for a fresh object, or one that t or the cache holds.
LEMMA OthersKept ==
  ASSUME Inv, NEW t \in Thread, NEW x, NEW n \in Int, HeapBy(t, x, n),
         n > 0 => x \in Sess /\ (refs(x) = 0 \/ Own(t, x) >= 1 \/ x \in Cached),
         Others(t), RefCount'
  PROVE  /\ \A u \in Thread \ {t} : MakingOf(u)' /\ AddIdOf(u)'
         /\ \A y \in Cached : refs(y)' >= 1 => sid(y)' = sid(y)
  <1> USE DEF Inv
  <1>1. Counted /\ Counted'
    BY RefCountCounted, PTL
  <1>2. \A y \in Sess : refs(y) \in Int /\ refs(y)' \in Int /\ Own(t, y) \in Int
    BY <1>1 DEF Counted
  <1>3. \A u \in Thread \ {t}, y \in Sess : Own(u, y)' = Own(u, y)
    BY DEF Others, Own
  <1>4. \A y \in Sess : ByCache(y) \in Nat /\ ByCache(y)' \in Nat
    BY DEF ByCache
  <1>5. \A y \in Sess, u \in Thread : /\ refs(y)' \in Nat
                                      /\ Own(u, y)' >= 1 => refs(y)' >= 1
                                      /\ Own(u, y) >= 1 => refs(y) >= 1
                                      /\ ByCache(y) = 1 => refs(y) >= 1
    BY <1>1, <1>4 DEF Counted
  <1>6. ASSUME NEW y \in Cached, refs(y)' >= 1 PROVE sid(y)' = sid(y)
    <2>1. y \in Sess /\ sid(y) \in Id
      BY CachedFacts
    <2>2. refs(y) >= 1 /\ ~(refs(y) = 1 /\ Own(t, y) >= 1)
      BY <1>1, <1>2, <1>5, <2>1 DEF Counted, ByCache
    <2> QED
      BY <1>6, <2>1, <2>2, ConstantAssumption DEF SidKept, HeapBy
  <1>7. ASSUME NEW u \in Thread \ {t} PROVE MakingOf(u)' /\ AddIdOf(u)'
    <2>1. pc'[u] = pc[u] /\ loc'[u] = loc[u] /\ arg'[u] = arg[u]
      BY DEF Others
    <2>2. CASE pc[u] \in Making
      <3>1. PICK y \in Sess : y = loc[u] /\ Own(u, y) >= 1
        BY <2>2, MakerOwns
      <3>2. refs(y) = 1
        BY <2>2, <3>1 DEF MakingOf
      <3>3. refs(y)' >= 1
        BY <1>3, <1>5, <3>1
      <3>4. refs(y)' = refs(y) + (IF y = x THEN n ELSE 0)
        BY DEF HeapBy
      <3>5. ~(y = x /\ n > 0)
        <4>1. ~(Own(t, y) >= 1)
          BY <1>1, <3>1, <3>2 DEF Counted
        <4>2. y \notin Cached
          BY <1>1, <3>1, <3>2 DEF Counted, ByCache
        <4> QED
          BY <3>2, <4>1, <4>2
      <3>6. refs(y)' = 1
        BY <3>2, <3>3, <3>4, <3>5
      <3> QED
        BY <2>1, <2>2, <3>1, <3>6 DEF MakingOf, AddIdOf, Making
    <2>3. CASE pc[u] = "add_lock"
      <3>1. PICK y \in Sess : y = arg[u] /\ sid(y) # NoId
        BY <2>3 DEF Control, ControlOf, Adding, AddIdOf
      <3>2. Own(u, y) >= 1 /\ Own(u, y)' >= 1
        BY <2>1, <2>3, <3>1 DEF Own
      <3>3. refs(y)' >= 1 /\ refs(y) >= 1
        BY <1>5, <3>2
      <3>4. ~(refs(y) = 1 /\ Own(t, y) >= 1)
        BY <1>1, <3>2 DEF Counted
      <3>5. sid(y)' = sid(y)
        BY <3>1, <3>3, <3>4 DEF SidKept, HeapBy
      <3> QED
        BY <2>1, <2>3, <3>1, <3>5 DEF MakingOf, AddIdOf, Making
    <2> QED
      BY <2>1, <2>2, <2>3 DEF MakingOf, AddIdOf
  <1> QED
    BY <1>6, <1>7

\* A step that leaves hash, list and ids alone keeps the cache consistent.
LEMMA CacheUnchanged ==
  ASSUME Inv, NEW t \in Thread, NEW x, NEW n \in Int, HeapBy(t, x, n), OwnBy(t, x, n),
         n > 0 => x \in Sess /\ (refs(x) = 0 \/ Own(t, x) >= 1 \/ x \in Cached),
         WeakType', Others(t), ControlOf(t)', Locking', CacheKept,
         MakingOf(t)', AddIdOf(t)'
  PROVE  Inv'
  <1> USE DEF Inv
  <1>1. Control'
    BY DEF Control, ControlOf, Others, WeakType
  <1>2. \A y \in Sess : refs(y) \in Int /\ refs(y)' \in Int /\ Own(t, y) \in Int /\ Own(t, y)' \in Int
    BY DEF refs, WeakType, IntObject, Own
  <1>3. \A y \in Sess : ByCache(y)' = ByCache(y) /\ ByCache(y) \in Int
    BY DEF CacheKept, ByCache, Cached
  <1>4. Balanced(t)
    BY <1>2, <1>3 DEF Balanced, HeapBy, OwnBy
  <1>5. RefCount'
    BY <1>4, Balance
  <1>6. Counted'
    BY <1>5, RefCountCounted, PTL
  <1>7. ASSUME NEW y \in Cached PROVE sid(y)' = sid(y)
    <2>1. y \in Sess
      BY CachedFacts
    <2>2. refs(y)' >= 1
      BY <1>2, <1>3, <1>6, <2>1 DEF Counted, ByCache
    <2> QED
      BY <1>5, <2>2, OthersKept
  <1>8. DoubleAccess' /\ UniqueId'
    <2>1. \A m \in table : m.obj \in Sess /\ m.obj \in Cached
      BY DEF DoubleAccess, WeakType, IdNode
    <2> QED
      BY <1>7, <2>1 DEF DoubleAccess, UniqueId, CacheKept, Cached
  <1>9. \A u \in Thread \ {t} : MakingOf(u)' /\ AddIdOf(u)'
    BY <1>5, OthersKept
  <1> QED
    BY <1>1, <1>5, <1>8, <1>9

-----------------------------------------------------------------------------
(* The steps of a thread that leave the table and the list alone.          *)

\* Steps that touch no object.
LEMMA Quiet_Inv ==
  ASSUME Inv, NEW t \in Thread,
         \/ new_null(t) \/ prev_timeout(t) \/ prev_hit(t) \/ prev_set(t)
         \/ SSL_free(t) \/ clear_null(t) \/ SSL_set_SSL_CTX(t)
         \/ ssl3_client_hello(t) \/ SSL_CTX_remove_session(t) \/ flush_begin(t)
         \/ flush_end(t) \/ add_unlock(t)
  PROVE  Inv'
  <1> USE ConstantAssumption
      DEF new_null, prev_timeout, prev_hit, prev_set, SSL_free, clear_null,
          SSL_set_SSL_CTX, ssl3_client_hello, SSL_CTX_remove_session,
          flush_begin, flush_end, add_unlock, cacheVars, sslVars, callVars,
          Return, Goto, StartAdd
  <1>1. WeakType /\ Locking /\ ControlOf(t) /\ MakingOf(t)
    BY DEF Inv, Control
  <1>2. HeapBy(t, NoSess, 0)
    BY <1>1, HeapKept DEF WeakType, ControlOf, Making, Looking, Adding, Removing
  <1>3. heap' \in [Sess -> IntObject] /\ CacheKept
    BY <1>2 DEF HeapBy, CacheKept
  <1>4. WeakType'
    <2>1. todo' \in SUBSET IdNode /\ lock' \in Thread \cup {NoThread} /\ switched' \in [Thread -> BOOLEAN]
      BY <1>1 DEF WeakType
    <2>2. session' \in [Thread -> Sess \cup {NoSess}] /\ loc' \in [Thread -> Sess \cup {NoSess}]
      BY <1>1 DEF WeakType
    <2>3. arg' \in [Thread -> Sess \cup {NoSess}] /\ app' \in [Thread -> SUBSET Sess]
      BY <1>1 DEF WeakType
    <2>4. cont' \in [Thread -> PC] /\ pc' \in [Thread -> PC]
      BY <1>1 DEF WeakType, PC
    <2> QED
      BY <1>1, <1>3, <2>1, <2>2, <2>3, <2>4 DEF WeakType, CacheKept
  <1>5. Others(t)
    BY <1>1 DEF Others, WeakType
  <1>6. ControlOf(t)' /\ AddIdOf(t)'
    BY <1>1 DEF WeakType, ControlOf, AddIdOf, Adding, Removing, Making, Looking
  <1>7. Locking'
    BY <1>1 DEF WeakType, Locking, ControlOf, Adding, Removing
  <1>8. OwnBy(t, NoSess, 0)
    BY <1>1 DEF OwnBy, Own, Stale, WeakType, ControlOf, Adding, Removing, Making, Looking
  <1>9. MakingOf(t)'
    BY <1>1 DEF MakingOf, refs, Making, ControlOf, Adding, Removing, WeakType
  <1> QED
    BY <1>2, <1>3, <1>4, <1>5, <1>6, <1>7, <1>8, <1>9, CacheUnchanged

\* SSL_SESSION_free(s->session).
LEMMA FreeSession_Inv ==
  ASSUME Inv, NEW t \in Thread,
         \/ new_free(t) \/ prev_free(t) \/ clear_session(t)
  PROVE  Inv'
  <1> USE ConstantAssumption
      DEF new_free, prev_free, clear_session, cacheVars, sslVars, callVars,
          Return, Goto, StartAdd
  <1>1. WeakType /\ Locking /\ ControlOf(t) /\ MakingOf(t)
    BY DEF Inv, Control
  <1>2. HeapBy(t, session[t], -1)
    BY <1>1, HeapFree DEF WeakType, ControlOf, Making, Looking, Adding, Removing
  <1>3. heap' \in [Sess -> IntObject] /\ CacheKept
    BY <1>2 DEF HeapBy, CacheKept
  <1>4. WeakType'
    BY <1>1, <1>3 DEF WeakType, PC, ControlOf, Adding, Removing
  <1>5. Others(t)
    BY <1>1 DEF Others, WeakType
  <1>6. ControlOf(t)' /\ AddIdOf(t)'
    BY <1>1 DEF WeakType, ControlOf, AddIdOf, Adding, Removing, Making, Looking
  <1>7. Locking'
    BY <1>1 DEF WeakType, Locking, ControlOf, Adding, Removing
  <1>8. OwnBy(t, session[t], -1)
    BY <1>1 DEF OwnBy, Own, Stale, WeakType, ControlOf, Adding, Removing, Making, Looking
  <1>9. MakingOf(t)'
    <2> SUFFICES ASSUME new_free(t) PROVE refs(loc[t])' = 1
      BY <1>1 DEF MakingOf, Making, ControlOf, WeakType
    <2>1. PICK y \in Sess : y = loc[t] /\ refs(y) = 1 /\ loc'[t] = y
      BY <1>1 DEF MakingOf, Making, ControlOf, WeakType
    <2>2. y # session[t]
      <3>1. Own(t, y) = 1 + (IF y = session[t] THEN 1 ELSE 0) + (IF y \in app[t] THEN 1 ELSE 0)
        BY <1>1, <2>1 DEF Own, Stale, ControlOf, Adding, Removing
      <3>2. refs(y) >= Own(t, y) + ByCache(y) /\ ByCache(y) \in Nat
        BY RefCountCounted DEF Inv, Counted, ByCache
      <3> QED
        BY <2>1, <3>1, <3>2
    <2>3. refs(y)' = 1
      BY <1>2, <2>1, <2>2 DEF HeapBy
    <2> QED
      BY <2>1, <2>3 DEF refs
  <1> QED
    BY <1>2, <1>3, <1>4, <1>5, <1>6, <1>7, <1>8, <1>9, CacheUnchanged

\* SSL_SESSION_free(ret), SSL_SESSION_free(ss).
LEMMA FreeLocal_Inv ==
  ASSUME Inv, NEW t \in Thread,
         \/ choose_id_fails(t) \/ prev_drop(t)
  PROVE  Inv'
  <1> USE ConstantAssumption
      DEF choose_id_fails, prev_drop, cacheVars, sslVars, callVars, Return, Goto,
          StartAdd
  <1>1. WeakType /\ Locking /\ ControlOf(t) /\ MakingOf(t)
    BY DEF Inv, Control
  <1>2. HeapBy(t, loc[t], -1)
    BY <1>1, HeapFree DEF WeakType, ControlOf, Making, Looking, Adding, Removing
  <1>3. heap' \in [Sess -> IntObject] /\ CacheKept
    BY <1>2 DEF HeapBy, CacheKept
  <1>4. WeakType'
    BY <1>1, <1>3 DEF WeakType, PC, ControlOf, Adding, Removing
  <1>5. Others(t)
    BY <1>1 DEF Others, WeakType
  <1>6. ControlOf(t)' /\ AddIdOf(t)'
    BY <1>1 DEF WeakType, ControlOf, AddIdOf, Adding, Removing, Making, Looking
  <1>7. Locking'
    BY <1>1 DEF WeakType, Locking, ControlOf, Adding, Removing
  <1>8. OwnBy(t, loc[t], -1)
    BY <1>1 DEF OwnBy, Own, Stale, WeakType, ControlOf, Adding, Removing, Making, Looking
  <1>9. MakingOf(t)'
    BY <1>1 DEF MakingOf, Making, ControlOf, Adding, Removing, WeakType
  <1> QED
    BY <1>2, <1>3, <1>4, <1>5, <1>6, <1>7, <1>8, <1>9, CacheUnchanged

\* The increment taken back.
LEMMA add_present_Inv ==
  ASSUME Inv, NEW t \in Thread,
         add_present(t)
  PROVE  Inv'
  <1> USE ConstantAssumption
      DEF add_present, cacheVars, sslVars, callVars, Return, Goto, StartAdd
  <1>1. WeakType /\ Locking /\ ControlOf(t) /\ MakingOf(t)
    BY DEF Inv, Control
  <1>2. HeapBy(t, arg[t], -1)
    BY <1>1, HeapFree DEF WeakType, ControlOf, Making, Looking, Adding, Removing
  <1>3. heap' \in [Sess -> IntObject] /\ CacheKept
    BY <1>2 DEF HeapBy, CacheKept
  <1>4. WeakType'
    BY <1>1, <1>3 DEF WeakType, PC, ControlOf, Adding, Removing
  <1>5. Others(t)
    BY <1>1 DEF Others, WeakType
  <1>6. ControlOf(t)' /\ AddIdOf(t)'
    BY <1>1 DEF WeakType, ControlOf, AddIdOf, Adding, Removing, Making, Looking
  <1>7. Locking'
    BY <1>1 DEF WeakType, Locking, ControlOf, Adding, Removing
  <1>8. OwnBy(t, arg[t], -1)
    BY <1>1 DEF OwnBy, Own, Stale, WeakType, ControlOf, Adding, Removing, Making, Looking
  <1>9. MakingOf(t)'
    BY <1>1 DEF MakingOf, Making, ControlOf, Adding, Removing, WeakType
  <1> QED
    BY <1>2, <1>3, <1>4, <1>5, <1>6, <1>7, <1>8, <1>9, CacheUnchanged

\* The end of a removal.
LEMMA rm_free_Inv ==
  ASSUME Inv, NEW t \in Thread,
         rm_free(t)
  PROVE  Inv'
  <1> USE ConstantAssumption
      DEF rm_free, cacheVars, sslVars, callVars, Return, Goto, StartAdd
  <1>1. WeakType /\ Locking /\ ControlOf(t) /\ MakingOf(t)
    BY DEF Inv, Control
  <1>2. HeapBy(t, arg[t], -1)
    BY <1>1, HeapDiscard DEF WeakType, ControlOf, Making, Looking, Adding, Removing
  <1>3. heap' \in [Sess -> IntObject] /\ CacheKept
    BY <1>2 DEF HeapBy, CacheKept
  <1>4. WeakType'
    BY <1>1, <1>3 DEF WeakType, PC, ControlOf, Adding, Removing
  <1>5. Others(t)
    BY <1>1 DEF Others, WeakType
  <1>6. ControlOf(t)' /\ AddIdOf(t)'
    BY <1>1 DEF WeakType, ControlOf, AddIdOf, Adding, Removing, Making, Looking
  <1>7. Locking'
    BY <1>1 DEF WeakType, Locking, ControlOf, Adding, Removing
  <1>8. OwnBy(t, arg[t], -1)
    BY <1>1 DEF OwnBy, Own, Stale, WeakType, ControlOf, Adding, Removing, Making, Looking
  <1>9. MakingOf(t)'
    BY <1>1 DEF MakingOf, Making, ControlOf, Adding, Removing, WeakType
  <1> QED
    BY <1>2, <1>3, <1>4, <1>5, <1>6, <1>7, <1>8, <1>9, CacheUnchanged

\* The application lets go.
LEMMA SSL_SESSION_free_Inv ==
  ASSUME Inv, NEW t \in Thread,
         SSL_SESSION_free(t)
  PROVE  Inv'
  <1> USE ConstantAssumption
      DEF SSL_SESSION_free, cacheVars, sslVars, callVars, Return, Goto, StartAdd
  <1>1. WeakType /\ Locking /\ ControlOf(t) /\ MakingOf(t)
    BY DEF Inv, Control
  <1>x. PICK x \in app[t] : /\ heap' = Free(heap, x)
                         /\ app' = [app EXCEPT ![t] = @ \ {x}]
    BY <1>1 DEF WeakType, Unused
  <1>2. HeapBy(t, x, -1)
    BY <1>1, <1>x, HeapFree DEF WeakType, ControlOf, Making, Looking, Adding, Removing
  <1>3. heap' \in [Sess -> IntObject] /\ CacheKept
    BY <1>2 DEF HeapBy, CacheKept
  <1>4. WeakType'
    BY <1>1, <1>x, <1>3 DEF WeakType, PC, ControlOf, Adding, Removing
  <1>5. Others(t)
    BY <1>1, <1>x DEF Others, WeakType
  <1>6. ControlOf(t)' /\ AddIdOf(t)'
    BY <1>1, <1>x DEF WeakType, ControlOf, AddIdOf, Adding, Removing, Making, Looking
  <1>7. Locking'
    BY <1>1, <1>x DEF WeakType, Locking, ControlOf, Adding, Removing
  <1>8. OwnBy(t, x, -1)
    BY <1>1, <1>x DEF OwnBy, Own, Stale, WeakType, ControlOf, Adding, Removing, Making, Looking
  <1>9. MakingOf(t)'
    BY <1>1, <1>x DEF MakingOf, Making, ControlOf, Adding, Removing, WeakType
  <1> QED
    BY <1>2, <1>3, <1>4, <1>5, <1>6, <1>7, <1>8, <1>9, CacheUnchanged

\* SSL_set_session takes its own reference.
LEMMA SSL_set_session_Inv ==
  ASSUME Inv, NEW t \in Thread,
         SSL_set_session(t)
  PROVE  Inv'
  <1> USE ConstantAssumption
      DEF SSL_set_session, cacheVars, sslVars, callVars, Return, Goto, StartAdd
  <1>1. WeakType /\ Locking /\ ControlOf(t) /\ MakingOf(t)
    BY DEF Inv, Control
  <1>x. PICK x \in app[t] : heap' = Up(heap, x) /\ loc' = [loc EXCEPT ![t] = x]
    BY <1>1, RetrieveFacts DEF Inv
  <1>2. HeapBy(t, x, 1)
    BY <1>1, <1>x, HeapUp DEF WeakType, ControlOf, Making, Looking, Adding, Removing
  <1>3. heap' \in [Sess -> IntObject] /\ CacheKept
    BY <1>2 DEF HeapBy, CacheKept
  <1>4. WeakType'
    BY <1>1, <1>x, <1>3 DEF WeakType, PC, ControlOf, Adding, Removing
  <1>5. Others(t)
    BY <1>1, <1>x DEF Others, WeakType
  <1>6. ControlOf(t)' /\ AddIdOf(t)'
    BY <1>1, <1>x DEF WeakType, ControlOf, AddIdOf, Adding, Removing, Making, Looking
  <1>7. Locking'
    BY <1>1, <1>x DEF WeakType, Locking, ControlOf, Adding, Removing
  <1>8. OwnBy(t, x, 1)
    BY <1>1, <1>x DEF OwnBy, Own, Stale, WeakType, ControlOf, Adding, Removing, Making, Looking
  <1>9. MakingOf(t)'
    BY <1>1, <1>x DEF MakingOf, Making, ControlOf, Adding, Removing, WeakType
  <1>10. x \in Sess /\ Own(t, x) >= 1
    BY <1>1, <1>x DEF Own, Stale, WeakType
  <1> QED
    BY <1>2, <1>3, <1>4, <1>5, <1>6, <1>7, <1>8, <1>9, <1>10, CacheUnchanged

\* SSL_CTX_add_session takes the cache's reference first.
LEMMA SSL_CTX_add_session_Inv ==
  ASSUME ~AddNoId, Inv, NEW t \in Thread,
         SSL_CTX_add_session(t)
  PROVE  Inv'
  <1> USE ConstantAssumption
      DEF SSL_CTX_add_session, cacheVars, sslVars, callVars, Return, Goto,
          StartAdd
  <1>1. WeakType /\ Locking /\ ControlOf(t) /\ MakingOf(t)
    BY DEF Inv, Control
  <1>x. PICK x \in app[t] : sid(x) # NoId /\ StartAdd(t, x, "idle")
    BY <1>1 DEF WeakType
  <1>2. HeapBy(t, x, 1)
    BY <1>1, <1>x, HeapUp DEF WeakType, ControlOf, Making, Looking, Adding, Removing
  <1>3. heap' \in [Sess -> IntObject] /\ CacheKept
    BY <1>2 DEF HeapBy, CacheKept
  <1>4. WeakType'
    BY <1>1, <1>x, <1>3 DEF WeakType, PC, ControlOf, Adding, Removing
  <1>5. Others(t)
    BY <1>1, <1>x DEF Others, WeakType
  <1>6. ControlOf(t)' /\ AddIdOf(t)'
    <2>1. ControlOf(t)'
      BY <1>1, <1>x DEF WeakType, ControlOf, Adding, Removing, Making, Looking
    <2>2. AddIdOf(t)'
      BY <1>1, <1>x, UpFacts DEF AddIdOf, sid, WeakType
    <2> QED
      BY <2>1, <2>2
  <1>7. Locking'
    BY <1>1, <1>x DEF WeakType, Locking, ControlOf, Adding, Removing
  <1>8. OwnBy(t, x, 1)
    BY <1>1, <1>x DEF OwnBy, Own, Stale, WeakType, ControlOf, Adding, Removing, Making, Looking
  <1>9. MakingOf(t)'
    BY <1>1, <1>x DEF MakingOf, Making, ControlOf, Adding, Removing, WeakType
  <1>10. x \in Sess /\ Own(t, x) >= 1
    BY <1>1, <1>x DEF Own, Stale, WeakType
  <1> QED
    BY <1>2, <1>3, <1>4, <1>5, <1>6, <1>7, <1>8, <1>9, <1>10, CacheUnchanged

\* A session of the application's that a callback returns gets one reference
\* for the callback and one for the cache.
LEMMA get_session_cb_copy_Inv ==
  ASSUME ~AddNoId, Inv, NEW t \in Thread,
         get_session_cb_copy(t)
  PROVE  Inv'
  <1> USE ConstantAssumption
      DEF get_session_cb_copy, cacheVars, sslVars, callVars, Return, Goto,
          StartAdd
  <1>1. WeakType /\ Locking /\ ControlOf(t) /\ MakingOf(t)
    BY DEF Inv, Control
  <1>x. PICK x \in app[t] : /\ sid(x) # NoId /\ heap' = Up(Up(heap, x), x)
                           /\ loc' = [loc EXCEPT ![t] = x] /\ arg' = [arg EXCEPT ![t] = x]
    BY <1>1 DEF WeakType
  <1>2. HeapBy(t, x, 2)
    BY <1>1, <1>x, HeapUpTwice DEF WeakType, ControlOf, Making, Looking, Adding, Removing
  <1>3. heap' \in [Sess -> IntObject] /\ CacheKept
    BY <1>2 DEF HeapBy, CacheKept
  <1>4. WeakType'
    BY <1>1, <1>x, <1>3 DEF WeakType, PC, ControlOf, Adding, Removing
  <1>5. Others(t)
    BY <1>1, <1>x DEF Others, WeakType
  <1>6. ControlOf(t)' /\ AddIdOf(t)'
    <2>1. ControlOf(t)'
      BY <1>1, <1>x DEF WeakType, ControlOf, Adding, Removing, Making, Looking
    <2>2. AddIdOf(t)'
      <3>1. x \in Sess /\ heap \in [Sess -> IntObject]
        BY <1>1, <1>x DEF WeakType
      <3>2. heap'[x].session_id = heap[x].session_id
        <4> DEFINE h == Up(heap, x)
        <4>1. h \in [Sess -> IntObject] /\ h[x].session_id = heap[x].session_id
          BY <3>1, UpFacts
        <4>2. heap' = Up(h, x)
          BY <1>x
        <4> HIDE DEF h
        <4> QED
          BY <3>1, <4>1, <4>2, UpFacts
      <3>3. arg'[t] = x
        BY <1>1, <1>x DEF WeakType
      <3> QED
        BY <1>x, <3>2, <3>3 DEF AddIdOf, sid
    <2> QED
      BY <2>1, <2>2
  <1>7. Locking'
    BY <1>1, <1>x DEF WeakType, Locking, ControlOf, Adding, Removing
  <1>8. OwnBy(t, x, 2)
    BY <1>1, <1>x DEF OwnBy, Own, Stale, WeakType, ControlOf, Adding, Removing, Making, Looking
  <1>9. MakingOf(t)'
    BY <1>1, <1>x DEF MakingOf, Making, ControlOf, Adding, Removing, WeakType
  <1>10. x \in Sess /\ Own(t, x) >= 1
    BY <1>1, <1>x DEF Own, Stale, WeakType
  <1> QED
    BY <1>2, <1>3, <1>4, <1>5, <1>6, <1>7, <1>8, <1>9, <1>10, CacheUnchanged

\* A new object.
LEMMA ssl_get_new_session_Inv ==
  ASSUME Inv, NEW t \in Thread,
         ssl_get_new_session(t)
  PROVE  Inv'
  <1> USE ConstantAssumption
      DEF ssl_get_new_session, cacheVars, sslVars, callVars, Return, Goto,
          StartAdd
  <1>1. WeakType /\ Locking /\ ControlOf(t) /\ MakingOf(t)
    BY DEF Inv, Control
  <1>x. PICK x \in Sess : refs(x) = 0 /\ heap' = New(x, NoId, 1) /\ loc' = [loc EXCEPT ![t] = x]
    BY <1>1 DEF WeakType, Unused
  <1>2. HeapBy(t, x, 1)
    BY <1>1, <1>x, HeapNew DEF WeakType, ControlOf, Making, Looking, Adding, Removing
  <1>3. heap' \in [Sess -> IntObject] /\ CacheKept
    BY <1>2 DEF HeapBy, CacheKept
  <1>4. WeakType'
    BY <1>1, <1>x, <1>3 DEF WeakType, PC, ControlOf, Adding, Removing
  <1>5. Others(t)
    BY <1>1, <1>x DEF Others, WeakType
  <1>6. ControlOf(t)' /\ AddIdOf(t)'
    BY <1>1, <1>x DEF WeakType, ControlOf, AddIdOf, Adding, Removing, Making, Looking
  <1>7. Locking'
    BY <1>1, <1>x DEF WeakType, Locking, ControlOf, Adding, Removing
  <1>8. OwnBy(t, x, 1)
    BY <1>1, <1>x DEF OwnBy, Own, Stale, WeakType, ControlOf, Adding, Removing, Making, Looking
  <1>9. MakingOf(t)'
    <2>1. refs(x)' = 1 /\ loc'[t] = x
      BY <1>1, <1>2, <1>x DEF HeapBy, WeakType
    <2> QED
      BY <2>1 DEF MakingOf, refs
  <1>10. x \in Sess /\ refs(x) = 0
    BY <1>x
  <1> QED
    BY <1>2, <1>3, <1>4, <1>5, <1>6, <1>7, <1>8, <1>9, <1>10, CacheUnchanged

\* A new object.
LEMMA tls1_process_ticket_Inv ==
  ASSUME Inv, NEW t \in Thread,
         tls1_process_ticket(t)
  PROVE  Inv'
  <1> USE ConstantAssumption
      DEF tls1_process_ticket, cacheVars, sslVars, callVars, Return, Goto,
          StartAdd
  <1>1. WeakType /\ Locking /\ ControlOf(t) /\ MakingOf(t)
    BY DEF Inv, Control
  <1>x. PICK x \in Sess, i \in Id \cup {NoId} : refs(x) = 0 /\ heap' = New(x, i, 1) /\ loc' = [loc EXCEPT ![t] = x]
    BY <1>1 DEF WeakType, Unused
  <1>2. HeapBy(t, x, 1)
    BY <1>1, <1>x, HeapNew DEF WeakType, ControlOf, Making, Looking, Adding, Removing
  <1>3. heap' \in [Sess -> IntObject] /\ CacheKept
    BY <1>2 DEF HeapBy, CacheKept
  <1>4. WeakType'
    BY <1>1, <1>x, <1>3 DEF WeakType, PC, ControlOf, Adding, Removing
  <1>5. Others(t)
    BY <1>1, <1>x DEF Others, WeakType
  <1>6. ControlOf(t)' /\ AddIdOf(t)'
    BY <1>1, <1>x DEF WeakType, ControlOf, AddIdOf, Adding, Removing, Making, Looking
  <1>7. Locking'
    BY <1>1, <1>x DEF WeakType, Locking, ControlOf, Adding, Removing
  <1>8. OwnBy(t, x, 1)
    BY <1>1, <1>x DEF OwnBy, Own, Stale, WeakType, ControlOf, Adding, Removing, Making, Looking
  <1>9. MakingOf(t)'
    BY <1>1, <1>x DEF MakingOf, Making, ControlOf, Adding, Removing, WeakType
  <1>10. x \in Sess /\ refs(x) = 0
    BY <1>x
  <1> QED
    BY <1>2, <1>3, <1>4, <1>5, <1>6, <1>7, <1>8, <1>9, <1>10, CacheUnchanged

\* A new object with two references.
LEMMA get_session_cb_Inv ==
  ASSUME Inv, NEW t \in Thread,
         get_session_cb(t)
  PROVE  Inv'
  <1> USE ConstantAssumption
      DEF get_session_cb, cacheVars, sslVars, callVars, Return, Goto, StartAdd
  <1>1. WeakType /\ Locking /\ ControlOf(t) /\ MakingOf(t)
    BY DEF Inv, Control
  <1>x. PICK x \in Sess, i \in Id : refs(x) = 0 /\ heap' = New(x, i, 2) /\ loc' = [loc EXCEPT ![t] = x]
            /\ arg' = [arg EXCEPT ![t] = x]
    BY <1>1 DEF WeakType, Unused
  <1>2. HeapBy(t, x, 2)
    BY <1>1, <1>x, HeapNew DEF WeakType, ControlOf, Making, Looking, Adding, Removing
  <1>3. heap' \in [Sess -> IntObject] /\ CacheKept
    BY <1>2 DEF HeapBy, CacheKept
  <1>4. WeakType'
    BY <1>1, <1>x, <1>3 DEF WeakType, PC, ControlOf, Adding, Removing
  <1>5. Others(t)
    BY <1>1, <1>x DEF Others, WeakType
  <1>6. ControlOf(t)' /\ AddIdOf(t)'
    <2>1. ControlOf(t)'
      BY <1>1, <1>x DEF WeakType, ControlOf, Adding, Removing, Making, Looking
    <2>2. AddIdOf(t)'
      BY <1>1, <1>x, NewFacts DEF AddIdOf, sid, WeakType
    <2> QED
      BY <2>1, <2>2
  <1>7. Locking'
    BY <1>1, <1>x DEF WeakType, Locking, ControlOf, Adding, Removing
  <1>8. OwnBy(t, x, 2)
    BY <1>1, <1>x DEF OwnBy, Own, Stale, WeakType, ControlOf, Adding, Removing, Making, Looking
  <1>9. MakingOf(t)'
    BY <1>1, <1>x DEF MakingOf, Making, ControlOf, Adding, Removing, WeakType
  <1>10. x \in Sess /\ refs(x) = 0
    BY <1>x
  <1> QED
    BY <1>2, <1>3, <1>4, <1>5, <1>6, <1>7, <1>8, <1>9, <1>10, CacheUnchanged

\* A session that is not cached at the end of the handshake.
LEMMA update_cache_quiet_Inv ==
  ASSUME Inv, NEW t \in Thread,
         ssl_update_cache(t),
         ~(pc[t] = "full" /\ sid(session[t]) # NoId)
  PROVE  Inv'
  <1> USE ConstantAssumption
      DEF ssl_update_cache, cacheVars, sslVars, callVars, Return, Goto, StartAdd
  <1>1. WeakType /\ Locking /\ ControlOf(t) /\ MakingOf(t)
    BY DEF Inv, Control
  <1>2. HeapBy(t, NoSess, 0)
    BY <1>1, HeapKept DEF WeakType, ControlOf, Making, Looking, Adding, Removing
  <1>3. heap' \in [Sess -> IntObject] /\ CacheKept
    BY <1>2 DEF HeapBy, CacheKept
  <1>4. WeakType'
    BY <1>1, <1>3 DEF WeakType, PC, ControlOf, Adding, Removing
  <1>5. Others(t)
    BY <1>1 DEF Others, WeakType
  <1>6. ControlOf(t)' /\ AddIdOf(t)'
    BY <1>1 DEF WeakType, ControlOf, AddIdOf, Adding, Removing, Making, Looking
  <1>7. Locking'
    BY <1>1 DEF WeakType, Locking, ControlOf, Adding, Removing
  <1>8. OwnBy(t, NoSess, 0)
    BY <1>1 DEF OwnBy, Own, Stale, WeakType, ControlOf, Adding, Removing, Making, Looking
  <1>9. MakingOf(t)'
    BY <1>1 DEF MakingOf, Making, ControlOf, Adding, Removing, WeakType
  <1> QED
    BY <1>2, <1>3, <1>4, <1>5, <1>6, <1>7, <1>8, <1>9, CacheUnchanged

\* One that is.
LEMMA update_cache_add_Inv ==
  ASSUME Inv, NEW t \in Thread,
         ssl_update_cache(t),
         pc[t] = "full", sid(session[t]) # NoId
  PROVE  Inv'
  <1> USE ConstantAssumption
      DEF ssl_update_cache, cacheVars, sslVars, callVars, Return, Goto, StartAdd
  <1>1. WeakType /\ Locking /\ ControlOf(t) /\ MakingOf(t)
    BY DEF Inv, Control
  <1>2. HeapBy(t, session[t], 1)
    BY <1>1, HeapUp DEF WeakType, ControlOf, Making, Looking, Adding, Removing
  <1>3. heap' \in [Sess -> IntObject] /\ CacheKept
    BY <1>2 DEF HeapBy, CacheKept
  <1>4. WeakType'
    BY <1>1, <1>3 DEF WeakType, PC, ControlOf, Adding, Removing
  <1>5. Others(t)
    BY <1>1 DEF Others, WeakType
  <1>6. ControlOf(t)' /\ AddIdOf(t)'
    <2>1. ControlOf(t)'
      BY <1>1 DEF WeakType, ControlOf, Adding, Removing, Making, Looking
    <2>2. AddIdOf(t)'
      BY <1>1, UpFacts DEF AddIdOf, sid, WeakType, ControlOf
    <2> QED
      BY <2>1, <2>2
  <1>7. Locking'
    BY <1>1 DEF WeakType, Locking, ControlOf, Adding, Removing
  <1>8. OwnBy(t, session[t], 1)
    BY <1>1 DEF OwnBy, Own, Stale, WeakType, ControlOf, Adding, Removing, Making, Looking
  <1>9. MakingOf(t)'
    BY <1>1 DEF MakingOf, Making, ControlOf, Adding, Removing, WeakType
  <1>10. session[t] \in Sess /\ Own(t, session[t]) >= 1
    BY <1>1 DEF Own, Stale, WeakType, ControlOf, Adding
  <1> QED
    BY <1>2, <1>3, <1>4, <1>5, <1>6, <1>7, <1>8, <1>9, <1>10, CacheUnchanged

\* The callback keeps no reference ...
LEMMA new_session_cb_quiet_Inv ==
  ASSUME Inv, NEW t \in Thread,
         new_session_cb(t), UNCHANGED <<heap, app>>
  PROVE  Inv'
  <1> USE ConstantAssumption
      DEF new_session_cb, cacheVars, sslVars, callVars, Return, Goto, StartAdd
  <1>1. WeakType /\ Locking /\ ControlOf(t) /\ MakingOf(t)
    BY DEF Inv, Control
  <1>2. HeapBy(t, NoSess, 0)
    BY <1>1, HeapKept DEF WeakType, ControlOf, Making, Looking, Adding, Removing
  <1>3. heap' \in [Sess -> IntObject] /\ CacheKept
    BY <1>2 DEF HeapBy, CacheKept
  <1>4. WeakType'
    BY <1>1, <1>3 DEF WeakType, PC, ControlOf, Adding, Removing
  <1>5. Others(t)
    BY <1>1 DEF Others, WeakType
  <1>6. ControlOf(t)' /\ AddIdOf(t)'
    BY <1>1 DEF WeakType, ControlOf, AddIdOf, Adding, Removing, Making, Looking
  <1>7. Locking'
    BY <1>1 DEF WeakType, Locking, ControlOf, Adding, Removing
  <1>8. OwnBy(t, NoSess, 0)
    BY <1>1 DEF OwnBy, Own, Stale, WeakType, ControlOf, Adding, Removing, Making, Looking
  <1>9. MakingOf(t)'
    BY <1>1 DEF MakingOf, Making, ControlOf, Adding, Removing, WeakType
  <1> QED
    BY <1>2, <1>3, <1>4, <1>5, <1>6, <1>7, <1>8, <1>9, CacheUnchanged

\* ... or it keeps one.
LEMMA new_session_cb_keep_Inv ==
  ASSUME Inv, NEW t \in Thread,
         new_session_cb(t), session[t] \notin app[t],
         heap' = Up(heap, session[t]), app' = [app EXCEPT ![t] = @ \cup {session[t]}]
  PROVE  Inv'
  <1> USE ConstantAssumption
      DEF new_session_cb, cacheVars, sslVars, callVars, Return, Goto, StartAdd
  <1>1. WeakType /\ Locking /\ ControlOf(t) /\ MakingOf(t)
    BY DEF Inv, Control
  <1>2. HeapBy(t, session[t], 1)
    BY <1>1, HeapUp DEF WeakType, ControlOf, Making, Looking, Adding, Removing
  <1>3. heap' \in [Sess -> IntObject] /\ CacheKept
    BY <1>2 DEF HeapBy, CacheKept
  <1>4. WeakType'
    BY <1>1, <1>3 DEF WeakType, PC, ControlOf, Adding, Removing
  <1>5. Others(t)
    BY <1>1 DEF Others, WeakType
  <1>6. ControlOf(t)' /\ AddIdOf(t)'
    BY <1>1 DEF WeakType, ControlOf, AddIdOf, Adding, Removing, Making, Looking
  <1>7. Locking'
    BY <1>1 DEF WeakType, Locking, ControlOf, Adding, Removing
  <1>8. OwnBy(t, session[t], 1)
    BY <1>1 DEF OwnBy, Own, Stale, WeakType, ControlOf, Adding, Removing, Making, Looking
  <1>9. MakingOf(t)'
    BY <1>1 DEF MakingOf, Making, ControlOf, Adding, Removing, WeakType
  <1>10. session[t] \in Sess /\ Own(t, session[t]) >= 1
    BY <1>1 DEF Own, Stale, WeakType, ControlOf, Adding
  <1> QED
    BY <1>2, <1>3, <1>4, <1>5, <1>6, <1>7, <1>8, <1>9, <1>10, CacheUnchanged

\* A reference to the thread's own session.
LEMMA SSL_get1_session_Inv ==
  ASSUME Inv, NEW t \in Thread,
         SSL_get1_session(t, t)
  PROVE  Inv'
  <1> USE ConstantAssumption
      DEF SSL_get1_session, cacheVars, sslVars, callVars, Return, Goto, StartAdd
  <1>1. WeakType /\ Locking /\ ControlOf(t) /\ MakingOf(t)
    BY DEF Inv, Control
  <1>2. HeapBy(t, session[t], 1)
    BY <1>1, HeapUp DEF WeakType, ControlOf, Making, Looking, Adding, Removing
  <1>3. heap' \in [Sess -> IntObject] /\ CacheKept
    BY <1>2 DEF HeapBy, CacheKept
  <1>4. WeakType'
    BY <1>1, <1>3 DEF WeakType, PC, ControlOf, Adding, Removing
  <1>5. Others(t)
    BY <1>1 DEF Others, WeakType
  <1>6. ControlOf(t)' /\ AddIdOf(t)'
    BY <1>1 DEF WeakType, ControlOf, AddIdOf, Adding, Removing, Making, Looking
  <1>7. Locking'
    BY <1>1 DEF WeakType, Locking, ControlOf, Adding, Removing
  <1>8. OwnBy(t, session[t], 1)
    BY <1>1 DEF OwnBy, Own, Stale, WeakType, ControlOf, Adding, Removing, Making, Looking
  <1>9. MakingOf(t)'
    BY <1>1 DEF MakingOf, Making, ControlOf, Adding, Removing, WeakType
  <1>10. session[t] \in Sess /\ Own(t, session[t]) >= 1
    BY <1>1 DEF Own, Stale, WeakType, ControlOf, Adding
  <1> QED
    BY <1>2, <1>3, <1>4, <1>5, <1>6, <1>7, <1>8, <1>9, <1>10, CacheUnchanged

\* A reference to a cached session.
LEMMA ssl_get_prev_session_Inv ==
  ASSUME Inv, NEW t \in Thread,
         ssl_get_prev_session(t)
  PROVE  Inv'
  <1> USE ConstantAssumption
      DEF ssl_get_prev_session, cacheVars, sslVars, callVars, Return, Goto,
          StartAdd
  <1>1. WeakType /\ Locking /\ ControlOf(t) /\ MakingOf(t)
    BY DEF Inv, Control
  <1>x. PICK x \in Sess : x \in Cached /\ heap' = Up(heap, x) /\ loc' = [loc EXCEPT ![t] = x]
    BY <1>1, RetrieveFacts DEF Inv
  <1>2. HeapBy(t, x, 1)
    BY <1>1, <1>x, HeapUp DEF WeakType, ControlOf, Making, Looking, Adding, Removing
  <1>3. heap' \in [Sess -> IntObject] /\ CacheKept
    BY <1>2 DEF HeapBy, CacheKept
  <1>4. WeakType'
    BY <1>1, <1>x, <1>3 DEF WeakType, PC, ControlOf, Adding, Removing
  <1>5. Others(t)
    BY <1>1, <1>x DEF Others, WeakType
  <1>6. ControlOf(t)' /\ AddIdOf(t)'
    BY <1>1, <1>x DEF WeakType, ControlOf, AddIdOf, Adding, Removing, Making, Looking
  <1>7. Locking'
    BY <1>1, <1>x DEF WeakType, Locking, ControlOf, Adding, Removing
  <1>8. OwnBy(t, x, 1)
    BY <1>1, <1>x DEF OwnBy, Own, Stale, WeakType, ControlOf, Adding, Removing, Making, Looking
  <1>9. MakingOf(t)'
    BY <1>1, <1>x DEF MakingOf, Making, ControlOf, Adding, Removing, WeakType
  <1>10. x \in Sess /\ x \in Cached
    BY <1>x
  <1> QED
    BY <1>2, <1>3, <1>4, <1>5, <1>6, <1>7, <1>8, <1>9, <1>10, CacheUnchanged

\* The maker's session gets an id.
LEMMA choose_id_Inv ==
  ASSUME Inv, NEW t \in Thread,
         choose_id(t)
  PROVE  Inv'
  <1> USE ConstantAssumption
      DEF choose_id, cacheVars, sslVars, callVars, Return, Goto, StartAdd
  <1>1. WeakType /\ Locking /\ ControlOf(t) /\ MakingOf(t)
    BY DEF Inv, Control
  <1>x. PICK i \in Id \cup {NoId} : heap' = [heap EXCEPT ![loc[t]].session_id = i]
    BY <1>1 DEF WeakType, Unused
  <1>2. HeapBy(t, NoSess, 0)
    <2>1. loc[t] \in Sess /\ refs(loc[t]) = 1 /\ Own(t, loc[t]) >= 1
      BY <1>1, MakerOwns DEF MakingOf, Making, Inv
    <2> QED
      BY <1>1, <1>x, <2>1, HeapId DEF WeakType
  <1>3. heap' \in [Sess -> IntObject] /\ CacheKept
    BY <1>2 DEF HeapBy, CacheKept
  <1>4. WeakType'
    BY <1>1, <1>x, <1>3 DEF WeakType, PC, ControlOf, Adding, Removing
  <1>5. Others(t)
    BY <1>1, <1>x DEF Others, WeakType
  <1>6. ControlOf(t)' /\ AddIdOf(t)'
    BY <1>1, <1>x DEF WeakType, ControlOf, AddIdOf, Adding, Removing, Making, Looking
  <1>7. Locking'
    BY <1>1, <1>x DEF WeakType, Locking, ControlOf, Adding, Removing
  <1>8. OwnBy(t, NoSess, 0)
    BY <1>1, <1>x DEF OwnBy, Own, Stale, WeakType, ControlOf, Adding, Removing, Making, Looking
  <1>9. MakingOf(t)'
    BY <1>1, <1>x DEF MakingOf, Making, ControlOf, Adding, Removing, WeakType
  <1> QED
    BY <1>2, <1>3, <1>4, <1>5, <1>6, <1>7, <1>8, <1>9, CacheUnchanged

\* A session without an id gets one.
LEMMA new_session_ticket_Inv ==
  ASSUME Inv, NEW t \in Thread,
         ssl3_get_new_session_ticket(t)
  PROVE  Inv'
  <1> USE ConstantAssumption
      DEF ssl3_get_new_session_ticket, cacheVars, sslVars, callVars, Return,
          Goto, StartAdd
  <1>1. WeakType /\ Locking /\ ControlOf(t) /\ MakingOf(t)
    BY DEF Inv, Control
  <1>x. PICK i \in Id : heap' = [heap EXCEPT ![session[t]].session_id = i]
    BY <1>1 DEF WeakType, Unused
  <1>2. HeapBy(t, NoSess, 0)
    BY <1>1, <1>x, HeapId DEF WeakType, ControlOf, Making, Looking, Adding, Removing
  <1>3. heap' \in [Sess -> IntObject] /\ CacheKept
    BY <1>2 DEF HeapBy, CacheKept
  <1>4. WeakType'
    BY <1>1, <1>x, <1>3 DEF WeakType, PC, ControlOf, Adding, Removing
  <1>5. Others(t)
    BY <1>1, <1>x DEF Others, WeakType
  <1>6. ControlOf(t)' /\ AddIdOf(t)'
    BY <1>1, <1>x DEF WeakType, ControlOf, AddIdOf, Adding, Removing, Making, Looking
  <1>7. Locking'
    BY <1>1, <1>x DEF WeakType, Locking, ControlOf, Adding, Removing
  <1>8. OwnBy(t, NoSess, 0)
    BY <1>1, <1>x DEF OwnBy, Own, Stale, WeakType, ControlOf, Adding, Removing, Making, Looking
  <1>9. MakingOf(t)'
    BY <1>1, <1>x DEF MakingOf, Making, ControlOf, Adding, Removing, WeakType
  <1> QED
    BY <1>2, <1>3, <1>4, <1>5, <1>6, <1>7, <1>8, <1>9, CacheUnchanged

\* A failed session that is in another cache.
LEMMA alert_quiet_Inv ==
  ASSUME Inv, NEW t \in Thread,
         \/ fatal_alert(t) \/ ssl_clear_bad_session(t),
         switched[t]
  PROVE  Inv'
  <1> USE ConstantAssumption
      DEF fatal_alert, ssl_clear_bad_session, cacheVars, sslVars, callVars,
          Return, Goto, StartAdd, RemoveOwn
  <1>1. WeakType /\ Locking /\ ControlOf(t) /\ MakingOf(t)
    BY DEF Inv, Control
  <1>2. HeapBy(t, NoSess, 0)
    BY <1>1, HeapMark DEF WeakType, ControlOf, Making, Looking, Adding, Removing
  <1>3. heap' \in [Sess -> IntObject] /\ CacheKept
    BY <1>2 DEF HeapBy, CacheKept
  <1>4. WeakType'
    BY <1>1, <1>3 DEF WeakType, PC, ControlOf, Adding, Removing
  <1>5. Others(t)
    BY <1>1 DEF Others, WeakType
  <1>6. ControlOf(t)' /\ AddIdOf(t)'
    BY <1>1 DEF WeakType, ControlOf, AddIdOf, Adding, Removing, Making, Looking
  <1>7. Locking'
    BY <1>1 DEF WeakType, Locking, ControlOf, Adding, Removing
  <1>8. OwnBy(t, NoSess, 0)
    BY <1>1 DEF OwnBy, Own, Stale, WeakType, ControlOf, Adding, Removing, Making, Looking
  <1>9. MakingOf(t)'
    BY <1>1 DEF MakingOf, Making, ControlOf, Adding, Removing, WeakType
  <1> QED
    BY <1>2, <1>3, <1>4, <1>5, <1>6, <1>7, <1>8, <1>9, CacheUnchanged

\* A failed session that has to be removed.
LEMMA alert_remove_Inv ==
  ASSUME Inv, NEW t \in Thread,
         \/ fatal_alert(t) \/ ssl_clear_bad_session(t), ~switched[t]
  PROVE  Inv'
  <1> USE ConstantAssumption
      DEF fatal_alert, ssl_clear_bad_session, cacheVars, sslVars, callVars,
          Return, Goto, StartAdd, RemoveOwn
  <1>1. WeakType /\ Locking /\ ControlOf(t) /\ MakingOf(t)
    BY DEF Inv, Control
  <1>2. HeapBy(t, NoSess, 0)
    BY <1>1, HeapKept DEF WeakType, ControlOf, Making, Looking, Adding, Removing
  <1>3. heap' \in [Sess -> IntObject] /\ CacheKept
    BY <1>2 DEF HeapBy, CacheKept
  <1>4. WeakType'
    <2>1. arg' \in [Thread -> Sess \cup {NoSess}]
      BY <1>1 DEF WeakType, ControlOf
    <2>2. pc' \in [Thread -> PC] /\ cont' \in [Thread -> PC]
      BY <1>1 DEF WeakType, PC
    <2> QED
      BY <1>1, <1>3, <2>1, <2>2 DEF WeakType
  <1>5. Others(t)
    BY <1>1 DEF Others, WeakType
  <1>6. ControlOf(t)' /\ AddIdOf(t)'
    BY <1>1 DEF WeakType, ControlOf, AddIdOf, Adding, Removing, Making, Looking
  <1>7. Locking'
    BY <1>1 DEF WeakType, Locking, ControlOf, Adding, Removing
  <1>8. OwnBy(t, NoSess, 0)
    BY <1>1 DEF OwnBy, Own, Stale, WeakType, ControlOf, Adding, Removing, Making, Looking
  <1>9. MakingOf(t)'
    BY <1>1 DEF MakingOf, Making, ControlOf, Adding, Removing, WeakType
  <1> QED
    BY <1>2, <1>3, <1>4, <1>5, <1>6, <1>7, <1>8, <1>9, CacheUnchanged

-----------------------------------------------------------------------------
(* Steps that change the cache, to the set C of sessions.                  *)

\* The table after the nodes of one id are deleted.
LEMMA TableFacts ==
  ASSUME WeakType, DoubleAccess, UniqueId
  PROVE  table = {[key |-> sid(y), obj |-> y] : y \in Cached}
  <1>1. ASSUME NEW m \in table PROVE m \in {[key |-> sid(y), obj |-> y] : y \in Cached}
    <2>1. m.obj \in Cached /\ m = [key |-> m.key, obj |-> m.obj] /\ m.key = sid(m.obj)
      BY DEF DoubleAccess, UniqueId, WeakType, IdNode
    <2> QED
      BY <2>1
  <1>2. ASSUME NEW y \in Cached PROVE [key |-> sid(y), obj |-> y] \in table
    <2>1. [key |-> sid(y), obj |-> y] \in Match(sid(y))
      BY CachedFacts
    <2> QED
      BY <2>1 DEF Match
  <1> QED
    BY <1>1, <1>2

\* Both access paths without x.
LEMMA CutFacts ==
  ASSUME WeakType, DoubleAccess, UniqueId, NEW x \in Cached
  PROVE  /\ table \ Match(sid(x)) = {[key |-> sid(y), obj |-> y] : y \in Cached \ {x}}
         /\ Unlinked(list, x) \in Seq(Sess)
         /\ InSeq(Unlinked(list, x)) = Cached \ {x}
         /\ NoDup(Unlinked(list, x))
  <1>1. table = {[key |-> sid(y), obj |-> y] : y \in Cached}
    BY TableFacts
  <1>2. Match(sid(x)) = {[key |-> sid(x), obj |-> x]}
    BY CachedFacts
  <1>3. \A y \in Cached : [key |-> sid(y), obj |-> y] = [key |-> sid(x), obj |-> x] <=> y = x
    OBVIOUS
  <1>4. list \in Seq(Sess) /\ NoDup(list) /\ InSeq(list) = Cached
    BY DEF WeakType, UniqueId, NoDup, InSeq, Cached
  <1>5. table \ Match(sid(x)) = {[key |-> sid(y), obj |-> y] : y \in Cached \ {x}}
    BY <1>1, <1>2, <1>3
  <1> QED
    BY <1>4, <1>5, UnlinkedFacts

\* The table still has what the list has, each session under the id it had.
SameCache == /\ Cached' \in SUBSET Sess
             /\ table' = {[key |-> sid(y), obj |-> y] : y \in Cached'}
             /\ \A y \in Cached' : y \in Cached \/ sid(y)' = sid(y)
             /\ \A y, z \in Cached' : sid(y) = sid(z) => y = z

\* The cache stays consistent when its table and list change together.
LEMMA CacheChanged ==
  ASSUME Inv, NEW t \in Thread, NEW x, NEW n \in Int, n <= 0, HeapBy(t, x, n), Balanced(t),
         WeakType', Others(t), ControlOf(t)', Locking', MakingOf(t)', AddIdOf(t)',
         NoDup(list'), SameCache
  PROVE  Inv'
  <1> USE DEF Inv
  <1>1. Control'
    BY DEF Control, ControlOf, Others, WeakType
  <1>2. RefCount'
    BY Balance
  <1>3. Counted'
    BY <1>2, RefCountCounted, PTL
  <1>4. /\ \A u \in Thread \ {t} : MakingOf(u)' /\ AddIdOf(u)'
        /\ \A y \in Cached : refs(y)' >= 1 => sid(y)' = sid(y)
    BY <1>2, OthersKept
  <1> DEFINE C == Cached'
  <1>5. /\ C \in SUBSET Sess
        /\ table' = {[key |-> sid(y), obj |-> y] : y \in C}
        /\ \A y \in C : y \in Cached \/ sid(y)' = sid(y)
        /\ \A y, z \in C : sid(y) = sid(z) => y = z
    BY DEF SameCache
  <1>6. ASSUME NEW y \in C PROVE sid(y)' = sid(y)
    <2>1. refs(y)' >= 1
      <3>1. ByCache(y)' = 1
        BY DEF ByCache
      <3>2. refs(y)' \in Nat /\ refs(y)' >= Own(t, y)' + ByCache(y)' /\ Own(t, y)' \in Nat
        BY <1>3, <1>5 DEF Counted
      <3> QED
        BY <3>1, <3>2
    <2> QED
      BY <1>4, <1>5, <2>1
  <1>7. \A m \in table' : m.obj \in C /\ m.key = sid(m.obj)
    BY <1>5
  <1>8. \A y \in C : [key |-> sid(y), obj |-> y] \in table'
    BY <1>5
  <1>9. DoubleAccess'
    <2>1. ASSUME NEW y \in C PROVE y \in {m.obj : m \in table'}
      <3>1. [key |-> sid(y), obj |-> y].obj = y
        OBVIOUS
      <3> QED
        BY <1>8, <3>1
    <2>2. {m.obj : m \in table'} = C
      BY <1>7, <2>1
    <2> QED
      BY <2>2 DEF DoubleAccess
  <1>10. UniqueId'
    <2>1. \A m \in table' : m.key = sid(m.obj)'
      BY <1>6, <1>7
    <2>2. \A m, k \in table' : m.key = k.key => m = k
      BY <1>5
    <2>3. \A j, k \in DOMAIN list' : list'[j] = list'[k] => j = k
      BY DEF NoDup
    <2> QED
      BY <2>1, <2>2, <2>3 DEF UniqueId
  <1> QED
    BY <1>1, <1>2, <1>4, <1>9, <1>10

\* A session taken off both access paths.
LEMMA Cut ==
  ASSUME WeakType, DoubleAccess, UniqueId, NEW x \in Cached,
         table' = table \ Match(sid(x)), list' = Unlinked(list, x)
  PROVE  /\ x \in Sess /\ list' \in Seq(Sess) /\ NoDup(list') /\ table' \in SUBSET table
         /\ SameCache /\ Cached' = Cached \ {x}
         /\ \A y \in Sess : /\ ByCache(y) \in Nat
                            /\ ByCache(y)' = ByCache(y) - (IF y = x THEN 1 ELSE 0)
  <1>1. /\ table' = {[key |-> sid(y), obj |-> y] : y \in Cached \ {x}}
        /\ list' \in Seq(Sess) /\ InSeq(list') = Cached \ {x} /\ NoDup(list')
    BY CutFacts
  <1>2. Cached' = Cached \ {x}
    BY <1>1 DEF Cached, InSeq
  <1>3. /\ Cached \in SUBSET Sess
        /\ \A y, z \in Cached : sid(y) = sid(z) => y = z
    BY CachedFacts
  <1>4. SameCache
    BY <1>1, <1>2, <1>3 DEF SameCache
  <1>5. ASSUME NEW y \in Sess
        PROVE  /\ ByCache(y) \in Nat
               /\ ByCache(y)' = ByCache(y) - (IF y = x THEN 1 ELSE 0)
    BY <1>2 DEF ByCache
  <1> QED
    BY <1>1, <1>2, <1>3, <1>4, <1>5

\* SSL_CTX_remove_session cuts both paths and takes over the cache's reference.
LEMMA rm_lock_Inv ==
  ASSUME Inv, NEW t \in Thread, rm_lock(t)
  PROVE  Inv'
  <1> USE ConstantAssumption DEF rm_lock, sslVars, cacheVars, Return, Goto
  <1>1. /\ WeakType /\ Locking /\ ControlOf(t) /\ DoubleAccess /\ UniqueId
        /\ arg[t] \in Sess /\ pc[t] = "rm_lock"
    BY DEF Inv, Control, ControlOf, Removing
  <1>2. HeapBy(t, NoSess, 0)
    BY <1>1, HeapMark DEF WeakType, IntObject
  <1>3. heap' \in [Sess -> IntObject]
    BY <1>2 DEF HeapBy
  <1>4. Others(t)
    BY <1>1 DEF Others, WeakType
  <1>5. ControlOf(t)' /\ AddIdOf(t)' /\ MakingOf(t)'
    BY <1>1 DEF WeakType, ControlOf, AddIdOf, MakingOf, Adding, Removing, Making, Looking
  <1>6. CASE sid(arg[t]) # NoId /\ Retrieve(sid(arg[t])) = arg[t]
    <2> DEFINE c == arg[t]
    <2>1. c \in Cached
      BY <1>1, <1>6, RetrieveFacts
    <2>2. /\ table' = table \ Match(sid(c)) /\ list' = Unlinked(list, c)
          /\ pc' = [pc EXCEPT ![t] = "rm_free"] /\ UNCHANGED <<arg, cont>>
      BY <1>6
    <2>3. /\ list' \in Seq(Sess) /\ NoDup(list') /\ table' \in SUBSET table /\ SameCache
          /\ \A y \in Sess : /\ ByCache(y) \in Nat
                             /\ ByCache(y)' = ByCache(y) - (IF y = c THEN 1 ELSE 0)
      BY <1>1, <2>1, <2>2, Cut
    <2>4. WeakType'
      BY <1>1, <1>3, <2>2, <2>3 DEF WeakType, PC
    <2>5. Locking'
      BY <1>1, <2>2, <2>3 DEF WeakType, Locking, ControlOf
    <2>6. Balanced(t)
      <3> SUFFICES ASSUME NEW y \in Sess
                   PROVE  refs(y)' = refs(y) + (Own(t, y)' - Own(t, y)) + (ByCache(y)' - ByCache(y))
        BY DEF Balanced
      <3>1. refs(y)' = refs(y) /\ refs(y) \in Int
        BY <1>1, <1>2 DEF HeapBy, refs, WeakType, IntObject
      <3>2. Own(t, y)' = Own(t, y) + (IF y = c THEN 1 ELSE 0) /\ Own(t, y) \in Int
        BY <1>1, <2>2 DEF Own, Stale, WeakType
      <3> QED
        BY <2>3, <3>1, <3>2
    <2> QED
      BY <1>2, <1>4, <1>5, <2>3, <2>4, <2>5, <2>6, CacheChanged
  <1>7. CASE sid(arg[t]) = NoId \/ Retrieve(sid(arg[t])) # arg[t]
    <2>1. CacheKept
      BY <1>7 DEF CacheKept
    <2>2. WeakType'
      BY <1>1, <1>3, <1>7 DEF WeakType, PC
    <2>3. Locking'
      BY <1>1, <1>7 DEF WeakType, Locking, ControlOf
    <2>4. OwnBy(t, NoSess, 0)
      BY <1>1, <1>7 DEF OwnBy, Own, Stale, WeakType, ControlOf, Removing
    <2> QED
      BY <1>2, <1>4, <1>5, <2>1, <2>2, <2>3, <2>4, CacheUnchanged
  <1> QED
    BY <1>6, <1>7

\* A session discarded under the lock: the turns of the two loops.
LEMMA Discarded ==
  ASSUME Inv, NEW t \in Thread, NEW x \in Cached,
         table' = table \ Match(sid(x)), list' = Unlinked(list, x), heap' = Discard(x),
         todo' \subseteq todo, todo' \subseteq table', lock = t,
         UNCHANGED <<lock, sslVars, callVars, app>>
  PROVE  Inv'
  <1> USE DEF sslVars, callVars
  <1>1. /\ WeakType /\ Locking /\ ControlOf(t) /\ DoubleAccess /\ UniqueId /\ x \in Sess
        /\ pc[t] \in {"evict", "flush"}
    BY CachedFacts DEF Inv, Control, Locking
  <1>2. HeapBy(t, x, -1)
    BY <1>1, HeapDiscard DEF WeakType
  <1>3. /\ list' \in Seq(Sess) /\ NoDup(list') /\ table' \in SUBSET table /\ SameCache
        /\ \A y \in Sess : /\ ByCache(y) \in Nat
                           /\ ByCache(y)' = ByCache(y) - (IF y = x THEN 1 ELSE 0)
    BY <1>1, Cut
  <1>4. WeakType'
    BY <1>1, <1>2, <1>3 DEF WeakType, HeapBy
  <1>5. Others(t) /\ ControlOf(t)' /\ AddIdOf(t)' /\ MakingOf(t)'
    BY <1>1 DEF Others, WeakType, ControlOf, AddIdOf, MakingOf, Making
  <1>6. Locking'
    BY <1>1 DEF Locking
  <1>7. Balanced(t)
    <2> SUFFICES ASSUME NEW y \in Sess
                 PROVE  refs(y)' = refs(y) + (Own(t, y)' - Own(t, y)) + (ByCache(y)' - ByCache(y))
      BY DEF Balanced
    <2>1. refs(y)' = refs(y) + (IF y = x THEN -1 ELSE 0) /\ refs(y) \in Int
      BY <1>1, <1>2 DEF HeapBy, refs, WeakType, IntObject
    <2>2. Own(t, y)' = Own(t, y) /\ Own(t, y) \in Int
      BY DEF Own
    <2> QED
      BY <1>3, <2>1, <2>2
  <1> QED
    BY <1>2, <1>3, <1>4, <1>5, <1>6, <1>7, CacheChanged

\* An eviction drops the tail and the cache's reference to it.
LEMMA add_evict_Inv ==
  ASSUME Inv, NEW t \in Thread, add_evict(t)
  PROVE  Inv'
  <1>1. lock = t /\ todo = {} /\ WeakType /\ DoubleAccess /\ UniqueId
    BY DEF Inv, Locking, add_evict
  <1>2. CacheTail \in Cached
    <2>1. CacheTail # NoSess /\ Retrieve(sid(CacheTail)) = CacheTail
      BY DEF add_evict, Evictable
    <2> QED
      BY <1>1, <2>1, RetrieveFacts
  <1> QED
    BY <1>1, <1>2, Discarded DEF add_evict

\* The flush drops an expired session and the cache's reference to it.
LEMMA timeout_doall_arg_Inv ==
  ASSUME Inv, NEW t \in Thread, timeout_doall_arg(t)
  PROVE  Inv'
  <1>1. /\ lock = t /\ todo \subseteq table /\ WeakType /\ DoubleAccess /\ UniqueId
    BY DEF Inv, Locking, timeout_doall_arg
  <1>2. PICK n \in todo : /\ todo' = todo \ {n}
                          /\ table' = table \ Match(sid(n.obj))
                          /\ list' = Unlinked(list, n.obj)
                          /\ heap' = Discard(n.obj)
    BY DEF timeout_doall_arg
  <1>3. n.obj \in Cached
    BY <1>1 DEF DoubleAccess
  <1>4. Match(sid(n.obj)) = {n}
    <2>1. n \in Match(sid(n.obj))
      BY <1>1 DEF Match, UniqueId
    <2>2. Match(sid(n.obj)) = {[key |-> sid(n.obj), obj |-> n.obj]}
      BY <1>1, <1>3, CachedFacts
    <2> QED
      BY <2>1, <2>2
  <1>5. todo' \subseteq todo /\ todo' \subseteq table'
    BY <1>1, <1>2, <1>4
  <1> QED
    BY <1>1, <1>2, <1>3, <1>5, Discarded DEF timeout_doall_arg

\* The new session takes the place of the one that had its id, if there was one.
LEMMA add_insert_Inv ==
  ASSUME Inv, NEW t \in Thread, add_insert(t), ~Oom
  PROVE  Inv'
  <1> DEFINE c == arg[t]
             s == Retrieve(sid(c))
  <1>1. /\ WeakType /\ Locking /\ ControlOf(t) /\ AddIdOf(t) /\ DoubleAccess /\ UniqueId
        /\ c \in Sess /\ sid(c) # NoId /\ pc[t] = "add_lock" /\ lock = NoThread /\ s # c
    BY DEF Inv, Control, ControlOf, Adding, AddIdOf, add_insert
  <1>2. /\ table' = (table \ Match(sid(c))) \cup {[key |-> sid(c), obj |-> c]}
        /\ list' = Linked(Unlinked(list, s), c)
        /\ heap' = Free([heap EXCEPT ![c].failed = @ /\ cont[t] = "newcb"], s)
        /\ lock' = t /\ pc' = [pc EXCEPT ![t] = "evict"]
        /\ UNCHANGED <<todo, session, switched, loc, arg, cont, app>>
    BY DEF add_insert, Goto, sslVars
  <1> HIDE DEF s
  <1>3. /\ s \in Cached \cup {NoSess} /\ s \in Sess \cup {NoSess}
        /\ table \ Match(sid(c)) = {[key |-> sid(y), obj |-> y] : y \in Cached \ {s}}
    <2>1. CASE Match(sid(c)) = {}
      <3>1. s = NoSess
        BY <1>1, <2>1, RetrieveFacts DEF s
      <3>2. \A y \in Cached : y # NoSess
        BY <1>1, CachedFacts, ConstantAssumption
      <3> QED
        BY <1>1, <2>1, <3>1, <3>2, TableFacts
    <2>2. CASE Match(sid(c)) # {}
      <3>1. s \in Cached /\ s \in Sess /\ sid(s) = sid(c)
        BY <1>1, <2>2, RetrieveFacts DEF s
      <3>2. table \ Match(sid(s)) = {[key |-> sid(y), obj |-> y] : y \in Cached \ {s}}
        BY <1>1, <3>1, CutFacts
      <3> QED
        BY <3>1, <3>2
    <2> QED
      BY <2>1, <2>2
  <1>4. \A y \in Cached \ {s} : y \in Sess /\ y # c /\ sid(y) # sid(c)
    BY <1>1, CachedFacts DEF s
  <1>5. list' \in Seq(Sess) /\ NoDup(list') /\ Cached' = (Cached \ {s}) \cup {c}
    <2>1. list \in Seq(Sess) /\ NoDup(list) /\ InSeq(list) = Cached
      BY <1>1 DEF WeakType, UniqueId, NoDup, InSeq, Cached
    <2>2. /\ Unlinked(list, s) \in Seq(Sess) /\ NoDup(Unlinked(list, s))
          /\ InSeq(Unlinked(list, s)) = Cached \ {s}
      BY <2>1, UnlinkedFacts
    <2>3. list' \in Seq(Sess) /\ NoDup(list') /\ InSeq(list') = (Cached \ {s}) \cup {c}
      BY <1>1, <1>2, <2>2, LinkedFacts
    <2> QED
      BY <2>3 DEF Cached, InSeq
  <1>6. HeapBy(t, s, -1) /\ sid(c)' = sid(c)
    <2> DEFINE h == [heap EXCEPT ![c].failed = @ /\ cont[t] = "newcb"]
    <2>1. /\ h \in [Sess -> IntObject]
          /\ \A y \in Sess : /\ h[y].references = heap[y].references
                             /\ h[y].session_id = heap[y].session_id
      <3> DEFINE b == heap[c].failed /\ cont[t] = "newcb"
      <3>1. b \in BOOLEAN /\ h = [heap EXCEPT ![c].failed = b]
        BY <1>1 DEF WeakType
      <3>2. c \in Sess /\ heap \in [Sess -> IntObject]
        BY <1>1 DEF WeakType
      <3> HIDE DEF b, c, h
      <3>3. \A y \in Sess : h[y] = IF y = c THEN [heap[c] EXCEPT !.failed = b] ELSE heap[y]
        BY <3>1, <3>2
      <3>4. /\ [heap[c] EXCEPT !.failed = b] \in IntObject
            /\ [heap[c] EXCEPT !.failed = b].references = heap[c].references
            /\ [heap[c] EXCEPT !.failed = b].session_id = heap[c].session_id
        BY <3>1, <3>2 DEF IntObject
      <3>5. h \in [Sess -> IntObject]
        BY <3>1, <3>2, <3>4
      <3> QED
        BY <3>3, <3>4, <3>5
    <2>2. heap' = Free(h, s)
      BY <1>2
    <2> HIDE DEF h
    <2>3. CASE s = NoSess
      <3>1. heap' = h
        BY <2>2, <2>3, FreeNull
      <3>2. \A y \in Sess : /\ refs(y)' = refs(y) + (IF y = s THEN -1 ELSE 0)
                            /\ sid(y)' = sid(y)
        BY <1>1, <2>1, <2>3, <3>1, ConstantAssumption DEF refs, sid, WeakType, IntObject
      <3>3. sid(c)' = sid(c)
        BY <1>1, <1>2, <3>2 DEF sid
      <3> QED
        BY <2>1, <3>1, <3>2, <3>3 DEF HeapBy, SidKept
    <2>4. CASE s \in Sess
      <3>1. /\ heap' \in [Sess -> IntObject]
            /\ heap'[s].references = heap[s].references - 1
            /\ heap[s].references # 1 => heap'[s].session_id = heap[s].session_id
            /\ \A y \in Sess \ {s} : heap'[y] = h[y]
        BY <2>1, <2>2, <2>4, FreeFacts
      <3>2. \A y \in Sess : refs(y)' = refs(y) + (IF y = s THEN -1 ELSE 0)
        BY <1>1, <2>1, <2>4, <3>1 DEF refs, WeakType, IntObject
      <3>3. ASSUME NEW y \in Sess, refs(y)' >= 1 PROVE sid(y)' = sid(y)
        <4>1. y = s => heap[y].references # 1
          BY <3>2, <3>3 DEF refs
        <4> QED
          BY <2>1, <3>1, <4>1 DEF sid
      <3>4. sid(c)' = sid(c)
        BY <1>1, <1>2, <2>1, <3>1 DEF sid
      <3> QED
        BY <3>1, <3>2, <3>3, <3>4 DEF HeapBy, SidKept
    <2> QED
      BY <1>3, <2>3, <2>4
  <1>7. SameCache
    <2>1. Cached' \in SUBSET Sess
      BY <1>1, <1>4, <1>5
    <2>2. table' = {[key |-> sid(y), obj |-> y] : y \in Cached'}
      BY <1>2, <1>3, <1>5
    <2>3. \A y \in Cached' : y \in Cached \/ sid(y)' = sid(y)
      <3> SUFFICES ASSUME NEW y \in Cached', y = c PROVE sid(y)' = sid(y)
        BY <1>5
      <3> QED
        BY <1>2, <1>6 DEF sid
    <2>4. \A y, z \in Cached : sid(y) = sid(z) => y = z
      BY <1>1, CachedFacts
    <2>5. \A y, z \in Cached' : sid(y) = sid(z) => y = z
      BY <1>4, <1>5, <2>4
    <2> QED
      BY <2>1, <2>2, <2>3, <2>5 DEF SameCache
  <1>8. WeakType'
    <2>1. sid(c) \in Id
      BY <1>1 DEF WeakType, IntObject, sid
    <2>2. table' \in SUBSET IdNode
      BY <1>1, <1>2, <2>1 DEF WeakType, IdNode
    <2> QED
      BY <1>1, <1>2, <1>5, <1>6, <2>2 DEF WeakType, HeapBy, PC
  <1>9. Others(t) /\ ControlOf(t)' /\ AddIdOf(t)' /\ MakingOf(t)'
    BY <1>1, <1>2 DEF Others, WeakType, ControlOf, AddIdOf, MakingOf, Making, Adding, Removing, Looking
  <1>10. Locking'
    <2>1. todo = {}
      BY <1>1, ConstantAssumption DEF Locking
    <2> QED
      BY <1>1, <1>2, <2>1, ConstantAssumption DEF Locking, WeakType
  <1>11. Balanced(t)
    <2> SUFFICES ASSUME NEW y \in Sess
                 PROVE  refs(y)' = refs(y) + (Own(t, y)' - Own(t, y)) + (ByCache(y)' - ByCache(y))
      BY DEF Balanced
    <2>1. refs(y)' = refs(y) + (IF y = s THEN -1 ELSE 0) /\ refs(y) \in Int
      BY <1>1, <1>6 DEF HeapBy, refs, WeakType, IntObject
    <2>2. Own(t, y)' = Own(t, y) + (IF y = c THEN -1 ELSE 0) /\ Own(t, y) \in Int
      BY <1>1, <1>2 DEF Own, Stale, WeakType
    <2>3. c \notin Cached
      BY <1>1, CachedFacts DEF s
    <2>4. /\ ByCache(y) = (IF y \in Cached THEN 1 ELSE 0)
          /\ ByCache(y)' = (IF y \in (Cached \ {s}) \cup {c} THEN 1 ELSE 0)
      BY <1>5 DEF ByCache
    <2>5. y = s => y \in Cached /\ y # c
      BY <1>1, <1>3, ConstantAssumption
    <2> QED
      BY <2>1, <2>2, <2>3, <2>4, <2>5
  <1> QED
    BY <1>5, <1>6, <1>7, <1>8, <1>9, <1>10, <1>11, CacheChanged

\* The passing of time moves no reference.
LEMMA Expire_Inv ==
  ASSUME Inv, NEW x \in Sess, Expire(x)
  PROVE  Inv'
  <1> USE DEF Inv, Expire, cacheVars, sslVars, callVars
  <1>1. heap' \in [Sess -> IntObject]
    <2>1. heap[x] \in IntObject /\ heap \in [Sess -> IntObject]
      BY DEF WeakType
    <2>2. [heap[x] EXCEPT !.expired = TRUE] \in IntObject
      BY <2>1 DEF IntObject
    <2> QED
      BY <2>1, <2>2
  <1>2. \A y \in Sess : refs(y)' = refs(y) /\ sid(y)' = sid(y)
    BY DEF refs, sid, WeakType, IntObject
  <1>3. WeakType' /\ Locking'
    BY <1>1 DEF WeakType, Locking
  <1>4. Control'
    BY DEF Control, ControlOf
  <1>5. RefCount'
    BY <1>2 DEF RefCount, BySsl, ByLocal, ByAdd, ByRemove, ByApp, ByCache, Cached
  <1>6. DoubleAccess' /\ UniqueId'
    <2>1. \A n \in table : n.obj \in Sess
      BY DEF WeakType, IdNode
    <2> QED
      BY <1>2, <2>1 DEF DoubleAccess, UniqueId, Cached
  <1>7. ASSUME NEW t \in Thread PROVE MakingOf(t)' /\ AddIdOf(t)'
    <2>1. pc'[t] = pc[t] /\ loc'[t] = loc[t] /\ arg'[t] = arg[t]
      OBVIOUS
    <2>2. pc[t] \in Making => loc[t] \in Sess
      BY DEF Control, ControlOf
    <2>3. pc[t] = "add_lock" => arg[t] \in Sess
      BY DEF Control, ControlOf, Adding
    <2>4. refs(loc[t])' = heap'[loc[t]].references /\ sid(arg[t])' = heap'[arg[t]].session_id
      BY <2>1 DEF refs, sid
    <2> QED
      BY <1>2, <2>1, <2>2, <2>3, <2>4 DEF MakingOf, AddIdOf, refs, sid
  <1> QED
    BY <1>3, <1>4, <1>5, <1>6, <1>7

-----------------------------------------------------------------------------
(* The invariant.                                                          *)

\* A new SSL_CTX has an empty cache and no references.
LEMMA InitInv == Init => Inv
  <1> SUFFICES ASSUME Init PROVE Inv
    OBVIOUS
  <1> USE ConstantAssumption DEF Init
  <1>1. WeakType
    <2>1. Freed \in IntObject
      BY DEF Freed, Zeroed, IntObject
    <2> QED
      BY <2>1 DEF WeakType, PC
  <1>2. Control /\ Locking
    BY DEF Control, ControlOf, Locking, Making, Looking, Adding, Removing
  <1>3. Cached = {}
    BY DEF Cached
  <1>4. RefCount
    <2> SUFFICES ASSUME NEW y \in Sess
                 PROVE  refs(y) = Cardinality(BySsl(y)) + Cardinality(ByLocal(y)) + Cardinality(ByAdd(y))
                          + Cardinality(ByRemove(y)) + Cardinality(ByApp(y)) + ByCache(y)
      BY DEF RefCount
    <2>1. refs(y) = 0
      BY DEF refs, Freed, Zeroed
    <2>2. /\ BySsl(y) = {} /\ ByLocal(y) = {} /\ ByAdd(y) = {} /\ ByRemove(y) = {} /\ ByApp(y) = {}
          /\ ByCache(y) = 0
      BY <1>3 DEF BySsl, ByLocal, ByAdd, ByRemove, ByApp, ByCache
    <2> QED
      BY <2>1, <2>2, FS_EmptySet
  <1>5. DoubleAccess /\ UniqueId
    BY <1>3 DEF DoubleAccess, UniqueId
  <1>6. \A t \in Thread : MakingOf(t) /\ AddIdOf(t)
    BY DEF MakingOf, AddIdOf, Making
  <1> QED
    BY <1>1, <1>2, <1>4, <1>5, <1>6 DEF Inv

\* Every step of the cache and its callers preserves the inductive invariant.
LEMMA NextInv ==
  ASSUME ~Oom, ~AddNoId, ~SharedSsl, Inv, [Next]_vars
  PROVE  Inv'
  <1>1. CASE UNCHANGED vars
    <2> USE <1>1 DEF vars, cacheVars, sslVars, callVars
    <2>1. WeakType' /\ Control' /\ Locking'
      BY DEF Inv, WeakType, Control, ControlOf, Locking
    <2>2. RefCount'
      BY DEF Inv, RefCount, refs, BySsl, ByLocal, ByAdd, ByRemove, ByApp, ByCache, Cached
    <2>3. DoubleAccess' /\ UniqueId'
      BY DEF Inv, DoubleAccess, UniqueId, sid, Cached
    <2>4. \A t \in Thread : MakingOf(t)' /\ AddIdOf(t)'
      BY DEF Inv, MakingOf, AddIdOf, refs, sid
    <2> QED
      BY <2>1, <2>2, <2>3, <2>4 DEF Inv
  <1>2. ASSUME NEW t \in Thread, NewSession(t) PROVE Inv'
    BY <1>2, ssl_get_new_session_Inv, FreeSession_Inv, Quiet_Inv, choose_id_Inv, FreeLocal_Inv
       DEF NewSession
  <1>3. ASSUME NEW t \in Thread, PrevSession(t) PROVE Inv'
    BY <1>3, ssl_get_prev_session_Inv, get_session_cb_Inv, get_session_cb_copy_Inv,
       tls1_process_ticket_Inv, Quiet_Inv, FreeLocal_Inv, FreeSession_Inv DEF PrevSession
  <1>4. ASSUME NEW t \in Thread, AddSession(t) PROVE Inv'
    BY <1>4, add_insert_Inv, add_present_Inv, add_evict_Inv, Quiet_Inv DEF AddSession
  <1>5. ASSUME NEW t \in Thread, RemoveSession(t) PROVE Inv'
    BY <1>5, rm_lock_Inv, rm_free_Inv DEF RemoveSession
  <1>6. ASSUME NEW t \in Thread, Flush(t) PROVE Inv'
    BY <1>6, Quiet_Inv, timeout_doall_arg_Inv DEF Flush
  <1>7. ASSUME NEW t \in Thread, Connection(t) PROVE Inv'
    <2>1. ssl_update_cache(t) => Inv'
      BY update_cache_quiet_Inv, update_cache_add_Inv
    <2>2. new_session_cb(t) => Inv'
      BY new_session_cb_quiet_Inv, new_session_cb_keep_Inv DEF new_session_cb
    <2>3. fatal_alert(t) \/ ssl_clear_bad_session(t) => Inv'
      BY alert_quiet_Inv, alert_remove_Inv
    <2>4. SSL_free(t) \/ clear_null(t) \/ SSL_set_SSL_CTX(t) \/ ssl3_client_hello(t) => Inv'
      BY Quiet_Inv
    <2>5. clear_session(t) \/ ssl3_get_new_session_ticket(t) => Inv'
      BY FreeSession_Inv, new_session_ticket_Inv
    <2> QED
      BY <1>7, <2>1, <2>2, <2>3, <2>4, <2>5 DEF Connection
  <1>8. ASSUME NEW t \in Thread, Application(t) PROVE Inv'
    <2>1. ASSUME NEW u \in Thread, SSL_get1_session(t, u) PROVE Inv'
      <3>1. u = t
        BY <2>1 DEF SSL_get1_session
      <3> QED
        BY <2>1, <3>1, SSL_get1_session_Inv
    <2> QED
      BY <1>8, <2>1, SSL_SESSION_free_Inv, SSL_set_session_Inv, SSL_CTX_add_session_Inv, Quiet_Inv
         DEF Application
  <1> QED
    BY <1>1, <1>2, <1>3, <1>4, <1>5, <1>6, <1>7, <1>8, Expire_Inv DEF Next

\* The inductive invariant holds in every reachable state.
THEOREM Invariance ==
  ASSUME ~Oom, ~AddNoId, ~SharedSsl
  PROVE  Spec => []Inv
  <1>1. Init => Inv
    BY InitInv
  <1>2. Inv /\ [Next]_vars => Inv'
    BY NextInv
  <1> QED
    BY <1>1, <1>2, PTL DEF Spec

\* No leak, no use after free, no double free, whatever the number of threads,
\* sessions and ids and the size of the cache: unless lh_insert fails, an
\* application adds a session that has no id, or SSLs are shared between threads.
THEOREM Counting ==
  ASSUME ~Oom, ~AddNoId, ~SharedSsl
  PROVE  Spec => []RefCount
  <1>1. Inv => RefCount
    BY DEF Inv
  <1> QED
    BY <1>1, Invariance, PTL

\* The hash table and the list lead to the same sessions, under the same terms.
THEOREM BothPaths ==
  ASSUME ~Oom, ~AddNoId, ~SharedSsl
  PROVE  Spec => []DoubleAccess
  <1>1. Inv => DoubleAccess
    BY DEF Inv
  <1> QED
    BY <1>1, Invariance, PTL

\* However many threads add under one id, the cache holds one session of each
\* id, under the id it has and linked once, under the same terms.
THEOREM OnePerId ==
  ASSUME ~Oom, ~AddNoId, ~SharedSsl
  PROVE  Spec => []UniqueId
  <1>1. Inv => UniqueId
    BY DEF Inv
  <1> QED
    BY <1>1, Invariance, PTL

\* The program's types; that a count is never negative comes from RefCount.
THEOREM Typing ==
  ASSUME ~Oom, ~AddNoId, ~SharedSsl
  PROVE  Spec => []TypeOK
  <1>1. Inv => TypeOK
    <2> SUFFICES ASSUME Inv PROVE TypeOK
      OBVIOUS
    <2>1. WeakType /\ Counted
      BY RefCountCounted DEF Inv
    <2>2. \A y \in Sess : heap[y] \in Object
      <3> SUFFICES ASSUME NEW y \in Sess PROVE heap[y] \in Object
        OBVIOUS
      <3>1. heap[y] \in IntObject /\ heap[y].references \in Nat
        BY <2>1 DEF WeakType, Counted, refs
      <3> QED
        BY <3>1 DEF IntObject, Object
    <2> QED
      BY <2>1, <2>2 DEF WeakType, IdNode, TypeOK, Node
  <1> QED
    BY <1>1, Invariance, PTL

-----------------------------------------------------------------------------
(* What the cache promises those who use it, and that it is the store of   *)
(* SessionStore.                                                           *)

\* The steps of one thread.
Step(t) == \/ NewSession(t) \/ PrevSession(t) \/ AddSession(t) \/ RemoveSession(t)
           \/ Flush(t) \/ Connection(t) \/ Application(t)

\* Every step is one of a thread, the passing of time, or none.
LEMMA StepCases ==
  ASSUME [Next]_vars
  PROVE  \/ \E t \in Thread : Step(t)
         \/ \E x \in Sess : Expire(x)
         \/ UNCHANGED vars
  BY DEF Next, Step

\* A thread moves itself only.
LEMMA StepOthers ==
  ASSUME WeakType, NEW t \in Thread, Step(t)
  PROVE  Others(t)
  <1> USE DEF Others, Goto, Return, StartAdd, sslVars, callVars, WeakType
  <1>1. CASE NewSession(t)
    BY <1>1 DEF NewSession, ssl_get_new_session, new_free, new_null, choose_id, choose_id_fails
  <1>2. CASE PrevSession(t)
    BY <1>2 DEF PrevSession, ssl_get_prev_session, get_session_cb, get_session_cb_copy, tls1_process_ticket,
       prev_timeout, prev_drop, prev_hit, prev_free, prev_set
  <1>3. CASE AddSession(t)
    BY <1>3 DEF AddSession, add_insert, add_present, add_evict, add_unlock
  <1>4. CASE RemoveSession(t) \/ Flush(t)
    BY <1>4 DEF RemoveSession, rm_lock, rm_free, Flush, flush_begin, timeout_doall_arg, flush_end
  <1>5. CASE Connection(t)
    BY <1>5 DEF Connection, ssl3_get_new_session_ticket, ssl_update_cache, new_session_cb,
       fatal_alert, ssl_clear_bad_session, RemoveOwn, SSL_free, clear_session, clear_null,
       SSL_set_SSL_CTX, ssl3_client_hello
  <1>6. CASE Application(t)
    BY <1>6 DEF Application, SSL_get1_session, SSL_SESSION_free, SSL_set_session,
       SSL_CTX_add_session, SSL_CTX_remove_session
  <1> QED
    BY <1>1, <1>2, <1>3, <1>4, <1>5, <1>6 DEF Step

\* Only the turns of the eviction loop and its end start where it is.
LEMMA EvictSteps ==
  ASSUME NEW t \in Thread, Step(t), pc[t] = "evict"
  PROVE  add_evict(t) \/ add_unlock(t)
  BY DEF Step, NewSession, ssl_get_new_session, new_free, new_null, choose_id, choose_id_fails,
     PrevSession, ssl_get_prev_session, get_session_cb, get_session_cb_copy, tls1_process_ticket,
     prev_timeout, prev_drop, prev_hit, prev_free, prev_set,
     AddSession, add_insert, add_present, RemoveSession, rm_lock, rm_free,
     Flush, flush_begin, timeout_doall_arg, flush_end,
     Connection, ssl3_get_new_session_ticket, ssl_update_cache, new_session_cb,
     fatal_alert, ssl_clear_bad_session, RemoveOwn, SSL_free, clear_session, clear_null,
     SSL_set_SSL_CTX, ssl3_client_hello,
     Application, SSL_get1_session, SSL_SESSION_free, SSL_set_session,
     SSL_CTX_add_session, SSL_CTX_remove_session

\* The history mark and the id are fields of their own.
LEMMA MarkFacts ==
  ASSUME NEW h \in [Sess -> IntObject], NEW x \in Sess, NEW b \in BOOLEAN
  PROVE  LET g == [h EXCEPT ![x].failed = b]
         IN  /\ g \in [Sess -> IntObject]
             /\ \A y \in Sess : /\ g[y].references = h[y].references
                               /\ g[y].session_id = h[y].session_id
                               /\ g[y].failed = IF y = x THEN b ELSE h[y].failed
  <1> DEFINE r == [h[x] EXCEPT !.failed = b]
  <1>1. /\ r \in IntObject /\ r.references = h[x].references
        /\ r.session_id = h[x].session_id /\ r.failed = b
    BY DEF IntObject
  <1>2. [h EXCEPT ![x].failed = b] = [h EXCEPT ![x] = r]
    OBVIOUS
  <1> HIDE DEF r
  <1> QED
    BY <1>1, <1>2

LEMMA IdFacts ==
  ASSUME NEW h \in [Sess -> IntObject], NEW x \in Sess, NEW i \in Id \cup {NoId}
  PROVE  LET g == [h EXCEPT ![x].session_id = i]
         IN  /\ g \in [Sess -> IntObject]
             /\ \A y \in Sess : /\ g[y].references = h[y].references
                               /\ g[y].failed = h[y].failed
  <1> DEFINE r == [h[x] EXCEPT !.session_id = i]
  <1>1. r \in IntObject /\ r.references = h[x].references /\ r.failed = h[x].failed
    BY DEF IntObject
  <1>2. [h EXCEPT ![x].session_id = i] = [h EXCEPT ![x] = r]
    OBVIOUS
  <1> HIDE DEF r
  <1> QED
    BY <1>1, <1>2

-----------------------------------------------------------------------------
(* Whose references a step may multiply.                                   *)

\* Only the session a heap step is about gets another count.
LEMMA RaisesOne ==
  ASSUME WeakType, NEW t, NEW x, NEW n \in Int, HeapBy(t, x, n), NEW y \in Sess, refs(y)' > refs(y)
  PROVE  y = x /\ n > 0
  <1>1. refs(y) \in Int
    BY DEF refs, WeakType, IntObject
  <1>2. refs(y)' = refs(y) + (IF y = x THEN n ELSE 0)
    BY DEF HeapBy
  <1> QED
    BY <1>1, <1>2

\* Releasing raises no count; CRYPTO_add and SSL_SESSION_new raise that of the
\* session they are given.
LEMMA FreeRaisesNone ==
  ASSUME WeakType, NEW t, NEW x \in Sess \cup {NoSess}, NEW y \in Sess,
         heap' = Free(heap, x), refs(y)' > refs(y)
  PROVE  FALSE
  <1>1. HeapBy(t, x, -1)
    BY HeapFree DEF WeakType
  <1> QED
    BY <1>1, RaisesOne

LEMMA UpRaisesOne ==
  ASSUME WeakType, NEW t, NEW x \in Sess, NEW y \in Sess, heap' = Up(heap, x), refs(y)' > refs(y)
  PROVE  y = x
  <1>1. HeapBy(t, x, 1)
    BY HeapUp DEF WeakType
  <1> QED
    BY <1>1, RaisesOne

LEMMA NewRaisesOne ==
  ASSUME WeakType, NEW t, NEW x \in Sess, NEW i \in Id \cup {NoId}, NEW n \in Nat, NEW y \in Sess,
         Unused(x), heap' = New(x, i, n), refs(y)' > refs(y)
  PROVE  y = x
  <1>1. HeapBy(t, x, n)
    BY HeapNew DEF WeakType, Unused
  <1> QED
    BY <1>1, RaisesOne

\* A thread takes a reference only to an object it makes, to one it holds or
\* to one that is in the cache: never through a pointer that owns nothing.
Source(t, y) == \/ Unused(y) /\ loc[t] # y /\ loc'[t] = y
                \/ Own(t, y) >= 1
                \/ y \in Cached

LEMMA OwnFacts ==
  ASSUME NEW t \in Thread, NEW y \in Sess
  PROVE  /\ session[t] = y /\ pc[t] \notin Stale => Own(t, y) >= 1
         /\ loc[t] = y => Own(t, y) >= 1
         /\ y \in app[t] => Own(t, y) >= 1
  BY DEF Own

LEMMA NewSource ==
  ASSUME Inv, NEW t \in Thread, NEW y \in Sess, refs(y)' > refs(y),
         ssl_get_new_session(t) \/ tls1_process_ticket(t) \/ get_session_cb(t)
  PROVE  Source(t, y)
  <1>1. WeakType
    BY DEF Inv
  <1>2. PICK x \in Sess, i \in Id \cup {NoId}, n \in Nat :
          Unused(x) /\ heap' = New(x, i, n) /\ loc' = [loc EXCEPT ![t] = x]
    <2>1. 1 \in Nat /\ 2 \in Nat
      OBVIOUS
    <2> QED
      BY <2>1 DEF ssl_get_new_session, tls1_process_ticket, get_session_cb
  <1>3. y = x
    BY <1>1, <1>2, NewRaisesOne
  <1>4. loc'[t] = y
    BY <1>1, <1>2, <1>3 DEF WeakType
  <1> QED
    BY <1>2, <1>3, <1>4, OwnFacts DEF Source

LEMMA UpSource ==
  ASSUME Inv, ~SharedSsl, NEW t \in Thread, NEW y \in Sess, refs(y)' > refs(y),
         \/ ssl_get_prev_session(t) \/ ssl_update_cache(t) \/ new_session_cb(t)
         \/ (\E u \in Thread : SSL_get1_session(t, u)) \/ SSL_set_session(t)
         \/ SSL_CTX_add_session(t) \/ get_session_cb_copy(t)
  PROVE  Source(t, y)
  <1>1. WeakType /\ ControlOf(t) /\ DoubleAccess /\ UniqueId
    BY DEF Inv, Control
  <1>2. heap' # heap
    BY <1>1 DEF refs, WeakType, IntObject
  <1>3. CASE ssl_get_prev_session(t)
    <2>1. PICK i \in Id : Match(i) # {} /\ heap' = Up(heap, Retrieve(i))
      BY <1>3 DEF ssl_get_prev_session
    <2>2. Retrieve(i) \in Sess /\ Retrieve(i) \in Cached
      BY <1>1, <2>1, RetrieveFacts
    <2>3. y = Retrieve(i)
      BY <1>1, <2>1, <2>2, UpRaisesOne
    <2> QED
      BY <2>2, <2>3 DEF Source
  <1>4. CASE ssl_update_cache(t) \/ new_session_cb(t)
    <2>1. /\ pc[t] \in {"full", "resumed", "newcb"} /\ session[t] \in Sess
          /\ heap' = Up(heap, session[t])
      BY <1>1, <1>2, <1>4 DEF ssl_update_cache, new_session_cb, StartAdd, ControlOf
    <2>2. y = session[t]
      BY <1>1, <2>1, UpRaisesOne
    <2> QED
      BY <2>1, <2>2, OwnFacts DEF Source, Stale
  <1>5. CASE \E u \in Thread : SSL_get1_session(t, u)
    <2>1. pc[t] = "idle" /\ session[t] \in Sess /\ heap' = Up(heap, session[t])
      BY <1>1, <1>5 DEF SSL_get1_session, WeakType
    <2>2. y = session[t]
      BY <1>1, <2>1, UpRaisesOne
    <2> QED
      BY <2>1, <2>2, OwnFacts DEF Source, Stale
  <1>6. CASE SSL_set_session(t) \/ SSL_CTX_add_session(t)
    <2>1. PICK x \in app[t] : heap' = Up(heap, x)
      BY <1>6 DEF SSL_set_session, SSL_CTX_add_session, StartAdd
    <2>2. x \in Sess
      BY <1>1 DEF WeakType
    <2>3. y = x
      BY <1>1, <2>1, <2>2, UpRaisesOne
    <2> QED
      BY <2>1, <2>3, OwnFacts DEF Source
  <1>7. CASE get_session_cb_copy(t)
    <2>1. PICK x \in app[t] : heap' = Up(Up(heap, x), x)
      BY <1>7 DEF get_session_cb_copy
    <2>2. x \in Sess
      BY <1>1 DEF WeakType
    <2>3. HeapBy(t, x, 2)
      BY <1>1, <2>1, <2>2, HeapUpTwice DEF WeakType
    <2>4. y = x
      BY <1>1, <2>3, RaisesOne
    <2> QED
      BY <2>1, <2>4, OwnFacts DEF Source
  <1> QED
    BY <1>3, <1>4, <1>5, <1>6, <1>7

\* The steps that only release, mark or do not touch an object.
LEMMA OtherSource ==
  ASSUME Inv, NEW t \in Thread, NEW y \in Sess, Step(t), refs(y)' > refs(y)
  PROVE  \/ ssl_get_new_session(t) \/ tls1_process_ticket(t) \/ get_session_cb(t)
         \/ ssl_get_prev_session(t) \/ ssl_update_cache(t) \/ new_session_cb(t)
         \/ (\E u \in Thread : SSL_get1_session(t, u)) \/ SSL_set_session(t)
         \/ SSL_CTX_add_session(t) \/ get_session_cb_copy(t)
  <1>1. WeakType /\ ControlOf(t) /\ DoubleAccess /\ UniqueId
    BY DEF Inv, Control
  <1>2. heap' # heap
    BY <1>1 DEF refs, WeakType, IntObject
  <1>3. ASSUME NEW x \in Sess \cup {NoSess}, heap' = Free(heap, x) PROVE FALSE
    BY <1>1, <1>3, FreeRaisesNone
  <1>4. ASSUME NEW x \in Sess, heap' = Discard(x) PROVE FALSE
    <2>1. HeapBy(t, x, -1)
      BY <1>1, <1>4, HeapDiscard DEF WeakType
    <2> QED
      BY <1>1, <2>1, RaisesOne
  <1>5. ASSUME NEW x \in Sess, \/ \E i \in Id \cup {NoId} : heap' = [heap EXCEPT ![x].session_id = i]
                               \/ \E b \in BOOLEAN : heap' = [heap EXCEPT ![x].failed = b]
        PROVE  FALSE
    <2>1. heap \in [Sess -> IntObject] /\ refs(y) = heap[y].references /\ refs(y) \in Int
      BY <1>1 DEF refs, WeakType, IntObject
    <2>2. heap'[y].references = heap[y].references
      <3>1. ASSUME NEW i \in Id \cup {NoId}, heap' = [heap EXCEPT ![x].session_id = i]
            PROVE  heap'[y].references = heap[y].references
        BY <2>1, <3>1, IdFacts
      <3>2. ASSUME NEW b \in BOOLEAN, heap' = [heap EXCEPT ![x].failed = b]
            PROVE  heap'[y].references = heap[y].references
        BY <2>1, <3>2, MarkFacts
      <3> QED
        BY <1>5, <3>1, <3>2
    <2> QED
      BY <2>1, <2>2 DEF refs
  <1>6. session[t] \in Sess \cup {NoSess} /\ loc[t] \in Sess \cup {NoSess} /\ app[t] \in SUBSET Sess
    BY <1>1 DEF WeakType
  <1>7. ~(new_free(t) \/ new_null(t) \/ choose_id_fails(t))
    BY <1>2, <1>3, <1>6 DEF new_free, new_null, choose_id_fails
  <1>8. ~choose_id(t)
    <2>1. choose_id(t) => loc[t] \in Sess
      BY <1>1 DEF choose_id, ControlOf, Making
    <2> QED
      BY <1>5, <2>1 DEF choose_id
  <1>9. ~(prev_timeout(t) \/ prev_drop(t) \/ prev_hit(t) \/ prev_free(t) \/ prev_set(t))
    BY <1>2, <1>3, <1>6 DEF prev_timeout, prev_drop, prev_hit, prev_free, prev_set
  <1>10. ~(add_present(t) \/ add_unlock(t))
    <2>1. add_present(t) => arg[t] \in Sess
      BY <1>1 DEF add_present, ControlOf, Adding
    <2> QED
      BY <1>2, <1>3, <2>1 DEF add_present, add_unlock
  <1>11. ~add_insert(t)
    <2> SUFFICES ASSUME add_insert(t) PROVE FALSE
      OBVIOUS
    <2> DEFINE c == arg[t]
               s == Retrieve(sid(c))
               b == heap[c].failed /\ cont[t] = "newcb"
               h == [heap EXCEPT ![c].failed = b]
    <2>1. c \in Sess /\ heap' = Free(h, s)
      BY <1>1 DEF add_insert, ControlOf, Adding
    <2>2. s \in Sess \cup {NoSess}
      BY <1>1, RetrieveFacts
    <2>3. h \in [Sess -> IntObject] /\ h[y].references = refs(y) /\ refs(y) \in Int
      <3>1. b \in BOOLEAN /\ heap \in [Sess -> IntObject]
        BY <1>1 DEF WeakType
      <3> HIDE DEF b, c
      <3>2. h \in [Sess -> IntObject] /\ h[y].references = heap[y].references
        BY <2>1, <3>1, MarkFacts
      <3> HIDE DEF h
      <3> QED
        BY <3>1, <3>2 DEF refs, IntObject
    <2> HIDE DEF h, s
    <2>4. heap'[y].references \in {h[y].references, h[y].references - 1}
      <3>2. CASE s = NoSess
        BY <2>1, <2>3, <3>2, FreeNull
      <3>3. CASE s \in Sess
        <4>1. /\ heap'[s].references = h[s].references - 1
              /\ \A z \in Sess \ {s} : heap'[z] = h[z]
          BY <2>1, <2>3, <3>3, FreeFacts
        <4> QED
          BY <2>3, <4>1
      <3> QED
        BY <2>2, <3>2, <3>3
    <2>5. refs(y)' = heap'[y].references /\ h[y].references \in Int
      BY <2>3 DEF refs
    <2> QED
      BY <2>3, <2>4, <2>5
  <1>12. ~(add_evict(t) \/ timeout_doall_arg(t))
    <2>1. add_evict(t) => CacheTail \in Sess
      BY <1>1, RetrieveFacts DEF add_evict, Evictable
    <2>2. \A n \in todo : n.obj \in Sess
      BY <1>1 DEF WeakType, IdNode
    <2> QED
      BY <1>4, <2>1, <2>2 DEF add_evict, timeout_doall_arg
  <1>13. ~(rm_lock(t) \/ rm_free(t))
    <2>1. rm_lock(t) \/ rm_free(t) => arg[t] \in Sess
      BY <1>1 DEF rm_lock, rm_free, ControlOf, Removing
    <2> QED
      BY <1>4, <1>5, <2>1 DEF rm_lock, rm_free
  <1>14. ~(flush_begin(t) \/ flush_end(t))
    BY <1>2 DEF flush_begin, flush_end
  <1>15. ~(fatal_alert(t) \/ ssl_clear_bad_session(t) \/ ssl3_get_new_session_ticket(t))
    <2>1. session[t] # NoSess => session[t] \in Sess
      BY <1>6
    <2>2. ssl3_get_new_session_ticket(t) => session[t] \in Sess
      BY <1>1 DEF ssl3_get_new_session_ticket, ControlOf
    <2> QED
      BY <1>2, <1>5, <2>1, <2>2 DEF fatal_alert, ssl_clear_bad_session, RemoveOwn, ssl3_get_new_session_ticket
  <1>16. ~(SSL_free(t) \/ clear_session(t) \/ clear_null(t) \/ SSL_set_SSL_CTX(t) \/ ssl3_client_hello(t))
    BY <1>2, <1>3, <1>6 DEF SSL_free, clear_session, clear_null, SSL_set_SSL_CTX, ssl3_client_hello
  <1>17. ~(SSL_SESSION_free(t) \/ SSL_CTX_remove_session(t))
    BY <1>2, <1>3, <1>6 DEF SSL_SESSION_free, SSL_CTX_remove_session
  <1> QED
    BY <1>7, <1>8, <1>9, <1>10, <1>11, <1>12, <1>13, <1>14, <1>15, <1>16, <1>17
       DEF Step, NewSession, PrevSession, AddSession, RemoveSession, Flush, Connection, Application

LEMMA Raised ==
  ASSUME Inv, ~SharedSsl, NEW t \in Thread, Step(t), NEW y \in Sess, refs(y)' > refs(y)
  PROVE  Source(t, y)
  BY NewSource, UpSource, OtherSource

-----------------------------------------------------------------------------
(* The size of the cache.                                                  *)

\* The sessions both access paths lose, or gain, in a step.
CutStep(t) == \E x \in Cached :
  /\ table' = table \ Match(sid(x)) /\ list' = Unlinked(list, x)
  /\ \/ rm_lock(t) /\ x = arg[t]
     \/ pc[t] = "flush" /\ heap' = Discard(x) /\ pc' = pc
     \/ add_evict(t) /\ x = CacheTail

\* Everything else leaves the cache as it is.
LEMMA CacheSteps ==
  ASSUME Inv, NEW t \in Thread, Step(t)
  PROVE  CacheKept \/ add_insert(t) \/ CutStep(t)
  <1>1. WeakType /\ ControlOf(t) /\ DoubleAccess /\ UniqueId /\ todo \subseteq table
    BY DEF Inv, Control, Locking
  <1> USE DEF CacheKept, cacheVars
  <1>2. CASE NewSession(t)
    BY <1>2 DEF NewSession, ssl_get_new_session, new_free, new_null, choose_id, choose_id_fails
  <1>3. CASE PrevSession(t)
    BY <1>3 DEF PrevSession, ssl_get_prev_session, get_session_cb, get_session_cb_copy, tls1_process_ticket,
       prev_timeout, prev_drop, prev_hit, prev_free, prev_set
  <1>4. CASE AddSession(t)
    <2>1. CASE add_evict(t)
      <3>1. CacheTail \in Cached
        BY <1>1, <2>1, RetrieveFacts DEF add_evict, Evictable
      <3> QED
        BY <2>1, <3>1 DEF CutStep, add_evict
    <2> QED
      BY <1>4, <2>1 DEF AddSession, add_present, add_unlock
  <1>5. CASE RemoveSession(t)
    <2>1. ASSUME rm_lock(t), sid(arg[t]) # NoId, Retrieve(sid(arg[t])) = arg[t] PROVE CutStep(t)
      <3>1. arg[t] \in Cached
        BY <1>1, <2>1, RetrieveFacts, ConstantAssumption DEF rm_lock, ControlOf, Removing
      <3> QED
        BY <2>1, <3>1 DEF CutStep, rm_lock
    <2> QED
      BY <1>5, <2>1 DEF RemoveSession, rm_lock, rm_free
  <1>6. CASE Flush(t)
    <2>1. CASE timeout_doall_arg(t)
      <3>1. PICK n \in todo : /\ table' = table \ Match(sid(n.obj))
                              /\ list' = Unlinked(list, n.obj) /\ heap' = Discard(n.obj)
        BY <2>1 DEF timeout_doall_arg
      <3>2. n.obj \in Cached
        BY <1>1 DEF DoubleAccess
      <3> QED
        BY <2>1, <3>1, <3>2 DEF CutStep, timeout_doall_arg, callVars
    <2> QED
      BY <1>6, <2>1 DEF Flush, flush_begin, flush_end
  <1>7. CASE Connection(t)
    BY <1>7 DEF Connection, ssl3_get_new_session_ticket, ssl_update_cache, new_session_cb,
       fatal_alert, ssl_clear_bad_session, SSL_free, clear_session, clear_null,
       SSL_set_SSL_CTX, ssl3_client_hello
  <1>8. CASE Application(t)
    BY <1>8 DEF Application, SSL_get1_session, SSL_SESSION_free, SSL_set_session,
       SSL_CTX_add_session, SSL_CTX_remove_session
  <1> QED
    BY <1>2, <1>3, <1>4, <1>5, <1>6, <1>7, <1>8 DEF Step

\* The table has as many nodes as the list has sessions.
LEMMA SizeFacts ==
  ASSUME WeakType, DoubleAccess, UniqueId
  PROVE  /\ IsFiniteSet(table) /\ Len(list) \in Nat /\ DOMAIN list = 1..Len(list)
         /\ Cardinality(table) = Len(list)
  <1>1. Len(list) \in Nat /\ DOMAIN list = 1..Len(list) /\ list \in Seq(Sess)
    BY LenProperties DEF WeakType
  <1> DEFINE n == Len(list)
             node(k) == [key |-> sid(list[k]), obj |-> list[k]]
             f == [k \in 1..n |-> node(k)]
  <1>2. \A k \in 1..n : list[k] \in Cached
    BY <1>1 DEF Cached
  <1>3. \A y \in Cached : \E k \in 1..n : list[k] = y
    BY <1>1 DEF Cached
  <1>4. table = {[key |-> sid(y), obj |-> y] : y \in Cached}
    BY TableFacts
  <1>5. f \in [1..n -> table]
    BY <1>2, <1>4
  <1>6. \A m \in table : \E k \in 1..n : f[k] = m
    BY <1>3, <1>4
  <1>7. \A j, k \in 1..n : f[j] = f[k] => j = k
    BY <1>1 DEF UniqueId
  <1> HIDE DEF f, n
  <1>8. f \in Bijection(1..n, table)
    BY <1>5, <1>6, <1>7 DEF Bijection, Injection, Surjection, IsInjective
  <1>9. ExistsBijection(1..n, table) /\ n \in Nat
    BY <1>1, <1>8 DEF ExistsBijection, n
  <1> QED
    BY <1>1, <1>9, FS_NatBijection, FS_CountingElements DEF n

\* The cache is within its size unless a thread is evicting.
Bound == CacheSize > 0 /\ (\A t \in Thread : pc[t] # "evict") => Cardinality(table) <= CacheSize

\* The eviction loop never gives up early: while the cache is too large its
\* tail is in the hash table, so it can be removed.
LEMMA FullEvictable ==
  ASSUME Inv, Full
  PROVE  Evictable
  <1>1. WeakType /\ DoubleAccess /\ UniqueId
    BY DEF Inv
  <1>2. /\ Len(list) \in Nat /\ Len(list) > 0 /\ DOMAIN list = 1..Len(list)
    BY <1>1, SizeFacts, ConstantAssumption DEF Full
  <1>3. CacheTail = list[Len(list)] /\ CacheTail \in Cached
    BY <1>1, <1>2, EmptySeq DEF CacheTail, Cached
  <1>4. CacheTail \in Sess /\ sid(CacheTail) \in Id /\ Retrieve(sid(CacheTail)) = CacheTail
    BY <1>1, <1>3, CachedFacts
  <1> QED
    BY <1>4, ConstantAssumption DEF Evictable

LEMMA BoundStep ==
  ASSUME Inv, Inv', [Next]_vars, Bound
  PROVE  Bound'
  <1> SUFFICES ASSUME CacheSize > 0, \A t \in Thread : pc'[t] # "evict"
               PROVE  Cardinality(table') <= CacheSize
    BY DEF Bound
  <1>1. /\ WeakType /\ DoubleAccess /\ UniqueId /\ Locking /\ CacheSize \in Nat
        /\ IsFiniteSet(table) /\ Cardinality(table) \in Nat
    BY SizeFacts, ConstantAssumption, FS_CardinalityType DEF Inv
  <1>2. (\A t \in Thread : pc[t] # "evict") => Cardinality(table) <= CacheSize
    BY DEF Bound
  <1>3. CASE UNCHANGED vars \/ \E x \in Sess : Expire(x)
    <2>1. table' = table /\ pc' = pc
      BY <1>3 DEF vars, cacheVars, callVars, Expire
    <2> QED
      BY <1>2, <2>1
  <1>4. ASSUME NEW t \in Thread, Step(t) PROVE Cardinality(table') <= CacheSize
    <2>1. ~add_insert(t)
      BY <1>1 DEF add_insert, Goto, WeakType
    <2>2. table' \subseteq table
      BY <1>4, <2>1, CacheSteps DEF CacheKept, CutStep
    <2>3. IsFiniteSet(table') /\ Cardinality(table') \in Nat /\ Cardinality(table') <= Cardinality(table)
      BY <1>1, <2>2, FS_Subset, FS_CardinalityType
    <2>4. CASE \A u \in Thread : pc[u] # "evict"
      BY <1>1, <1>2, <2>3, <2>4
    <2>5. ASSUME NEW u \in Thread, pc[u] = "evict" PROVE Cardinality(table') <= CacheSize
      <3>1. u = t
        <4>1. Others(t) /\ pc'[u] # pc[u]
          BY <1>1, <1>4, <2>5, StepOthers
        <4> QED
          BY <4>1 DEF Others
      <3>2. add_unlock(t) \/ add_evict(t)
        BY <1>4, <2>5, <3>1, EvictSteps
      <3>3. add_unlock(t)
        BY <3>1, <3>2, <2>5 DEF add_evict, callVars
      <3>4. ~Full
        BY <3>3, FullEvictable DEF add_unlock
      <3> QED
        BY <1>1, <2>3, <3>4 DEF Full
    <2> QED
      BY <2>4, <2>5
  <1> QED
    BY <1>3, <1>4, StepCases

\* "implement a maximum cache size": whatever the threads do, the cache holds at
\* most session_cache_size sessions whenever no thread is inside the section
\* that adds one.
THEOREM Bounded ==
  ASSUME ~Oom, ~AddNoId, ~SharedSsl
  PROVE  Spec => []CacheBound
  <1>1. Init => Bound
    BY ConstantAssumption, FS_EmptySet DEF Init, Bound
  <1>2. Inv /\ Bound => CacheBound
    <2> SUFFICES ASSUME Inv, Bound, lock = NoThread, CacheSize > 0
                 PROVE  Cardinality(table) <= CacheSize
      BY DEF CacheBound
    <2>1. \A t \in Thread : pc[t] # "evict"
      BY ConstantAssumption DEF Inv, Locking
    <2> QED
      BY <2>1 DEF Bound
  <1> QED
    BY <1>1, <1>2, BoundStep, Invariance, PTL DEF Spec

-----------------------------------------------------------------------------
(* Sessions of failed connections.                                         *)

\* Neither releasing nor adding a reference marks an object as failed.
LEMMA FreeKeepsMark ==
  ASSUME NEW h \in [Sess -> IntObject], NEW x \in Sess \cup {NoSess}, NEW y \in Sess,
         Free(h, x)[y].failed
  PROVE  h[y].failed
  <1>1. CASE x = NoSess
    BY <1>1, FreeNull
  <1>2. CASE x \in Sess /\ h[x].references = 1
    <2>1. Free(h, x) = [h EXCEPT ![x] = Freed] /\ ~Freed.failed
      BY <1>2, ConstantAssumption DEF Free, Freed, Zeroed
    <2> QED
      BY <1>2, <2>1
  <1>3. CASE x \in Sess /\ h[x].references # 1
    <2> DEFINE r == [h[x] EXCEPT !.references = @ - 1]
    <2>1. Free(h, x) = [h EXCEPT ![x] = r]
      BY <1>3, ConstantAssumption DEF Free
    <2>2. r.failed = h[x].failed
      BY <1>3 DEF IntObject
    <2> HIDE DEF r
    <2> QED
      BY <1>3, <2>1, <2>2
  <1> QED
    BY <1>1, <1>2, <1>3

LEMMA UpKeepsMark ==
  ASSUME NEW h \in [Sess -> IntObject], NEW x \in Sess, NEW y \in Sess, Up(h, x)[y].failed
  PROVE  h[y].failed
  <1> DEFINE r == [h[x] EXCEPT !.references = @ + 1]
  <1>1. Up(h, x) = [h EXCEPT ![x] = r]
    BY DEF Up
  <1>2. r.failed = h[x].failed
    BY DEF IntObject
  <1> HIDE DEF r
  <1> QED
    BY <1>1, <1>2

LEMMA NewUnmarked ==
  ASSUME heap \in [Sess -> IntObject], NEW x \in Sess, NEW i, NEW n, NEW y \in Sess, New(x, i, n)[y].failed
  PROVE  heap[y].failed /\ y # x
  BY DEF New, Zeroed

LEMMA DiscardKeepsMark ==
  ASSUME heap \in [Sess -> IntObject], NEW x \in Sess, NEW y \in Sess, Discard(x)[y].failed
  PROVE  heap[y].failed
  <1> DEFINE r == [heap[x] EXCEPT !.not_resumable = TRUE]
             h == [heap EXCEPT ![x] = r]
  <1>1. Discard(x) = Free(h, x)
    BY DEF Discard
  <1>2. r \in IntObject /\ r.failed = heap[x].failed
    BY DEF IntObject
  <1> HIDE DEF r
  <1>3. h \in [Sess -> IntObject] /\ h[y].failed = heap[y].failed
    BY <1>2
  <1> HIDE DEF h
  <1> QED
    BY <1>1, <1>3, FreeKeepsMark

\* Unless the contexts were switched, a session is marked as failed in the step
\* that takes it out of the cache.
LEMMA Failing ==
  ASSUME Inv, NEW t \in Thread, Step(t), ~switched[t], NEW y \in Sess,
         heap'[y].failed, ~heap[y].failed
  PROVE  rm_lock(t) /\ y = arg[t]
  <1>1. /\ WeakType /\ ControlOf(t) /\ DoubleAccess /\ UniqueId
        /\ heap \in [Sess -> IntObject] /\ heap' # heap
    BY DEF Inv, Control, WeakType
  <1>2. session[t] \in Sess \cup {NoSess} /\ loc[t] \in Sess \cup {NoSess} /\ app[t] \in SUBSET Sess
    BY <1>1 DEF WeakType
  <1>3. ~ \E x \in Sess \cup {NoSess} : heap' = Free(heap, x)
    BY <1>1, FreeKeepsMark
  <1>4. ~ \E x \in Sess : heap' = Up(heap, x)
    BY <1>1, UpKeepsMark
  <1>5. ~ \E x \in Sess : heap' = Discard(x)
    BY <1>1, DiscardKeepsMark
  <1>6. ~ \E x \in Sess, i \in Id \cup {NoId}, n \in {1, 2} : heap' = New(x, i, n)
    BY <1>1, NewUnmarked
  <1>7. ~ \E x \in Sess, i \in Id \cup {NoId} : heap' = [heap EXCEPT ![x].session_id = i]
    <2> SUFFICES ASSUME NEW x \in Sess, NEW i \in Id \cup {NoId},
                        heap' = [heap EXCEPT ![x].session_id = i]
                 PROVE  FALSE
      OBVIOUS
    <2>1. heap'[y].failed = heap[y].failed
      BY <1>1, IdFacts
    <2> QED
      BY <2>1
  <1>8. ~NewSession(t)
    <2>1. choose_id(t) => loc[t] \in Sess
      BY <1>1 DEF choose_id, ControlOf, Making
    <2> QED
      BY <1>1, <1>2, <1>3, <1>6, <1>7, <2>1
         DEF NewSession, ssl_get_new_session, new_free, new_null, choose_id, choose_id_fails
  <1>9. ~PrevSession(t)
    <2>1. ssl_get_prev_session(t) => \E x \in Sess : heap' = Up(heap, x)
      BY <1>1, RetrieveFacts DEF ssl_get_prev_session
    <2>2. ~get_session_cb_copy(t)
      <3> SUFFICES ASSUME NEW x \in app[t], heap' = Up(Up(heap, x), x) PROVE FALSE
        BY DEF get_session_cb_copy
      <3> DEFINE h == Up(heap, x)
      <3>1. x \in Sess
        BY <1>1 DEF WeakType
      <3>2. h \in [Sess -> IntObject] /\ heap' = Up(h, x)
        BY <1>1, <3>1, UpFacts
      <3>3. h[y].failed
        <4> HIDE DEF h
        <4> QED
          BY <1>1, <3>1, <3>2, UpKeepsMark
      <3> QED
        BY <1>1, <3>1, <3>3, UpKeepsMark
    <2> QED
      BY <1>1, <1>2, <1>3, <1>4, <1>6, <2>1, <2>2
         DEF PrevSession, get_session_cb, tls1_process_ticket,
             prev_timeout, prev_drop, prev_hit, prev_free, prev_set
  <1>10. ~AddSession(t)
    <2>1. add_present(t) \/ add_insert(t) => arg[t] \in Sess
      BY <1>1 DEF add_present, add_insert, ControlOf, Adding
    <2>2. add_evict(t) => CacheTail \in Sess
      BY <1>1, RetrieveFacts DEF add_evict, Evictable
    <2>3. ~add_insert(t)
      <3> SUFFICES ASSUME add_insert(t) PROVE FALSE
        OBVIOUS
      <3> DEFINE c == arg[t]
                 s == Retrieve(sid(c))
                 b == heap[c].failed /\ cont[t] = "newcb"
                 h == [heap EXCEPT ![c].failed = b]
      <3>1. heap' = Free(h, s) /\ s \in Sess \cup {NoSess}
        BY <1>1, RetrieveFacts DEF add_insert
      <3>2. b \in BOOLEAN /\ c \in Sess /\ (b => heap[c].failed)
        BY <2>1
      <3> HIDE DEF b, c, s
      <3>3. h \in [Sess -> IntObject] /\ h[y].failed = IF y = c THEN b ELSE heap[y].failed
        BY <1>1, <3>2, MarkFacts
      <3> HIDE DEF h
      <3>4. h[y].failed
        BY <3>1, <3>3, FreeKeepsMark
      <3> QED
        BY <3>2, <3>3, <3>4
    <2> QED
      BY <1>1, <1>3, <1>5, <2>1, <2>2, <2>3 DEF AddSession, add_present, add_evict, add_unlock
  <1>11. ~Flush(t)
    <2>1. \A n \in todo : n.obj \in Sess
      BY <1>1 DEF WeakType, IdNode
    <2> QED
      BY <1>1, <1>5, <2>1 DEF Flush, flush_begin, timeout_doall_arg, flush_end
  <1>12. ~Connection(t)
    <2>1. pc[t] = "full" \/ pc[t] = "newcb" => session[t] \in Sess
      BY <1>1 DEF ControlOf
    <2> QED
      BY <1>1, <1>2, <1>3, <1>4, <1>7, <2>1
         DEF Connection, ssl3_get_new_session_ticket, ssl_update_cache, StartAdd, new_session_cb,
             fatal_alert, ssl_clear_bad_session, RemoveOwn, SSL_free, clear_session, clear_null,
             SSL_set_SSL_CTX, ssl3_client_hello
  <1>13. ~Application(t)
    <2>1. \A u \in Thread : session[u] \in Sess \cup {NoSess}
      BY <1>1 DEF WeakType
    <2> QED
      BY <1>1, <1>2, <1>3, <1>4, <2>1
         DEF Application, SSL_get1_session, SSL_SESSION_free, SSL_set_session,
             SSL_CTX_add_session, StartAdd, SSL_CTX_remove_session
  <1>14. ~rm_free(t)
    <2>1. rm_free(t) => arg[t] \in Sess
      BY <1>1 DEF rm_free, ControlOf, Removing
    <2> QED
      BY <1>5, <2>1 DEF rm_free
  <1>15. rm_lock(t)
    BY <1>8, <1>9, <1>10, <1>11, <1>12, <1>13, <1>14 DEF Step, RemoveSession
  <1>16. y = arg[t]
    <2> DEFINE b == heap[arg[t]].failed \/ cont[t] # "prev_drop"
    <2>1. arg[t] \in Sess /\ heap' = [heap EXCEPT ![arg[t]].failed = b] /\ b \in BOOLEAN
      BY <1>1, <1>15 DEF rm_lock, ControlOf, Removing
    <2> HIDE DEF b
    <2> QED
      BY <1>1, <2>1, MarkFacts
  <1> QED
    BY <1>15, <1>16

\* A session that is not yet in the cache has not failed, unless the application
\* adds it again: the thread that makes or adds it holds every reference to it,
\* and a thread removes from the cache only what it holds.
NoSwitch == \A t \in Thread : ~switched[t]
HeldOf(t) == pc[t] = "rm_lock" => arg[t] \in {session[t], loc[t]} \cup app[t]
MadeOf(t) == pc[t] \in Making => ~heap[loc[t]].failed
FullOf(t) == pc[t] = "full" => refs(session[t]) = 1 /\ ~heap[session[t]].failed
AddedOf(t) == pc[t] = "add_lock" /\ cont[t] = "newcb" =>
                /\ arg[t] = session[t]
                /\ refs(arg[t]) = 2 /\ ~heap[arg[t]].failed
FitOf(t) == HeldOf(t) /\ MadeOf(t) /\ FullOf(t) /\ AddedOf(t)
Fit == NoSwitch /\ FailedNotCached /\ \A t \in Thread : FitOf(t)

\* Whoever is about to remove a session holds a reference to it.
LEMMA RemoverOwns ==
  ASSUME Inv, NEW t \in Thread, HeldOf(t), pc[t] = "rm_lock"
  PROVE  arg[t] \in Sess /\ Own(t, arg[t]) >= 1
  <1>1. arg[t] \in Sess
    BY DEF Inv, Control, ControlOf, Removing
  <1> QED
    BY <1>1, OwnFacts DEF HeldOf, Stale

\* What the making or adding thread alone refers to is not in the cache, and a
\* step of another thread neither adds a reference to it nor marks it.
LEMMA Undisturbed ==
  ASSUME ~SharedSsl, Inv, Inv', Fit, NEW t \in Thread, NEW u \in Thread \ {t}, Step(u),
         NEW y \in Sess, Own(t, y) >= 1, refs(y) = Own(t, y), ~heap[y].failed
  PROVE  refs(y)' = refs(y) /\ ~heap'[y].failed
  <1>1. WeakType /\ WeakType' /\ RefCount /\ RefCount' /\ ~switched[u]
    BY DEF Inv, Fit, NoSwitch
  <1>2. /\ refs(y) >= Own(t, y) + Own(u, y) + ByCache(y)
        /\ Own(t, y) \in Nat /\ Own(u, y) \in Nat /\ ByCache(y) \in Nat
    BY <1>1, Apart, Positive DEF ByCache
  <1>3. Own(u, y) = 0 /\ ByCache(y) = 0
    BY <1>2
  <1>4. y \notin Cached
    BY <1>3 DEF ByCache
  <1>5. Own(t, y)' = Own(t, y)
    BY <1>1, StepOthers DEF Others, Own
  <1>6. refs(y)' \in Nat /\ refs(y)' >= Own(t, y)'
    <2>1. Counted'
      BY <1>1, RefCountCounted, PTL
    <2> DEFINE c == ByCache(y)'
    <2>2. c \in Nat
      BY DEF ByCache
    <2>3. refs(y)' \in Nat /\ Own(t, y)' \in Nat /\ refs(y)' >= Own(t, y)' + c
      BY <2>1 DEF Counted
    <2> HIDE DEF c
    <2> QED
      BY <2>2, <2>3
  <1>7. ~(refs(y)' > refs(y))
    <2>1. ~Source(u, y)
      BY <1>2, <1>3, <1>4 DEF Source, Unused
    <2> QED
      BY <2>1, Raised
  <1>8. ~heap'[y].failed
    <2>1. ~(rm_lock(u) /\ y = arg[u])
      <3> SUFFICES ASSUME rm_lock(u), y = arg[u] PROVE FALSE
        OBVIOUS
      <3>1. pc[u] = "rm_lock" /\ HeldOf(u)
        BY DEF rm_lock, Fit, FitOf
      <3>2. Own(u, y) >= 1
        BY <3>1, RemoverOwns
      <3> QED
        BY <1>3, <3>2
    <2> QED
      BY <1>1, <2>1, Failing
  <1> QED
    BY <1>2, <1>5, <1>6, <1>7, <1>8

\* How a thread comes to where a session is removed, made or added.
Entering(t) ==
  /\ pc'[t] = "rm_lock" => \/ prev_timeout(t) \/ SSL_CTX_remove_session(t)
                           \/ fatal_alert(t) \/ ssl_clear_bad_session(t)
  /\ pc'[t] \in Making => ssl_get_new_session(t) \/ new_free(t) \/ new_null(t)
  /\ pc'[t] = "full" => choose_id(t) \/ ssl3_get_new_session_ticket(t) \/ SSL_set_SSL_CTX(t)
  /\ pc'[t] = "add_lock" => \/ get_session_cb(t) \/ get_session_cb_copy(t)
                            \/ ssl_update_cache(t) \/ SSL_CTX_add_session(t)

LEMMA ControlFlow ==
  ASSUME Inv, NEW t \in Thread, Step(t)
  PROVE  Entering(t)
  <1>1. WeakType /\ ControlOf(t)
    BY DEF Inv, Control
  <1>2. pc \in [Thread -> PC]
    BY <1>1 DEF WeakType
  <1>3. /\ pc[t] \in {"prev_free", "prev_set"} => cont[t] \in {"resumed", "idle"}
        /\ pc[t] \in Adding => cont[t] \in {"newcb", "prev_check", "idle"}
        /\ pc[t] \in Removing => cont[t] \in {"idle", "clear", "prev_drop"}
    BY <1>1 DEF ControlOf
  <1> USE <1>2 DEF Entering, Goto, Return, StartAdd, callVars, Making
  <1>4. CASE NewSession(t)
    BY <1>4 DEF NewSession, ssl_get_new_session, new_free, new_null, choose_id, choose_id_fails
  <1>5. CASE PrevSession(t)
    BY <1>3, <1>5 DEF PrevSession, ssl_get_prev_session, get_session_cb, get_session_cb_copy, tls1_process_ticket,
       prev_timeout, prev_drop, prev_hit, prev_free, prev_set
  <1>6. CASE AddSession(t)
    BY <1>3, <1>6 DEF AddSession, add_insert, add_present, add_evict, add_unlock, Adding
  <1>7. CASE RemoveSession(t) \/ Flush(t)
    BY <1>3, <1>7 DEF RemoveSession, rm_lock, rm_free, Flush, flush_begin, timeout_doall_arg,
       flush_end, Removing
  <1>8. CASE Connection(t)
    BY <1>8 DEF Connection, ssl3_get_new_session_ticket, ssl_update_cache, new_session_cb,
       fatal_alert, ssl_clear_bad_session, RemoveOwn, SSL_free, clear_session, clear_null,
       SSL_set_SSL_CTX, ssl3_client_hello
  <1>9. CASE Application(t)
    BY <1>9 DEF Application, SSL_get1_session, SSL_SESSION_free, SSL_set_session,
       SSL_CTX_add_session, SSL_CTX_remove_session
  <1> QED
    BY <1>4, <1>5, <1>6, <1>7, <1>8, <1>9 DEF Step

\* What a thread does to itself leaves it fit.
LEMMA OwnFit ==
  ASSUME ~Sni, Inv, Inv', Fit, NEW t \in Thread, Step(t)
  PROVE  FitOf(t)'
  <1>1. /\ WeakType /\ ControlOf(t) /\ MakingOf(t) /\ ~switched[t] /\ FitOf(t) /\ Entering(t)
        /\ heap \in [Sess -> IntObject]
    BY ControlFlow DEF Inv, Control, Fit, NoSwitch, WeakType
  <1>2. ControlOf(t)'
    BY DEF Inv, Control
  <1>3. ASSUME NEW y \in Sess, ~heap[y].failed, ~rm_lock(t) PROVE ~heap'[y].failed
    BY <1>1, <1>3, Failing
  <1>4. ASSUME pc'[t] = "rm_lock" PROVE HeldOf(t)'
    <2>1. arg'[t] \in {session'[t], loc'[t]} \cup app'[t]
      BY <1>1, <1>4 DEF Entering, prev_timeout, SSL_CTX_remove_session, fatal_alert,
         ssl_clear_bad_session, RemoveOwn, Goto, sslVars, WeakType
    <2> QED
      BY <2>1 DEF HeldOf
  <1>5. ASSUME pc'[t] \in Making PROVE MadeOf(t)'
    <2>1. CASE ssl_get_new_session(t)
      <3>1. PICK x \in Sess : heap' = New(x, NoId, 1) /\ loc' = [loc EXCEPT ![t] = x]
        BY <2>1 DEF ssl_get_new_session
      <3>2. loc'[t] = x /\ ~heap'[x].failed
        BY <1>1, <3>1 DEF WeakType, New, Zeroed
      <3> QED
        BY <3>2 DEF MadeOf
    <2>2. CASE new_free(t) \/ new_null(t)
      <3>1. loc[t] \in Sess /\ loc'[t] = loc[t] /\ ~heap[loc[t]].failed
        BY <1>1, <2>2 DEF new_free, new_null, ControlOf, Making, FitOf, MadeOf
      <3>2. ~heap'[loc[t]].failed
        BY <1>3, <2>2, <3>1 DEF rm_lock, new_free, new_null
      <3> QED
        BY <3>1, <3>2 DEF MadeOf
    <2> QED
      BY <1>1, <1>5, <2>1, <2>2 DEF Entering
  <1>6. ASSUME pc'[t] = "full" PROVE FullOf(t)'
    <2>1. PICK y \in Sess, i \in Id \cup {NoId} :
            /\ session'[t] = y /\ refs(y) = 1 /\ ~heap[y].failed
            /\ heap' = [heap EXCEPT ![y].session_id = i] /\ ~rm_lock(t)
      <3>1. CASE choose_id(t)
        BY <1>1, <3>1 DEF choose_id, WeakType, ControlOf, MakingOf, Making, FitOf, MadeOf, rm_lock
      <3>2. CASE ssl3_get_new_session_ticket(t)
        BY <1>1, <3>2 DEF ssl3_get_new_session_ticket, sslVars, ControlOf, FitOf, FullOf, rm_lock
      <3> QED
        BY <1>1, <1>6, <3>1, <3>2 DEF Entering, SSL_set_SSL_CTX
    <2>2. heap'[y].references = 1
      BY <1>1, <2>1, IdFacts DEF refs
    <2>3. ~heap'[y].failed
      BY <1>3, <2>1
    <2> QED
      BY <2>1, <2>2, <2>3 DEF FullOf, refs
  <1>7. ASSUME pc'[t] = "add_lock", cont'[t] = "newcb" PROVE AddedOf(t)'
    <2>1. CASE get_session_cb(t) \/ get_session_cb_copy(t)
      <3>1. cont'[t] = "prev_check"
        BY <1>1, <2>1 DEF get_session_cb, get_session_cb_copy, WeakType
      <3> QED
        BY <1>7, <3>1
    <2>2. CASE ssl_update_cache(t)
      <3>1. /\ session[t] \in Sess /\ refs(session[t]) = 1 /\ ~heap[session[t]].failed
            /\ heap' = Up(heap, session[t]) /\ arg'[t] = session[t] /\ ~rm_lock(t)
            /\ session'[t] = session[t]
        BY <1>1, <1>7, <2>2
           DEF ssl_update_cache, StartAdd, Goto, ControlOf, FitOf, FullOf, WeakType, rm_lock, sslVars
      <3> DEFINE y == session[t]
      <3>2. heap'[y].references = 2
        BY <1>1, <3>1, UpFacts DEF refs
      <3>3. ~heap'[y].failed
        BY <1>3, <3>1
      <3> QED
        BY <3>1, <3>2, <3>3 DEF AddedOf, refs
    <2>3. CASE SSL_CTX_add_session(t)
      <3>1. cont'[t] = "idle"
        BY <1>1, <2>3 DEF SSL_CTX_add_session, StartAdd, WeakType
      <3> QED
        BY <1>7, <3>1
    <2> QED
      BY <1>1, <1>7, <2>1, <2>2, <2>3 DEF Entering
  <1> QED
    BY <1>4, <1>5, <1>6, <1>7 DEF FitOf, HeldOf, MadeOf, FullOf, AddedOf

\* What another thread does leaves it fit, too.
LEMMA OtherFit ==
  ASSUME ~SharedSsl, Inv, Inv', Fit, NEW t \in Thread, NEW u \in Thread \ {t}, Step(u)
  PROVE  FitOf(t)'
  <1>1. /\ WeakType /\ ControlOf(t) /\ MakingOf(t) /\ FitOf(t)
        /\ session'[t] = session[t] /\ loc'[t] = loc[t] /\ arg'[t] = arg[t]
        /\ pc'[t] = pc[t] /\ cont'[t] = cont[t] /\ app'[t] = app[t]
    BY StepOthers DEF Inv, Control, Fit, Others
  <1>2. ASSUME NEW y \in Sess, Own(t, y) >= 1, refs(y) = Own(t, y), ~heap[y].failed
        PROVE  refs(y)' = refs(y) /\ ~heap'[y].failed
    BY <1>2, Undisturbed
  <1>3. \A y \in Sess : refs(y) >= Own(t, y) /\ refs(y) \in Nat /\ Own(t, y) \in Nat
    <2> SUFFICES ASSUME NEW y \in Sess
                 PROVE  refs(y) >= Own(t, y) /\ refs(y) \in Nat /\ Own(t, y) \in Nat
      OBVIOUS
    <2>1. /\ refs(y) >= Own(t, y) + ByCache(y) /\ refs(y) \in Nat
          /\ Own(t, y) \in Nat /\ ByCache(y) \in Nat
      BY Positive DEF Inv, ByCache
    <2> QED
      BY <2>1
  <1>4. HeldOf(t)'
    BY <1>1 DEF FitOf, HeldOf
  <1>5. MadeOf(t)'
    <2> SUFFICES ASSUME pc[t] \in Making PROVE ~heap'[loc[t]].failed
      BY <1>1 DEF MadeOf
    <2>1. loc[t] \in Sess /\ refs(loc[t]) = 1 /\ ~heap[loc[t]].failed
      BY <1>1 DEF ControlOf, MakingOf, FitOf, MadeOf
    <2>2. Own(t, loc[t]) >= 1
      BY <2>1, OwnFacts
    <2> QED
      BY <1>2, <1>3, <2>1, <2>2
  <1>6. FullOf(t)'
    <2> SUFFICES ASSUME pc[t] = "full" PROVE heap'[session[t]].references = 1 /\ ~heap'[session[t]].failed
      BY <1>1 DEF FullOf, refs
    <2>1. session[t] \in Sess /\ refs(session[t]) = 1 /\ ~heap[session[t]].failed
      BY <1>1 DEF ControlOf, FitOf, FullOf
    <2>2. Own(t, session[t]) >= 1
      BY <2>1, OwnFacts DEF Stale
    <2> QED
      BY <1>2, <1>3, <2>1, <2>2 DEF refs
  <1>7. AddedOf(t)'
    <2> SUFFICES ASSUME pc[t] = "add_lock", cont[t] = "newcb"
                 PROVE  heap'[arg[t]].references = 2 /\ ~heap'[arg[t]].failed
      BY <1>1 DEF FitOf, AddedOf, refs
    <2>1. /\ arg[t] \in Sess /\ refs(arg[t]) = 2 /\ ~heap[arg[t]].failed
          /\ arg[t] = session[t]
      BY <1>1 DEF ControlOf, Adding, FitOf, AddedOf
    <2>2. Own(t, arg[t]) >= 2
      BY <2>1 DEF Own, Stale
    <2> QED
      BY <1>2, <1>3, <2>1, <2>2 DEF refs
  <1> QED
    BY <1>4, <1>5, <1>6, <1>7 DEF FitOf

\* A session enters the cache unmarked, and is marked only when it leaves.
LEMMA CacheFit ==
  ASSUME ~Oom, Inv, Inv', Fit, NEW t \in Thread, Step(t)
  PROVE  FailedNotCached'
  <1> SUFFICES ASSUME NEW n \in table', heap'[n.obj].failed PROVE FALSE
    BY DEF FailedNotCached
  <1>1. /\ WeakType /\ DoubleAccess /\ UniqueId /\ ControlOf(t) /\ ~switched[t] /\ AddedOf(t)
        /\ heap \in [Sess -> IntObject] /\ n.obj \in Sess
    BY DEF Inv, Control, Fit, NoSwitch, FitOf, WeakType, IdNode
  <1>2. CASE n \in table
    <2>1. ~heap[n.obj].failed
      BY <1>2 DEF Fit, FailedNotCached
    <2>2. rm_lock(t) /\ n.obj = arg[t]
      BY <1>1, <2>1, Failing
    <2>3. n.obj \in Cached
      BY <1>1, <1>2 DEF DoubleAccess
    <2>4. /\ sid(n.obj) \in Id /\ Retrieve(sid(n.obj)) = n.obj
          /\ n \in Match(sid(n.obj))
      BY <1>1, <1>2, <2>3, CachedFacts DEF UniqueId, Match
    <2>5. n \notin table'
      BY <2>2, <2>4, ConstantAssumption DEF rm_lock
    <2> QED
      BY <2>5
  <1>3. CASE n \notin table
    <2>1. add_insert(t)
      BY <1>3, CacheSteps DEF CacheKept, CutStep
    <2>2. n.obj = arg[t]
      BY <1>3, <2>1 DEF add_insert
    <2>3. ~rm_lock(t)
      BY <2>1 DEF add_insert, rm_lock
    <2>4. heap[n.obj].failed
      BY <1>1, <2>3, Failing
    <2>5. cont[t] # "newcb"
      BY <1>1, <2>1, <2>2, <2>4 DEF AddedOf, add_insert
    <2> DEFINE c == arg[t]
               s == Retrieve(sid(c))
               b == heap[c].failed /\ cont[t] = "newcb"
               h == [heap EXCEPT ![c].failed = b]
    <2>6. heap' = Free(h, s) /\ s \in Sess \cup {NoSess} /\ c \in Sess
      BY <1>1, <2>1, <2>2, RetrieveFacts DEF add_insert
    <2>7. b = FALSE
      BY <2>5
    <2> HIDE DEF s, b, c
    <2>9. h \in [Sess -> IntObject] /\ ~h[c].failed
      <3>1. b \in BOOLEAN
        BY <2>7
      <3>2. h \in [Sess -> IntObject] /\ h[c].failed = b
        BY <1>1, <2>6, <3>1, MarkFacts
      <3> QED
        BY <2>7, <3>2
    <2> HIDE DEF h
    <2> QED
      BY <2>2, <2>6, <2>9, FreeKeepsMark DEF c
  <1> QED
    BY <1>2, <1>3

LEMMA FitStep ==
  ASSUME ~Oom, ~AddNoId, ~SharedSsl, ~Sni, Inv, Inv', [Next]_vars, Fit
  PROVE  Fit'
  <1>1. ASSUME NEW t \in Thread, Step(t) PROVE Fit'
    <2>1. NoSwitch'
      <3>1. switched' \in {switched, [switched EXCEPT ![t] = FALSE]}
        BY <1>1 DEF Step, NewSession, ssl_get_new_session, new_free, new_null, choose_id, choose_id_fails,
           PrevSession, ssl_get_prev_session, get_session_cb, get_session_cb_copy, tls1_process_ticket,
           prev_timeout, prev_drop, prev_hit, prev_free, prev_set,
           AddSession, add_insert, add_present, add_evict, add_unlock, RemoveSession, rm_lock, rm_free,
           Flush, flush_begin, timeout_doall_arg, flush_end,
           Connection, ssl3_get_new_session_ticket, ssl_update_cache, new_session_cb,
           fatal_alert, ssl_clear_bad_session, SSL_free, clear_session, clear_null,
           SSL_set_SSL_CTX, ssl3_client_hello,
           Application, SSL_get1_session, SSL_SESSION_free, SSL_set_session,
           SSL_CTX_add_session, SSL_CTX_remove_session, sslVars
      <3> QED
        BY <3>1 DEF Fit, NoSwitch, Inv, WeakType
    <2>2. \A u \in Thread : FitOf(u)'
      BY <1>1, OwnFit, OtherFit
    <2> QED
      BY <1>1, <2>1, <2>2, CacheFit DEF Fit
  <1>2. CASE \E x \in Sess : Expire(x)
    <2>1. PICK x \in Sess : Expire(x)
      BY <1>2
    <2>2. UNCHANGED <<table, switched, session, loc, arg, pc, cont, app>>
      BY <2>1 DEF Expire, cacheVars, sslVars, callVars
    <2>3. \A y \in Sess : refs(y)' = refs(y) /\ heap'[y].failed = heap[y].failed
      <3>1. heap \in [Sess -> IntObject]
        BY DEF Inv, WeakType
      <3> DEFINE r == [heap[x] EXCEPT !.expired = TRUE]
      <3>2. heap' = [heap EXCEPT ![x] = r]
        BY <2>1 DEF Expire
      <3>3. r.references = heap[x].references /\ r.failed = heap[x].failed
        BY <3>1 DEF IntObject
      <3> HIDE DEF r
      <3> QED
        BY <3>1, <3>2, <3>3 DEF refs
    <2>4. NoSwitch' /\ FailedNotCached'
      <3>1. \A n \in table : n.obj \in Sess
        BY DEF Inv, WeakType, IdNode
      <3> QED
        BY <2>2, <2>3, <3>1 DEF Fit, NoSwitch, FailedNotCached
    <2>5. ASSUME NEW t \in Thread PROVE FitOf(t)'
      <3>1. FitOf(t) /\ ControlOf(t)
        BY DEF Fit, Inv, Control
      <3>2. HeldOf(t)'
        BY <2>2, <3>1 DEF FitOf, HeldOf
      <3>3. MadeOf(t)'
        BY <2>2, <2>3, <3>1 DEF FitOf, MadeOf, ControlOf, Making
      <3>4. FullOf(t)'
        BY <2>2, <2>3, <3>1 DEF FitOf, FullOf, ControlOf, refs
      <3>5. AddedOf(t)'
        BY <2>2, <2>3, <3>1 DEF FitOf, AddedOf, ControlOf, Adding, refs
      <3> QED
        BY <3>2, <3>3, <3>4, <3>5 DEF FitOf
    <2> QED
      BY <2>4, <2>5 DEF Fit
  <1>3. CASE UNCHANGED vars
    BY <1>3 DEF vars, cacheVars, sslVars, callVars, Fit, NoSwitch, FailedNotCached,
       FitOf, HeldOf, MadeOf, FullOf, AddedOf, refs
  <1> QED
    BY <1>1, <1>2, <1>3, StepCases

\* "If a fatal one, remove from cache": however many threads resume, add and
\* flush it meanwhile, a session whose connection failed cannot be resumed from
\* the cache, unless the application adds it again -- as long as no callback
\* moves a connection to another SSL_CTX, whose cache does not hold its session.
THEOREM FailedLeaves ==
  ASSUME ~Oom, ~AddNoId, ~SharedSsl, ~Sni
  PROVE  Spec => []FailedNotCached
  <1>1. Init => Fit
    BY DEF Init, Fit, NoSwitch, FailedNotCached, FitOf, HeldOf, MadeOf, FullOf, AddedOf, Making
  <1>2. Fit => FailedNotCached
    BY DEF Fit
  <1> QED
    BY <1>1, <1>2, FitStep, Invariance, PTL DEF Spec

-----------------------------------------------------------------------------
(* The cache implements the bounded store SessionStore.                    *)

EntryOf(y) == [id |-> sid(y), obj |-> y]

\* The list and what is stored, element by element.
Shape ==
  /\ list \in Seq(Sess) /\ Len(list) \in Nat /\ DOMAIN list = 1..Len(list) /\ NoDup(list)
  /\ Cardinality(table) = Len(list)
  /\ \A k \in 1..Len(list) : list[k] \in Sess /\ list[k] \in Cached
  /\ table = {[key |-> sid(y), obj |-> y] : y \in Cached}
  /\ Entries \in Seq(Store!Entry) /\ Len(Entries) = Len(list)
  /\ \A k \in 1..Len(list) : Entries[k] = EntryOf(list[k])

LEMMA ShapeInv == Inv => Shape
  <1> SUFFICES ASSUME Inv PROVE Shape
    OBVIOUS
  <1>1. WeakType /\ DoubleAccess /\ UniqueId
    BY DEF Inv
  <1>2. /\ list \in Seq(Sess) /\ Len(list) \in Nat /\ DOMAIN list = 1..Len(list) /\ NoDup(list)
        /\ Cardinality(table) = Len(list)
    BY <1>1, SizeFacts DEF WeakType, UniqueId, NoDup
  <1>3. table = {[key |-> sid(y), obj |-> y] : y \in Cached}
    BY <1>1, TableFacts
  <1>4. ASSUME NEW k \in 1..Len(list)
        PROVE  /\ list[k] \in Sess /\ list[k] \in Cached
               /\ EntryOf(list[k]) \in Store!Entry /\ Entries[k] = EntryOf(list[k])
    <2>1. list[k] \in Cached
      BY <1>2 DEF Cached
    <2>2. list[k] \in Sess /\ sid(list[k]) \in Id
      BY <1>1, <2>1, CachedFacts
    <2>3. Entries[k] = EntryOf(list[k])
      BY <1>2 DEF Entries, EntryOf
    <2> QED
      BY <2>1, <2>2, <2>3 DEF EntryOf, Store!Entry
  <1>5. Entries \in Seq(Store!Entry)
    <2>1. Entries \in [1..Len(list) -> Store!Entry]
      BY <1>2, <1>4 DEF Entries, EntryOf
    <2> HIDE DEF Entries
    <2> QED
      BY <1>2, <2>1, SeqDef
  <1>6. Len(Entries) = Len(list)
    <2>1. DOMAIN Entries = 1..Len(list) /\ DOMAIN Entries = 1..Len(Entries) /\ Len(Entries) \in Nat
      BY <1>2, <1>5, LenProperties DEF Entries
    <2> QED
      BY <1>2, <2>1
  <1> QED
    BY <1>2, <1>3, <1>4, <1>5, <1>6 DEF Shape

\* The limit applied to a sequence of entries: what is stored is Top(Entries).
Top(s) == IF CacheSize > 0 /\ Len(s) > CacheSize THEN SubSeq(s, 1, CacheSize) ELSE s

LEMMA TopFacts ==
  ASSUME NEW S, NEW s \in Seq(S)
  PROVE  /\ Top(s) \in Seq(S)
         /\ Len(Top(s)) = IF CacheSize > 0 /\ Len(s) > CacheSize THEN CacheSize ELSE Len(s)
         /\ \A k \in 1..Len(Top(s)) : Top(s)[k] = s[k]
  <1>1. Len(s) \in Nat /\ CacheSize \in Nat /\ \A k \in 1..Len(s) : s[k] \in S
    BY LenProperties, ConstantAssumption
  <1>2. CASE CacheSize > 0 /\ Len(s) > CacheSize
    <2> DEFINE q == SubSeq(s, 1, CacheSize)
    <2>1. /\ q \in Seq(S) /\ Len(q) = (IF 1 <= CacheSize THEN CacheSize-1+1 ELSE 0)
          /\ \A k \in 1..CacheSize-1+1 : q[k] = s[1+k-1]
      <3>1. \A k \in 1..CacheSize : s[k] \in S
        BY <1>1, <1>2
      <3> QED
        BY <1>1, <3>1, SubSeqProperties
    <2> HIDE DEF q
    <2>2. Len(q) = CacheSize /\ \A k \in 1..CacheSize : q[k] = s[k]
      BY <1>1, <1>2, <2>1
    <2> QED
      BY <1>2, <2>1, <2>2 DEF Top, q
  <1>3. CASE ~(CacheSize > 0 /\ Len(s) > CacheSize)
    BY <1>3 DEF Top
  <1> QED
    BY <1>2, <1>3

LEMMA StoredTop == Shape => Stored = Top(Entries)
  BY DEF Shape, Stored, Top

\* Outside the eviction loop all of the list is stored.
LEMMA AllStored ==
  ASSUME Shape, Bound, \A t \in Thread : pc[t] # "evict"
  PROVE  /\ Stored = Entries
         /\ CacheSize > 0 => Len(list) <= CacheSize
  BY ConstantAssumption DEF Shape, Bound, Stored

\* The id under which a session was cached is its id as long as it is cached.
LEMMA IdsKept ==
  ASSUME Shape, Shape', NEW c,
         table' \subseteq table \cup {[key |-> sid(c), obj |-> c]}
  PROVE  \A y \in Cached' : sid(y)' = sid(y)
  <1> SUFFICES ASSUME NEW y \in Cached' PROVE sid(y)' = sid(y)
    OBVIOUS
  <1> DEFINE i == sid(y)'
             n == [key |-> i, obj |-> y]
  <1>1. n \in table'
    BY DEF Shape
  <1> HIDE DEF i
  <1>2. n \in table \/ n = [key |-> sid(c), obj |-> c]
    BY <1>1
  <1>3. CASE n \in table
    <2>1. PICK z \in Cached : n = [key |-> sid(z), obj |-> z]
      BY <1>3 DEF Shape
    <2> QED
      BY <2>1 DEF i
  <1>4. CASE n = [key |-> sid(c), obj |-> c]
    BY <1>4 DEF i
  <1> QED
    BY <1>2, <1>3, <1>4

\* A step that leaves table and list alone changes nothing that is stored.
LEMMA KeptStutters ==
  ASSUME Shape, Shape', CacheKept
  PROVE  Stored' = Stored
  <1>1. \A y \in Cached' : heap'[y].session_id = heap[y].session_id
    BY IdsKept DEF CacheKept, sid
  <1>2. /\ Entries' \in Seq(Store!Entry) /\ Len(Entries') = Len(list)
        /\ \A k \in 1..Len(list) : list[k] \in Cached' /\ Entries'[k] = [id |-> heap'[list[k]].session_id, obj |-> list[k]]
    BY DEF Shape, CacheKept, EntryOf, sid
  <1>3. /\ Entries \in Seq(Store!Entry) /\ Len(Entries) = Len(list)
        /\ \A k \in 1..Len(list) : Entries[k] = [id |-> heap[list[k]].session_id, obj |-> list[k]]
    BY DEF Shape, EntryOf, sid
  <1>4. Entries' = Entries
    <2>1. \A k \in 1..Len(list) : Entries'[k] = Entries[k]
      BY <1>1, <1>2, <1>3
    <2> HIDE DEF Entries
    <2> QED
      BY <1>2, <1>3, <2>1, SeqEqual
  <1> QED
    BY <1>4 DEF Stored, CacheKept

\* Taking a session off both access paths takes its entry out.
LEMMA CutEntries ==
  ASSUME Shape, Shape', NEW x \in Cached, table' \subseteq table, list' = Unlinked(list, x)
  PROVE  \E i \in 1..Len(list) :
           /\ list[i] = x /\ Len(list') = Len(list) - 1
           /\ Entries' = RemoveAt(Entries, i)
  <1> DEFINE i == CHOOSE k \in DOMAIN list : list[k] = x
  <1>1. \E k \in DOMAIN list : list[k] = x
    BY DEF Cached
  <1>2. i \in 1..Len(list) /\ list[i] = x /\ list' = RemoveAt(list, i)
    BY <1>1 DEF Shape, Unlinked
  <1> HIDE DEF i
  <1>3. /\ Len(list') = Len(list) - 1
        /\ \A k \in 1..Len(list)-1 : list'[k] = IF k < i THEN list[k] ELSE list[k+1]
    BY <1>2, RemoveAtFacts DEF Shape
  <1> DEFINE R == RemoveAt(Entries, i)
  <1>4. /\ Entries \in Seq(Store!Entry) /\ Len(Entries) = Len(list) /\ Len(list) \in Nat
        /\ \A k \in 1..Len(list) : Entries[k] = [id |-> heap[list[k]].session_id, obj |-> list[k]]
    BY DEF Shape, EntryOf, sid
  <1>5. /\ Entries' \in Seq(Store!Entry) /\ Len(Entries') = Len(list')
        /\ \A k \in 1..Len(list') : /\ list'[k] \in Cached'
                                   /\ Entries'[k] = [id |-> heap'[list'[k]].session_id, obj |-> list'[k]]
    BY DEF Shape, EntryOf, sid
  <1>6. \A y \in Cached' : heap'[y].session_id = heap[y].session_id
    BY IdsKept DEF sid
  <1>7. /\ R \in Seq(Store!Entry) /\ Len(R) = Len(list) - 1
        /\ \A k \in 1..Len(list)-1 : R[k] = IF k < i THEN Entries[k] ELSE Entries[k+1]
    BY <1>2, <1>4, RemoveAtFacts
  <1> HIDE DEF R, Entries
  <1>8. ASSUME NEW k \in 1..Len(list)-1 PROVE Entries'[k] = R[k]
    <2>1. Entries'[k] = [id |-> heap[list'[k]].session_id, obj |-> list'[k]]
      BY <1>3, <1>5, <1>6
    <2>2. CASE k < i
      <3>1. k \in 1..Len(list) /\ list'[k] = list[k] /\ R[k] = Entries[k]
        BY <1>3, <1>4, <1>7, <2>2
      <3> QED
        BY <1>4, <2>1, <3>1
    <2>3. CASE ~(k < i)
      <3>1. k+1 \in 1..Len(list) /\ list'[k] = list[k+1] /\ R[k] = Entries[k+1]
        BY <1>3, <1>4, <1>7, <2>3
      <3> QED
        BY <1>4, <2>1, <3>1
    <2> QED
      BY <2>2, <2>3
  <1>9. Entries' = R
    BY <1>3, <1>5, <1>7, <1>8, SeqEqual
  <1> QED
    BY <1>2, <1>3, <1>9 DEF R

\* Outside the eviction loop that is a session leaving the store.
LEMMA CutLeaves ==
  ASSUME Shape, Shape', Bound, \A t \in Thread : pc[t] # "evict",
         NEW x \in Cached, table' \subseteq table, list' = Unlinked(list, x)
  PROVE  \E k \in DOMAIN Stored : Store!Leave(k)
  <1>1. PICK i \in 1..Len(list) : /\ list[i] = x /\ Len(list') = Len(list) - 1
                                  /\ Entries' = RemoveAt(Entries, i)
    BY CutEntries
  <1>2. /\ Stored = Entries /\ (CacheSize > 0 => Len(list) <= CacheSize)
        /\ Len(list) \in Nat /\ CacheSize \in Nat
    BY AllStored, ConstantAssumption DEF Shape
  <1>3. Stored' = Entries'
    BY <1>1, <1>2 DEF Stored
  <1>4. i \in DOMAIN Stored
    <2>1. Len(Entries) = Len(list) /\ DOMAIN Entries = 1..Len(Entries)
      BY LenProperties DEF Shape
    <2> HIDE DEF Entries
    <2> QED
      BY <1>2, <2>1
  <1>5. Stored' = RemoveAt(Stored, i)
    BY <1>1, <1>2, <1>3
  <1> QED
    BY <1>4, <1>5 DEF Store!Leave, Store!RemoveAt, RemoveAt

\* A turn of the eviction loop drops what the store has forgotten already.
LEMMA EvictStutters ==
  ASSUME Shape, Shape', Full, CacheTail \in Cached, table' \subseteq table,
         list' = Unlinked(list, CacheTail)
  PROVE  Stored' = Stored
  <1>1. PICK i \in 1..Len(list) : /\ list[i] = CacheTail /\ Len(list') = Len(list) - 1
                                  /\ Entries' = RemoveAt(Entries, i)
    BY CutEntries
  <1>2. /\ CacheSize \in Nat /\ CacheSize > 0 /\ Len(list) > CacheSize /\ Len(list) \in Nat
        /\ DOMAIN list = 1..Len(list)
        /\ Entries \in Seq(Store!Entry) /\ Len(Entries) = Len(list)
        /\ Entries' \in Seq(Store!Entry) /\ Len(Entries') = Len(list) - 1
    BY <1>1, ConstantAssumption DEF Shape, Full
  <1>3. i = Len(list)
    <2>1. CacheTail = list[Len(list)]
      BY <1>2, EmptySeq DEF CacheTail, Shape
    <2> QED
      <3>1. Len(list) \in DOMAIN list /\ i \in DOMAIN list /\ list[i] = list[Len(list)]
        <4>1. list[i] = list[Len(list)]
          BY <1>1, <2>1
        <4>2. Len(list) \in 1..Len(list)
          BY <1>2
        <4> QED
          BY <1>1, <1>2, <4>1, <4>2
      <3> QED
        BY <3>1 DEF Shape, NoDup
  <1> HIDE DEF Entries
  <1>4. \A k \in 1..Len(list)-1 : RemoveAt(Entries, i)[k] = IF k < i THEN Entries[k] ELSE Entries[k+1]
    <2>1. i \in 1..Len(Entries)
      BY <1>2
    <2> QED
      BY <1>2, <2>1, RemoveAtFacts
  <1>5. \A k \in 1..CacheSize : k \in 1..Len(list)-1 /\ Entries'[k] = Entries[k]
    <2> SUFFICES ASSUME NEW k \in 1..CacheSize
                 PROVE  k \in 1..Len(list)-1 /\ Entries'[k] = Entries[k]
      OBVIOUS
    <2>1. k \in 1..Len(list)-1 /\ k < i
      BY <1>2, <1>3
    <2>2. Entries'[k] = RemoveAt(Entries, i)[k]
      BY <1>1
    <2> QED
      BY <1>4, <2>1, <2>2
  <1> DEFINE a == Top(Entries)
             b == Top(Entries')
  <1>6. a \in Seq(Store!Entry) /\ Len(a) = CacheSize /\ \A k \in 1..CacheSize : a[k] = Entries[k]
    <2>1. /\ a \in Seq(Store!Entry)
          /\ Len(a) = IF CacheSize > 0 /\ Len(Entries) > CacheSize THEN CacheSize ELSE Len(Entries)
          /\ \A k \in 1..Len(a) : a[k] = Entries[k]
      BY <1>2, TopFacts
    <2> HIDE DEF a
    <2> QED
      BY <1>2, <2>1
  <1>7. b \in Seq(Store!Entry) /\ Len(b) = CacheSize /\ \A k \in 1..CacheSize : b[k] = Entries'[k]
    <2> DEFINE e == Entries'
    <2>1. /\ b \in Seq(Store!Entry)
          /\ Len(b) = IF CacheSize > 0 /\ Len(e) > CacheSize THEN CacheSize ELSE Len(e)
          /\ \A k \in 1..Len(b) : b[k] = e[k]
      BY <1>2, TopFacts
    <2>2. Len(e) = Len(list) - 1
      BY <1>2
    <2> HIDE DEF b, e
    <2>3. Len(b) = CacheSize
      <3> DEFINE n == Len(list)
                 m == Len(e)
                 l == Len(b)
      <3>1. /\ n \in Nat /\ CacheSize \in Nat /\ CacheSize > 0 /\ n > CacheSize /\ m = n - 1
            /\ l = IF CacheSize > 0 /\ m > CacheSize THEN CacheSize ELSE m
        BY <1>2, <2>1, <2>2
      <3> HIDE DEF n, m, l
      <3>2. l = CacheSize
        BY <3>1
      <3> QED
        BY <3>2 DEF l
    <2> QED
      BY <2>1, <2>3 DEF e
  <1> HIDE DEF a, b
  <1>8. a = b
    BY <1>5, <1>6, <1>7, SeqEqual
  <1>9. Stored = Top(Entries)
    BY StoredTop
  <1>10. Stored' = Top(Entries')
    <2>1. (Stored = Top(Entries))'
      BY StoredTop, PTL
    <2> QED
      BY <2>1 DEF Top
  <1> QED
    BY <1>8, <1>9, <1>10 DEF a, b

\* The list and the entries without the session that had id i, if there was one.
LEMMA WithoutFacts ==
  ASSUME Inv, Shape, NEW i
  PROVE  LET U == Unlinked(list, Retrieve(i))
             W == Store!Without(Entries, i)
         IN  /\ U \in Seq(Sess) /\ W \in Seq(Store!Entry)
             /\ Len(U) \in Nat /\ Len(W) = Len(U)
             /\ \A k \in 1..Len(U) : U[k] \in Cached /\ W[k] = EntryOf(U[k])
  <1>1. /\ WeakType /\ DoubleAccess /\ UniqueId
        /\ list \in Seq(Sess) /\ Len(list) \in Nat /\ DOMAIN list = 1..Len(list) /\ NoDup(list)
        /\ Entries \in Seq(Store!Entry) /\ Len(Entries) = Len(list)
    BY DEF Inv, Shape
  <1>2. \A k \in 1..Len(list) : /\ list[k] \in Cached /\ list[k] \in Sess
                                /\ Entries[k] = EntryOf(list[k]) /\ Entries[k].id = sid(list[k])
    BY DEF Shape, EntryOf
  <1>3. DOMAIN Entries = 1..Len(list)
    BY <1>1, LenProperties
  <1>4. CASE Match(i) = {}
    <2>1. Retrieve(i) = NoSess
      BY <1>1, <1>4, RetrieveFacts
    <2>2. \A k \in DOMAIN list : list[k] # NoSess
      BY <1>1, <1>2, ConstantAssumption
    <2>3. Unlinked(list, Retrieve(i)) = list
      BY <2>1, <2>2 DEF Unlinked
    <2>4. \A y \in Cached : sid(y) # i
      BY <1>1, <1>4, CachedFacts
    <2>5. Store!Without(Entries, i) = Entries
      BY <1>2, <1>3, <2>4 DEF Store!Without
    <2> HIDE DEF Entries
    <2> QED
      BY <1>1, <1>2, <2>3, <2>5
  <1>5. CASE Match(i) # {}
    <2> DEFINE s == Retrieve(i)
    <2>1. s \in Cached /\ sid(s) = i
      BY <1>1, <1>5, RetrieveFacts
    <2>2. \A y \in Cached : sid(y) = i => y = s
      BY <1>1, CachedFacts
    <2> HIDE DEF s
    <2>3. PICK j \in 1..Len(list) : list[j] = s
      BY <1>1, <2>1 DEF Cached
    <2>4. \A k \in 1..Len(list) : (list[k] = s => k = j) /\ (Entries[k].id = i <=> k = j)
      <3>1. \A k \in 1..Len(list) : list[k] = s => k = j
        BY <1>1, <2>3 DEF NoDup
      <3>2. Entries[j].id = i
        BY <1>2, <2>1, <2>3
      <3> QED
        BY <1>2, <2>2, <3>1, <3>2
    <2>5. Unlinked(list, s) = RemoveAt(list, j)
      <3>1. (CHOOSE k \in DOMAIN list : list[k] = s) = j
        BY <1>1, <2>3, <2>4
      <3> QED
        BY <1>1, <2>3, <3>1 DEF Unlinked
    <2>6. Store!Without(Entries, i) = RemoveAt(Entries, j)
      <3> HIDE DEF Entries
      <3>1. (CHOOSE k \in DOMAIN Entries : Entries[k].id = i) = j
        BY <1>3, <2>4
      <3> QED
        BY <1>3, <2>4, <3>1 DEF Store!Without, Store!RemoveAt, RemoveAt
    <2> DEFINE U == RemoveAt(list, j)
               W == RemoveAt(Entries, j)
    <2> HIDE DEF Entries
    <2>7. /\ U \in Seq(Sess) /\ Len(U) = Len(list) - 1
          /\ \A k \in 1..Len(list)-1 : U[k] = IF k < j THEN list[k] ELSE list[k+1]
      BY <1>1, RemoveAtFacts
    <2>8. /\ W \in Seq(Store!Entry) /\ Len(W) = Len(list) - 1
          /\ \A k \in 1..Len(list)-1 : W[k] = IF k < j THEN Entries[k] ELSE Entries[k+1]
      <3>1. j \in 1..Len(Entries)
        BY <1>3
      <3>2. /\ W \in Seq(Store!Entry) /\ Len(W) = Len(Entries) - 1
            /\ \A k \in 1..Len(Entries)-1 : W[k] = IF k < j THEN Entries[k] ELSE Entries[k+1]
        BY <1>1, <3>1, RemoveAtFacts
      <3> HIDE DEF W
      <3> QED
        BY <1>1, <3>2
    <2> HIDE DEF U, W
    <2>9. Len(list) >= 1
      BY <1>1, <2>3
    <2>10. \A k \in 1..Len(list)-1 : U[k] \in Cached /\ W[k] = EntryOf(U[k])
      <3> SUFFICES ASSUME NEW k \in 1..Len(list)-1 PROVE U[k] \in Cached /\ W[k] = EntryOf(U[k])
        OBVIOUS
      <3>1. k \in 1..Len(list) /\ k+1 \in 1..Len(list)
        BY <1>1
      <3>2. CASE k < j
        BY <1>2, <2>7, <2>8, <3>1, <3>2
      <3>3. CASE ~(k < j)
        BY <1>2, <2>7, <2>8, <3>1, <3>3
      <3> QED
        BY <3>2, <3>3
    <2> QED
      BY <1>1, <2>5, <2>6, <2>7, <2>8, <2>9, <2>10 DEF U, W, s
  <1> QED
    BY <1>4, <1>5

\* A session that is added enters the store, in front; the one that had its id
\* goes, and the oldest if there are too many.
LEMMA InsertEnters ==
  ASSUME ~Oom, Inv, Shape, Shape', Bound, NEW t \in Thread, add_insert(t)
  PROVE  \E e \in Store!Entry : Store!Enter(e)
  <1> DEFINE c == arg[t]
             i == sid(c)
             s == Retrieve(i)
             e == EntryOf(c)
             U == Unlinked(list, s)
             W == Store!Without(Entries, i)
             V == <<e>> \o W
  <1>1. /\ WeakType /\ DoubleAccess /\ UniqueId /\ Locking
        /\ c \in Sess /\ i \in Id /\ s # c /\ lock = NoThread
    <2>1. c \in Sess /\ i # NoId
      BY DEF Inv, Control, ControlOf, Adding, AddIdOf, add_insert
    <2>2. i \in Id \cup {NoId}
      BY <2>1 DEF Inv, WeakType, IntObject, sid
    <2> QED
      BY <2>1, <2>2 DEF Inv, add_insert
  <1>2. /\ table' = (table \ Match(i)) \cup {[key |-> i, obj |-> c]}
        /\ list' = Linked(U, c)
    BY DEF add_insert
  <1>3. \A u \in Thread : pc[u] # "evict"
    BY <1>1, ConstantAssumption DEF Locking
  <1>4. /\ Stored = Entries /\ (CacheSize > 0 => Len(list) <= CacheSize)
        /\ list \in Seq(Sess) /\ Len(list) \in Nat
    BY <1>3, AllStored DEF Shape
  <1>5. c \notin Cached
    BY <1>1, CachedFacts
  <1>6. e \in Store!Entry /\ e.id = i /\ e.obj = c
    BY <1>1 DEF EntryOf, Store!Entry
  <1>7. /\ U \in Seq(Sess) /\ W \in Seq(Store!Entry) /\ Len(U) \in Nat /\ Len(W) = Len(U)
        /\ \A k \in 1..Len(U) : U[k] \in Cached /\ W[k] = EntryOf(U[k])
    BY WithoutFacts
  <1>8. list' = <<c>> \o U
    <2>1. \A k \in DOMAIN U : U[k] # c
      BY <1>5, <1>7, LenProperties
    <2> QED
      BY <1>2, <2>1 DEF Linked, Unlinked
  <1>9. \A y \in Cached' : heap'[y].session_id = heap[y].session_id
    BY <1>2, IdsKept DEF sid
  <1>10. /\ Entries' \in Seq(Store!Entry) /\ Len(Entries') = Len(list')
         /\ \A k \in 1..Len(list') : /\ list'[k] \in Cached'
                                    /\ Entries'[k] = [id |-> heap'[list'[k]].session_id, obj |-> list'[k]]
    BY DEF Shape, EntryOf, sid
  <1> HIDE DEF U, W, e
  <1>11. /\ Len(list') = 1 + Len(U)
         /\ \A k \in 1..1+Len(U) : list'[k] = IF k <= 1 THEN c ELSE U[k-1]
    <2>1. <<c>> \in Seq(Sess) /\ Len(<<c>>) = 1 /\ <<c>>[1] = c
      BY <1>1
    <2>2. /\ Len(<<c>> \o U) = 1 + Len(U)
          /\ \A k \in 1..1+Len(U) : (<<c>> \o U)[k] = IF k <= 1 THEN <<c>>[k] ELSE U[k-1]
      BY <1>7, <2>1, ConcatProperties
    <2>3. \A k \in 1..1+Len(U) : k <= 1 => k = 1
      BY <1>7
    <2> QED
      BY <1>8, <2>1, <2>2, <2>3
  <1>12. /\ V \in Seq(Store!Entry) /\ Len(V) = 1 + Len(U)
         /\ \A k \in 1..1+Len(U) : V[k] = IF k <= 1 THEN e ELSE W[k-1]
    <2>1. <<e>> \in Seq(Store!Entry) /\ Len(<<e>>) = 1 /\ <<e>>[1] = e
      BY <1>6
    <2>2. /\ V \in Seq(Store!Entry) /\ Len(V) = 1 + Len(U)
          /\ \A k \in 1..1+Len(U) : V[k] = IF k <= 1 THEN <<e>>[k] ELSE W[k-1]
      BY <1>7, <2>1, ConcatProperties
    <2>3. \A k \in 1..1+Len(U) : k <= 1 => k = 1
      BY <1>7
    <2> HIDE DEF V
    <2> QED
      BY <2>1, <2>2, <2>3
  <1> HIDE DEF V
  <1>13. ASSUME NEW k \in 1..1+Len(U) PROVE Entries'[k] = V[k]
    <2>1. Entries'[k] = [id |-> heap[list'[k]].session_id, obj |-> list'[k]]
      BY <1>9, <1>10, <1>11
    <2>2. CASE k <= 1
      BY <1>11, <1>12, <2>1, <2>2 DEF e, EntryOf, sid
    <2>3. CASE ~(k <= 1)
      <3>1. k-1 \in 1..Len(U)
        BY <1>7, <2>3
      <3>2. V[k] = [id |-> heap[U[k-1]].session_id, obj |-> U[k-1]]
        BY <1>7, <1>12, <2>3, <3>1 DEF EntryOf, sid
      <3> QED
        BY <1>11, <2>1, <2>3, <3>2
    <2> QED
      BY <2>2, <2>3
  <1>14. Entries' = V
    <2> DEFINE E == Entries'
    <2>1. E \in Seq(Store!Entry) /\ Len(E) = Len(V) /\ \A k \in 1..Len(V) : E[k] = V[k]
      BY <1>10, <1>11, <1>12, <1>13
    <2> HIDE DEF E
    <2>2. E = V
      BY <1>12, <2>1, SeqEqual
    <2> QED
      BY <2>2 DEF E
  <1>15. Stored' = Store!Limit(V)
    <2>1. Len(list') = Len(V)
      BY <1>11, <1>12
    <2> QED
      BY <1>14, <2>1 DEF Stored, Store!Limit
  <1>16. \A k \in DOMAIN Stored : Stored[k] # e
    <2>1. \A k \in DOMAIN Entries : k \in 1..Len(list) /\ Entries[k].obj = list[k] /\ list[k] \in Cached
      <3>1. Entries \in Seq(Store!Entry) /\ Len(Entries) = Len(list)
        BY DEF Shape
      <3>2. DOMAIN Entries = 1..Len(list)
        BY <3>1, LenProperties
      <3> HIDE DEF Entries
      <3> QED
        BY <3>2 DEF Shape, EntryOf
    <2> HIDE DEF Entries
    <2> QED
      BY <1>4, <1>5, <1>6, <2>1
  <1>17. Store!Enter(e)
    <2>1. Stored' = Store!Limit(<<e>> \o Store!Without(Stored, e.id))
      BY <1>4, <1>6, <1>15 DEF V, W
    <2> QED
      BY <1>16, <2>1 DEF Store!Enter
  <1> QED
    BY <1>6, <1>17

\* Every step of the cache is a step of the store, or one that it does not see.
LEMMA StoreStep ==
  ASSUME ~Oom, Inv, Inv', Bound, [Next]_vars
  PROVE  [Store!Next]_Stored
  <1>1. Shape /\ Shape'
    BY ShapeInv, PTL
  <1>2. ASSUME NEW t \in Thread, Step(t) PROVE [Store!Next]_Stored
    <2>1. CASE CacheKept
      BY <1>1, <2>1, KeptStutters
    <2>2. CASE add_insert(t)
      BY <1>1, <2>2, InsertEnters DEF Store!Next
    <2>3. CASE CutStep(t)
      <3>1. PICK x \in Cached : /\ table' = table \ Match(sid(x)) /\ list' = Unlinked(list, x)
                                /\ \/ rm_lock(t) \/ pc[t] = "flush"
                                   \/ add_evict(t) /\ x = CacheTail
        BY <2>3 DEF CutStep
      <3>2. CASE rm_lock(t) \/ pc[t] = "flush"
        <4>1. \A u \in Thread : pc[u] # "evict"
          BY <3>2, ConstantAssumption DEF Inv, Locking, rm_lock
        <4>2. \E k \in DOMAIN Stored : Store!Leave(k)
          BY <1>1, <3>1, <4>1, CutLeaves
        <4> QED
          BY <4>2 DEF Store!Next
      <3>3. CASE add_evict(t) /\ x = CacheTail
        BY <1>1, <3>1, <3>3, EvictStutters DEF add_evict
      <3> QED
        BY <3>1, <3>2, <3>3
    <2> QED
      BY <1>2, <2>1, <2>2, <2>3, CacheSteps
  <1>3. CASE UNCHANGED vars \/ \E x \in Sess : Expire(x)
    <2>1. CacheKept
      BY <1>3 DEF vars, cacheVars, Expire, CacheKept
    <2> QED
      BY <1>1, <2>1, KeptStutters
  <1> QED
    BY <1>2, <1>3, StepCases

\* For every number of threads and whatever they do, the hash table, the list
\* and the two loops together are a bounded store, first in first out, with one
\* session per id.
THEOREM Refinement ==
  ASSUME ~Oom, ~AddNoId, ~SharedSsl
  PROVE  Spec => ImplementsStore
  <1>1. Init => Store!Init
    <2> SUFFICES ASSUME Init PROVE Stored = << >>
      BY DEF Store!Init
    <2>1. Shape /\ list = << >>
      BY InitInv, ShapeInv DEF Init
    <2>2. Len(list) = 0 /\ Entries \in Seq(Store!Entry) /\ Len(Entries) = 0
      BY <2>1, EmptySeq DEF Shape
    <2>3. Stored = Entries
      BY <2>2, ConstantAssumption DEF Stored
    <2> HIDE DEF Entries
    <2> QED
      BY <2>2, <2>3, EmptySeq
  <1>2. Init => Bound
    BY ConstantAssumption, FS_EmptySet DEF Init, Bound
  <1> QED
    BY <1>1, <1>2, BoundStep, StoreStep, Invariance, PTL DEF Spec, ImplementsStore, Store!Spec
=============================================================================
