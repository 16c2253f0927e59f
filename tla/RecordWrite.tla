---------------------------- MODULE RecordWrite -----------------------------
(***************************************************************************)
(* The sending side of the record layer, ssl/s3_pkt.c, over a transport    *)
(* that does not block: SSL_write, handshake messages and alerts share one *)
(* record buffer, and a record the transport takes only in part has to be  *)
(* finished by whoever began it.                                           *)
(*                                                                         *)
(* A record is its type and the bytes it carries; the buffer and the wire  *)
(* hold units, a record's header (i = 0) and each of its bytes.            *)
(***************************************************************************)
EXTENDS Integers, Sequences, SequencesExt, FiniteSets, FiniteSetsExt

CONSTANTS
  Modes,       \* the settings to consider, each a subset of ModeNames
  MaxFragment, \* max_send_fragment
  MaxData,     \* bytes the application writes
  HelloLength, \* bytes of a handshake message that needs several records
  MaxAlerts,   \* alerts the reading side sends
  MaxDigested  \* handshake bytes after which no renegotiation begins

\* SSL_MODE_ENABLE_PARTIAL_WRITE, SSL_MODE_ACCEPT_MOVING_WRITE_BUFFER,
\* SSL_MODE_RELEASE_BUFFERS, need_empty_fragments, whether it is a server; whether
\* handshake messages are longer than a record, and whether the application
\* calls SSL_write, not only SSL_read, to get on with a handshake.
ModeNames == {"partial", "moving", "release", "empty", "server", "long", "through"}

ASSUME ConstantAssumption ==
  /\ Modes \subseteq SUBSET ModeNames
  /\ MaxFragment \in Nat \ {0} /\ HelloLength \in Nat \ {0}
  /\ MaxData \in Nat /\ MaxAlerts \in Nat /\ MaxDigested \in Nat

VARIABLES
  mode,      \* the settings of this connection
  s3,        \* the connection's s->s3 and what wbio has taken
  call,      \* the ssl3_write_bytes under way, one that called another last
  repeat,    \* the SSL_write the application has to repeat, if any
  acked,     \* bytes SSL_write has reported as written
  hello,     \* a renegotiation: none, its message to be written, its answer awaited
  digested,  \* handshake bytes given to ssl3_finish_mac
  shut,      \* SSL_SENT_SHUTDOWN
  alerts     \* the alerts asked for; those that met a half written one; those replaced

vars == <<mode, s3, call, repeat, acked, hello, digested, shut, alerts>>

Record(t, a, b) == [type |-> t, from |-> a, to |-> b]
Units(r) == [k \in 1 .. r.to - r.from + 2 |-> [rec |-> r, i |-> k - 1]]

\* Mutant: an alert of an earlier use of the object is still marked.
Fresh_Marked ==
  [buf |-> FALSE, left |-> <<>>, wpend_tot |-> 0, wpend_buf |-> <<>>,
   wpend_type |-> "app", wpend_ret |-> 0, wnum |-> 0, alert_dispatch |-> TRUE,
   send_alert |-> 0, empty_fragment_done |-> FALSE, wire |-> <<>>, gone |-> FALSE]

Fresh ==
  [buf |-> FALSE, left |-> <<>>, wpend_tot |-> 0, wpend_buf |-> <<>>,
   wpend_type |-> "app", wpend_ret |-> 0, wnum |-> 0, alert_dispatch |-> FALSE,
   send_alert |-> 0, empty_fragment_done |-> FALSE, wire |-> <<>>, gone |-> FALSE]

Init ==
  /\ mode \in Modes
  /\ s3 = Fresh
  /\ call = <<>> /\ repeat = <<>> /\ acked = 0
  /\ hello = "none" /\ digested = 0 /\ shut = FALSE
  /\ alerts = [asked |-> 0, crossed |-> {}, replaced |-> {}]

-----------------------------------------------------------------------------
(* What each function may leave behind and return: the transport decides    *)
(* how many of the units it is offered it takes.                            *)

Outcome(w, r) == [s3 |-> w, ret |-> r]

\* Mutant: any type may finish the record under way.
BadRetry_AnyType(w, t, b, n) ==
  w.wpend_tot > n \/ (w.wpend_buf # b /\ "moving" \notin mode)

BadRetry(w, t, b, n) ==
  \/ w.wpend_tot > n
  \/ w.wpend_buf # b /\ "moving" \notin mode
  \/ w.wpend_type # t

\* BIO_write takes k units; an empty buffer is released.
Taken(w, k) ==
  [w EXCEPT !.wire = @ \o SubSeq(w.left, 1, k), !.left = SubSeq(@, k + 1, Len(@)),
            !.buf = k < Len(w.left) \/ "release" \notin mode]

ssl3_write_pending(w, t, b, n) ==
  IF BadRetry(w, t, b, n)
  THEN {Outcome(w, -1)}
  ELSE {Outcome(Taken(w, k), IF k = Len(w.left) THEN w.wpend_ret ELSE -1) : k \in 0 .. Len(w.left)}

\* The empty fragment put before application data, on its way in the same buffer.
Prefix(w, t, a) ==
  IF t = "app" /\ "empty" \in mode /\ ~w.empty_fragment_done
  THEN Units(Record(t, a, a - 1)) ELSE <<>>

\* A record of bytes a .. a+n-1 is built and written.  Without a buffer there
\* is nowhere to build it, and the process is gone.
Built(w, t, b, a, n) ==
  IF n = 0 THEN {Outcome(w, 0)}
  ELSE IF ~w.buf THEN {Outcome([w EXCEPT !.gone = TRUE], -1)}
  ELSE ssl3_write_pending(
         [w EXCEPT !.left = Prefix(w, t, a) \o Units(Record(t, a, a + n - 1)),
            !.wpend_tot = n, !.wpend_buf = b, !.wpend_type = t, !.wpend_ret = n,
            !.empty_fragment_done = TRUE],
         t, b, n)

\* do_ssl3_write for an alert: two bytes that are one here.
WriteAlert(w) ==
  IF w.left # <<>>
  THEN ssl3_write_pending([w EXCEPT !.buf = TRUE], "alert", <<"alert", 0>>, 1)
  ELSE Built([w EXCEPT !.buf = TRUE], "alert", <<"alert", 0>>, w.send_alert, 1)

\* Mutant: the alert is not marked as unsent again.
ssl3_dispatch_alert_Once(w) == WriteAlert([w EXCEPT !.alert_dispatch = FALSE])

ssl3_dispatch_alert(w) ==
  {[o EXCEPT !.s3.alert_dispatch = o.ret <= 0] : o \in WriteAlert([w EXCEPT !.alert_dispatch = FALSE])}

do_ssl3_write(w, t, b, a, n) ==
  LET v == [w EXCEPT !.buf = TRUE] IN
  IF v.left # <<>> THEN ssl3_write_pending(v, t, b, n)
  ELSE IF v.alert_dispatch
  THEN UNION {IF o.ret <= 0 THEN {o} ELSE Built(o.s3, t, b, a, n) : o \in ssl3_dispatch_alert(v)}
  ELSE Built(v, t, b, a, n)

-----------------------------------------------------------------------------
(* Calls of the application and of the reading side.                        *)

Idle == call = <<>> /\ ~s3.gone

\* ssl3_write_bytes begins with the progress an earlier attempt has left in wnum.
Frame(t, b, base, len, tot) == [type |-> t, buf |-> b, base |-> base, len |-> len, tot |-> tot]

Message == Frame("handshake", "init_buf", digested, IF "long" \in mode THEN HelloLength ELSE 1, 0)

\* What SSL_write does with a handshake first, and with the bytes.
Begin(b, len) ==
  LET f == Frame("app", b, acked, len, s3.wnum) IN
  CASE hello = "none" -> <<f>>
    [] hello = "write" -> <<Message, f>>
    [] hello = "read" -> <<>>
Repeats(b, len) ==
  repeat # <<>> => len >= repeat[1].len /\ (b = repeat[1].buf \/ "moving" \in mode)

\* Mutant: wnum is not reset.
SSL_write_Keeps(b, len) ==
  /\ Idle /\ ~shut /\ (hello = "write" => "through" \in mode)
  /\ len > 0 /\ acked + len <= MaxData /\ Repeats(b, len)
  /\ repeat' = <<[buf |-> b, len |-> len]>> /\ call' = Begin(b, len)
  /\ UNCHANGED <<mode, s3, acked, hello, digested, shut, alerts>>

SSL_write(b, len) ==
  /\ Idle /\ ~shut /\ (hello = "write" => "through" \in mode)
  /\ len > 0 /\ acked + len <= MaxData /\ Repeats(b, len)
  /\ s3' = [s3 EXCEPT !.wnum = 0]
  /\ repeat' = <<[buf |-> b, len |-> len]>> /\ call' = Begin(b, len)
  /\ UNCHANGED <<mode, acked, hello, digested, shut, alerts>>

\* SSL_read or SSL_do_handshake go on with the handshake.
handshake_func ==
  /\ Idle /\ hello = "write"
  /\ s3' = [s3 EXCEPT !.wnum = 0]
  /\ call' = <<[Message EXCEPT !.tot = s3.wnum]>>
  /\ UNCHANGED <<mode, repeat, acked, hello, digested, shut, alerts>>

\* Mutant: a write that fails does not remember how far it came.
GivesUp_Forgets(f, w) ==
  /\ s3' = w /\ call' = <<>>
  /\ UNCHANGED <<repeat, acked, hello, digested>>

\* It returns without having written everything.
GivesUp(f, w) ==
  /\ s3' = [w EXCEPT !.wnum = f.tot] /\ call' = <<>>
  /\ UNCHANGED <<repeat, acked, hello, digested>>

\* Mutant: the next write is not told to begin with an empty fragment.
Returns_KeepsDone(f, w, ret) ==
  /\ s3' = w
  /\ IF f.type = "app"
     THEN /\ call' = <<>> /\ repeat' = <<>> /\ acked' = acked + ret
          /\ UNCHANGED <<hello, digested>>
     ELSE /\ call' = <<>> /\ hello' = "read"
          /\ digested' = digested + ret
          /\ UNCHANGED <<repeat, acked>>

\* It returns ret; ssl3_do_write digests a message that is out, and if the
\* answer is there the SSL_write that came to it goes on.
Returns(f, w, ret) ==
  /\ s3' = [w EXCEPT !.empty_fragment_done = FALSE]
  /\ IF f.type = "app"
     THEN /\ call' = <<>> /\ repeat' = <<>> /\ acked' = acked + ret
          /\ UNCHANGED <<hello, digested>>
     ELSE /\ \/ call' = <<>> /\ hello' = "read"
             \/ call' = Tail(call) /\ hello' = "none"
          /\ digested' = digested + ret
          /\ UNCHANGED <<repeat, acked>>

\* The bytes of the next record; what is left is an unsigned difference.
Fragment(f) == IF f.tot > f.len THEN MaxFragment ELSE Min({f.len - f.tot, MaxFragment})
Whole(f, i) == f.tot + i = f.len \/ (f.type = "app" /\ "partial" \in mode)

\* One round of its loop: the next record, or the rest of the one under way.
ssl3_write_bytes ==
  /\ call # <<>> /\ ~s3.gone
  /\ LET f == call[1] IN
     \E o \in do_ssl3_write(s3, f.type, <<f.buf, f.tot>>, f.base + f.tot + 1, Fragment(f)) :
       \/ o.ret <= 0 /\ GivesUp(f, o.s3)
       \/ o.ret > 0 /\ Whole(f, o.ret) /\ Returns(f, o.s3, f.tot + o.ret)
       \/ /\ o.ret > 0 /\ ~Whole(f, o.ret)
          /\ s3' = o.s3 /\ call' = [call EXCEPT ![1].tot = @ + o.ret]
          /\ UNCHANGED <<repeat, acked, hello, digested>>
  /\ UNCHANGED <<mode, shut, alerts>>

\* The alert replaces one still waiting, and is sent unless a record is under way.
ssl3_send_alert ==
  LET a == alerts.asked + 1
      w == [s3 EXCEPT !.alert_dispatch = TRUE, !.send_alert = a] IN
  /\ alerts' = [asked |-> a,
                crossed |-> IF s3.left # <<>> /\ s3.wpend_type = "alert"
                            THEN alerts.crossed \cup {a} ELSE alerts.crossed,
                replaced |-> IF s3.alert_dispatch
                             THEN alerts.replaced \cup {s3.send_alert} ELSE alerts.replaced]
  /\ IF s3.left = <<>>
     THEN \E o \in ssl3_dispatch_alert(w) : s3' = o.s3
     ELSE s3' = w

\* SSL_read on a server refuses a ClientHello with no_renegotiation.
refuse_renegotiation ==
  /\ Idle /\ "server" \in mode /\ hello = "none"
  /\ alerts.asked < MaxAlerts
  /\ ssl3_send_alert
  /\ UNCHANGED <<mode, call, repeat, acked, hello, digested, shut>>

SSL_shutdown ==
  /\ Idle /\ hello = "none"
  /\ \/ /\ ~shut /\ shut' = TRUE
        /\ ssl3_send_alert
     \/ /\ shut /\ s3.alert_dispatch
        /\ \E o \in ssl3_dispatch_alert(s3) : s3' = o.s3
        /\ UNCHANGED <<shut, alerts>>
  /\ UNCHANGED <<mode, call, repeat, acked, hello, digested>>

\* A client waits until no record is under way; a server answers a ClientHello
\* at once, but not after its close_notify.
renegotiate ==
  /\ Idle /\ hello = "none" /\ digested < MaxDigested
  /\ IF "server" \in mode THEN ~shut ELSE s3.left = <<>>
  /\ hello' = "write"
  /\ UNCHANGED <<mode, s3, call, repeat, acked, digested, shut, alerts>>

\* The peer's answer arrives and the handshake is over.
handshake_done ==
  /\ Idle /\ hello = "read" /\ hello' = "none"
  /\ UNCHANGED <<mode, s3, call, repeat, acked, digested, shut, alerts>>

Application == \E b \in {"buf", "moved"}, len \in 1 .. MaxData : SSL_write(b, len)
Next ==
  \/ Application \/ handshake_func \/ ssl3_write_bytes \/ refuse_renegotiation
  \/ SSL_shutdown \/ renegotiate \/ handshake_done

Spec == Init /\ [][Next]_vars

\* The application repeats the call it was told to repeat, handshakes are
\* answered, and a transport that is asked again and again takes something.
Repeated == repeat # <<>> /\ \E b \in {"buf", "moved"} : SSL_write(b, repeat[1].len)
Progress == ssl3_write_bytes /\ (s3'.wire # s3.wire \/ call' # <<>> \/ repeat' = <<>>)
FairSpec ==
  /\ Spec /\ WF_vars(ssl3_write_bytes) /\ SF_vars(Progress)
  /\ SF_vars(Repeated) /\ WF_vars(handshake_func) /\ WF_vars(handshake_done)

-----------------------------------------------------------------------------
(* Properties.                                                             *)

Types == {"app", "handshake", "alert"}
Sent == s3.wire \o s3.left

TypeOK ==
  /\ mode \in Modes /\ hello \in {"none", "write", "read"}
  /\ {s3.buf, s3.alert_dispatch, s3.empty_fragment_done, s3.gone, shut} \subseteq BOOLEAN
  /\ \A k \in DOMAIN Sent :
       /\ Sent[k].rec.type \in Types
       /\ {Sent[k].rec.from, Sent[k].rec.to, Sent[k].i} \subseteq Nat
  /\ {s3.wpend_tot, s3.wpend_ret, s3.wnum, s3.send_alert, acked, digested, alerts.asked}
       \subseteq Nat
  /\ s3.wpend_type \in Types
  /\ Len(call) <= 2 /\ Len(repeat) <= 1
  /\ \A k \in DOMAIN call : call[k].type \in Types /\ call[k].tot \in Nat
  /\ alerts.crossed \cup alerts.replaced \subseteq 1 .. alerts.asked

\* What has been put out reads as whole records: a header, then each byte it
\* announces, then the next header.  Nothing gets between the parts of a record
\* the transport takes in several calls, and no record goes on past the bytes
\* its writer was given.
Given == [app |-> acked + IF repeat = <<>> THEN 0 ELSE repeat[1].len,
          handshake |-> digested + IF hello = "write" THEN Message.len ELSE 0,
          alert |-> alerts.asked]
Framing ==
  \A k \in DOMAIN Sent :
    LET u == Sent[k] IN
    /\ u.rec.to <= Given[u.rec.type]
    /\ u.i > 0 => k > 1 /\ Sent[k - 1] = [u EXCEPT !.i = @ - 1]
    /\ u.i < u.rec.to - u.rec.from + 1 =>
         k < Len(Sent) /\ Sent[k + 1] = [u EXCEPT !.i = @ + 1]

\* An alert that was asked for is out, on its way or still marked as waiting,
\* but for one asked for while another was half written, or replaced while it
\* waited: finishing a half written alert clears the mark of the newer one.
AlertKept ==
  \A a \in 1 .. alerts.asked \ (alerts.crossed \cup alerts.replaced) :
    \/ \E k \in DOMAIN Sent : Sent[k].rec.type = "alert" /\ Sent[k].rec.from = a
    \/ s3.alert_dispatch /\ s3.send_alert = a

\* The record with the first byte of what SSL_write reports follows an empty
\* fragment, or an alert: sending an alert counts as having sent one.
EmptyFirst ==
  [][\A k \in DOMAIN s3'.wire :
       LET r == s3'.wire[k].rec IN
       "empty" \in mode /\ acked' # acked /\ r.type = "app" /\ r.from = acked + 1
         /\ r.to >= r.from /\ s3'.wire[k].i = 0
       => /\ k > 1
          /\ LET p == s3'.wire[k - 1].rec IN p.type = "alert" \/ (p.type = "app" /\ p.to < p.from)]_vars

\* Whoever repeats the SSL_write it was told to repeat gets it done, unless the
\* record under way is another's, which only that one can finish.
Blocked ==
  s3.left # <<>> /\ s3.wpend_type # IF hello = "write" THEN "handshake" ELSE "app"
WriteCompletes == repeat # <<>> ~> (repeat = <<>> \/ shut \/ Blocked \/ s3.gone)

\* A record is only ever built in a buffer.
BufferHeld == ~s3.gone

=============================================================================
