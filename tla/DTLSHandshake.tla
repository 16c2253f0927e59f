--------------------------- MODULE DTLSHandshake ----------------------------
(***************************************************************************)
(* The DTLS handshake, ssl/d1_both.c, ssl/d1_clnt.c, ssl/d1_srvr.c and the *)
(* parts of ssl/d1_pkt.c and ssl/d1_lib.c that it needs, over a transport  *)
(* that loses and reorders datagrams: messages with sequence numbers, cut  *)
(* in fragments, put together and buffered out of order; flights kept and  *)
(* sent again when a timer expires; epochs and the ChangeCipherSpec.       *)
(*                                                                         *)
(* Every record is a datagram of its own.  A message is whole or cut in    *)
(* two halves.  The record layer drops repetitions (see DTLSRecord).       *)
(***************************************************************************)
EXTENDS Integers, Sequences, SequencesExt, FiniteSets, FiniteSetsExt, Bags

CONSTANTS
  Settings,    \* the handshakes to consider
  AlertCount,  \* DTLS1_TMO_ALERT_COUNT, timeouts in a row that are answered
  Window       \* how far ahead of the next message one is buffered

\* hit: a session is resumed; cookie: the server asks for a cookie; ske: there is
\* a ServerKeyExchange; auth: a client certificate; ticket: a NewSessionTicket.
\* long: messages longer than a datagram; split: those that at first meet a
\* datagram others have begun to fill; aligned: those whose cut is at a multiple
\* of eight bytes, beyond the first eight, or leaves eight or fewer of a number
\* of bytes divisible by eight.  Bounds: losses, the datagrams lost; early, the
\* timers that expire while something is under way.
ASSUME ConstantAssumption ==
  /\ AlertCount \in Nat /\ Window \in Nat \ {0}
  /\ \A c \in Settings :
       /\ {c.hit, c.cookie, c.ske, c.auth, c.ticket} \subseteq BOOLEAN
       /\ c.losses \in Nat /\ c.early \in Nat
       /\ c.split \cap c.long = {}

VARIABLES
  conf,    \* the setting of this connection
  ssl,     \* the two ends
  wire,    \* the bag of records under way to each end
  losses,  \* datagrams lost so far
  early    \* timers that expired early so far

vars == <<conf, ssl, wire, losses, early>>

End == {"client", "server"}
Peer(e) == IF e = "client" THEN "server" ELSE "client"

-----------------------------------------------------------------------------
(* The two machines: the messages each end sends and gets, and what each   *)
(* case does with the timer.                                               *)

Send(m) == [do |-> "send", msg |-> m, timer |-> "start"]
Get(m) == [do |-> "get", msg |-> m, timer |-> "stop"]
Keep(i) == [i EXCEPT !.timer = "keep"]
If(c, s) == IF c THEN s ELSE <<>>

dtls1_connect(c) ==
  <<Send("CH")>> \o If(c.cookie, <<Get("HVR"), Send("CH")>>) \o <<Get("SH")>>
  \o IF c.hit
     THEN <<Get("FIN"), Send("CCS"), Send("FIN")>>
     ELSE <<Get("CERT")>> \o If(c.ske, <<Keep(Get("SKE"))>>) \o If(c.auth, <<Keep(Get("CR"))>>)
          \o <<Keep(Get("SHD"))>> \o If(c.auth, <<Send("CCERT")>>) \o <<Send("CKE")>>
          \o If(c.auth, <<Send("CV")>>) \o <<Send("CCS"), Send("FIN")>>
          \o If(c.ticket, <<Keep(Get("NST"))>>) \o <<Get("FIN")>>

dtls1_accept(c) ==
  <<Get("CH")>> \o If(c.cookie, <<Send("HVR"), Get("CH")>>) \o <<Send("SH")>>
  \o IF c.hit
     THEN <<Keep(Send("CCS")), Keep(Send("FIN")), Get("FIN")>>
     ELSE <<Send("CERT")>> \o If(c.ske, <<Send("SKE")>>) \o If(c.auth, <<Send("CR")>>)
          \o <<Send("SHD")>> \o If(c.auth, <<Get("CCERT")>>) \o <<Get("CKE")>>
          \o If(c.auth, <<Get("CV")>>) \o <<Get("FIN")>> \o If(c.ticket, <<Keep(Send("NST"))>>)
          \o <<Keep(Send("CCS")), Keep(Send("FIN"))>>

Script(e) == IF e = "client" THEN dtls1_connect(conf) ELSE dtls1_accept(conf)
Done(e) == ssl[e].at > Len(Script(e))
Case(e) == Script(e)[ssl[e].at]

\* The cases that set change_cipher_spec_ok before they read: SR_CERT_VRFY and
\* the two that get a Finished.
change_cipher_spec_ok(e) == ~Done(e) /\ Case(e).msg \in {"CV", "FIN"}

\* An end reads, for its handshake or for SSL_read after it.
Reads(e) == ~ssl[e].failed /\ (~Done(e) => Case(e).do = "get")

dtls1_new ==
  [at |-> 1, w_epoch |-> 0, r_epoch |-> 0, read_seq |-> 0, write_seq |-> 0,
   change_cipher_spec |-> FALSE, peer_finish_md |-> <<>>, timer |-> FALSE, num_alerts |-> 0,
   sent |-> <<>>, buffered |-> {}, unprocessed |-> <<>>, finish_mac |-> <<>>,
   said |-> <<>>, told |-> <<>>, failed |-> FALSE]

Init ==
  /\ conf \in Settings
  /\ ssl = [e \in End |-> dtls1_new]
  /\ wire = [e \in End |-> EmptyBag]
  /\ losses = 0 /\ early = 0

\* Done with a handshake, the numbers start again.
Advance(e, s) ==
  LET t == [s EXCEPT !.at = @ + 1] IN
  IF t.at > Len(Script(e)) THEN [t EXCEPT !.read_seq = 0, !.write_seq = 0] ELSE t

-----------------------------------------------------------------------------
(* Sending.                                                                *)

Whole == {1, 2}

\* The datagrams a record goes out in.
Halves(r) == {[r EXCEPT !.part = {1}], [r EXCEPT !.part = {2}]}
Fragments(r) == IF r.msg \in conf.long THEN Halves(r) ELSE {r}
FirstFragments(r) == {Fragments(r)} \cup IF r.msg \in conf.split THEN {Halves(r)} ELSE {}

Out(e, rs) == [wire EXCEPT ![Peer(e)] = @ (+) SetToBag(rs)]

\* Mutant: a HelloVerifyRequest does not start the Finished MAC afresh.
Digested_Keeps(mac, m) ==
  CASE m = "CCS" -> mac [] m = "CH" -> <<m>> [] OTHER -> Append(mac, m)

\* Every ClientHello starts the Finished MAC afresh, as does a HelloVerifyRequest.
Digested(mac, m) ==
  CASE m = "CCS" -> mac [] m = "CH" -> <<m>> [] m = "HVR" -> <<>> [] OTHER -> Append(mac, m)

\* Mutant: a ChangeCipherSpec has the index of the Finished after it.
dtls1_buffer_message_Same(s, r) ==
  IF \E k \in DOMAIN s.sent : s.sent[k].seq = r.seq
  THEN s ELSE [s EXCEPT !.sent = Append(@, r)]

dtls1_buffer_message(s, r) == [s EXCEPT !.sent = Append(@, r)]

send_message(e) ==
  /\ ~ssl[e].failed /\ ~Done(e) /\ Case(e).do = "send"
  /\ LET s == ssl[e]
         m == Case(e).msg
         r == [msg |-> m, epoch |-> s.w_epoch, seq |-> s.write_seq, part |-> Whole,
               md |-> IF m = "FIN" THEN s.finish_mac ELSE <<>>]
         t == [dtls1_buffer_message(s, r) EXCEPT
                 !.timer = @ \/ Case(e).timer = "start",
                 !.w_epoch = IF m = "CCS" THEN @ + 1 ELSE @,
                 !.write_seq = IF m = "CCS" THEN @ ELSE @ + 1,
                 !.said = IF m = "CCS" THEN @ ELSE Append(@, m),
                 !.finish_mac = Digested(@, m)] IN
     /\ \E rs \in FirstFragments(r) : wire' = Out(e, rs)
     /\ ssl' = [ssl EXCEPT ![e] = Advance(e, t)]
  /\ UNCHANGED <<conf, losses, early>>

\* Every message kept goes out again as it was first sent: same number, epoch, keys.
dtls1_retransmit_buffered_messages(s) ==
  UNION {Fragments(s.sent[k]) : k \in DOMAIN s.sent}

-----------------------------------------------------------------------------
(* Reading.  Messages waiting in the queue are records, put together so far.*)

\* A message is taken: what was sent before need not be sent again.
dtls1_get_message(e, s, r) ==
  LET i == Case(e)
      fine == r.msg = i.msg /\ (r.msg = "FIN" => s.change_cipher_spec /\ r.md = s.peer_finish_md)
      t == [s EXCEPT !.read_seq = @ + 1, !.sent = <<>>, !.told = Append(@, r.msg),
                     !.finish_mac = Append(@, r.msg), !.failed = ~fine] IN
  IF ~fine THEN t
  ELSE Advance(e, [t EXCEPT !.timer = @ /\ i.timer = "keep",
                            !.change_cipher_spec = @ /\ r.msg # "FIN"])

\* Mutant: the queue's first message, if complete, whether its turn has come or not.
Ready_Any(e) ==
  {h \in ssl[e].buffered :
     ~Done(e) /\ h.part = Whole /\ \A g \in ssl[e].buffered : h.seq <= g.seq}

\* The queue's first message, if it is complete, and the next one.
Ready(e) ==
  {h \in ssl[e].buffered :
     /\ ~Done(e) /\ h.part = Whole /\ h.seq = ssl[e].read_seq
     /\ \A g \in ssl[e].buffered : h.seq <= g.seq}

dtls1_retrieve_buffered_fragment(e) ==
  /\ Reads(e)
  /\ \E h \in Ready(e) :
       ssl' = [ssl EXCEPT ![e] = dtls1_get_message(e, [ssl[e] EXCEPT !.buffered = @ \ {h}], h)]
  /\ UNCHANGED <<conf, wire, losses, early>>

\* RSMBLY_BITMASK_MARK: bitmask_end_values[0] = 0x00, so a piece of more than
\* eight bytes that ends at a multiple of eight does not mark its last bits, and
\* the last byte of such a message is complete only unmarked.
Covered(r) == [r EXCEPT !.part = IF r.msg \in conf.aligned THEN @ \ {1} ELSE @]

\* A piece is put with the others of its message.
Joined(s, r) ==
  LET there == {h \in s.buffered : h.seq = r.seq} IN
  [s EXCEPT !.buffered =
     IF there = {} THEN @ \cup {r}
     ELSE (@ \ there) \cup {[h EXCEPT !.part = @ \cup r.part] : h \in there}]

dtls1_reassemble_fragment(s, r) == Joined(s, Covered(r))

\* A message that is not the next one is dropped or kept for later.
dtls1_process_out_of_seq_message(s, r) ==
  LET there == r.part = Whole /\ \E h \in s.buffered : h.seq = r.seq IN
  IF \/ r.seq <= s.read_seq \/ r.seq > s.read_seq + Window \/ there
     \/ s.read_seq = 0 /\ r.msg = "FIN"
  THEN s
  ELSE IF r.part # Whole THEN dtls1_reassemble_fragment(s, r)
  ELSE [s EXCEPT !.buffered = @ \cup {r}]

dtls1_get_message_fragment(e, s, r) ==
  CASE r.seq # s.read_seq -> dtls1_process_out_of_seq_message(s, r)
    [] r.seq = s.read_seq /\ r.part # Whole -> dtls1_reassemble_fragment(s, r)
    [] OTHER -> dtls1_get_message(e, s, r)

ssl3_do_change_cipher_spec(s) ==
  [s EXCEPT !.change_cipher_spec = TRUE, !.r_epoch = @ + 1, !.peer_finish_md = s.finish_mac]

\* What dtls1_read_bytes makes of a record of the epoch being read.
dtls1_read_bytes(e, s, r) ==
  CASE r.msg = "CCS" -> IF change_cipher_spec_ok(e) THEN ssl3_do_change_cipher_spec(s) ELSE s
    [] r.msg # "CCS" /\ Done(e) -> s
    [] OTHER -> dtls1_get_message_fragment(e, s, r)

\* After the handshake a Finished that comes again is answered.
Answer(e, r) ==
  IF Done(e) /\ r.msg = "FIN" THEN dtls1_retransmit_buffered_messages(ssl[e]) ELSE {}

\* Records of the next epoch that came early, read before any other once it has begun.
Early(e) == ssl[e].unprocessed # <<>> /\ ssl[e].unprocessed[1].epoch = ssl[e].r_epoch

dtls1_get_processed_record(e) ==
  /\ Reads(e) /\ Ready(e) = {} /\ Early(e)
  /\ LET s == ssl[e] r == s.unprocessed[1] IN
     /\ ssl' = [ssl EXCEPT ![e] = dtls1_read_bytes(e, [s EXCEPT !.unprocessed = Tail(@)], r)]
     /\ wire' = Out(e, Answer(e, r))
  /\ UNCHANGED <<conf, losses, early>>

Current(s, r) == r.epoch = s.r_epoch

\* A record from the wire: of this epoch, of the next, or of no use.
dtls1_get_record(e) ==
  /\ Reads(e) /\ Ready(e) = {} /\ ~Early(e)
  /\ \E r \in BagToSet(wire[e]) :
       LET s == ssl[e]
           next == r.epoch = s.r_epoch + 1 /\ r.msg # "CCS" /\ ~Done(e) IN
       /\ ssl' = [ssl EXCEPT ![e] =
            IF Current(s, r) THEN dtls1_read_bytes(e, [s EXCEPT !.num_alerts = 0], r)
            ELSE IF next THEN [s EXCEPT !.unprocessed = Append(@, r)] ELSE s]
       /\ wire' = [Out(e, IF Current(s, r) THEN Answer(e, r) ELSE {}) EXCEPT ![e] = @ (-) SetToBag({r})]
  /\ UNCHANGED <<conf, losses, early>>

-----------------------------------------------------------------------------
(* The timer and the transport.                                            *)

\* Nothing is under way and nobody has anything to do.
Quiet ==
  \A e \in End :
    /\ wire[e] = EmptyBag
    /\ Reads(e) => Ready(e) = {} /\ ~Early(e)
    /\ Reads(e) \/ ssl[e].failed

dtls1_handle_timeout(e) ==
  /\ Reads(e) /\ Ready(e) = {} /\ ssl[e].timer
  /\ \/ Quiet /\ UNCHANGED early
     \/ ~Quiet /\ early < conf.early /\ early' = early + 1
  /\ ssl' = [ssl EXCEPT ![e].num_alerts = Min({@ + 1, AlertCount + 1})]
  /\ wire' = IF ssl[e].num_alerts < AlertCount
             THEN Out(e, dtls1_retransmit_buffered_messages(ssl[e])) ELSE wire
  /\ UNCHANGED <<conf, losses>>

lose(e) ==
  /\ losses < conf.losses /\ losses' = losses + 1
  /\ \E r \in BagToSet(wire[e]) : wire' = [wire EXCEPT ![e] = @ (-) SetToBag({r})]
  /\ UNCHANGED <<conf, ssl, early>>

Library(e) ==
  \/ send_message(e) \/ dtls1_retrieve_buffered_fragment(e)
  \/ dtls1_get_processed_record(e) \/ dtls1_get_record(e)

Next == \E e \in End : Library(e) \/ dtls1_handle_timeout(e) \/ lose(e)

Spec == Init /\ [][Next]_vars

\* Both applications keep calling the library, and its timer runs.
FairSpec ==
  Spec /\ \A e \in End : WF_vars(Library(e)) /\ WF_vars(dtls1_handle_timeout(e))

-----------------------------------------------------------------------------
(* Properties.                                                             *)

\* No message is refused and no Finished fails to match.
FinishedMatch == \A e \in End : ~ssl[e].failed

\* Both ends get to the end of the handshake, whatever is lost or overtaken,
\* except with a NewSessionTicket, a client certificate, a message that is always
\* cut where it cannot be put together again, or halves of one message that were
\* kept and a later message that is always cut.
Completes ==
  ~conf.ticket /\ ~conf.auth /\ conf.long \cap conf.aligned = {}
    /\ (conf.split = {} \/ conf.long = {}) => <>(\A e \in End : Done(e))

Messages ==
  {"CH", "HVR", "SH", "CERT", "SKE", "CR", "SHD", "CCERT", "CKE", "CV", "NST", "FIN"}

\* The messages are delivered in order, each once.
Delivery == INSTANCE MessageDelivery WITH
              Message <- Messages, said <- [e \in End |-> ssl[e].said], told <- [e \in End |-> ssl[e].told]
ImplementsDelivery == Delivery!Spec
=============================================================================
