------------------------------ MODULE Handshake ------------------------------
(***************************************************************************)
(* One TLS 1.0 connection: ssl3_connect and ssl3_accept with the record    *)
(* reader ssl3_read_bytes under them, driven by two applications that call *)
(* SSL_connect/SSL_accept, SSL_read, SSL_write, SSL_renegotiate and        *)
(* SSL_shutdown.  The transport is a reliable byte stream in each          *)
(* direction; wire[e] holds the records on their way to e.  A handshake    *)
(* message is one record.  ssl[e] is the part of e's SSL and SSL3_STATE    *)
(* that the control flow reads.  The states are those of the source        *)
(* without the SSL3_ST_ prefix and the _A/_B suffix; "DONE" is the case    *)
(* SSL_ST_OK of the loop about to run, "OK" is SSL_ST_OK at rest.          *)
(***************************************************************************)
EXTENDS Naturals, Sequences, FiniteSets

CONSTANTS
  Configs,     \* how the two ends may be set up: a set of Config records
  MaxData,     \* application records each end writes
  MaxRenego    \* renegotiations each application asks for

C == "client"
S == "server"
Endpoint == {C, S}
Peer(e) == IF e = C THEN S ELSE C

\* "renegotiate" and "shutdown" stand for the calls made outside a handshake,
\* the others for calls made inside one; "drive_by_write" for a handshake that
\* SSL_write or SSL_do_handshake drives while data may still come in.
CallNames == {"renegotiate", "shutdown", "renegotiate_early", "shutdown_in_init",
              "shutdown_in_window", "renegotiate_in_window", "drive_by_write"}

\* offer: what the client has to resume (none, a session id, an id the server
\* has dropped, a ticket, a ticket under an old key that the server's key
\* callback renews, a ticket it rejects).  auth: whether the server asks for a
\* certificate and what the client has.  cut: SSL_MODE_HANDSHAKE_CUTTHROUGH.
\* calls: what the applications call besides connect, read and write.
Config == [offer : {"none", "id", "lost", "ticket", "renew", "stale"},
           kx : {"rsa", "dhe", "anon"}, auth : {"no", "empty", "cert"},
           tickets : BOOLEAN, status : BOOLEAN, cut : BOOLEAN,
           calls : SUBSET (Endpoint \X CallNames)]

ASSUME ConfigAssumption ==
  /\ \A c \in Configs :
       /\ c \in Config
       /\ c.offer \in {"ticket", "renew", "stale"} => c.tickets
  /\ MaxData \in Nat /\ MaxRenego \in Nat

VARIABLES
  ssl,    \* the SSL object of each end
  wire,   \* records on their way to each end
  out,    \* what each end's buffering BIO s->bbio holds
  conf,   \* the configuration, chosen once
  sent,   \* application records SSL_write has accepted
  got     \* application records SSL_read has returned

vars == <<ssl, wire, out, conf, sent, got>>

\* Optional values are sequences: <<>> is the absent one.  A key stands for the
\* keys derived from a master secret and two randoms, a master secret for the
\* handshake that made it.
None == <<>>

\* The fields after failed are not in the source: vkey is the read key when a
\* Finished was last verified, good counts the completed handshakes, shut says
\* that SSL_shutdown has returned 1.
Fresh == [state |-> "BEFORE", next |-> "OK", buffered |-> FALSE, hit |-> FALSE,
          ticket_expected |-> FALSE, cert_req |-> 0, new_session |-> 0,
          renegotiate |-> FALSE, total |-> 0, new_cipher |-> FALSE,
          sid |-> None, tick |-> None, master |-> None, peer |-> FALSE,
          cr |-> 0, sr |-> 0, rkey |-> None, wkey |-> None, key_block |-> None,
          mac |-> None, peer_md |-> None, prev |-> [e \in Endpoint |-> None],
          ccs |-> FALSE, shutdown |-> {}, failed |-> FALSE,
          vkey |-> None, good |-> 0, shut |-> FALSE]

\* The session the client brings; the server keeps its copy in its cache or in
\* the ticket.  Its master secret is of a handshake before this connection, one
\* without a client certificate.
OldMaster == <<0, 0>>
Offered(c) == IF c.offer = "none" THEN Fresh
              ELSE [Fresh EXCEPT !.sid = <<"old">>, !.master = OldMaster,
                      !.tick = IF c.offer \in {"ticket", "renew", "stale"}
                               THEN <<"old">> ELSE None]

Init ==
  /\ conf \in Configs
  /\ ssl = [e \in Endpoint |-> IF e = C THEN Offered(conf) ELSE Fresh]
  /\ wire = [e \in Endpoint |-> <<>>]
  /\ out = [e \in Endpoint |-> <<>>]
  /\ sent = [e \in Endpoint |-> 0]
  /\ got = [e \in Endpoint |-> 0]

-----------------------------------------------------------------------------
(* The states.                                                             *)

ClientReads == {"CR_SRVR_HELLO", "CR_CERT", "CR_CERT_STATUS", "CR_KEY_EXCH",
                "CR_CERT_REQ", "CR_SRVR_DONE", "CR_SESSION_TICKET", "CR_FINISHED"}
ServerReads == {"SR_CLNT_HELLO", "SR_CERT", "SR_KEY_EXCH", "SR_CERT_VRFY", "SR_FINISHED"}
Reads == ClientReads \cup ServerReads
ClientWrites == {"CW_CLNT_HELLO", "CW_CERT", "CW_KEY_EXCH", "CW_CERT_VRFY", "CW_CHANGE",
                 "CW_FINISHED", "CW_FLUSH", "CUTTHROUGH_COMPLETE"}
ServerWrites == {"ACCEPT", "SW_SRVR_HELLO", "SW_CERT", "SW_CERT_STATUS", "SW_KEY_EXCH",
                 "SW_CERT_REQ", "SW_SRVR_DONE", "SW_SESSION_TICKET", "SW_CHANGE",
                 "SW_FINISHED", "SW_FLUSH"}
Rest == {"BEFORE", "RENEGOTIATE", "DONE", "OK"}

\* A call that waits for input returns to the application, so the application
\* makes its next call in one of these states.
AtRest(e) == ssl[e].state \in Reads \cup {"OK", "BEFORE"} /\ ~ssl[e].failed

\* Mutant: cutthrough on a renegotiation too.
cutthrough_complete_Always(e) ==
  /\ e = C /\ conf.cut /\ ~ssl[e].hit
  /\ ssl[e].state \in {"CR_SESSION_TICKET", "CR_FINISHED"}

\* The client may write before it has the server's Finished.
cutthrough_complete(e) ==
  /\ e = C /\ conf.cut /\ ~ssl[e].hit /\ ssl[e].prev[S] = None
  /\ ssl[e].state \in {"CR_SESSION_TICKET", "CR_FINISHED"}
SSL_in_init(e) == ssl[e].state # "OK" /\ ~cutthrough_complete(e)

-----------------------------------------------------------------------------
(* Writing.  With the buffering BIO in place a record waits in it, unless  *)
(* the buffer fills up and is written out.                                 *)

Put(e, recs) ==
  \/ /\ ~ssl[e].buffered
     /\ wire' = [wire EXCEPT ![Peer(e)] = @ \o recs]
     /\ UNCHANGED out
  \/ /\ ssl[e].buffered
     /\ out' = [out EXCEPT ![e] = @ \o recs]
     /\ UNCHANGED wire
  \/ /\ ssl[e].buffered
     /\ wire' = [wire EXCEPT ![Peer(e)] = @ \o out[e] \o recs]
     /\ out' = [out EXCEPT ![e] = <<>>]

Flush(e) ==
  /\ wire' = [wire EXCEPT ![Peer(e)] = @ \o out[e]]
  /\ out' = [out EXCEPT ![e] = <<>>]

\* ssl_free_wbio_buffer and the BIO_reset of ssl_init_wbio_buffer drop what the
\* buffer holds.
DropBuffer(e) == out' = [out EXCEPT ![e] = <<>>] /\ UNCHANGED wire

Record(e, type, body) == [type |-> type, key |-> ssl[e].wkey, body |-> body]
Become(e, new) == ssl' = [ssl EXCEPT ![e] = new]

\* The transcript keeps of a message its name and its random, if it has one.
ssl3_finish_mac(s, m) == [s EXCEPT !.mac = Append(@, <<m.name, m.rnd>>)]
Plain(name) == [name |-> name, rnd |-> 0]

Send(e, new, m) ==
  /\ Become(e, ssl3_finish_mac(new, m))
  /\ Put(e, <<Record(e, "handshake", m)>>)
  /\ UNCHANGED <<conf, sent, got>>

\* A step of the state machine that neither reads nor writes.
Move(e, new) == Become(e, new) /\ UNCHANGED <<wire, out, conf, sent, got>>

-----------------------------------------------------------------------------
(* Reading.                                                                *)

Head1(e) == Head(wire[e])
Take(e) == wire' = [wire EXCEPT ![e] = Tail(@)]

\* The next record is of this type, opens under the read key and gets past the
\* first two checks of ssl3_read_bytes.
Arrives(e, type) ==
  /\ wire[e] # <<>> /\ Head1(e).type = type /\ Head1(e).key = ssl[e].rkey
  /\ "received" \notin ssl[e].shutdown
  /\ ssl[e].ccs => type = "handshake"

Message(e) == Head1(e).body
IsNext(e, name) == Arrives(e, "handshake") /\ Message(e).name = name

\* ssl3_get_message succeeds: the message is consumed and hashed.
Receive(e, new) ==
  /\ Become(e, ssl3_finish_mac(new, Message(e)))
  /\ Take(e)
  /\ UNCHANGED <<out, conf, sent, got>>

\* tls1_setup_key_block does nothing when there is a key block already.
setup_key_block(s) ==
  IF s.key_block = None
  THEN [s EXCEPT !.key_block = <<s.master, s.cr, s.sr>>] ELSE s

final_finish_mac(s, label) == <<label, s.master, s.mac>>

-----------------------------------------------------------------------------
(* The client: ssl3_connect.                                               *)

\* Cases SSL_ST_RENEGOTIATE and SSL_ST_BEFORE.
connect_start ==
  /\ ssl[C].state \in {"BEFORE", "RENEGOTIATE"}
  /\ Become(C, [ssl[C] EXCEPT !.state = "CW_CLNT_HELLO", !.mac = None, !.buffered = FALSE,
                  !.new_session = IF ssl[C].state = "RENEGOTIATE" THEN 1 ELSE @])
  /\ DropBuffer(C)
  /\ UNCHANGED <<conf, sent, got>>

\* The ClientHello offers a session only outside a renegotiation, and then
\* announces secure renegotiation by the SCSV instead of the extension.
ClientHello(s) ==
  [name |-> "ClientHello", rnd |-> s.cr,
   sid |-> IF s.new_session = 0 THEN s.sid ELSE None,
   ticket_ext |-> conf.tickets,
   tick |-> IF s.new_session = 0 /\ conf.tickets THEN s.tick ELSE None,
   scsv |-> s.new_session = 0,
   ri |-> s.prev[C]]

ssl3_client_hello ==
  /\ ssl[C].state = "CW_CLNT_HELLO"
  /\ LET s == [ssl[C] EXCEPT !.cr = @ + 1, !.shutdown = {}, !.state = "CR_SRVR_HELLO",
                 !.buffered = TRUE,
                 !.master = IF ssl[C].sid = None /\ ssl[C].tick = None THEN None ELSE @]
     IN Send(C, s, ClientHello(s))

\* Mutant: the ticket extension of the ServerHello is not noticed.
ssl3_get_server_hello_NoTicket ==
  /\ ssl[C].state = "CR_SRVR_HELLO"
  /\ IsNext(C, "ServerHello")
  /\ LET m == Message(C)
         hit == m.sid # None /\ m.sid = ssl[C].sid
         fresh == ~hit /\ ssl[C].sid # None
     IN /\ m.ri = ssl[C].prev
        /\ Receive(C, [ssl[C] EXCEPT
             !.state = IF hit THEN "CR_FINISHED" ELSE "CR_CERT",
             !.hit = hit, !.sid = m.sid, !.sr = m.rnd, !.new_cipher = TRUE,
             !.tick = IF fresh THEN None ELSE @,
             !.master = IF fresh THEN None ELSE @])

\* A miss makes a new session unless the current one has no id yet.
ssl3_get_server_hello ==
  /\ ssl[C].state = "CR_SRVR_HELLO"
  /\ IsNext(C, "ServerHello")
  /\ LET m == Message(C)
         hit == m.sid # None /\ m.sid = ssl[C].sid
         fresh == ~hit /\ ssl[C].sid # None
     IN /\ m.ri = ssl[C].prev
        /\ Receive(C, [ssl[C] EXCEPT
             !.state = IF hit THEN "CR_FINISHED" ELSE "CR_CERT",
             !.hit = hit, !.sid = m.sid, !.sr = m.rnd, !.new_cipher = TRUE,
             !.tick = IF fresh THEN None ELSE @,
             !.master = IF fresh THEN None ELSE @,
             !.ticket_expected = @ \/ m.ticket_ext])

\* Case CR_CERT of an anonymous cipher reads nothing.
skip_certificate ==
  /\ ssl[C].state = "CR_CERT" /\ conf.kx = "anon"
  /\ Move(C, [ssl[C] EXCEPT !.state = "CR_KEY_EXCH"])

ssl3_get_server_certificate ==
  /\ ssl[C].state = "CR_CERT" /\ conf.kx # "anon"
  /\ IsNext(C, "Certificate")
  /\ Receive(C, [ssl[C] EXCEPT
       !.state = IF conf.status THEN "CR_CERT_STATUS" ELSE "CR_KEY_EXCH"])

ssl3_get_cert_status ==
  /\ ssl[C].state = "CR_CERT_STATUS"
  /\ IsNext(C, "CertificateStatus")
  /\ Receive(C, [ssl[C] EXCEPT !.state = "CR_KEY_EXCH"])

\* Any other message is left for the next state (tmp.reuse_message).
ssl3_get_key_exchange ==
  /\ ssl[C].state = "CR_KEY_EXCH"
  /\ \/ /\ IsNext(C, "ServerKeyExchange")
        /\ Receive(C, [ssl[C] EXCEPT !.state = "CR_CERT_REQ"])
     \/ /\ Arrives(C, "handshake") /\ Message(C).name \notin {"ServerKeyExchange", "HelloRequest"}
        /\ Move(C, [ssl[C] EXCEPT !.state = "CR_CERT_REQ"])

ssl3_get_certificate_request ==
  /\ ssl[C].state = "CR_CERT_REQ"
  /\ \/ /\ IsNext(C, "CertificateRequest") /\ conf.kx # "anon"
        /\ Receive(C, [ssl[C] EXCEPT !.state = "CR_SRVR_DONE", !.cert_req = 1])
     \/ /\ IsNext(C, "ServerHelloDone")
        /\ Move(C, [ssl[C] EXCEPT !.state = "CR_SRVR_DONE", !.cert_req = 0])

ssl3_get_server_done ==
  /\ ssl[C].state = "CR_SRVR_DONE"
  /\ IsNext(C, "ServerHelloDone")
  /\ Receive(C, [ssl[C] EXCEPT
       !.state = IF ssl[C].cert_req # 0 THEN "CW_CERT" ELSE "CW_KEY_EXCH"])

\* Without a certificate an empty list is sent, and cert_req = 2 leaves out the
\* CertificateVerify.
ssl3_send_client_certificate ==
  /\ ssl[C].state = "CW_CERT"
  /\ Send(C, [ssl[C] EXCEPT !.state = "CW_KEY_EXCH",
                !.cert_req = IF conf.auth = "cert" THEN @ ELSE 2],
          [name |-> "Certificate", rnd |-> 0, empty |-> conf.auth # "cert"])

ssl3_send_client_key_exchange ==
  /\ ssl[C].state = "CW_KEY_EXCH"
  /\ Send(C, [ssl[C] EXCEPT
                !.state = IF ssl[C].cert_req = 1 THEN "CW_CERT_VRFY" ELSE "CW_CHANGE",
                !.ccs = IF ssl[C].cert_req = 1 THEN @ ELSE FALSE,
                !.master = <<ssl[C].cr, ssl[C].sr>>],
          Plain("ClientKeyExchange"))

ssl3_send_client_verify ==
  /\ ssl[C].state = "CW_CERT_VRFY"
  /\ Send(C, [ssl[C] EXCEPT !.state = "CW_CHANGE", !.ccs = FALSE],
          [name |-> "CertificateVerify", rnd |-> 0, signed |-> ssl[C].mac])

\* Case CW_FINISHED: where to go once the flight is out.
AfterFlight(s) ==
  IF s.hit THEN "DONE"
  ELSE IF conf.cut /\ s.prev[S] = None THEN "CUTTHROUGH_COMPLETE"
  ELSE IF s.ticket_expected THEN "CR_SESSION_TICKET" ELSE "CR_FINISHED"

client_finished ==
  /\ ssl[C].state = "CW_FINISHED"
  /\ LET md == final_finish_mac(ssl[C], C)
     IN Send(C, [ssl[C] EXCEPT !.state = "CW_FLUSH", !.next = AfterFlight(ssl[C]),
                   !.prev[C] = md],
             [name |-> "Finished", rnd |-> 0, md |-> md])

cutthrough ==
  /\ ssl[C].state = "CUTTHROUGH_COMPLETE"
  /\ Become(C, [ssl[C] EXCEPT !.buffered = FALSE,
       !.state = IF ssl[C].ticket_expected THEN "CR_SESSION_TICKET" ELSE "CR_FINISHED"])
  /\ DropBuffer(C)
  /\ UNCHANGED <<conf, sent, got>>

\* The client takes a hash of the ticket for its session id.
ssl3_get_new_session_ticket ==
  /\ ssl[C].state = "CR_SESSION_TICKET"
  /\ \/ /\ IsNext(C, "NewSessionTicket")
        /\ Receive(C, [ssl[C] EXCEPT !.state = "CR_FINISHED", !.tick = Message(C).tick,
                         !.sid = <<"hash", Message(C).tick>>])
     \/ /\ IsNext(C, "Finished")
        /\ Move(C, [ssl[C] EXCEPT !.state = "CR_FINISHED"])

-----------------------------------------------------------------------------
(* Both ends: ssl3_send_change_cipher_spec with the cases around it,       *)
(* ssl3_get_finished, the cases FLUSH and OK.                              *)

change_cipher_spec(e) ==
  /\ ssl[e].state = IF e = C THEN "CW_CHANGE" ELSE "SW_CHANGE"
  /\ LET s == setup_key_block(ssl[e])
     IN Become(e, [s EXCEPT !.state = IF e = C THEN "CW_FINISHED" ELSE "SW_FINISHED",
                     !.wkey = s.key_block])
  /\ Put(e, <<Record(e, "ccs", Plain("ChangeCipherSpec"))>>)
  /\ UNCHANGED <<conf, sent, got>>

flush(e) ==
  /\ ssl[e].state = IF e = C THEN "CW_FLUSH" ELSE "SW_FLUSH"
  /\ Become(e, [ssl[e] EXCEPT !.state = ssl[e].next])
  /\ Flush(e)
  /\ UNCHANGED <<conf, sent, got>>

AfterFinished(e) ==
  IF e = C THEN IF ssl[e].hit THEN "CW_CHANGE" ELSE "DONE"
  ELSE IF ssl[e].ticket_expected THEN "SW_SESSION_TICKET"
  ELSE IF ssl[e].hit THEN "DONE" ELSE "SW_CHANGE"

FinishedOk(e) == ssl[e].ccs /\ Message(e).md = ssl[e].peer_md

\* Mutant: the peer's Finished is not kept.
ssl3_get_finished_NoCopy(e) ==
  /\ ssl[e].state = IF e = C THEN "CR_FINISHED" ELSE "SR_FINISHED"
  /\ IsNext(e, "Finished") /\ FinishedOk(e)
  /\ Receive(e, [ssl[e] EXCEPT !.state = AfterFinished(e), !.ccs = FALSE,
                   !.vkey = ssl[e].rkey])

ssl3_get_finished(e) ==
  /\ ssl[e].state = IF e = C THEN "CR_FINISHED" ELSE "SR_FINISHED"
  /\ IsNext(e, "Finished") /\ FinishedOk(e)
  /\ Receive(e, [ssl[e] EXCEPT !.state = AfterFinished(e), !.ccs = FALSE,
                   !.prev[Peer(e)] = ssl[e].peer_md, !.vkey = ssl[e].rkey])

\* Mutant: ssl3_cleanup_key_block is not called.
handshake_done_KeyBlock(e) ==
  /\ ssl[e].state = "DONE"
  /\ Become(e, [ssl[e] EXCEPT !.state = "OK", !.buffered = FALSE,
       !.new_session = IF e = S /\ ssl[e].new_session # 2 THEN @ ELSE 0,
       !.good = IF e = S /\ ssl[e].new_session # 2 THEN @ ELSE @ + 1])
  /\ DropBuffer(e)
  /\ UNCHANGED <<conf, sent, got>>

\* Mutant: ssl_free_wbio_buffer is not called.
handshake_done_Buffered(e) ==
  /\ ssl[e].state = "DONE"
  /\ Become(e, [ssl[e] EXCEPT !.state = "OK", !.key_block = None,
       !.new_session = IF e = S /\ ssl[e].new_session # 2 THEN @ ELSE 0,
       !.good = IF e = S /\ ssl[e].new_session # 2 THEN @ ELSE @ + 1])
  /\ UNCHANGED <<wire, out, conf, sent, got>>

\* A server that has only sent a HelloRequest has completed nothing.
handshake_done(e) ==
  /\ ssl[e].state = "DONE"
  /\ Become(e, [ssl[e] EXCEPT !.state = "OK", !.key_block = None, !.buffered = FALSE,
       !.new_session = IF e = S /\ ssl[e].new_session # 2 THEN @ ELSE 0,
       !.good = IF e = S /\ ssl[e].new_session # 2 THEN @ ELSE @ + 1])
  /\ DropBuffer(e)
  /\ UNCHANGED <<conf, sent, got>>

-----------------------------------------------------------------------------
(* The server: ssl3_accept.                                                *)

accept_start ==
  /\ ssl[S].state \in {"BEFORE", "ACCEPT"}
  /\ Become(S, [ssl[S] EXCEPT !.state = "SR_CLNT_HELLO", !.mac = None, !.buffered = TRUE])
  /\ DropBuffer(S)
  /\ UNCHANGED <<conf, sent, got>>

\* Case SSL_ST_RENEGOTIATE: a HelloRequest, and nothing of it in the transcript.
ssl3_send_hello_request ==
  /\ ssl[S].state = "RENEGOTIATE"
  /\ Become(S, [ssl[S] EXCEPT !.state = "DONE", !.new_session = 1, !.shutdown = {},
                  !.mac = None])
  /\ Put(S, <<Record(S, "handshake", Plain("HelloRequest"))>>)
  /\ UNCHANGED <<conf, sent, got>>

\* tls1_process_ticket: a ticket extension decides alone; without one the cache
\* is searched by id.
TicketSeen(m) == conf.tickets /\ m.ticket_ext
Resumes(m) == IF TicketSeen(m) THEN m.tick # None /\ conf.offer \in {"ticket", "renew"}
              ELSE m.sid # None /\ conf.offer = "id"
TicketExpected(m) ==
  IF TicketSeen(m) THEN ~(m.tick # None /\ conf.offer = "ticket")
  ELSE ssl[S].ticket_expected

\* The SCSV is fatal when renegotiating; the extension must hold the client's
\* last Finished.
BindingOk(m) == IF m.scsv THEN ssl[S].new_session = 0 ELSE m.ri = ssl[S].prev[C]

ssl3_get_client_hello ==
  /\ ssl[S].state = "SR_CLNT_HELLO"
  /\ IsNext(S, "ClientHello")
  /\ LET m == Message(S)
         hit == Resumes(m)
         sr == ssl[S].sr + 1
     IN /\ BindingOk(m)
        /\ Receive(S, [ssl[S] EXCEPT
             !.state = "SW_SRVR_HELLO", !.new_session = 2, !.shutdown = {}, !.hit = hit,
             !.cr = m.rnd, !.sr = sr, !.new_cipher = TRUE,
             !.ticket_expected = TicketExpected(m),
             !.sid = IF hit THEN m.sid ELSE IF TicketExpected(m) THEN None ELSE <<"new", sr>>,
             !.master = IF hit THEN OldMaster ELSE None, !.peer = FALSE])

ssl3_send_server_hello ==
  /\ ssl[S].state = "SW_SRVR_HELLO"
  /\ Send(S, [ssl[S] EXCEPT
                !.state = IF ~ssl[S].hit THEN "SW_CERT"
                          ELSE IF ssl[S].ticket_expected THEN "SW_SESSION_TICKET" ELSE "SW_CHANGE"],
          [name |-> "ServerHello", rnd |-> ssl[S].sr, sid |-> ssl[S].sid,
           ticket_ext |-> ssl[S].ticket_expected, ri |-> ssl[S].prev])

ssl3_send_server_certificate ==
  /\ ssl[S].state = "SW_CERT"
  /\ IF conf.kx = "anon" THEN Move(S, [ssl[S] EXCEPT !.state = "SW_KEY_EXCH"])
     ELSE Send(S, [ssl[S] EXCEPT !.state = IF conf.status THEN "SW_CERT_STATUS" ELSE "SW_KEY_EXCH"],
               [name |-> "Certificate", rnd |-> 0, empty |-> FALSE])

ssl3_send_cert_status ==
  /\ ssl[S].state = "SW_CERT_STATUS"
  /\ Send(S, [ssl[S] EXCEPT !.state = "SW_KEY_EXCH"], Plain("CertificateStatus"))

ssl3_send_server_key_exchange ==
  /\ ssl[S].state = "SW_KEY_EXCH"
  /\ LET s == [ssl[S] EXCEPT !.state = "SW_CERT_REQ"]
     IN IF conf.kx = "rsa" THEN Move(S, s) ELSE Send(S, s, Plain("ServerKeyExchange"))

ssl3_send_certificate_request ==
  /\ ssl[S].state = "SW_CERT_REQ"
  /\ LET s == [ssl[S] EXCEPT !.state = "SW_SRVR_DONE"]
     IN IF conf.auth = "no" \/ conf.kx = "anon"
        THEN Move(S, [s EXCEPT !.cert_req = 0])
        ELSE Send(S, [s EXCEPT !.cert_req = 1], Plain("CertificateRequest"))

ssl3_send_server_done ==
  /\ ssl[S].state = "SW_SRVR_DONE"
  /\ Send(S, [ssl[S] EXCEPT !.state = "SW_FLUSH", !.next = "SR_CERT"],
          Plain("ServerHelloDone"))

ssl3_get_client_certificate ==
  /\ ssl[S].state = "SR_CERT"
  /\ \/ /\ ssl[S].cert_req = 1
        /\ IsNext(S, "Certificate")
        /\ Receive(S, [ssl[S] EXCEPT !.state = "SR_KEY_EXCH", !.peer = ~Message(S).empty])
     \/ /\ ssl[S].cert_req = 0
        /\ Arrives(S, "handshake") /\ Message(S).name # "ClientHello"
        /\ Move(S, [ssl[S] EXCEPT !.state = "SR_KEY_EXCH"])

ssl3_get_client_key_exchange ==
  /\ ssl[S].state = "SR_KEY_EXCH"
  /\ IsNext(S, "ClientKeyExchange")
  /\ Receive(S, [ssl[S] EXCEPT !.state = "SR_CERT_VRFY", !.master = <<ssl[S].cr, ssl[S].sr>>])

\* The signature covers the transcript up to here.  A client without a
\* certificate sends no CertificateVerify.
VerifyOk == ssl[S].peer /\ ~ssl[S].ccs /\ Message(S).signed = ssl[S].mac

ssl3_get_cert_verify ==
  /\ ssl[S].state = "SR_CERT_VRFY"
  /\ LET s == [ssl[S] EXCEPT !.state = "SR_FINISHED"]
     IN \/ IsNext(S, "CertificateVerify") /\ VerifyOk /\ Receive(S, s)
        \/ /\ Arrives(S, "handshake") /\ Message(S).name # "CertificateVerify" /\ ~ssl[S].peer
           /\ Move(S, s)

ssl3_send_newsession_ticket ==
  /\ ssl[S].state = "SW_SESSION_TICKET"
  /\ Send(S, [ssl[S] EXCEPT !.state = "SW_CHANGE"],
          [name |-> "NewSessionTicket", rnd |-> 0, tick |-> <<"ticket", ssl[S].sr>>])

server_finished ==
  /\ ssl[S].state = "SW_FINISHED"
  /\ LET md == final_finish_mac(ssl[S], S)
     IN Send(S, [ssl[S] EXCEPT !.state = "SW_FLUSH", !.prev[S] = md,
                   !.next = IF ssl[S].hit THEN "SR_FINISHED" ELSE "DONE"],
             [name |-> "Finished", rnd |-> 0, md |-> md])

-----------------------------------------------------------------------------
(* ssl3_read_bytes beyond the message a handshake state asks for.          *)

\* ChangeCipherSpec while reading handshake messages; it needs a cipher to
\* change to.  After SSL_shutdown it is thrown away (see discard).
read_change_cipher_spec(e) ==
  /\ ssl[e].state \in Reads
  /\ Arrives(e, "ccs") /\ "sent" \notin ssl[e].shutdown /\ ssl[e].new_cipher
  /\ LET s == setup_key_block(ssl[e])
     IN Become(e, [s EXCEPT !.ccs = TRUE, !.rkey = s.key_block,
                     !.peer_md = final_finish_mac(s, Peer(e))])
  /\ Take(e)
  /\ UNCHANGED <<out, conf, sent, got>>

\* SSL_read at rest starts a pending renegotiation before it reads.
Reading(e) == ssl[e].state = "OK" /\ ~ssl[e].renegotiate

\* Mutant: the record is not consumed.
SSL_read_Stays(e) ==
  /\ Arrives(e, "app") /\ Reading(e)
  /\ got' = [got EXCEPT ![e] = @ + 1]
  /\ UNCHANGED <<ssl, wire, out, conf, sent>>

\* In a renegotiation the client still takes data until the ServerHello.
SSL_read(e) ==
  /\ Arrives(e, "app")
  /\ \/ Reading(e)
     \/ e = C /\ ssl[C].state = "CR_SRVR_HELLO" /\ ssl[C].total # 0
  /\ got' = [got EXCEPT ![e] = @ + 1]
  /\ Take(e)
  /\ UNCHANGED <<ssl, out, conf, sent>>

\* A HelloRequest is skipped in a handshake, and at rest when a renegotiation
\* is pending; otherwise it starts one (ssl3_renegotiate_check).
read_hello_request ==
  /\ ssl[C].state \in ClientReads \cup {"OK"}
  /\ Reading(C) \/ ssl[C].state # "OK" \/ "sent" \in ssl[C].shutdown
  /\ IsNext(C, "HelloRequest")
  /\ Become(C, IF Reading(C) THEN [ssl[C] EXCEPT !.state = "RENEGOTIATE", !.total = @ + 1]
               ELSE ssl[C])
  /\ Take(C)
  /\ UNCHANGED <<out, conf, sent, got>>

\* Mutant: handshake_fragment_len is cleared, and the ClientHello with it.
read_client_hello_Eaten ==
  /\ Reading(S) /\ "sent" \notin ssl[S].shutdown
  /\ IsNext(S, "ClientHello")
  /\ Become(S, [ssl[S] EXCEPT !.state = "ACCEPT", !.new_session = 1])
  /\ Take(S)
  /\ UNCHANGED <<out, conf, sent, got>>

\* Mutant: after SSL_shutdown a ClientHello still starts a handshake.
read_client_hello_Closing ==
  /\ Reading(S)
  /\ IsNext(S, "ClientHello")
  /\ Move(S, [ssl[S] EXCEPT !.state = "ACCEPT", !.new_session = 1])

\* A ClientHello at rest: its bytes wait in handshake_fragment for ssl3_accept.
read_client_hello ==
  /\ Reading(S) /\ "sent" \notin ssl[S].shutdown
  /\ IsNext(S, "ClientHello")
  /\ Move(S, [ssl[S] EXCEPT !.state = "ACCEPT", !.new_session = 1])

\* Mutant: an assignment where the code has |=.
read_close_notify_Assigns(e) ==
  /\ ssl[e].state \in Reads \/ Reading(e) \/ (ssl[e].state = "OK" /\ "sent" \in ssl[e].shutdown)
  /\ Arrives(e, "close_notify")
  /\ Become(e, [ssl[e] EXCEPT !.shutdown = {"received"}])
  /\ Take(e)
  /\ UNCHANGED <<out, conf, sent, got>>

read_close_notify(e) ==
  /\ ssl[e].state \in Reads \/ Reading(e) \/ (ssl[e].state = "OK" /\ "sent" \in ssl[e].shutdown)
  /\ Arrives(e, "close_notify")
  /\ Become(e, [ssl[e] EXCEPT !.shutdown = @ \cup {"received"}])
  /\ Take(e)
  /\ UNCHANGED <<out, conf, sent, got>>

\* After close_notify has been sent SSL_shutdown reads and throws away what is
\* not an alert or a HelloRequest; without a read cipher it cannot tell what it
\* throws away.  A handshake under SSL_read throws away ChangeCipherSpec only.
\* What is abstracted: the first four bytes of a handshake message stay in
\* handshake_fragment, where a handshake begun after close_notify would find them.
Discards(e) ==
  /\ ssl[e].shutdown = {"sent"} /\ wire[e] # <<>>
  /\ LET r == Head1(e) IN
     /\ r.type \in {"app", "handshake", "ccs"}
     /\ r.key = ssl[e].rkey \/ ssl[e].rkey = None
     /\ ~(e = C /\ r.type = "handshake" /\ r.key = ssl[e].rkey /\ r.body.name = "HelloRequest")
     /\ ssl[e].state = "OK" \/ cutthrough_complete(e)
discard(e) ==
  /\ Discards(e)
  /\ Take(e)
  /\ UNCHANGED <<ssl, out, conf, sent, got>>

\* The peer has given up on the connection.
read_fatal_alert(e) ==
  /\ ssl[e].state \in Reads \cup {"OK"}
  /\ Arrives(e, "fatal")
  /\ Become(e, [ssl[e] EXCEPT !.failed = TRUE, !.shutdown = @ \cup {"received"}])
  /\ Take(e)
  /\ UNCHANGED <<out, conf, sent, got>>

-----------------------------------------------------------------------------
(* The calls of the applications.                                          *)

May(e, call) == <<e, call>> \in conf.calls

\* Mutant: SSL_write does not look at SSL_in_init.
SSL_write_InInit(e) ==
  /\ AtRest(e) /\ ~ssl[e].renegotiate
  /\ "sent" \notin ssl[e].shutdown /\ sent[e] < MaxData
  /\ sent' = [sent EXCEPT ![e] = @ + 1]
  /\ Put(e, <<Record(e, "app", Plain("data"))>>)
  /\ UNCHANGED <<ssl, conf, got>>

SSL_write(e) ==
  /\ AtRest(e) /\ ~SSL_in_init(e) /\ ~ssl[e].renegotiate
  /\ "sent" \notin ssl[e].shutdown /\ sent[e] < MaxData
  /\ sent' = [sent EXCEPT ![e] = @ + 1]
  /\ Put(e, <<Record(e, "app", Plain("data"))>>)
  /\ UNCHANGED <<ssl, conf, got>>

\* SSL_renegotiate only sets flags; SSL_read, SSL_write and SSL_do_handshake
\* start the renegotiation once no handshake is under way.
SSL_renegotiate(e) ==
  /\ AtRest(e) /\ ~ssl[e].renegotiate /\ ssl[e].shutdown = {}
  /\ ssl[e].total < MaxRenego
  /\ \/ May(e, "renegotiate") /\ ssl[e].good > 0
     \/ May(e, "renegotiate_in_window") /\ cutthrough_complete(e)
     \/ May(e, "renegotiate_early")
  /\ Move(e, [ssl[e] EXCEPT !.renegotiate = TRUE,
                !.new_session = IF ssl[e].new_session = 0 THEN 1 ELSE @])

\* Mutant: the flag is cleared and the renegotiation forgotten.
ssl3_renegotiate_check_Forgets(e) ==
  /\ AtRest(e) /\ ssl[e].renegotiate /\ ~SSL_in_init(e)
  /\ Move(e, [ssl[e] EXCEPT !.renegotiate = FALSE, !.total = @ + 1])

ssl3_renegotiate_check(e) ==
  /\ AtRest(e) /\ ssl[e].renegotiate /\ ~SSL_in_init(e)
  /\ Move(e, [ssl[e] EXCEPT !.state = "RENEGOTIATE", !.renegotiate = FALSE, !.total = @ + 1])

\* Mutant: the first call returns 1.
SSL_shutdown_Once(e) ==
  /\ AtRest(e) /\ ~ssl[e].shut /\ ~SSL_in_init(e)
  /\ May(e, "shutdown") /\ ssl[e].state = "OK" /\ "sent" \notin ssl[e].shutdown
  /\ Become(e, [ssl[e] EXCEPT !.shutdown = @ \cup {"sent"}, !.shut = TRUE])
  /\ Put(e, <<Record(e, "close_notify", Plain("close_notify"))>>)
  /\ UNCHANGED <<conf, sent, got>>

\* In a handshake it returns 1 and does nothing.
SSL_shutdown(e) ==
  /\ AtRest(e) /\ ~ssl[e].shut
  /\ IF SSL_in_init(e)
     THEN /\ May(e, "shutdown_in_init")
          /\ Move(e, [ssl[e] EXCEPT !.shut = TRUE])
     ELSE /\ May(e, IF ssl[e].state = "OK" THEN "shutdown" ELSE "shutdown_in_window")
          /\ \/ /\ "sent" \notin ssl[e].shutdown
                /\ Become(e, [ssl[e] EXCEPT !.shutdown = @ \cup {"sent"},
                                !.shut = "received" \in ssl[e].shutdown])
                /\ Put(e, <<Record(e, "close_notify", Plain("close_notify"))>>)
                /\ UNCHANGED <<conf, sent, got>>
             \/ /\ ssl[e].shutdown = {"sent", "received"}
                /\ Move(e, [ssl[e] EXCEPT !.shut = TRUE])

-----------------------------------------------------------------------------
ClientHandler ==
  \/ ssl3_get_server_hello \/ ssl3_get_server_certificate \/ ssl3_get_cert_status
  \/ ssl3_get_key_exchange \/ ssl3_get_certificate_request \/ ssl3_get_server_done
  \/ ssl3_get_new_session_ticket \/ read_hello_request
ServerHandler ==
  \/ ssl3_get_client_hello \/ ssl3_get_client_certificate \/ ssl3_get_client_key_exchange
  \/ ssl3_get_cert_verify \/ read_client_hello
Handler(e) ==
  \/ e = C /\ ClientHandler
  \/ e = S /\ ServerHandler
  \/ ssl3_get_finished(e) \/ read_change_cipher_spec(e) \/ SSL_read(e)
  \/ read_close_notify(e) \/ read_fatal_alert(e) \/ discard(e)

ClientStep ==
  \/ connect_start \/ ssl3_client_hello \/ skip_certificate \/ ssl3_send_client_certificate
  \/ ssl3_send_client_key_exchange \/ ssl3_send_client_verify \/ client_finished \/ cutthrough
ServerStep ==
  \/ accept_start \/ ssl3_send_hello_request \/ ssl3_send_server_hello
  \/ ssl3_send_server_certificate \/ ssl3_send_cert_status \/ ssl3_send_server_key_exchange
  \/ ssl3_send_certificate_request \/ ssl3_send_server_done \/ ssl3_send_newsession_ticket
  \/ server_finished
Step(e) ==
  \/ e = C /\ ClientStep
  \/ e = S /\ ServerStep
  \/ change_cipher_spec(e) \/ flush(e) \/ handshake_done(e)

\* The messages the state machines go on with, by the state they wait in.
TakesMessage(e, m) ==
  LET state == ssl[e].state
      name == m.name
  IN \/ e = C /\ name = "HelloRequest"
     \/ state = "OK" /\ e = S /\ name = "ClientHello" /\ "sent" \notin ssl[S].shutdown
     \/ state = "CR_SRVR_HELLO" /\ name = "ServerHello" /\ m.ri = ssl[C].prev
     \/ state = "CR_CERT" /\ name = "Certificate"
     \/ state = "CR_CERT_STATUS" /\ name = "CertificateStatus"
     \/ state = "CR_KEY_EXCH"
     \/ state = "CR_CERT_REQ" /\ (name = "CertificateRequest" => conf.kx # "anon")
        /\ name \in {"CertificateRequest", "ServerHelloDone"}
     \/ state = "CR_SRVR_DONE" /\ name = "ServerHelloDone"
     \/ state = "CR_SESSION_TICKET" /\ name \in {"NewSessionTicket", "Finished"}
     \/ state \in {"CR_FINISHED", "SR_FINISHED"} /\ name = "Finished" /\ FinishedOk(e)
     \/ state = "SR_CLNT_HELLO" /\ name = "ClientHello" /\ BindingOk(m)
     \/ state = "SR_CERT"
        /\ IF ssl[S].cert_req = 1 THEN name = "Certificate" ELSE name # "ClientHello"
     \/ state = "SR_KEY_EXCH" /\ name = "ClientKeyExchange"
     \/ state = "SR_CERT_VRFY" /\ IF name = "CertificateVerify" THEN VerifyOk ELSE ~ssl[S].peer

\* The records ssl3_read_bytes takes while it waits for one.
Takes(e) ==
  \/ Arrives(e, "handshake") /\ TakesMessage(e, Message(e))
  \/ Arrives(e, "ccs") /\ ssl[e].state \in Reads /\ "sent" \notin ssl[e].shutdown /\ ssl[e].new_cipher
  \/ Arrives(e, "app") /\ (Reading(e) \/ (ssl[e].state = "CR_SRVR_HELLO" /\ ssl[e].total # 0))
  \/ Arrives(e, "close_notify") \/ Arrives(e, "fatal")
  \/ Discards(e)

\* Any other record is answered by a fatal alert, and the connection is given
\* up; so are data in a renegotiation that SSL_read does not drive.
Refused(e) ==
  /\ ssl[e].state \in Reads \/ Reading(e)
  /\ ssl[e].state = "CR_CERT" => conf.kx # "anon"
  /\ wire[e] # <<>> /\ "received" \notin ssl[e].shutdown
  /\ ~Takes(e)

ssl3_send_alert(e) ==
  /\ \/ Refused(e)
     \/ /\ May(e, "drive_by_write") /\ e = C
        /\ ssl[C].state = "CR_SRVR_HELLO" /\ Arrives(C, "app")
  /\ Become(e, [ssl[e] EXCEPT !.failed = TRUE])
  /\ wire' = [wire EXCEPT ![Peer(e)] = @ \o out[e] \o <<Record(e, "fatal", Plain("alert"))>>]
  /\ out' = [out EXCEPT ![e] = <<>>]
  /\ UNCHANGED <<conf, sent, got>>

\* What the library does once it is called, and what the applications ask for.
Library(e) == ~ssl[e].failed /\ (Handler(e) \/ Step(e) \/ ssl3_renegotiate_check(e)
                                 \/ ssl3_send_alert(e))
Application(e) == SSL_write(e) \/ SSL_renegotiate(e) \/ SSL_shutdown(e)

Next == \E e \in Endpoint : Library(e) \/ Application(e)

Spec == Init /\ [][Next]_vars

\* The applications keep calling the library until it has nothing to do.
FairSpec == Spec /\ \A e \in Endpoint : WF_vars(Library(e))

-----------------------------------------------------------------------------
(* Properties.                                                             *)

States == Reads \cup ClientWrites \cup ServerWrites \cup Rest
Numbers == 0 .. 2 * MaxRenego + 1
RecordTypes == {"handshake", "ccs", "app", "close_notify", "fatal"}

\* Every field and every record has its type.
TypeOK ==
  /\ conf \in Configs
  /\ \A e \in Endpoint :
       /\ ssl[e].state \in States /\ ssl[e].next \in States
       /\ {ssl[e].buffered, ssl[e].hit, ssl[e].ticket_expected, ssl[e].renegotiate,
           ssl[e].new_cipher, ssl[e].peer, ssl[e].ccs, ssl[e].failed, ssl[e].shut}
            \subseteq BOOLEAN
       /\ {ssl[e].cert_req, ssl[e].new_session} \subseteq 0 .. 2
       /\ {ssl[e].cr, ssl[e].sr, ssl[e].total, ssl[e].good} \subseteq Numbers
       /\ ssl[e].shutdown \subseteq {"sent", "received"}
       /\ sent[e] \in 0 .. MaxData /\ got[e] \in 0 .. sent[Peer(e)]
       /\ \A i \in DOMAIN wire[e] : wire[e][i].type \in RecordTypes
       /\ \A i \in DOMAIN out[e] : out[e][i].type \in RecordTypes

\* Two ends of this library accept each other's records: each opens under the
\* read key of the moment it is read, is of a type and a message the state
\* takes, and passes the checks of Finished, CertificateVerify and the
\* renegotiation extension.
NoAlert == \A e \in Endpoint : ~ssl[e].failed

\* Ends that have completed the same handshakes and rest hold the same session,
\* the same idea of whether it was resumed and the same Finished messages, and
\* each reads with the key the other writes with; the server knows the client
\* by a certificate exactly if it asked for one in a full handshake and the
\* client has one.
Agreement ==
  (\A e \in Endpoint : ssl[e].state = "OK" /\ ~ssl[e].failed) /\ ssl[C].good = ssl[S].good
  => /\ ssl[C].master = ssl[S].master /\ ssl[C].hit = ssl[S].hit
     /\ ssl[C].prev = ssl[S].prev
     /\ ssl[C].rkey = ssl[S].wkey /\ ssl[S].rkey = ssl[C].wkey
     /\ ssl[C].rkey # None => ssl[C].rkey = <<ssl[C].master, ssl[C].cr, ssl[C].sr>>
     /\ ssl[S].peer <=> /\ ssl[S].good > 0 /\ ~ssl[S].hit
                        /\ conf.auth = "cert" /\ conf.kx # "anon"

\* Application data is read only under keys that a Finished has vouched for,
\* and written only by an end that has read the other's Finished; but for the
\* client in SSL_MODE_HANDSHAKE_CUTTHROUGH, before its first handshake is over.
DataAfterFinished ==
  [][\A e \in Endpoint :
       /\ got'[e] # got[e] => ssl[e].rkey # None /\ ssl[e].rkey = ssl[e].vkey
       /\ sent'[e] # sent[e] =>
            \/ ssl[e].wkey # None /\ ssl[e].wkey = ssl[e].vkey
            \/ e = C /\ conf.cut /\ ssl[C].good = 0]_vars

\* No application record is lost between SSL_write and SSL_read, in the
\* buffering BIO or when the keys change, unless its reader closed first.
Data(q) == Cardinality({i \in DOMAIN q : q[i].type = "app"})
NoDataLost ==
  \A e \in Endpoint :
    "sent" \notin ssl[e].shutdown =>
      got[e] + Data(wire[e]) + Data(out[Peer(e)]) = sent[Peer(e)]

\* The ends never wait for each other with nothing on the way, except at rest
\* after the same number of handshakes.
Waits(e) == wire[e] = <<>> /\ ssl[e].state \in Reads \cup {"OK"}
NoStall ==
  (\A e \in Endpoint : Waits(e) /\ ~ssl[e].failed /\ ssl[e].shutdown = {})
  => /\ \A e \in Endpoint : ssl[e].state = "OK"
     /\ ssl[C].good = ssl[S].good

\* When SSL_shutdown returns 1 the close_notify alerts of both ends have been
\* sent and the other's has been read.
ShutdownComplete ==
  \A e \in Endpoint :
    ssl[e].shut => ssl[e].shutdown = {"sent", "received"} /\ "sent" \in ssl[Peer(e)].shutdown

\* An end that has sent close_notify does not take it back.
CloseIsFinal ==
  [][\A e \in Endpoint : "sent" \in ssl[e].shutdown => "sent" \in ssl'[e].shutdown]_vars

\* Whoever starts a handshake gets through it, and a renegotiation the
\* application asked for takes place, unless applications make other calls too.
Orderly == \A c \in conf.calls : c[2] = "renegotiate"
Completes ==
  /\ \A e \in Endpoint : <>(Orderly => ssl[e].good > 0)
  /\ \A e \in Endpoint : Orderly /\ ssl[e].state # "OK" ~> ssl[e].state = "OK"
  /\ \A n \in Numbers : \A e \in Endpoint :
       Orderly /\ ssl[e].renegotiate /\ ssl[e].good = n ~> ssl[e].good > n

-----------------------------------------------------------------------------
(* What the connection is to its applications.                             *)

\* The handshakes each end has completed, and which ends have sent and read
\* close_notify.
completed == [e \in Endpoint |-> ssl[e].good]
closers == [e \in Endpoint |-> "sent" \in ssl[e].shutdown]
told == [e \in Endpoint |-> "received" \in ssl[e].shutdown]

\* The connection is a secure channel.
Channel == INSTANCE SecureChannel WITH
             Client <- C, Server <- S, early <- conf.cut,
             good <- completed, closed <- closers, ended <- told
ImplementsChannel == Channel!Spec

=============================================================================
