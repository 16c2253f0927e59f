---------------------------- MODULE MCHandshake ----------------------------
(* Small instances of Handshake for TLC. *)
EXTENDS Handshake

\* Who makes which calls besides connect, read and write.
NoCalls == {}
Renegotiate == Endpoint \X {"renegotiate"}
Shutdown == Endpoint \X {"shutdown"}
Crossing == {<<S, "shutdown">>, <<C, "renegotiate">>}
Crossed == {<<S, "renegotiate">>, <<C, "shutdown">>}
Careless == {{"shutdown_in_init", "shutdown_in_window"}, {"renegotiate_early", "renegotiate_in_window"},
             {"renegotiate", "drive_by_write"}}

\* Everything two ends can be set up for, but a server that renews tickets.
Settings(calls) ==
  {c \in [offer : {"none", "id", "lost", "ticket", "stale"}, kx : {"rsa", "dhe", "anon"},
          auth : {"no", "empty", "cert"}, tickets : BOOLEAN, status : BOOLEAN, cut : BOOLEAN,
          calls : {calls}] : c.offer \in {"ticket", "stale"} => c.tickets}

\* One of each kind of handshake.
Cfg(offer, kx, auth, tickets, cut, calls) ==
  [offer |-> offer, kx |-> kx, auth |-> auth, tickets |-> tickets, status |-> FALSE,
   cut |-> cut, calls |-> calls]
Few(calls) ==
  {Cfg("none", "rsa", "no", FALSE, FALSE, calls), Cfg("id", "dhe", "cert", FALSE, FALSE, calls),
   Cfg("none", "rsa", "cert", TRUE, TRUE, calls), Cfg("ticket", "rsa", "no", TRUE, TRUE, calls)}

MCOrderly ==
  Settings(NoCalls) \cup Few(Shutdown) \cup Few(Crossing)
  \cup {c \in Settings(Renegotiate) : ~c.status /\ c.offer # "lost" /\ c.kx # "rsa" /\ c.auth # "empty"}
MCLive ==
  Few(Renegotiate) \cup {Cfg("none", "rsa", "no", FALSE, TRUE, Endpoint \X calls) : calls \in Careless}
MCRenew == {Cfg("renew", "rsa", "no", TRUE, FALSE, NoCalls)}
MCCrossed == {Cfg("none", "rsa", "no", FALSE, FALSE, Crossed)}
=============================================================================
