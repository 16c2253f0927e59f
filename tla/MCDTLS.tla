------------------------------- MODULE MCDTLS -------------------------------
(* Small instances of DTLSHandshake for TLC. *)
EXTENDS DTLSHandshake

Cfg(hit, cookie, ske, auth, ticket, split, long, aligned, l, n) ==
  [hit |-> hit, cookie |-> cookie, ske |-> ske, auth |-> auth, ticket |-> ticket,
   split |-> split, long |-> long, aligned |-> aligned, losses |-> l, early |-> n]

\* Short handshakes with and without a cookie, full ones with messages cut at
\* first, always, or both, some where the pieces do not make a whole, and those
\* with a client certificate or a ticket.
MCSettings ==
  {Cfg(TRUE, TRUE, FALSE, FALSE, FALSE, {}, {}, {}, 2, 0),
   Cfg(TRUE, FALSE, FALSE, FALSE, FALSE, {}, {}, {}, 1, 1),
   Cfg(FALSE, FALSE, FALSE, FALSE, FALSE, {}, {}, {}, 1, 1),
   Cfg(FALSE, TRUE, FALSE, FALSE, FALSE, {"SH"}, {}, {}, 2, 0),
   Cfg(FALSE, FALSE, TRUE, FALSE, FALSE, {"CERT"}, {}, {}, 2, 0),
   Cfg(FALSE, FALSE, TRUE, FALSE, FALSE, {}, {"CERT"}, {}, 2, 0),
   Cfg(FALSE, FALSE, TRUE, FALSE, FALSE, {"CERT"}, {"SKE"}, {}, 2, 0),
   Cfg(FALSE, FALSE, TRUE, FALSE, FALSE, {"CERT"}, {}, {"CERT"}, 2, 0),
   Cfg(FALSE, FALSE, TRUE, FALSE, FALSE, {}, {"CERT"}, {"CERT"}, 1, 0),
   Cfg(FALSE, FALSE, FALSE, TRUE, FALSE, {}, {}, {}, 1, 0),
   Cfg(FALSE, FALSE, FALSE, FALSE, TRUE, {}, {}, {}, 1, 0)}
=============================================================================
