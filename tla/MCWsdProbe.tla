----------------------------- MODULE MCWsdProbe -----------------------------
(* WsdProbe for TLC. *)
EXTENDS WsdProbe

MCHosts == {"nas", "pc"}

\* "nas" is on the first link, "pc" on both.
MCLinks == [h \in MCHosts |-> IF h = "nas" THEN {2} ELSE {2, 3}]

addr(name, idx, v6, active) == [name |-> name, idx |-> idx, v6 |-> v6, active |-> active]

\* Two links, one with addresses of both families; an IPv6 link with two addresses
\* and a link that is down.
MCAddrLists ==
  {<<addr("eth0", 2, TRUE, TRUE), addr("eth0", 2, FALSE, TRUE), addr("wlan0", 3, FALSE, TRUE)>>,
   <<addr("eth0", 2, TRUE, TRUE), addr("eth0", 2, TRUE, TRUE), addr("wlan0", 3, FALSE, FALSE)>>}
=============================================================================
