---------------------------- MODULE MC_WifiAdmin ----------------------------
(* Two networks with a password each, which come and go. *)
EXTENDS WifiAdmin

CONSTANTS home, shop, k1, k2

MCSsid == {home, shop}
MCPass == {k1, k2}
MCEntered == {[ssid |-> home, pass |-> k1], [ssid |-> shop, pass |-> k2]}
=============================================================================
