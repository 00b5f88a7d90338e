--------------------------- MODULE MC_HuePairing ---------------------------
(* Two bridges, so that a key can be that of the wrong one, and a second   *)
(* task, so that a window could be started twice.                          *)
EXTENDS HuePairing

CONSTANTS t1, t2, kitchen, garage

MCTask == {t1, t2}
MCBridge == {kitchen, garage}

MCOneBridge == {kitchen}
=============================================================================
