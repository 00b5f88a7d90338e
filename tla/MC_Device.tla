----------------------------- MODULE MC_Device -----------------------------
(***************************************************************************)
(* A ring of four bytes and lines of at most three, cut ones included; two *)
(* tasks on files of three bytes; two versions and a damaged image.  The   *)
(* three parts share nothing but the reset, so that only one of them at a  *)
(* time is followed away from its start (Followed).                        *)
(***************************************************************************)
EXTENDS Device

CONSTANTS x, y, nl, v1, v2, damaged

MCLine == {<<x, nl>>, <<y, x, y, x>>, <<y>>, <<>>}

Followed ==
  \/ FilesInit /\ OtaInit
  \/ RingInit /\ OtaInit
  \/ RingInit /\ FilesInit
=============================================================================
