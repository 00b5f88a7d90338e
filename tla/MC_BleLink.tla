----------------------------- MODULE MC_BleLink -----------------------------
(***************************************************************************)
(* Two bikes with the service, one with two descriptors 0x2902 behind its  *)
(* characteristic, and bikes that lack the descriptor, the characteristic  *)
(* or the service.                                                         *)
(***************************************************************************)
EXTENDS BleLink

Bike == [service |-> TRUE, chr |-> 3, cccds |-> <<4>>]

MCTable ==
  { Bike,
    [Bike EXCEPT !.chr = 5, !.cccds = <<6, 7>>],
    [Bike EXCEPT !.cccds = <<>>],
    [Bike EXCEPT !.chr = 0],
    [Bike EXCEPT !.service = FALSE] }

=============================================================================
