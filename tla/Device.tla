------------------------------- MODULE Device -------------------------------
(***************************************************************************)
(* What a restart of the device does to its logs and its firmware: the     *)
(* runtime log in memory, the persistent log and the firmware images in    *)
(* flash run side by side and share nothing but the reset, which strikes   *)
(* all three at once.                                                      *)
(***************************************************************************)
EXTENDS LogStore, PersistentLog, OtaUpdate

deviceVars == <<ringVars, fileVars, otaVars>>

DeviceInit == RingInit /\ FilesInit /\ OtaInit

DeviceReset == RingReset /\ FilesReset /\ OtaReset

DeviceNext ==
  \/ RingStep /\ UNCHANGED <<fileVars, otaVars>>
  \/ FilesStep /\ UNCHANGED <<ringVars, otaVars>>
  \/ OtaStep /\ UNCHANGED <<ringVars, fileVars>>
  \/ DeviceReset

DeviceSpec == DeviceInit /\ [][DeviceNext]_deviceVars
=============================================================================
