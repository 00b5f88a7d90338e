----------------------------- MODULE OtaUpdate -----------------------------
(***************************************************************************)
(* main/wifi_admin.c, POST /ota (1835-1927): a firmware image is written   *)
(* to the OTA slot that is not running, made the one to boot, and a task   *)
(* restarts the device 1.2 s after the answer.  Until then the HTTP server *)
(* takes further requests, a second upload too.                            *)
(*                                                                         *)
(* The bootloader and esp_ota_* are not part of the code: an image counts  *)
(* as whole when its checksum does, esp_ota_end and the bootloader look at *)
(* it, and the bootloader takes another whole image when the one to boot   *)
(* is not.  Whether the answer arrives, and refusals before esp_ota_begin, *)
(* leave no trace.                                                         *)
(***************************************************************************)
EXTENDS Naturals

CONSTANTS
  Image,     (* the firmware images that are uploaded                      *)
  Whole,     (* those of them that are whole                               *)
  Shipped,   (* the image in the factory partition                         *)
  Broken,    (* a slot that is empty or half written                       *)
  Chunks,    (* how many WIFI_ADMIN_OTA_CHUNK_SIZE an image has            *)
  OtaFaults  (* whether calls fail and uploads break off                   *)

Slot == {"ota_0", "ota_1"}
Partition == Slot \cup {"factory"}

ASSUME OtaAssumption ==
  /\ Whole \subseteq Image
  /\ Shipped \in Whole
  /\ Broken \notin Image
  /\ Chunks \in Nat \ {0}
  /\ OtaFaults \in BOOLEAN

VARIABLES
  flash,      (* the image in each partition                       [flash] *)
  boot,       (* the partition to boot                           [otadata] *)
  running,    (* the partition the device runs from                        *)
  upload,     (* ota_post_handler: its next call, the image it receives,   *)
              (* update_partition and the writes so far                    *)
  restarting, (* an ota_restart_task waits                                 *)
  chosen,     (* the image that the next start should bring                *)
  clobbered   (* an upload has overwritten it since                        *)

otaVars == <<flash, boot, running, upload, restarting, chosen, clobbered>>

NoUpload == [at |-> "idle", image |-> Broken, slot |-> "factory", written |-> 0]

OtaInit ==
  /\ flash = [p \in Partition |-> IF p = "factory" THEN Shipped ELSE Broken]
  /\ boot = "factory" /\ running = "factory"
  /\ upload = NoUpload
  /\ restarting = FALSE
  /\ chosen = Shipped /\ clobbered = FALSE

(* A slip for the mutation runs: the next one after the one to boot.       *)
NextUpdatePartition_Boot == IF boot = "ota_0" THEN "ota_1" ELSE "ota_0"

(* esp_ota_get_next_update_partition(NULL) *)
NextUpdatePartition == IF running = "ota_0" THEN "ota_1" ELSE "ota_0"

(* esp_ota_begin erases the slot. *)
OtaBegin(i) ==
  /\ upload.at = "idle"
  /\ flash' = [flash EXCEPT ![NextUpdatePartition] = Broken]
  /\ clobbered' = (clobbered \/ boot = NextUpdatePartition)
  /\ \/ upload' = [at |-> "write", image |-> i,
                   slot |-> NextUpdatePartition, written |-> 0]
     \/ OtaFaults /\ UNCHANGED upload
  /\ UNCHANGED <<boot, running, restarting, chosen>>

OtaWrite ==
  /\ upload.at = "write"
  /\ upload.written < Chunks
  /\ upload' = [upload EXCEPT !.written = @ + 1]
  /\ flash' = IF upload.written + 1 = Chunks
                THEN [flash EXCEPT ![upload.slot] = upload.image]
                ELSE flash
  /\ UNCHANGED <<boot, running, restarting, chosen, clobbered>>

(* The connection or the flash fails: esp_ota_abort. *)
OtaAbort ==
  /\ OtaFaults
  /\ upload.at = "write"
  /\ upload.written < Chunks
  /\ upload' = NoUpload
  /\ UNCHANGED <<flash, boot, running, restarting, chosen, clobbered>>

(* A slip for the mutation runs: the result of esp_ota_end is ignored. *)
OtaEnd_Ignored ==
  /\ upload.at = "write"
  /\ upload.written = Chunks
  /\ upload' = [upload EXCEPT !.at = "boot"]
  /\ UNCHANGED <<flash, boot, running, restarting, chosen, clobbered>>

OtaEnd ==
  /\ upload.at = "write"
  /\ upload.written = Chunks
  /\ upload' = IF flash[upload.slot] \in Whole THEN [upload EXCEPT !.at = "boot"]
               ELSE NoUpload
  /\ UNCHANGED <<flash, boot, running, restarting, chosen, clobbered>>

SetBootPartition ==
  /\ upload.at = "boot"
  /\ boot' = upload.slot
  /\ chosen' = upload.image
  /\ clobbered' = FALSE
  /\ upload' = [upload EXCEPT !.at = "answer"]
  /\ UNCHANGED <<flash, running, restarting>>

SetBootFails ==
  /\ OtaFaults
  /\ upload.at = "boot"
  /\ upload' = NoUpload
  /\ UNCHANGED <<flash, boot, running, restarting, chosen, clobbered>>

(* xTaskCreate may fail, and is not looked at. *)
Answer ==
  /\ upload.at = "answer"
  /\ restarting' \in IF OtaFaults THEN {TRUE, restarting} ELSE {TRUE}
  /\ upload' = NoUpload
  /\ UNCHANGED <<flash, boot, running, chosen, clobbered>>

OtaStep ==
  \/ \E i \in Image : OtaBegin(i)
  \/ OtaWrite \/ OtaAbort \/ OtaEnd
  \/ SetBootPartition \/ SetBootFails \/ Answer

(* The order in which the bootloader looks for a whole image *)
Tried == CASE boot = "factory" -> <<"factory", "ota_0", "ota_1">>
           [] boot = "ota_0"   -> <<"ota_0", "factory", "ota_1">>
           [] boot = "ota_1"   -> <<"ota_1", "ota_0", "factory">>

Bootable(i) ==
  flash[Tried[i]] \in Whole /\ \A j \in 1 .. i - 1 : flash[Tried[j]] \notin Whole

OtaReset ==
  /\ \E i \in 1 .. 3 :
       Bootable(i) /\ running' = Tried[i] /\ chosen' = flash[Tried[i]]
  /\ upload' = NoUpload
  /\ restarting' = FALSE
  /\ clobbered' = FALSE
  /\ UNCHANGED <<flash, boot>>

OtaSpec == OtaInit /\ [][OtaStep \/ OtaReset]_otaVars

-----------------------------------------------------------------------------
(* Properties                                                              *)

OtaTypeOK ==
  /\ flash \in [Partition -> Image \cup {Broken}]
  /\ boot \in Partition /\ running \in Partition
  /\ upload \in [at : {"idle", "write", "boot", "answer"},
                 image : Image \cup {Broken},
                 slot : Partition, written : 0 .. Chunks]
  /\ restarting \in BOOLEAN /\ clobbered \in BOOLEAN
  /\ chosen \in Image

(* The device never writes to the slot it runs from: even with a second    *)
(* upload after a first one has changed the partition to boot, and after   *)
(* the bootloader has passed over that partition (1851).                   *)
RunningIsWhole == flash[running] \in Whole

(* README.md:225 "marks it as the next boot partition": a start, whether   *)
(* by ota_restart_task or by a reset in the middle of an upload, brings    *)
(* the image that was last uploaded with success, or the one that ran      *)
(* before; no broken or refused upload changes what starts.  A second      *)
(* upload within the 1.2 s before the restart is the exception, it erases  *)
(* the image that is to start (1838, 1868).                                *)
StartsChosen == [][OtaReset => flash[running'] = chosen \/ clobbered]_otaVars
=============================================================================
