------------------------------ MODULE BleLink ------------------------------
(***************************************************************************)
(* main/ble_gap.c, main/gatt_client.c and the state of main/status_led.c:  *)
(* the accessory advertises, a bike connects, and a chain of callbacks     *)
(* ends with the bike sending notifications: MTU, encryption, service,     *)
(* characteristic, descriptors, subscription, first read.  Notifications   *)
(* go through a queue to the live data worker (module LiveData).           *)
(*                                                                         *)
(* All callbacks run in the one task of the NimBLE host, so each is a      *)
(* step; in which order they come is up to NimBLE and the bike, which are  *)
(* not part of the code: host, adv, advDone, link, table, closing, proc    *)
(* and enabled say what is used of them.  There is one connection at a     *)
(* time (CONFIG_BT_NIMBLE_MAX_CONNECTIONS=1), the procedures of a broken   *)
(* one fail before its disconnection is reported, and NimBLE reports no    *)
(* end of an advertising that the application itself has stopped.          *)
(***************************************************************************)
EXTENDS Integers, Sequences

CONSTANTS
  Table,       (* what bikes offer: a service or not, the handle of its    *)
               (* characteristic or 0, the handles of the descriptors 0x2902 *)
               (* behind that                                              *)
  QueueMax,    (* the length of live_data_queue, 4                         *)
  MaxNotes,    (* bound on the notifications and answers to reads          *)
  NoTable,     (* there is no bike                                         *)
  Faults       (* whether calls of NimBLE and allocations fail             *)

Handle == Nat \ {0}

ASSUME BleAssumption ==
  /\ \A t \in Table :
       /\ t.service \in BOOLEAN
       /\ t.chr \in Nat
       /\ t.cccds \in Seq(Handle)
  /\ NoTable \notin Table
  /\ QueueMax \in Nat \ {0} /\ MaxNotes \in Nat
  /\ Faults \in BOOLEAN

Procedure == {"mtu", "svc", "chr", "dsc", "write", "read"}

VARIABLES
  led,        (* current_state of the status LED                           *)
  connected,  (* state.connected                                           *)
  mtuOk,      (* state.mtu_ok                                              *)
  started,    (* state.discovery_started                                   *)
  service,    (* whether state.service_start is set                        *)
  chr,        (* state.live_data_handle                                    *)
  cccd,       (* state.live_data_cccd_handle                               *)
  hasQueue,   (* live_data_queue # NULL                                    *)
  inbox,      (* live_data_queue                                           *)
  decoded,    (* the last notification the worker took                     *)
  host,       (* "off", "synced" or "resetting"                            *)
  adv,        (* the accessory advertises                                  *)
  advDone,    (* ADV_COMPLETE is to be reported                            *)
  link,       (* "down", "up", or "lost" but not yet reported              *)
  table,      (* what the bike on the link offers                          *)
  closing,    (* ble_gap_terminate was accepted                            *)
  proc,       (* proc[p] = 0: procedure p is not under way; otherwise one  *)
              (* more than what it has reported                            *)
  enabled,    (* the descriptor the bike was told to notify for, or 0      *)
  sent,       (* how many notifications and answers the bike has sent      *)
  refused,    (* the last of them was not put into the queue               *)
  kept,       (* ble_gap_terminate was refused on this link                *)
  gaveUp      (* why there is no advertising: the last start of it failed, *)
              (* "silently" or "shown", or it was stopped after that for a *)
              (* new name ("renamed"); "" if neither                       *)

client == <<connected, mtuOk, started, service, chr, cccd>>
queue == <<hasQueue, inbox, decoded>>
radio == <<host, adv, advDone, link, table>>
notes == <<sent, refused>>
bleVars == <<led, client, queue, radio, closing, proc, enabled, notes, kept, gaveUp>>

Idle == [p \in Procedure |-> 0]

BleInit ==
  /\ led = "boot"
  /\ connected = FALSE /\ mtuOk = FALSE /\ started = FALSE
  /\ service = FALSE /\ chr = 0 /\ cccd = 0
  /\ hasQueue = FALSE /\ inbox = <<>> /\ decoded = 0
  /\ host = "off" /\ adv = FALSE /\ advDone = FALSE
  /\ link = "down" /\ table = NoTable
  /\ closing = FALSE /\ proc = Idle /\ enabled = 0
  /\ sent = 0 /\ refused = FALSE
  /\ kept = FALSE /\ gaveUp = ""

(* gatt_client_reset: memset(&state, 0, sizeof(state)) *)
ClientReset ==
  /\ mtuOk' = FALSE /\ started' = FALSE
  /\ service' = FALSE /\ chr' = 0 /\ cccd' = 0

-----------------------------------------------------------------------------
(* What the callbacks call                                                 *)

(* app_ble_gap_start_advertising: the early returns leave the LED alone,   *)
(* which shows light.                                                      *)
StartAdvertising(ready, light) ==
  \/ /\ ready
     /\ adv' = TRUE /\ led' = "advertising" /\ gaveUp' = ""
  \/ /\ Faults \/ ~ready
     /\ adv' = FALSE /\ led' = "error" /\ gaveUp' = "shown"
  \/ /\ Faults \/ ~ready
     /\ adv' = FALSE /\ led' = light /\ gaveUp' = "silently"

(* fail_connection *)
FailConnection ==
  /\ led' = "error"
  /\ \/ connected /\ link = "up" /\ closing' = TRUE /\ UNCHANGED kept
     \/ (Faults \/ link = "lost") /\ UNCHANGED closing /\ kept' = TRUE
     \/ ~connected /\ UNCHANGED <<closing, kept>>

(* The procedures being now, next is asked for; the LED shows light unless *)
(* that fails.                                                             *)
Ask(now, next, light) ==
  \/ /\ proc' = [now EXCEPT ![next] = 1]
     /\ led' = light
     /\ UNCHANGED <<closing, kept>>
  \/ /\ Faults
     /\ proc' = now
     /\ FailConnection

(* ensure_live_data_worker: the queue and its task are made once.          *)
EnsureWorker ==
  \/ hasQueue' = TRUE
  \/ Faults /\ UNCHANGED hasQueue

(* gatt_client_on_connect, where the link is new and may be terminated.    *)
OnConnect ==
  /\ EnsureWorker
  /\ ClientReset
  /\ connected' = TRUE
  /\ \/ /\ proc' = [Idle EXCEPT !["mtu"] = 1]
        /\ led' = "connected"
        /\ closing' = FALSE /\ kept' = FALSE
     \/ /\ Faults
        /\ proc' = Idle
        /\ led' = "error"
        /\ closing' \in BOOLEAN /\ kept' = ~closing'

(* Slips for the mutation runs: discovery_started is not looked at, or is  *)
(* set although the MTU is not agreed on.                                  *)
OnEncrypted_Again(now, ok, light) ==
  IF ok
    THEN /\ started' = TRUE
         /\ Ask(now, "svc", light)
    ELSE /\ led' = light /\ proc' = now
         /\ UNCHANGED <<started, closing, kept>>

OnEncrypted_Early(now, ok, light) ==
  IF ok /\ ~started
    THEN /\ started' = TRUE
         /\ Ask(now, "svc", light)
    ELSE /\ led' = light /\ proc' = now
         /\ started' = TRUE
         /\ UNCHANGED <<closing, kept>>

(* gatt_client_on_encrypted: the discovery starts once the MTU is agreed   *)
(* on (ok), whether the link is encrypted or not.                          *)
OnEncrypted(now, ok, light) ==
  IF ok /\ ~started
    THEN /\ started' = TRUE
         /\ Ask(now, "svc", light)
    ELSE /\ led' = light /\ proc' = now
         /\ UNCHANGED <<started, closing, kept>>

(* A slip for the mutation runs: the newest goes to the front.             *)
Enqueue_Front(note) ==
  \/ /\ hasQueue /\ Len(inbox) < QueueMax
     /\ inbox' = <<note>> \o inbox
     /\ refused' = FALSE
  \/ /\ Faults \/ ~hasQueue \/ Len(inbox) = QueueMax
     /\ UNCHANGED inbox
     /\ refused' = TRUE

(* enqueue_mbuf: without a queue, with a payload too long for it, without  *)
(* memory or with the queue full the note is dropped.                      *)
Enqueue(note) ==
  \/ /\ hasQueue /\ Len(inbox) < QueueMax
     /\ inbox' = Append(inbox, note)
     /\ refused' = FALSE
  \/ /\ Faults \/ ~hasQueue \/ Len(inbox) = QueueMax
     /\ UNCHANGED inbox
     /\ refused' = TRUE

-----------------------------------------------------------------------------
(* The host: on_sync and on_reset.  NimBLE breaks the link and stops the   *)
(* advertising before it reports a reset.                                  *)

Sync ==
  /\ host = "off"
  /\ host' = "synced"
  /\ \/ StartAdvertising(TRUE, led)
     \/ Faults /\ gaveUp' = "silently" /\ UNCHANGED <<adv, led>>
  /\ UNCHANGED <<client, queue, advDone, link, table, closing, proc, enabled, notes, kept>>

HostResets ==
  /\ Faults
  /\ host = "synced"
  /\ host' = "resetting"
  /\ adv' = FALSE
  /\ advDone' = (adv \/ advDone)
  /\ link' = IF link = "up" THEN "lost" ELSE link
  /\ UNCHANGED <<led, client, queue, table, closing, proc, enabled, notes, kept, gaveUp>>

OnReset ==
  /\ host = "resetting"
  /\ link = "down" /\ ~advDone
  /\ host' = "off"
  /\ led' = "error"
  /\ UNCHANGED <<client, queue, adv, advDone, link, table, closing, proc, enabled, notes, kept, gaveUp>>

(* BLE_GAP_EVENT_ADV_COMPLETE *)
AdvComplete ==
  /\ advDone
  /\ advDone' = FALSE
  /\ StartAdvertising(host = "synced", led)
  /\ UNCHANGED <<client, queue, host, link, table, closing, proc, enabled, notes, kept>>

(* app_ble_gap_set_device_name, in a task of the page: the advertising is  *)
(* stopped, and nothing here starts it again.                              *)
SetDeviceName ==
  /\ adv
  /\ adv' = FALSE
  /\ gaveUp' = "renamed"
  /\ UNCHANGED <<led, client, queue, host, advDone, link, table, closing, proc, enabled, notes, kept>>

-----------------------------------------------------------------------------
(* The link: BLE_GAP_EVENT_CONNECT, DISCONNECT and ENC_CHANGE              *)

(* Whether the link is encrypted already makes a difference to the log.    *)
Connect ==
  /\ adv
  /\ adv' = FALSE
  /\ link' = "up" /\ table' \in Table
  /\ enabled' = 0
  /\ OnConnect
  /\ UNCHANGED <<inbox, decoded, host, advDone, notes, gaveUp>>

ConnectFails ==
  /\ Faults
  /\ adv
  /\ StartAdvertising(TRUE, "error")
  /\ UNCHANGED <<client, queue, host, advDone, link, table, closing, proc, enabled, notes, kept>>

(* The bike goes away, or ble_gap_terminate has its effect. *)
LinkLost ==
  /\ link = "up"
  /\ link' = "lost"
  /\ UNCHANGED <<led, client, queue, host, adv, advDone, table, closing, proc, enabled, notes, kept, gaveUp>>

(* A slip for the mutation runs: nothing is advertised after a link.       *)
Disconnect_Silent ==
  /\ link = "lost" /\ proc = Idle
  /\ link' = "down" /\ table' = NoTable
  /\ closing' = FALSE /\ kept' = FALSE /\ enabled' = 0
  /\ ClientReset
  /\ connected' = FALSE
  /\ UNCHANGED <<led, adv, gaveUp, queue, host, advDone, proc, notes>>

(* Another: the client keeps what it found on the link.                    *)
Disconnect_Keep ==
  /\ link = "lost" /\ proc = Idle
  /\ link' = "down" /\ table' = NoTable
  /\ closing' = FALSE /\ kept' = FALSE /\ enabled' = 0
  /\ connected' = FALSE
  /\ UNCHANGED <<mtuOk, started, service, chr, cccd>>
  /\ StartAdvertising(host = "synced", led)
  /\ UNCHANGED <<queue, host, advDone, proc, notes>>

Disconnect ==
  /\ link = "lost" /\ proc = Idle
  /\ link' = "down" /\ table' = NoTable
  /\ closing' = FALSE /\ kept' = FALSE /\ enabled' = 0
  /\ ClientReset
  /\ connected' = FALSE
  /\ StartAdvertising(host = "synced", led)
  /\ UNCHANGED <<queue, host, advDone, proc, notes>>

(* The encryption changes once or, after a repeated pairing, more often.   *)
Encrypted ==
  /\ link = "up"
  /\ OnEncrypted(proc, mtuOk, "secured")
  /\ UNCHANGED <<connected, mtuOk, service, chr, cccd, queue, radio, enabled, notes, gaveUp>>

EncryptionFails ==
  /\ Faults
  /\ link # "down"
  /\ led' = "error"
  /\ UNCHANGED <<client, queue, radio, closing, proc, enabled, notes, kept, gaveUp>>

-----------------------------------------------------------------------------
(* The procedures: mtu_cb, service_cb, chr_cb, dsc_cb, cccd_write_cb and   *)
(* read_cb.  A procedure reports what it finds and then ends, or fails; on *)
(* a lost link it can only fail.                                           *)

Answers(p) == proc[p] > 0 /\ link = "up"
Reported(p) == [proc EXCEPT ![p] = @ + 1]
Ended(p) == [proc EXCEPT ![p] = 0]

(* The bike may agree on less than 247 bytes. *)
MtuAgreed ==
  /\ Answers("mtu")
  /\ mtuOk' \in BOOLEAN
  /\ OnEncrypted(Ended("mtu"), mtuOk', led)
  /\ UNCHANGED <<connected, service, chr, cccd, queue, radio, enabled, notes, gaveUp>>

(* Any procedure but the read that fails ends the connection. *)
ProcedureFails(p) ==
  /\ proc[p] > 0
  /\ Faults \/ link = "lost"
  /\ p # "read"
  /\ proc' = Ended(p)
  /\ FailConnection
  /\ UNCHANGED <<client, queue, radio, enabled, notes, gaveUp>>

ServiceFound ==
  /\ Answers("svc") /\ proc["svc"] = 1
  /\ table.service
  /\ service' = TRUE
  /\ Ask(Reported("svc"), "chr", led)
  /\ UNCHANGED <<connected, mtuOk, started, chr, cccd, queue, radio, enabled, notes, gaveUp>>

(* A discovery that is over without having found anything fails.           *)
DiscoveryOver(p, found) ==
  /\ proc' = Ended(p)
  /\ IF found THEN UNCHANGED <<led, closing, kept>> ELSE FailConnection

ServiceDone ==
  /\ Answers("svc")
  /\ proc["svc"] = 2 \/ ~table.service
  /\ DiscoveryOver("svc", service)
  /\ UNCHANGED <<client, queue, radio, enabled, notes, gaveUp>>

CharacteristicFound ==
  /\ Answers("chr") /\ proc["chr"] = 1
  /\ table.chr # 0
  /\ chr' = table.chr
  /\ Ask(Reported("chr"), "dsc", led)
  /\ UNCHANGED <<connected, mtuOk, started, service, cccd, queue, radio, enabled, notes, gaveUp>>

CharacteristicDone ==
  /\ Answers("chr")
  /\ proc["chr"] = 2 \/ table.chr = 0
  /\ DiscoveryOver("chr", chr # 0)
  /\ UNCHANGED <<client, queue, radio, enabled, notes, gaveUp>>

(* Each descriptor 0x2902 up to the end of the service takes the place of  *)
(* the one before; others are only logged.                                 *)
DescriptorFound ==
  /\ Answers("dsc") /\ proc["dsc"] <= Len(table.cccds)
  /\ cccd' = table.cccds[proc["dsc"]]
  /\ proc' = Reported("dsc")
  /\ UNCHANGED <<led, connected, mtuOk, started, service, chr, queue, radio, closing, enabled,
                 notes, kept, gaveUp>>

(* A slip for the mutation runs: ready with the write under way.           *)
DescriptorsDone_Eager ==
  /\ Answers("dsc") /\ proc["dsc"] > Len(table.cccds)
  /\ IF cccd = 0
       THEN /\ proc' = Ended("dsc")
            /\ FailConnection
       ELSE Ask(Ended("dsc"), "write", "ready")
  /\ UNCHANGED <<client, queue, radio, enabled, notes, gaveUp>>

DescriptorsDone ==
  /\ Answers("dsc") /\ proc["dsc"] > Len(table.cccds)
  /\ IF cccd = 0
       THEN /\ proc' = Ended("dsc")
            /\ FailConnection
       ELSE Ask(Ended("dsc"), "write", led)
  /\ UNCHANGED <<client, queue, radio, enabled, notes, gaveUp>>

(* The bike notifies from now on, and is read once; a read that cannot be  *)
(* asked for is only logged.                                               *)
Subscribed ==
  /\ Answers("write")
  /\ enabled' = cccd
  /\ led' = "ready"
  /\ \/ proc' = [Ended("write") EXCEPT !["read"] = 1]
     \/ Faults /\ proc' = Ended("write")
  /\ UNCHANGED <<client, queue, radio, closing, notes, kept, gaveUp>>

ReadAnswered ==
  /\ Answers("read")
  /\ sent < MaxNotes
  /\ sent' = sent + 1
  /\ proc' = Ended("read")
  /\ Enqueue(sent')
  /\ UNCHANGED <<led, client, hasQueue, decoded, radio, closing, enabled, kept, gaveUp>>

ReadFails ==
  /\ proc["read"] > 0
  /\ Faults \/ link = "lost" \/ sent = MaxNotes
  /\ proc' = Ended("read")
  /\ UNCHANGED <<led, client, queue, radio, closing, enabled, notes, kept, gaveUp>>

-----------------------------------------------------------------------------
(* gatt_client_on_notify: a bike that knows the accessory may notify       *)
(* before it is asked to, and is not heard before its handle is known.     *)
Notified ==
  /\ link = "up"
  /\ table.chr # 0
  /\ sent < MaxNotes
  /\ sent' = sent + 1
  /\ \/ chr = table.chr /\ Enqueue(sent')
     \/ chr # table.chr /\ refused' = TRUE /\ UNCHANGED inbox
  /\ UNCHANGED <<led, client, hasQueue, decoded, radio, closing, proc, enabled, kept, gaveUp>>

(* live_data_worker_task hands a notification to the decoder.              *)
Decode ==
  /\ inbox # <<>>
  /\ decoded' = Head(inbox)
  /\ inbox' = Tail(inbox)
  /\ UNCHANGED <<led, client, hasQueue, radio, closing, proc, enabled, notes, kept, gaveUp>>

(* What the host does on its own.  It reports every lost link, stop and    *)
(* reset, and ends every procedure, if need be after 30 seconds.           *)
Callback ==
  \/ Disconnect \/ MtuAgreed
  \/ \E p \in Procedure : ProcedureFails(p)
  \/ ServiceFound \/ ServiceDone \/ CharacteristicFound \/ CharacteristicDone
  \/ DescriptorFound \/ DescriptorsDone \/ Subscribed \/ ReadAnswered \/ ReadFails

BleNext ==
  \/ Sync \/ HostResets \/ OnReset \/ AdvComplete \/ SetDeviceName
  \/ Connect \/ ConnectFails \/ LinkLost \/ Encrypted \/ EncryptionFails
  \/ Callback \/ Notified \/ Decode

BleSpec == BleInit /\ [][BleNext]_bleVars

(* Neither a bike nor a lost link nor encryption has to come; a terminated *)
(* link ends, and the worker takes what is in the queue.                   *)
FairBleSpec ==
  /\ BleSpec
  /\ WF_bleVars(Sync) /\ WF_bleVars(OnReset) /\ WF_bleVars(AdvComplete)
  /\ WF_bleVars(Callback) /\ WF_bleVars(Decode)
  /\ WF_bleVars(closing /\ LinkLost)

-----------------------------------------------------------------------------
(* The types of the variables. *)
ClientTypes ==
  /\ connected \in BOOLEAN /\ mtuOk \in BOOLEAN /\ started \in BOOLEAN
  /\ service \in BOOLEAN /\ chr \in Nat /\ cccd \in Nat
  /\ enabled \in Nat

QueueTypes ==
  /\ hasQueue \in BOOLEAN /\ decoded \in Nat /\ sent \in Nat /\ refused \in BOOLEAN
  /\ inbox \in Seq(Nat) /\ Len(inbox) <= QueueMax

RadioTypes ==
  /\ host \in {"off", "synced", "resetting"} /\ adv \in BOOLEAN /\ advDone \in BOOLEAN
  /\ link \in {"down", "up", "lost"} /\ table \in IF link = "down" THEN {NoTable} ELSE Table

ShownTypes ==
  /\ led \in {"boot", "advertising", "connected", "secured", "ready", "error"}
  /\ closing \in BOOLEAN /\ kept \in BOOLEAN /\ gaveUp \in {"", "silently", "shown", "renamed"}

BleTypeOK ==
  ClientTypes /\ QueueTypes /\ RadioTypes /\ ShownTypes /\ proc \in [Procedure -> Nat]

(* What the client knows of handles it found on the link there is: nothing *)
(* of an earlier bike, in whatever order connections, losses, resets of    *)
(* the host and late callbacks come, is ever written to, read or listened  *)
(* for on another.                                                         *)
FoundIn(h, t) == t # NoTable /\ \E k \in 1..Len(t.cccds) : t.cccds[k] = h

HandlesAreFresh ==
  /\ connected <=> link # "down"
  /\ chr # 0 => table # NoTable /\ chr = table.chr
  /\ cccd # 0 => FoundIn(cccd, table)
  /\ enabled # 0 => FoundIn(enabled, table)

(* A green LED ("live data ready", README.md:374) means that the bike on   *)
(* the link, with an MTU that fits, was told to notify for the descriptor  *)
(* the client found last; but for a link that is gone after which the      *)
(* advertising failed before it could show anything.                       *)
ReadyIsSubscribed ==
  led = "ready" => \/ link # "down" /\ mtuOk /\ enabled # 0 /\ enabled = cccd
                   \/ gaveUp = "silently" /\ link = "down" /\ ~adv

(* Services are looked for once on a link, with nothing found and nothing  *)
(* but the MTU asked for before, although both the MTU and the encryption  *)
(* start that, in either order.                                            *)
DiscoversOnce ==
  [][(proc["svc"] = 0 /\ proc'["svc"] # 0) =>
       /\ mtuOk'
       /\ ~service /\ chr = 0 /\ cccd = 0 /\ enabled = 0
       /\ \A p \in Procedure \ {"mtu"} : proc[p] = 0]_bleVars

(* What is to be decoded is so in the order it came: with the queue empty  *)
(* and the last notification not dropped, the last is the one decoded.     *)
DecodesInOrder ==
  LET order == <<decoded>> \o inbox IN
  /\ \A j, k \in 1..Len(order) : j < k => order[j] < order[k]
  /\ ~refused => order[Len(order)] = sent

(* A link either comes to a subscription or is given up; but for a bike    *)
(* that keeps to a small MTU, whose link stays as it is ("bike may         *)
(* disconnect", gatt_client.c:160), and for a link NimBLE keeps.           *)
SmallMtu == ~mtuOk /\ proc["mtu"] = 0 /\ ~closing

LinkSettles ==
  link = "up" ~> (enabled # 0 \/ link # "up" \/ SmallMtu \/ kept)

(* Without a bike the accessory advertises again, after every lost link,   *)
(* refused connection and reset of the host, unless an attempt to failed   *)
(* or the advertising was stopped for a new name, after which nothing is   *)
(* left to start it.                                                       *)
Silent == host = "synced" /\ link # "up" /\ ~adv

AdvertisingResumes == Silent ~> (~Silent \/ gaveUp # "")

(* README.md:23 "Advertises as a BLE accessory", and a new name is one     *)
(* "shown to the bike" (wifi_admin.c:1302): the advertising that is        *)
(* stopped for it (ble_gap.c:87) is started again, or at least tried to.   *)
NewNameIsShown == Silent ~> (~Silent \/ gaveUp \in {"silently", "shown"})

-----------------------------------------------------------------------------
(* What the proofs add.  Advertising and a link exclude each other, and so *)
(* does a host that is not synchronised; nothing is under way on no link.  *)
OneAtATime ==
  /\ adv => host = "synced" /\ link = "down" /\ ~advDone
  /\ advDone => host # "off" /\ link = "down"
  /\ host = "off" => link = "down"
  /\ link = "down" => proc = Idle

(* The chain is gone through once and in one direction: as long as a part  *)
(* of it may begin the next, there is nothing of what follows.             *)
InOrder ==
  /\ proc["mtu"] > 0 => ~mtuOk
  /\ started => mtuOk
  /\ ~started => /\ ~service /\ chr = 0 /\ cccd = 0 /\ enabled = 0
                 /\ \A p \in Procedure \ {"mtu"} : proc[p] = 0
  /\ proc["svc"] = 1 => proc["chr"] = 0
  /\ proc["svc"] = 1 \/ proc["chr"] = 1 => proc["dsc"] = 0
  /\ proc["svc"] = 1 \/ proc["chr"] = 1 \/ proc["dsc"] > 0 => proc["write"] = 0
  /\ proc["svc"] = 1 \/ proc["chr"] = 1 \/ proc["dsc"] > 0 \/ proc["write"] > 0 => enabled = 0
  /\ proc["write"] > 0 => cccd # 0
  /\ enabled # 0 => enabled = cccd

(* The inductive invariant. *)
BleInv == BleTypeOK /\ HandlesAreFresh /\ OneAtATime /\ InOrder /\ ReadyIsSubscribed

(* Of the notifications, the last that was decoded comes before those that *)
(* wait, which are in the order they came; the last of all is among them   *)
(* unless it was dropped.                                                  *)
NotesInv ==
  /\ QueueTypes
  /\ decoded <= sent
  /\ \A k \in 1..Len(inbox) : decoded < inbox[k] /\ inbox[k] <= sent
  /\ \A j, k \in 1..Len(inbox) : j < k => inbox[j] < inbox[k]
  /\ ~refused => IF inbox = <<>> THEN decoded = sent ELSE inbox[Len(inbox)] = sent
=============================================================================
