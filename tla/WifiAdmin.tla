----------------------------- MODULE WifiAdmin -----------------------------
(***************************************************************************)
(* main/wifi_admin.c: how the device gets onto a network.  Three kinds of  *)
(* tasks share the event bits and a handful of statics without a lock: the *)
(* boot, the event loop (wifi_event_handler), and one task per POST /save  *)
(* (wifi_reconfigure_task), of which nothing excludes two at a time.       *)
(*                                                                         *)
(* The Wi-Fi driver is not part of the code; radio, target, sta, events    *)
(* and air say what is used of it: calls return before they have taken     *)
(* effect, what becomes of them is posted to the event loop in order, and  *)
(* the configuration of the station survives a reset.  STA_CONNECTED and   *)
(* GOT_IP are one event.  A wait may time out at any moment.               *)
(***************************************************************************)
EXTENDS Naturals, Sequences

CONSTANTS
  Ssid,       (* names of networks                                         *)
  Pass,       (* their passwords                                           *)
  Entered,    (* the credentials that users enter                          *)
  Empty,      (* the empty string, and a key that is not in NVS            *)
  Task,       (* the tasks that handlers of POST /save may start           *)
  MaxRetry,   (* the reconnects of wifi_event_handler, 5                   *)
  MaxEvents,  (* bound on the events that wait for the event loop          *)
  Faults      (* whether calls of the driver and writes to NVS fail        *)

Cred == [ssid : Ssid, pass : Pass]
NoCred == [ssid |-> Empty, pass |-> Empty]

ASSUME WifiAssumption ==
  /\ Empty \notin Ssid \cup Pass
  /\ Entered \subseteq Cred
  /\ MaxRetry \in Nat /\ MaxEvents \in Nat
  /\ Faults \in BOOLEAN

VARIABLES
  nvs,     (* the keys "ssid" and "pass"                             [NVS] *)
  boot,    (* wifi_admin_start: "off", "wait", "setup" or "up"             *)
  bits,    (* wifi_events, a subset of {"connected", "failed"}             *)
  ap,      (* setup_ap_running                                             *)
  busy,    (* wifi_reconfiguring                                           *)
  retry,   (* retry_count                                                  *)
  ssid,    (* current_ssid                                                 *)
  task,    (* task[t]: the place of a reconfiguration and its request      *)
  sta,     (* the configuration of the station                    [driver] *)
  radio,   (* "off", "idle", "trying" or "joined"                 [driver] *)
  target,  (* the credentials it tries or has joined with         [driver] *)
  events,  (* what the event loop has to handle                   [driver] *)
  air,     (* the credentials that some network would accept               *)
  worked,  (* credentials that have been given an address                  *)
  doubt,   (* the credentials in NVS may be untried: an address was taken  *)
           (* for that of another network, a save was cut, or two saves    *)
           (* overlapped                                                   *)
  stranded (* a reconfiguration has told the event handler to leave the    *)
           (* last drop alone, or was refused a call of the driver         *)

driver == <<sta, radio, target, events>>
statics == <<bits, ap, busy, retry, ssid>>
ghosts == <<worked, doubt, stranded>>
wifiVars == <<nvs, boot, statics, task, driver, air, ghosts>>

Idle == [at |-> "idle", next |-> NoCred, previous |-> NoCred]

Event == [kind : {"start", "drop", "ip"}, cred : Cred \cup {NoCred}]
Start == [kind |-> "start", cred |-> NoCred]
Drop == [kind |-> "drop", cred |-> NoCred]
Ip(c) == [kind |-> "ip", cred |-> c]

WifiInit ==
  /\ nvs \in Entered \cup {NoCred}
  /\ air \in SUBSET Entered
  /\ worked = IF nvs = NoCred THEN {} ELSE {nvs}
  /\ boot = "off"
  /\ bits = {} /\ ap = FALSE /\ busy = FALSE /\ retry = 0 /\ ssid = Empty
  /\ task = [t \in Task |-> Idle]
  /\ sta = NoCred /\ radio = "off" /\ target = NoCred /\ events = <<>>
  /\ doubt = FALSE /\ stranded = FALSE

-----------------------------------------------------------------------------
(* The driver                                                              *)

Post(e) == Len(events) < MaxEvents /\ events' = Append(events, e)

(* esp_wifi_connect, with the configuration c *)
Connect(c) ==
  IF radio = "idle"
    THEN radio' = "trying" /\ target' = c
    ELSE UNCHANGED <<radio, target>>

(* esp_wifi_disconnect *)
Disconnect ==
  /\ IF radio \in {"trying", "joined"}
       THEN radio' = "idle" /\ target' = NoCred /\ Post(Drop)
       ELSE UNCHANGED <<radio, target, events>>
  /\ UNCHANGED sta

outside == <<nvs, boot, statics, task, sta, doubt, stranded>>

Join ==
  /\ radio = "trying"
  /\ target \in air
  /\ radio' = "joined"
  /\ Post(Ip(target))
  /\ worked' = worked \cup {target}
  /\ UNCHANGED <<outside, target, air>>

(* The network refuses, is gone, or was never there. *)
Lose ==
  /\ radio \in {"trying", "joined"}
  /\ target \notin air
  /\ radio' = "idle" /\ target' = NoCred
  /\ Post(Drop)
  /\ UNCHANGED <<outside, air, worked>>

AirChange ==
  /\ \E c \in Entered : air' = (air \cup {c}) \/ air' = (air \ {c})
  /\ UNCHANGED <<outside, radio, target, events, worked>>

-----------------------------------------------------------------------------
(* wifi_event_handler, in the task of the event loop                       *)

(* The reconfigurations behind their first delay, and those of them that   *)
(* have yet to see the bits of their new network.                          *)
Underway == {t \in Task : task[t].at \notin {"idle", "delay"}}

Awaiting == {t \in Task : task[t].at \in {"disconnect", "apply", "wait"}}

elsewhere == <<nvs, boot, task, sta, air, worked>>

Take(kind) ==
  /\ events # <<>>
  /\ Head(events).kind = kind
  /\ events' = Tail(events)

OnStart ==
  /\ Take("start")
  /\ Connect(sta)
  /\ UNCHANGED <<elsewhere, statics, doubt, stranded>>

(* A slip for the mutation runs: the early return comes first. *)
OnDropBusy_KeepsSsid ==
  /\ Take("drop")
  /\ busy
  /\ stranded' = (Underway # {})
  /\ UNCHANGED <<elsewhere, statics, radio, target, doubt>>

OnDropBusy ==
  /\ Take("drop")
  /\ busy
  /\ ssid' = Empty
  /\ stranded' = (Underway # {})
  /\ UNCHANGED <<elsewhere, bits, ap, busy, retry, radio, target, doubt>>

OnDropRetry ==
  /\ Take("drop")
  /\ ~busy
  /\ ssid' = Empty
  /\ retry < MaxRetry /\ ~ap
  /\ retry' = retry + 1
  /\ Connect(sta)
  /\ stranded' = FALSE
  /\ UNCHANGED <<elsewhere, bits, ap, busy, doubt>>

OnDropGiveUp ==
  /\ Take("drop")
  /\ ~busy
  /\ ssid' = Empty
  /\ retry >= MaxRetry \/ ap
  /\ bits' = bits \cup {"failed"}
  /\ stranded' = FALSE
  /\ UNCHANGED <<elsewhere, ap, busy, retry, radio, target, doubt>>

(* The name is that of the network the station is on now, if any. *)
OnIp ==
  /\ Take("ip")
  /\ ssid' = IF radio = "joined" THEN target.ssid ELSE ssid
  /\ retry' = 0
  /\ bits' = bits \cup {"connected"}
  /\ doubt' = (doubt \/ \E t \in Awaiting : task[t].next # Head(events).cred)
  /\ stranded' = FALSE
  /\ UNCHANGED <<elsewhere, ap, busy, radio, target>>

EventLoop == OnStart \/ OnDropBusy \/ OnDropRetry \/ OnDropGiveUp \/ OnIp

-----------------------------------------------------------------------------
(* wifi_admin_start.  load_credentials wants both keys and a name.         *)

Loaded == nvs.ssid # Empty /\ nvs.pass # Empty

(* connect_sta, up to its wait *)
BootConnect ==
  /\ boot = "off"
  /\ Loaded
  /\ sta' = nvs
  /\ radio' = "idle"
  /\ Post(Start)
  /\ boot' = "wait"
  /\ UNCHANGED <<nvs, statics, task, target, air, ghosts>>

BootConnected ==
  /\ boot = "wait"
  /\ "connected" \in bits
  /\ bits' = {}
  /\ boot' = "up"
  /\ UNCHANGED <<nvs, ap, busy, retry, ssid, task, driver, air, ghosts>>

(* FAILED, or the 12 seconds are over. *)
BootGiveUp ==
  /\ boot = "wait"
  /\ "connected" \notin bits
  /\ bits' = {}
  /\ Disconnect
  /\ boot' = "setup"
  /\ UNCHANGED <<nvs, ap, busy, retry, ssid, task, air, ghosts>>

BootNothing ==
  /\ boot = "off"
  /\ ~Loaded
  /\ boot' = "setup"
  /\ UNCHANGED <<nvs, statics, task, driver, air, ghosts>>

(* start_setup_ap: the station is started again as well, with what it was  *)
(* last configured to.                                                     *)
SetupAp ==
  /\ boot = "setup"
  /\ ap' = TRUE
  /\ radio' = "idle" /\ target' = NoCred
  /\ IF radio \in {"trying", "joined"}
       THEN /\ Len(events) < MaxEvents
            /\ events' = Append(Append(events, Drop), Start)
       ELSE Post(Start)
  /\ boot' = "up"
  /\ UNCHANGED <<nvs, bits, busy, retry, ssid, task, sta, air, ghosts>>

Boot == BootConnect \/ BootConnected \/ BootGiveUp \/ BootNothing \/ SetupAp

-----------------------------------------------------------------------------
(* save_post_handler, in the HTTP server                                   *)
Save(t, c) ==
  /\ boot = "up"
  /\ task[t] = Idle
  /\ task' = [task EXCEPT ![t] = [at |-> "delay", next |-> c,
                                  previous |-> IF Loaded THEN nvs ELSE NoCred]]
  /\ UNCHANGED <<nvs, boot, statics, driver, air, ghosts>>

(* wifi_reconfigure_task and reconnect_sta_transactional                   *)

Move(t, from, to) ==
  /\ task[t].at = from
  /\ task' = [task EXCEPT ![t].at = to]

(* A slip for the mutation runs: bits of earlier events stay set. *)
Begin_KeepsBits(t) ==
  /\ Move(t, "delay", "disconnect")
  /\ busy' = TRUE
  /\ retry' = 0
  /\ UNCHANGED <<nvs, boot, bits, ap, ssid, driver, air, ghosts>>

Begin(t) ==
  /\ Move(t, "delay", "disconnect")
  /\ busy' = TRUE
  /\ retry' = 0
  /\ bits' = {}
  /\ UNCHANGED <<nvs, boot, ap, ssid, driver, air, ghosts>>

DisconnectOld(t) ==
  /\ Move(t, "disconnect", "apply")
  /\ Disconnect
  /\ UNCHANGED <<nvs, boot, statics, air, ghosts>>

(* apply_sta_credentials up to its wait; esp_wifi_set_config refuses while *)
(* the station is connecting.                                              *)
Apply(t, from, to, c) ==
  /\ Move(t, from, to)
  /\ radio # "trying"
  /\ sta' = c
  /\ Connect(c)
  /\ UNCHANGED <<nvs, boot, statics, events, air, ghosts>>

Refused(t, from, to) ==
  /\ radio = "trying" \/ Faults
  /\ Move(t, from, to)
  /\ stranded' = TRUE
  /\ UNCHANGED <<nvs, boot, statics, driver, air, worked, doubt>>

Connected(t, from, to) ==
  /\ Move(t, from, to)
  /\ "connected" \in bits
  /\ bits' = {}
  /\ UNCHANGED <<nvs, boot, ap, busy, retry, ssid, driver, air, ghosts>>

(* FAILED, or the 12 seconds are over. *)
NotConnected(t, from, to) ==
  /\ Move(t, from, to)
  /\ "connected" \notin bits
  /\ bits' = {}
  /\ UNCHANGED <<nvs, boot, ap, busy, retry, ssid, driver, air, ghosts>>

ApplyNext(t) ==
  \/ Apply(t, "apply", "wait", task[t].next)
  \/ Refused(t, "apply", "failed")
  \/ Connected(t, "wait", "save")
  \/ NotConnected(t, "wait", "failed")

Fallback(t) ==
  /\ task[t].previous # NoCred
  /\ Move(t, "failed", "fallback")
  /\ bits' = {}
  /\ UNCHANGED <<nvs, boot, ap, busy, retry, ssid, driver, air, ghosts>>

DisconnectNew(t) ==
  /\ Move(t, "fallback", "back")
  /\ Disconnect
  /\ UNCHANGED <<nvs, boot, statics, air, ghosts>>

(* A slip for the mutation runs: the new network is tried once more. *)
ApplyPrevious_New(t) ==
  \/ Apply(t, "back", "backwait", task[t].next)
  \/ Refused(t, "back", "lost")
  \/ Connected(t, "backwait", "end")
  \/ NotConnected(t, "backwait", "end")

ApplyPrevious(t) ==
  \/ Apply(t, "back", "backwait", task[t].previous)
  \/ Refused(t, "back", "lost")
  \/ Connected(t, "backwait", "end")
  \/ NotConnected(t, "backwait", "end")

(* save_credentials; a failed write ends it. *)
SaveSsid(t) ==
  /\ Move(t, "save", "savepass")
  /\ nvs' = [nvs EXCEPT !.ssid = task[t].next.ssid]
  /\ doubt' = (doubt \/ \E u \in Task \ {t} : task[u].at = "savepass")
  /\ UNCHANGED <<boot, statics, driver, air, worked, stranded>>

SavePass(t) ==
  /\ Move(t, "savepass", "done")
  /\ nvs' = [nvs EXCEPT !.pass = task[t].next.pass]
  /\ UNCHANGED <<boot, statics, driver, air, ghosts>>

SaveFails(t) ==
  /\ Faults
  /\ Move(t, "save", "end") \/ Move(t, "savepass", "end")
  /\ doubt' = (doubt \/ task[t].at = "savepass")
  /\ UNCHANGED <<nvs, boot, statics, driver, air, worked, stranded>>

(* A slip for the mutation runs: the flag is forgotten. *)
Leave_StaysBusy(t) == UNCHANGED busy /\ task' = [task EXCEPT ![t] = Idle]

Leave(t) == busy' = FALSE /\ task' = [task EXCEPT ![t] = Idle]

(* The new network is saved: the setup access point goes. *)
Finish(t) ==
  /\ task[t].at = "done"
  /\ ap' = FALSE
  /\ Leave(t)
  /\ UNCHANGED <<nvs, boot, bits, retry, ssid, driver, air, ghosts>>

End(t) ==
  /\ \/ task[t].at \in {"end", "lost"}
     \/ task[t].at = "failed" /\ task[t].previous = NoCred
  /\ Leave(t)
  /\ UNCHANGED <<nvs, boot, bits, ap, retry, ssid, driver, air, ghosts>>

Reconfigure(t) ==
  \/ Begin(t) \/ DisconnectOld(t) \/ ApplyNext(t)
  \/ Fallback(t) \/ DisconnectNew(t) \/ ApplyPrevious(t)
  \/ SaveSsid(t) \/ SavePass(t) \/ SaveFails(t) \/ Finish(t) \/ End(t)

Reset ==
  /\ boot' = "off"
  /\ bits' = {} /\ ap' = FALSE /\ busy' = FALSE /\ retry' = 0 /\ ssid' = Empty
  /\ task' = [t \in Task |-> Idle]
  /\ radio' = "off" /\ target' = NoCred /\ events' = <<>>
  /\ doubt' = (doubt \/ \E t \in Task : task[t].at = "savepass")
  /\ stranded' = FALSE
  /\ UNCHANGED <<nvs, sta, air, worked>>

-----------------------------------------------------------------------------
WifiNext ==
  \/ Boot \/ EventLoop
  \/ \E t \in Task, c \in Entered : Save(t, c)
  \/ \E t \in Task : Reconfigure(t)
  \/ Join \/ Lose \/ AirChange
  \/ Reset

WifiSpec == WifiInit /\ [][WifiNext]_wifiVars

(* Every task runs, and the driver answers what it is asked. *)
FairWifiSpec ==
  /\ WifiSpec
  /\ WF_wifiVars(Boot) /\ WF_wifiVars(EventLoop)
  /\ \A t \in Task : WF_wifiVars(Reconfigure(t))
  /\ WF_wifiVars(Join \/ Lose)

-----------------------------------------------------------------------------
(* Properties                                                              *)

Place == {"idle", "delay", "disconnect", "apply", "wait", "failed",
          "fallback", "back", "backwait", "lost",
          "save", "savepass", "done", "end"}

Request == [at : Place, next : Cred \cup {NoCred}, previous : Cred \cup {NoCred}]

WifiTypeOK ==
  /\ nvs \in [ssid : Ssid \cup {Empty}, pass : Pass \cup {Empty}]
  /\ boot \in {"off", "wait", "setup", "up"}
  /\ bits \subseteq {"connected", "failed"}
  /\ ap \in BOOLEAN /\ busy \in BOOLEAN
  /\ retry \in 0 .. MaxRetry
  /\ ssid \in Ssid \cup {Empty}
  /\ task \in [Task -> Request]
  /\ sta \in Cred \cup {NoCred} /\ target \in Cred \cup {NoCred}
  /\ radio \in {"off", "idle", "trying", "joined"}
  /\ events \in Seq(Event)
  /\ air \subseteq Entered /\ worked \subseteq Cred
  /\ doubt \in BOOLEAN /\ stranded \in BOOLEAN

(* A save is between its two writes. *)
HalfSaved == \E t \in Task : task[t].at = "savepass"

(* README.md:204 "The firmware connects first, saves only after success":  *)
(* what is in NVS has given the device an address before, whatever events  *)
(* of the old network arrive while the new one is tried, unless (doubt)    *)
(* one of them was an address, which the wait of 243-252 takes for the     *)
(* new network's, or the two writes of 109-112 were torn apart.            *)
SavedHasWorked == nvs \in worked \cup {NoCred} \/ HalfSaved \/ doubt

(* The same, taken at its word.                                            *)
SavesOnlyConnected == nvs \in worked \cup {NoCred} \/ HalfSaved

(* wifi_admin_is_connected (2318) tells the exporter, the automation and   *)
(* Home Assistant the truth as soon as no event waits for the event loop:  *)
(* current_ssid (129, 150) names the network the station is on, whichever  *)
(* of several connections and losses were still on their way.              *)
StatusIsTrue ==
  events = <<>> => ssid = IF radio = "joined" THEN target.ssid ELSE Empty

(* When all is quiet and the station neither is on a network nor tries to  *)
(* be, and no setup access point runs, it has used up its retries (134),   *)
(* or a reconfiguration took away its chance (130): its drop came between  *)
(* the address (243) and the end of the reconfiguration (309), or the      *)
(* fallback failed, too.  This is so with one reconfiguration at a time.   *)
OfflineIsExplained ==
  boot = "up" /\ radio = "idle" /\ events = <<>> /\ Underway = {}
    => ap \/ retry = MaxRetry \/ stranded

(* README.md:204 "falls back to the previous saved Wi-Fi if the new        *)
(* connection fails": the station gets back onto the previous network as   *)
(* long as that is there, even if it answers after the wait, unless the    *)
(* driver refuses, a late event has started the station meanwhile, the     *)
(* next request comes, or the device restarts (269-286).                   *)
FallsBack ==
  \A t \in Task, c \in Entered :
    task[t].at = "fallback" /\ task[t].previous = c /\ Underway = {t}
      ~> \/ radio = "joined" /\ target = c
         \/ c \notin air
         \/ task[t].at = "lost" \/ (task[t].at = "back" /\ radio # "idle")
         \/ \E u \in Task : task[u].at = "disconnect"
         \/ boot # "up"

(* What the proofs add.  An address that is taken for a new network's was  *)
(* given by it, and a save writes what has worked.                         *)
AddressesWorked ==
  \A i \in 1 .. Len(events) : events[i].kind = "ip" => events[i].cred \in worked

BitIsOfNext ==
  "connected" \in bits => \A t \in Awaiting : task[t].next \in worked

SavesWhatWorked ==
  \A t \in Task : task[t].at \in {"save", "savepass"} => task[t].next \in worked

HalfIsNext ==
  \A t \in Task : task[t].at = "savepass" =>
     /\ nvs.ssid = task[t].next.ssid
     /\ \A u \in Task : task[u].at = "savepass" => u = t

(* The last word the event loop has to hear about the station is true.     *)
Speaks(i) == i \in 1 .. Len(events) /\ events[i].kind # "start"

LastWordIsTrue ==
  /\ (\A i \in 1 .. Len(events) : ~Speaks(i)) =>
       ssid = IF radio = "joined" THEN target.ssid ELSE Empty
  /\ \A i \in 1 .. Len(events) :
       Speaks(i) /\ (\A j \in i + 1 .. Len(events) : ~Speaks(j)) =>
         (events[i].kind = "ip" <=> radio = "joined")

(* The driver is started by the boot. *)
OffUntilBoot == boot = "off" => radio = "off"

(* The inductive invariant. *)
WifiInv ==
  /\ WifiTypeOK
  /\ OffUntilBoot
  /\ AddressesWorked
  /\ doubt \/ (BitIsOfNext /\ SavesWhatWorked /\ HalfIsNext /\ SavedHasWorked)
  /\ LastWordIsTrue

(* One reconfiguration at a time is behind its delay.                      *)
OneAtATime == \A t, u \in Underway : t = u

(* Then a station that is out of work before it was told to connect again  *)
(* is in the hands of the one that is to apply its credentials, or can be  *)
(* explained.                                                              *)
OutOfWork == boot \in {"wait", "up"} /\ radio = "idle" /\ events = <<>>

OfflineInv ==
  /\ \A t \in Task : boot # "up" => task[t].at = "idle"
  /\ busy <=> Underway # {}
  /\ OutOfWork =>
       \/ stranded
       \/ Underway = {} /\ (ap \/ retry = MaxRetry)
       \/ \E t \in Underway : task[t].at \in {"disconnect", "apply"}

=============================================================================
