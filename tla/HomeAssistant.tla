--------------------------- MODULE HomeAssistant ---------------------------
(***************************************************************************)
(* main/home_assistant.c with its settings in main/accessory_config.c and  *)
(* the handler that changes them (wifi_admin.c:1698-1769).                 *)
(*                                                                         *)
(* The settings are NVS keys, written one by one by the HTTP server and    *)
(* read one by one by the publishing task, with no lock.  Eight keys are   *)
(* represented by two: whether the client is wanted (enabled, and a host   *)
(* is given), and the base of the topics.  The publishing task starts and  *)
(* stops an MQTT client, whose own task calls mqtt_event_handler; the      *)
(* publishing task reads the flags that this sets, without a lock either.  *)
(*                                                                         *)
(* The MQTT client and the broker are not part of the code: session,       *)
(* report, entities and status say what is used of them.  A message is     *)
(* lost when there is no session.                                          *)
(***************************************************************************)
EXTENDS Naturals, Sequences

CONSTANTS
  Base,      (* topic bases                                                *)
  Unset,     (* active_config after its memset                             *)
  Entered,   (* the settings that users enter                              *)
  Entities,  (* how many HA_ENTITIES there are, 12                         *)
  Faults     (* whether the client may not start, and writes to NVS fail   *)

Settings == [wanted : BOOLEAN, base : Base]

(* The order in which the keys are written and read. *)
Key == <<"wanted", "base">>

ASSUME HaAssumption ==
  /\ Entered \subseteq Settings
  /\ Unset \notin Settings
  /\ Entities \in Nat \ {0}
  /\ Faults \in BOOLEAN

VARIABLES
  nvs,        (* the settings                                        [NVS] *)
  form,       (* the handler of a POST: the key it writes next, and what   *)
  at,         (* where home_assistant_task is: "sleep", "load", "decide",  *)
              (* "start", "look", "entity" or "online"                     *)
  step,       (* the key it reads next, or the entity it publishes next    *)
  config,     (* its local variable                                        *)
  active,     (* active_config; Unset when mqtt_client is NULL             *)
  connected,  (* mqtt_connected                                            *)
  announced,  (* discovery_published                                       *)
  wifi,       (* wifi_admin_is_connected                                   *)
  session,    (* the client has a session with the broker         [client] *)
  report,     (* the event it has to report, or ""                [client] *)
  entities,   (* the retained discovery messages                  [broker] *)
  status,     (* the retained availability of each base           [broker] *)
  cut,        (* a session ended or was reported in the middle of          *)
              (* publish_discovery                                         *)
  unsaid      (* bases whose client ended without a session                *)

settings == <<nvs, form>>
publisher == <<at, step, config>>
statics == <<active, connected, announced>>
client == <<session, report>>
broker == <<entities, status>>
ghosts == <<cut, unsaid>>
haVars == <<settings, publisher, statics, wifi, client, broker, ghosts>>

NoForm == [key |-> 0, next |-> Unset]

HaInit ==
  /\ nvs \in Entered
  /\ form = NoForm
  /\ at = "sleep" /\ step = 1 /\ config = Unset
  /\ active = Unset /\ connected = FALSE /\ announced = FALSE
  /\ wifi = FALSE
  /\ session = FALSE /\ report = ""
  /\ entities = {} /\ status = [b \in Base |-> ""]
  /\ cut = FALSE /\ unsaid = {}

-----------------------------------------------------------------------------
(* The HTTP server: ha_config_post_handler and accessory_config_save_ha    *)

Submit(c) ==
  /\ form = NoForm
  /\ form' = [key |-> 1, next |-> c]
  /\ UNCHANGED <<nvs, publisher, statics, wifi, client, broker, ghosts>>

SaveKey ==
  /\ form # NoForm
  /\ nvs' = [nvs EXCEPT ![Key[form.key]] = form.next[Key[form.key]]]
  /\ form' = IF form.key < Len(Key) THEN [form EXCEPT !.key = @ + 1] ELSE NoForm
  /\ UNCHANGED <<publisher, statics, wifi, client, broker, ghosts>>

SaveFails ==
  /\ Faults
  /\ form # NoForm
  /\ form' = NoForm
  /\ UNCHANGED <<nvs, publisher, statics, wifi, client, broker, ghosts>>

-----------------------------------------------------------------------------
(* The publishing task                                                     *)

Go(place) == at' = place /\ step' = 1

Sleep == Go("sleep") /\ config' = Unset

(* accessory_config_load_ha: what Wake reads beyond the first key is read  *)
(* again by LoadKey.                                                       *)
Wake ==
  /\ at = "sleep"
  /\ at' = "load" /\ step' = 2
  /\ config' = nvs
  /\ UNCHANGED <<settings, statics, wifi, client, broker, ghosts>>

LoadKey ==
  /\ at = "load"
  /\ config' = [config EXCEPT ![Key[step]] = nvs[Key[step]]]
  /\ IF step < Len(Key) THEN step' = step + 1 /\ UNCHANGED at ELSE Go("decide")
  /\ UNCHANGED <<settings, statics, wifi, client, broker, ghosts>>

Running == active # Unset

(* What publish_topic hands to the client reaches the broker. *)
Reaches == connected /\ session

(* The client ends, and its base may be left "online". *)
Untold == unsaid \cup {b \in Base : Running /\ active.base = b /\ status[b] = "online"}

(* A slip for the mutation runs: the topic is that of the new settings.    *)
StopClient_NewTopic ==
  /\ active' = Unset /\ connected' = FALSE /\ announced' = FALSE
  /\ session' = FALSE /\ report' = ""
  /\ IF Running /\ Reaches
       THEN status' = [status EXCEPT ![config.base] = "offline"] /\ UNCHANGED unsaid
       ELSE unsaid' = Untold /\ UNCHANGED status
  /\ cut' = FALSE
  /\ UNCHANGED entities

(* stop_client: "offline" is said on the topic of the running client. *)
StopClient ==
  /\ active' = Unset /\ connected' = FALSE /\ announced' = FALSE
  /\ session' = FALSE /\ report' = ""
  /\ IF Running /\ Reaches
       THEN status' = [status EXCEPT ![active.base] = "offline"] /\ UNCHANGED unsaid
       ELSE unsaid' = Untold /\ UNCHANGED status
  /\ cut' = FALSE
  /\ UNCHANGED entities

Stop ==
  /\ at = "decide"
  /\ ~config.wanted \/ ~wifi
  /\ StopClient
  /\ Sleep
  /\ UNCHANGED <<settings, wifi>>

(* A slip for the mutation runs: the topic base is not compared.           *)
Same_AnyBase == Running

(* mqtt_client and ha_config_same *)
Same == active = config

Restart ==
  /\ at = "decide"
  /\ config.wanted /\ wifi
  /\ ~Same
  /\ StopClient
  /\ Go("start")
  /\ UNCHANGED <<settings, config, wifi>>

KeepClient ==
  /\ at = "decide"
  /\ config.wanted /\ wifi
  /\ Same
  /\ Go("look")
  /\ UNCHANGED <<settings, config, statics, wifi, client, broker, ghosts>>

(* start_client *)
StartClient ==
  /\ at = "start"
  /\ active' = config
  /\ Go("look")
  /\ unsaid' = unsaid \ {config.base}
  /\ UNCHANGED <<settings, config, connected, announced, wifi, client, broker, cut>>

StartFails ==
  /\ Faults
  /\ at = "start"
  /\ Sleep
  /\ UNCHANGED <<settings, statics, wifi, client, broker, ghosts>>

(* mqtt_connected and discovery_published; publish_state changes nothing   *)
(* here.                                                                   *)
NothingToAnnounce ==
  /\ at = "look"
  /\ ~connected \/ announced
  /\ Sleep
  /\ UNCHANGED <<settings, statics, wifi, client, broker, ghosts>>

Announce ==
  /\ at = "look"
  /\ connected /\ ~announced
  /\ Go("entity")
  /\ cut' = (~session \/ report # "")
  /\ UNCHANGED <<settings, config, statics, wifi, client, broker, unsaid>>

(* One publish_entity_discovery; the result is ignored. *)
PublishEntity ==
  /\ at = "entity"
  /\ entities' = IF Reaches THEN entities \cup {<<config.base, step>>} ELSE entities
  /\ IF step < Entities THEN step' = step + 1 /\ UNCHANGED at ELSE Go("online")
  /\ UNCHANGED <<settings, config, statics, wifi, client, status, ghosts>>

PublishOnline ==
  /\ at = "online"
  /\ status' = IF Reaches THEN [status EXCEPT ![config.base] = "online"] ELSE status
  /\ announced' = TRUE
  /\ Sleep
  /\ UNCHANGED <<settings, active, connected, wifi, client, entities, ghosts>>

Publisher ==
  \/ Wake \/ LoadKey \/ Stop \/ Restart \/ KeepClient \/ StartFails
  \/ NothingToAnnounce \/ Announce \/ PublishEntity \/ PublishOnline

-----------------------------------------------------------------------------
(* The MQTT client and mqtt_event_handler                                  *)

Announcing == at \in {"entity", "online"}

SessionBegins ==
  /\ Running /\ wifi
  /\ ~session /\ report = ""
  /\ session' = TRUE
  /\ report' = "connected"
  /\ UNCHANGED <<settings, publisher, statics, wifi, broker, ghosts>>

SessionEnds ==
  /\ session /\ report = ""
  /\ session' = FALSE
  /\ report' = "disconnected"
  /\ cut' = (cut \/ Announcing)
  /\ UNCHANGED <<settings, publisher, statics, wifi, broker, unsaid>>

(* A broker that keeps nothing restarts. *)
BrokerForgets ==
  /\ session /\ report = ""
  /\ session' = FALSE
  /\ report' = "disconnected"
  /\ entities' = {}
  /\ status' = [b \in Base |-> ""]
  /\ cut' = (cut \/ Announcing)
  /\ unsaid' = {}
  /\ UNCHANGED <<settings, publisher, statics, wifi>>

(* A slip for the mutation runs: what was announced once stays announced. *)
OnConnected_Once ==
  /\ report = "connected"
  /\ report' = ""
  /\ connected' = TRUE
  /\ UNCHANGED <<settings, publisher, active, announced, wifi, session, broker, ghosts>>

OnConnected ==
  /\ report = "connected"
  /\ report' = ""
  /\ connected' = TRUE
  /\ announced' = FALSE
  /\ UNCHANGED <<settings, publisher, active, wifi, session, broker, ghosts>>

OnDisconnected ==
  /\ report = "disconnected"
  /\ report' = ""
  /\ connected' = FALSE
  /\ UNCHANGED <<settings, publisher, active, announced, wifi, session, broker, ghosts>>

-----------------------------------------------------------------------------
WifiChange ==
  /\ wifi' = ~wifi
  /\ UNCHANGED <<settings, publisher, statics, client, broker, ghosts>>

Reset ==
  /\ form' = NoForm
  /\ Sleep
  /\ active' = Unset /\ connected' = FALSE /\ announced' = FALSE
  /\ wifi' = FALSE /\ session' = FALSE /\ report' = ""
  /\ cut' = FALSE
  /\ unsaid' = Untold
  /\ UNCHANGED <<nvs, broker>>

HaNext ==
  \/ (\E c \in Entered : Submit(c)) \/ SaveKey \/ SaveFails
  \/ Publisher \/ StartClient
  \/ SessionBegins \/ SessionEnds \/ BrokerForgets
  \/ OnConnected \/ OnDisconnected
  \/ WifiChange \/ Reset

HaSpec == HaInit /\ [][HaNext]_haVars

(* Both tasks run, and a client that may start does so in the end. *)
FairHaSpec ==
  /\ HaSpec
  /\ WF_haVars(SaveKey) /\ WF_haVars(Publisher) /\ SF_haVars(StartClient)

-----------------------------------------------------------------------------
(* Properties                                                              *)

HaTypeOK ==
  /\ nvs \in Settings
  /\ form.key \in 0 .. Len(Key) /\ form.next \in Settings \cup {Unset}
  /\ at \in {"sleep", "load", "decide", "start", "look", "entity", "online"}
  /\ config \in Settings \cup {Unset}
  /\ active \in Settings \cup {Unset}
  /\ connected \in BOOLEAN /\ announced \in BOOLEAN
  /\ wifi \in BOOLEAN /\ session \in BOOLEAN
  /\ report \in {"", "connected", "disconnected"}
  /\ entities \subseteq Base \X (1 .. Entities)
  /\ status \in [Base -> {"", "online", "offline"}]
  /\ cut \in BOOLEAN /\ unsaid \subseteq Base

Whole(b) == \A i \in 1 .. Entities : <<b, i>> \in entities

Announced == Reaches /\ report = "" /\ announced

(* The broker has every entity and the word "online" under the topics of   *)
(* the running client whenever discovery_published says so: after any      *)
(* number of reconnects, of changes of the settings while they are read,   *)
(* and of restarts of a broker that keeps nothing (124-125, 232).  Only a  *)
(* session that ended in the middle of publish_discovery, or had ended     *)
(* unnoticed before it, can leave holes: 232 sets the flag that the        *)
(* reconnect has just cleared.                                             *)
AnnouncedIsThere ==
  Announced /\ ~cut => Whole(active.base) /\ status[active.base] = "online"

(* README.md:274 has the discovery retained "so Home Assistant can         *)
(* recreate entities": it is there, whatever happened on the way.          *)
AnnouncedIsAlwaysThere == Announced => Whole(active.base)

(* No device is left "online" that no client serves: when the settings or  *)
(* the Wi-Fi change, stop_client (100-104) says "offline" under the topic  *)
(* of the client it stops, not under that of the new settings.  A client   *)
(* that ends without a session cannot say it, and there is no last will.   *)
OfflineIsSaid ==
  \A b \in Base : status[b] = "online" => (Running /\ active.base = b) \/ b \in unsaid

(* Saved settings take effect: the client runs with all of them, even if   *)
(* the task had loaded the keys while they were being written, or does not *)
(* run, unless others are saved or the Wi-Fi is lost first (254-271).      *)
SettingsTakeEffect ==
  \A c \in Entered :
    nvs = c /\ form = NoForm
      ~> \/ active = (IF c.wanted THEN c ELSE Unset)
         \/ nvs # c
         \/ ~wifi

(* What the proofs add.  A form is written key by key.                     *)
FormIsEntered ==
  /\ form \in [key : 0 .. Len(Key), next : Settings \cup {Unset}]
  /\ form = NoForm \/ (form.key \in 1 .. Len(Key) /\ form.next \in Entered)

(* The task has settings while it is awake, counts within bounds, and once *)
(* it has decided the client is the one of these settings.                 *)
TaskAgrees ==
  /\ at # "sleep" => config \in Settings
  /\ at = "load" => step \in 2 .. Len(Key)
  /\ at = "entity" => step \in 1 .. Entities
  /\ at = "start" => active = Unset
  /\ at \in {"look", "entity", "online"} => active = config

(* The flag follows the session, by one report; no client, no session.     *)
ReportsAreInOrder ==
  /\ report = "" => connected = session
  /\ report = "connected" => session /\ ~connected
  /\ report = "disconnected" => ~session /\ connected
  /\ active = Unset => ~connected /\ ~session /\ report = "" /\ ~announced

(* An announcement that nothing has cut is in a session, and complete up   *)
(* to where the task is.                                                   *)
AnnouncingIsWhole ==
  Announcing /\ ~cut =>
    /\ connected /\ session /\ report = "" /\ ~announced
    /\ \A i \in 1 .. Entities :
         at = "online" \/ i < step => <<config.base, i>> \in entities

(* The inductive invariant. *)
HaInv ==
  /\ HaTypeOK
  /\ FormIsEntered
  /\ TaskAgrees
  /\ ReportsAreInOrder
  /\ AnnouncingIsWhole
  /\ AnnouncedIsThere
  /\ OfflineIsSaid
=============================================================================
