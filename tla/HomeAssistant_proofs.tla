----------------------- MODULE HomeAssistant_proofs -----------------------
(***************************************************************************)
(* Proofs about the MQTT client of Home Assistant, for every set of topic  *)
(* bases and of settings, every number of entities, with or without        *)
(* faults:                                                                 *)
(*   HaInvariant            HaInv is an invariant                          *)
(*   HaTypeCorrect                                                         *)
(*   AnnouncementsHold      what discovery_published says is there         *)
(*   NoClientLeftOnline     no device is left "online" unserved            *)
(***************************************************************************)
EXTENDS HomeAssistant, TLAPS

USE HaAssumption

LEMMA KeyFacts == Len(Key) = 2 /\ Key[1] = "wanted" /\ Key[2] = "base"
BY DEF Key

(* A key taken over from other settings leaves settings. *)
LEMMA CopyKey ==
  ASSUME NEW c \in Settings, NEW d \in Settings, NEW k \in 1 .. Len(Key)
  PROVE  [c EXCEPT ![Key[k]] = d[Key[k]]] \in Settings
<1>1. CASE k = 1
  <2>1. [c EXCEPT ![Key[k]] = d[Key[k]]] = [c EXCEPT !.wanted = d.wanted]
    BY <1>1, KeyFacts
  <2> QED BY <2>1 DEF Settings
<1>2. CASE k = 2
  <2>1. [c EXCEPT ![Key[k]] = d[Key[k]]] = [c EXCEPT !.base = d.base]
    BY <1>2, KeyFacts
  <2> QED BY <2>1 DEF Settings
<1> QED BY <1>1, <1>2, KeyFacts

LEMMA NoFormIsForm == NoForm \in [key : 0 .. Len(Key), next : Settings \cup {Unset}]
<1>1. 0 \in 0 .. Len(Key)
  BY KeyFacts
<1> QED BY <1>1 DEF NoForm

LEMMA InitHaInv == HaInit => HaInv
<1> SUFFICES ASSUME HaInit PROVE HaInv
  OBVIOUS
<1>1. HaTypeOK
  <2>1. nvs \in Settings
    BY DEF HaInit
  <2>2. form.key \in 0 .. Len(Key) /\ form.next \in Settings \cup {Unset}
    BY NoFormIsForm DEF HaInit
  <2> QED BY <2>1, <2>2 DEF HaInit, HaTypeOK
<1>5. FormIsEntered
  BY NoFormIsForm DEF HaInit, FormIsEntered
<1>2. TaskAgrees /\ ReportsAreInOrder
  BY DEF HaInit, TaskAgrees, ReportsAreInOrder
<1>3. AnnouncingIsWhole /\ AnnouncedIsThere
  BY DEF HaInit, AnnouncingIsWhole, Announcing, AnnouncedIsThere, Announced
<1>4. OfflineIsSaid
  BY DEF HaInit, OfflineIsSaid
<1> QED BY <1>1, <1>2, <1>3, <1>4, <1>5 DEF HaInv

(* The settings: the form and the keys in NVS. *)
LEMMA StepForm == HaInv /\ [HaNext]_haVars => FormIsEntered' /\ nvs' \in Settings
<1> SUFFICES ASSUME HaInv, [HaNext]_haVars PROVE FormIsEntered' /\ nvs' \in Settings
  OBVIOUS
<1> USE DEF HaInv
<1>1. ASSUME NEW c \in Entered, Submit(c) PROVE FormIsEntered' /\ nvs' \in Settings
  <2>1. 1 \in 0 .. Len(Key) /\ 1 \in 1 .. Len(Key) /\ c \in Settings
    BY KeyFacts
  <2>2. form' = [key |-> 1, next |-> c] /\ nvs' = nvs
    BY <1>1 DEF Submit
  <2> QED BY <2>1, <2>2 DEF FormIsEntered, HaTypeOK
<1>2. CASE SaveKey
  <2>1. form.key \in 1 .. Len(Key) /\ form.next \in Settings
    BY <1>2 DEF SaveKey, FormIsEntered
  <2>2. nvs' \in Settings
    BY <1>2, <2>1, CopyKey DEF SaveKey, HaTypeOK
  <2>3. FormIsEntered'
    BY <1>2, <2>1, KeyFacts DEF SaveKey, FormIsEntered, NoForm
  <2> QED BY <2>2, <2>3
<1>3. CASE SaveFails \/ Reset
  <2>1. form' = NoForm /\ nvs' = nvs
    BY <1>3 DEF SaveFails, Reset
  <2> QED BY <2>1, NoFormIsForm DEF FormIsEntered, HaTypeOK
<1>4. CASE UNCHANGED settings
  BY <1>4 DEF settings, FormIsEntered, HaTypeOK
<1>5. CASE Publisher \/ StartClient \/ SessionBegins \/ SessionEnds \/ BrokerForgets
            \/ OnConnected \/ OnDisconnected \/ WifiChange
  BY <1>4, <1>5 DEF Publisher, Wake, LoadKey, Stop, Restart, KeepClient, StartFails,
     NothingToAnnounce, Announce, PublishEntity, PublishOnline, StartClient,
     SessionBegins, SessionEnds, BrokerForgets, OnConnected, OnDisconnected,
     WifiChange, settings
<1> QED BY <1>1, <1>2, <1>3, <1>4, <1>5 DEF HaNext, haVars, settings

(* Where the task is and what it holds. *)
LEMMA StepTask ==
  HaInv /\ [HaNext]_haVars =>
    /\ TaskAgrees'
    /\ at' \in {"sleep", "load", "decide", "start", "look", "entity", "online"}
    /\ config' \in Settings \cup {Unset}
    /\ active' \in Settings \cup {Unset}
<1> DEFINE Places == {"sleep", "load", "decide", "start", "look", "entity", "online"}
           Held == /\ TaskAgrees'
                   /\ at' \in Places
                   /\ config' \in Settings \cup {Unset}
                   /\ active' \in Settings \cup {Unset}
<1> SUFFICES ASSUME HaInv, [HaNext]_haVars PROVE Held
  OBVIOUS
<1>1. /\ TaskAgrees /\ at \in Places
      /\ nvs \in Settings /\ config \in Settings \cup {Unset}
      /\ active \in Settings \cup {Unset}
  BY DEF HaInv, HaTypeOK
<1>2. CASE Wake
  BY <1>1, <1>2, KeyFacts DEF Wake, TaskAgrees, statics
<1>3. CASE LoadKey
  <2>1. step \in 1 .. Len(Key) /\ config \in Settings
    BY <1>1, <1>3 DEF LoadKey, TaskAgrees
  <2>2. config' \in Settings
    BY <1>1, <1>3, <2>1, CopyKey DEF LoadKey
  <2> QED BY <1>1, <1>3, <2>1, <2>2, KeyFacts DEF LoadKey, Go, TaskAgrees, statics
<1>4. CASE Stop
  BY <1>1, <1>4 DEF Stop, StopClient, Sleep, Go, TaskAgrees
<1>5. CASE Restart
  BY <1>1, <1>5 DEF Restart, StopClient, Go, TaskAgrees
<1>6. CASE KeepClient
  BY <1>1, <1>6 DEF KeepClient, Go, Same, TaskAgrees, statics
<1>7. CASE StartClient
  BY <1>1, <1>7 DEF StartClient, Go, TaskAgrees
<1>8. CASE StartFails \/ NothingToAnnounce
  BY <1>1, <1>8 DEF StartFails, NothingToAnnounce, Sleep, Go, TaskAgrees, statics
<1>9. CASE Announce
  <2>1. at = "look" /\ at' = "entity" /\ step' = 1 /\ config' = config /\ active' = active
    BY <1>9 DEF Announce, Go, statics
  <2>2. 1 \in 1 .. Entities
    BY DEF HaAssumption
  <2> QED BY <1>1, <2>1, <2>2 DEF TaskAgrees
<1>10. CASE PublishEntity
  BY <1>1, <1>10 DEF PublishEntity, Go, TaskAgrees, statics
<1>11. CASE PublishOnline \/ Reset
  BY <1>1, <1>11 DEF PublishOnline, Reset, Sleep, Go, TaskAgrees
<1>12. CASE UNCHANGED <<publisher, active>>
  BY <1>1, <1>12 DEF TaskAgrees, publisher
<1>13. CASE \/ (\E c \in Entered : Submit(c)) \/ SaveKey \/ SaveFails
            \/ SessionBegins \/ SessionEnds \/ BrokerForgets
            \/ OnConnected \/ OnDisconnected \/ WifiChange
  BY <1>12, <1>13 DEF Submit, SaveKey, SaveFails, SessionBegins, SessionEnds,
     BrokerForgets, OnConnected, OnDisconnected, WifiChange, statics
<1>14. CASE UNCHANGED haVars
  BY <1>12, <1>14 DEF haVars, statics
<1> HIDE DEF Held
<1> QED
  BY <1>2, <1>3, <1>4, <1>5, <1>6, <1>7, <1>8, <1>9, <1>10, <1>11, <1>13, <1>14
  DEF HaNext, Publisher

(* The flags and the broker keep their types. *)
LEMMA StepFlags ==
  HaInv /\ [HaNext]_haVars =>
    /\ connected' \in BOOLEAN /\ announced' \in BOOLEAN
    /\ wifi' \in BOOLEAN /\ session' \in BOOLEAN
    /\ report' \in {"", "connected", "disconnected"}
    /\ entities' \subseteq Base \X (1 .. Entities)
    /\ status' \in [Base -> {"", "online", "offline"}]
    /\ cut' \in BOOLEAN /\ unsaid' \subseteq Base
    /\ ReportsAreInOrder'
<1> DEFINE Bools == /\ connected \in BOOLEAN /\ announced \in BOOLEAN
                    /\ wifi \in BOOLEAN /\ session \in BOOLEAN
                    /\ report \in {"", "connected", "disconnected"}
                    /\ cut \in BOOLEAN
                    /\ ReportsAreInOrder
           Sets == /\ entities \subseteq Base \X (1 .. Entities)
                   /\ status \in [Base -> {"", "online", "offline"}]
                   /\ unsaid \subseteq Base
<1> SUFFICES ASSUME HaInv, [HaNext]_haVars PROVE Bools' /\ Sets'
  OBVIOUS
<1>1. /\ Bools /\ Sets
      /\ config \in Settings \cup {Unset} /\ active \in Settings \cup {Unset}
      /\ TaskAgrees
  BY DEF HaInv, HaTypeOK
<1>2. ASSUME StopClient, wifi' = wifi PROVE Bools' /\ Sets'
  <2>1. Bools'
    BY <1>1, <1>2 DEF StopClient, ReportsAreInOrder
  <2>2. entities' = entities /\ unsaid' \subseteq Base
    BY <1>1, <1>2 DEF StopClient, Untold
  <2>3. status' \in [Base -> {"", "online", "offline"}]
    BY <1>1, <1>2 DEF StopClient
  <2> QED BY <1>1, <2>1, <2>2, <2>3
<1>3. CASE Stop \/ Restart
  BY <1>2, <1>3 DEF Stop, Restart
<1>4. CASE StartClient
  <2>1. active' \in Settings /\ active' # Unset
    BY <1>1, <1>4 DEF StartClient, TaskAgrees
  <2> QED BY <1>1, <1>4, <2>1 DEF StartClient, ReportsAreInOrder, client, broker
<1>5. CASE Announce
  BY <1>1, <1>5 DEF Announce, ReportsAreInOrder, statics, client, broker
<1>6. CASE PublishEntity
  <2>1. <<config.base, step>> \in Base \X (1 .. Entities)
    BY <1>1, <1>6 DEF PublishEntity, TaskAgrees, Settings
  <2>2. Sets'
    BY <1>1, <1>6, <2>1 DEF PublishEntity, ghosts
  <2> QED BY <1>1, <1>6, <2>2 DEF PublishEntity, ReportsAreInOrder, statics, client, ghosts
<1>7. CASE PublishOnline
  <2>1. active' = active /\ active # Unset
    BY <1>1, <1>7 DEF PublishOnline, TaskAgrees
  <2>2. Bools'
    BY <1>1, <1>7, <2>1 DEF PublishOnline, ReportsAreInOrder, client, ghosts
  <2> QED BY <1>1, <1>7, <2>2 DEF PublishOnline, ghosts
<1>8. CASE SessionBegins
  BY <1>1, <1>8 DEF SessionBegins, Running, ReportsAreInOrder, statics, broker, ghosts
<1>9. CASE SessionEnds
  BY <1>1, <1>9 DEF SessionEnds, Announcing, ReportsAreInOrder, statics, broker
<1>10. CASE BrokerForgets
  <2>1. Bools'
    BY <1>1, <1>10 DEF BrokerForgets, Announcing, ReportsAreInOrder, statics
  <2>2. Sets'
    BY <1>1, <1>10 DEF BrokerForgets
  <2> QED BY <2>1, <2>2
<1>11. CASE OnConnected \/ OnDisconnected
  BY <1>1, <1>11 DEF OnConnected, OnDisconnected, ReportsAreInOrder, broker, ghosts
<1>12. CASE WifiChange
  BY <1>1, <1>12 DEF WifiChange, ReportsAreInOrder, statics, client, broker, ghosts
<1>13. CASE Reset
  <2>1. Bools'
    BY <1>1, <1>13 DEF Reset, ReportsAreInOrder
  <2>2. Sets'
    BY <1>1, <1>13 DEF Reset, Untold, broker
  <2> QED BY <2>1, <2>2
<1>14. CASE UNCHANGED <<statics, wifi, client, broker, ghosts>>
  BY <1>1, <1>14 DEF ReportsAreInOrder, statics, client, broker, ghosts
<1>15. CASE \/ (\E c \in Entered : Submit(c)) \/ SaveKey \/ SaveFails
            \/ Wake \/ LoadKey \/ KeepClient \/ StartFails \/ NothingToAnnounce
  <2> HIDE DEF Bools, Sets
  <2> QED
  BY <1>14, <1>15 DEF Submit, SaveKey, SaveFails, Wake, LoadKey, KeepClient,
     StartFails, NothingToAnnounce
<1>16. CASE UNCHANGED haVars
  BY <1>14, <1>16 DEF haVars
<1> HIDE DEF Bools, Sets
<1> QED
  BY <1>3, <1>4, <1>5, <1>6, <1>7, <1>8, <1>9, <1>10, <1>11, <1>12, <1>13,
     <1>15, <1>16 DEF HaNext, Publisher

(* Within an announcement. *)
LEMMA StepAnnouncing == HaInv /\ [HaNext]_haVars => AnnouncingIsWhole'
<1> SUFFICES ASSUME HaInv, [HaNext]_haVars PROVE AnnouncingIsWhole'
  OBVIOUS
<1>1. /\ HaTypeOK /\ TaskAgrees /\ ReportsAreInOrder /\ AnnouncingIsWhole
  BY DEF HaInv
<1>2. CASE ~ Announcing'
  BY <1>2 DEF AnnouncingIsWhole
<1>3. CASE Announce
  <2>1. /\ at' = "entity" /\ step' = 1 /\ connected' /\ ~announced'
        /\ session' = session /\ report' = report
        /\ cut' = (~session \/ report # "")
    BY <1>3 DEF Announce, Go, statics, client
  <2>2. \A i \in 1 .. Entities : ~ (i < 1)
    BY DEF HaAssumption
  <2> QED BY <1>1, <2>1, <2>2 DEF AnnouncingIsWhole, HaTypeOK
<1>4. CASE PublishEntity
  <2>1. /\ at = "entity" /\ step \in 1 .. Entities
        /\ config' = config /\ cut' = cut
        /\ UNCHANGED <<connected, announced, session, report>>
    BY <1>1, <1>4 DEF PublishEntity, TaskAgrees, statics, client, ghosts
  <2>2. SUFFICES ASSUME ~cut
                 PROVE  AnnouncingIsWhole'
    BY <2>1 DEF AnnouncingIsWhole
  <2>3. /\ connected /\ session /\ report = "" /\ ~announced
        /\ \A i \in 1 .. Entities : i < step => <<config.base, i>> \in entities
    BY <1>1, <2>1, <2>2 DEF AnnouncingIsWhole, Announcing
  <2>4. entities' = entities \cup {<<config.base, step>>}
    BY <1>4, <2>3 DEF PublishEntity, Reaches
  <2>5. \A i \in 1 .. Entities : i < step \/ i = step => <<config.base, i>> \in entities'
    BY <2>3, <2>4
  <2>6. \A i \in 1 .. Entities : at' = "online" \/ i < step' => i < step \/ i = step
    BY <1>4, <2>1 DEF PublishEntity, Go, HaAssumption
  <2> QED BY <2>1, <2>3, <2>5, <2>6 DEF AnnouncingIsWhole
<1>5. CASE SessionBegins
  <2>1. ~session /\ Announcing' = Announcing /\ cut' = cut
    BY <1>5 DEF SessionBegins, publisher, ghosts, Announcing
  <2> QED BY <1>1, <2>1 DEF AnnouncingIsWhole
<1>6. CASE SessionEnds \/ BrokerForgets
  <2>1. cut' = (cut \/ Announcing) /\ Announcing' = Announcing
    BY <1>6 DEF SessionEnds, BrokerForgets, publisher, Announcing
  <2> QED BY <2>1 DEF AnnouncingIsWhole
<1>7. CASE OnConnected \/ OnDisconnected
  <2>1. report # "" /\ Announcing' = Announcing /\ cut' = cut
    BY <1>7 DEF OnConnected, OnDisconnected, publisher, ghosts, Announcing
  <2> QED BY <1>1, <2>1 DEF AnnouncingIsWhole
<1>8. CASE UNCHANGED <<publisher, statics, client, broker, ghosts>>
  BY <1>1, <1>8 DEF AnnouncingIsWhole, Announcing, publisher, statics, client,
     broker, ghosts
<1>9. CASE (\E c \in Entered : Submit(c)) \/ SaveKey \/ SaveFails \/ WifiChange
           \/ UNCHANGED haVars
  BY <1>8, <1>9 DEF Submit, SaveKey, SaveFails, WifiChange, haVars
<1>10. CASE Wake \/ LoadKey \/ Stop \/ Restart \/ KeepClient \/ StartFails
            \/ NothingToAnnounce \/ PublishOnline \/ StartClient \/ Reset
  BY <1>2, <1>10 DEF Announcing, Wake, LoadKey, Stop, Restart, KeepClient, StartFails,
     NothingToAnnounce, PublishOnline, StartClient, Reset, Sleep, Go
<1> QED BY <1>3, <1>4, <1>5, <1>6, <1>7, <1>9, <1>10 DEF HaNext, Publisher

LEMMA StepAnnounced == HaInv /\ [HaNext]_haVars => AnnouncedIsThere'
<1> SUFFICES ASSUME HaInv, [HaNext]_haVars, Announced', ~cut'
             PROVE  Whole(active.base)' /\ (status[active.base])' = "online"
  BY DEF AnnouncedIsThere
<1>1. /\ HaTypeOK /\ TaskAgrees /\ ReportsAreInOrder /\ AnnouncingIsWhole
      /\ AnnouncedIsThere
  BY DEF HaInv
<1>2. connected' /\ session' /\ report' = "" /\ announced'
  BY DEF Announced, Reaches
<1>3. CASE PublishOnline
  <2>1. /\ at = "online" /\ active = config
        /\ UNCHANGED <<active, connected, session, report, entities, cut>>
    BY <1>1, <1>3 DEF PublishOnline, TaskAgrees, client, ghosts
  <2>2. connected /\ session /\ \A i \in 1 .. Entities : <<config.base, i>> \in entities
    BY <1>1, <2>1 DEF AnnouncingIsWhole, Announcing
  <2>3. config.base \in Base
    BY <1>1, <2>1 DEF TaskAgrees, Settings
  <2>4. status' = [status EXCEPT ![config.base] = "online"]
    BY <1>3, <2>2 DEF PublishOnline, Reaches
  <2> QED BY <1>1, <2>1, <2>2, <2>3, <2>4 DEF Whole, HaTypeOK
<1>4. CASE PublishEntity
  <2>1. /\ UNCHANGED <<active, connected, announced, session, report, status, cut>>
        /\ entities \subseteq entities'
    BY <1>4 DEF PublishEntity, statics, client, ghosts
  <2> QED BY <1>1, <1>2, <2>1 DEF AnnouncedIsThere, Announced, Reaches, Whole
<1>5. CASE Announce
  BY <1>2, <1>5 DEF Announce, statics
<1>6. CASE Stop \/ Restart \/ Reset \/ OnConnected \/ OnDisconnected
           \/ SessionBegins \/ SessionEnds \/ BrokerForgets
  BY <1>2, <1>6 DEF Stop, Restart, StopClient, Reset, OnConnected, OnDisconnected,
     SessionBegins, SessionEnds, BrokerForgets
<1>7. CASE StartClient
  BY <1>1, <1>2, <1>7 DEF StartClient, TaskAgrees, ReportsAreInOrder
<1>8. CASE UNCHANGED <<statics, client, broker, cut>>
  BY <1>1, <1>2, <1>8 DEF AnnouncedIsThere, Announced, Reaches, Whole, statics,
     client, broker
<1>9. CASE \/ (\E c \in Entered : Submit(c)) \/ SaveKey \/ SaveFails \/ WifiChange
           \/ Wake \/ LoadKey \/ KeepClient \/ StartFails \/ NothingToAnnounce
           \/ UNCHANGED haVars
  BY <1>8, <1>9 DEF Submit, SaveKey, SaveFails, WifiChange, Wake, LoadKey,
     KeepClient, StartFails, NothingToAnnounce, ghosts, haVars
<1> QED BY <1>3, <1>4, <1>5, <1>6, <1>7, <1>9 DEF HaNext, Publisher

LEMMA StepOffline == HaInv /\ [HaNext]_haVars => OfflineIsSaid'
<1> SUFFICES ASSUME HaInv, [HaNext]_haVars PROVE OfflineIsSaid'
  OBVIOUS
<1>1. HaTypeOK /\ TaskAgrees /\ OfflineIsSaid
  BY DEF HaInv
<1>2. ASSUME StopClient PROVE OfflineIsSaid'
  BY <1>1, <1>2 DEF StopClient, Untold, OfflineIsSaid, HaTypeOK
<1>3. CASE Stop \/ Restart
  BY <1>2, <1>3 DEF Stop, Restart
<1>4. CASE Reset
  BY <1>1, <1>4 DEF Reset, Untold, broker, OfflineIsSaid
<1>5. CASE StartClient
  <2>1. /\ active = Unset /\ active' = config /\ active' # Unset
        /\ unsaid' = unsaid \ {config.base} /\ status' = status
    BY <1>1, <1>5 DEF StartClient, TaskAgrees, broker
  <2> QED BY <1>1, <2>1 DEF OfflineIsSaid, Running
<1>6. CASE PublishOnline
  <2>1. active' = config /\ active' # Unset /\ unsaid' = unsaid /\ active' = active
    BY <1>1, <1>6 DEF PublishOnline, TaskAgrees, ghosts
  <2>2. \A b \in Base : b # config.base => status'[b] = status[b]
    BY <1>1, <1>6 DEF PublishOnline, HaTypeOK
  <2> QED BY <1>1, <2>1, <2>2 DEF OfflineIsSaid, Running
<1>7. CASE BrokerForgets
  BY <1>7 DEF BrokerForgets, OfflineIsSaid
<1>8. CASE UNCHANGED <<active, status, unsaid>>
  BY <1>1, <1>8 DEF OfflineIsSaid, Running
<1>9. CASE \/ (\E c \in Entered : Submit(c)) \/ SaveKey \/ SaveFails \/ WifiChange
           \/ Wake \/ LoadKey \/ KeepClient \/ StartFails \/ NothingToAnnounce
           \/ Announce \/ PublishEntity \/ SessionBegins \/ SessionEnds
           \/ OnConnected \/ OnDisconnected \/ UNCHANGED haVars
  BY <1>8, <1>9 DEF Submit, SaveKey, SaveFails, WifiChange, Wake, LoadKey,
     KeepClient, StartFails, NothingToAnnounce, Announce, PublishEntity,
     SessionBegins, SessionEnds, OnConnected, OnDisconnected, statics, broker,
     ghosts, haVars
<1> QED BY <1>3, <1>4, <1>5, <1>6, <1>7, <1>9 DEF HaNext, Publisher

LEMMA StepHaInv == HaInv /\ [HaNext]_haVars => HaInv'
<1> SUFFICES ASSUME HaInv, [HaNext]_haVars PROVE HaInv'
  OBVIOUS
<1>1. FormIsEntered' /\ nvs' \in Settings
  BY StepForm
<1>2. HaTypeOK'
  <2>1. (form.key)' \in 0 .. Len(Key) /\ (form.next)' \in Settings \cup {Unset}
    BY <1>1 DEF FormIsEntered
  <2> QED BY <1>1, <2>1, StepTask, StepFlags DEF HaTypeOK
<1> QED BY <1>1, <1>2, StepTask, StepFlags, StepAnnouncing, StepAnnounced, StepOffline
        DEF HaInv

THEOREM HaInvariant == HaSpec => []HaInv
<1>1. HaInit => HaInv
  BY InitHaInv
<1>2. HaInv /\ [HaNext]_haVars => HaInv'
  BY StepHaInv
<1> QED BY <1>1, <1>2, PTL DEF HaSpec

(* Every variable of the MQTT client keeps its type. *)
THEOREM HaTypeCorrect == HaSpec => []HaTypeOK
<1>1. HaInv => HaTypeOK
  BY DEF HaInv
<1> QED BY <1>1, HaInvariant, PTL

(* What discovery_published says is at the broker, entity by entity, after *)
(* any reconnects, changes of the settings and restarts of the broker,     *)
(* unless a session was cut while it was announced (home_assistant.c:124,  *)
(* 232).                                                                   *)
THEOREM AnnouncementsHold == HaSpec => []AnnouncedIsThere
<1>1. HaInv => AnnouncedIsThere
  BY DEF HaInv
<1> QED BY <1>1, HaInvariant, PTL

(* A base that is left "online" is the running client's, or its client     *)
(* ended without a session to say otherwise (home_assistant.c:100-104).    *)
THEOREM NoClientLeftOnline == HaSpec => []OfflineIsSaid
<1>1. HaInv => OfflineIsSaid
  BY DEF HaInv
<1> QED BY <1>1, HaInvariant, PTL
=============================================================================
