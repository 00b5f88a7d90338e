-------------------------- MODULE WifiAdmin_proofs --------------------------
(***************************************************************************)
(* Proofs about how the device gets onto a network, for any number of      *)
(* networks and of reconfigurations at a time, and any number of retries:  *)
(*   WifiTypeCorrect     the variables keep their types                    *)
(*   OnlyWorkingIsSaved  what is saved has given the device an address     *)
(*   StatusIsTold        the status is true when no event waits            *)
(*   OfflineHasAReason   a station without work can be explained           *)
(*                                                                         *)
(* The first three follow from WifiInv, whose parts are proved in turn:    *)
(* the types, the driver that is off until the boot, what the event loop   *)
(* has yet to hear (AddressesWorked, LastWordIsTrue), and what the bits    *)
(* and the saves rest on.  The last one adds OfflineInv, which needs that  *)
(* no two reconfigurations overlap.                                        *)
(***************************************************************************)
EXTENDS WifiAdmin, SequenceTheorems, TLAPS

USE WifiAssumption

-----------------------------------------------------------------------------
(* Sequences of events                                                     *)

LEMMA EventsType ==
  /\ Start \in Event /\ Drop \in Event
  /\ \A c \in Cred : Ip(c) \in Event
  /\ Start.kind = "start" /\ Drop.kind = "drop"
  /\ \A c : Ip(c).kind = "ip" /\ Ip(c).cred = c
BY DEF Start, Drop, Ip, Event

LEMMA Appended ==
  ASSUME NEW s \in Seq(Event), NEW e \in Event
  PROVE  /\ Append(s, e) \in Seq(Event)
         /\ Len(s) \in Nat
         /\ Len(Append(s, e)) = Len(s) + 1
         /\ \A i \in 1 .. Len(s) : Append(s, e)[i] = s[i]
         /\ Append(s, e)[Len(s) + 1] = e
BY AppendProperties

LEMMA Taken ==
  ASSUME NEW s \in Seq(Event), s # <<>>
  PROVE  /\ Tail(s) \in Seq(Event)
         /\ Len(s) \in Nat \ {0}
         /\ Len(Tail(s)) = Len(s) - 1
         /\ \A i \in 1 .. Len(s) - 1 : Tail(s)[i] = s[i + 1]
         /\ Head(s) = s[1]
         /\ Head(s) \in Event
<1>1. /\ Head(s) \in Event /\ Tail(s) \in Seq(Event)
      /\ Len(Tail(s)) = Len(s) - 1
      /\ \A i \in 1 .. Len(Tail(s)) : Tail(s)[i] = s[i + 1]
  BY HeadTailProperties
<1>2. Len(s) \in Nat \ {0}
  BY EmptySeq
<1>3. Head(s) = s[1]
  OBVIOUS
<1> QED
  BY <1>1, <1>2, <1>3

-----------------------------------------------------------------------------
(* Types                                                                   *)

DriverTypeOK ==
  /\ sta \in Cred \cup {NoCred} /\ target \in Cred \cup {NoCred}
  /\ radio \in {"off", "idle", "trying", "joined"}
  /\ events \in Seq(Event)
  /\ air \subseteq Entered /\ worked \subseteq Cred

StaticsTypeOK ==
  /\ boot \in {"off", "wait", "setup", "up"}
  /\ bits \subseteq {"connected", "failed"}
  /\ ap \in BOOLEAN /\ busy \in BOOLEAN
  /\ retry \in 0 .. MaxRetry
  /\ ssid \in Ssid \cup {Empty}

SavedTypeOK ==
  /\ nvs \in [ssid : Ssid \cup {Empty}, pass : Pass \cup {Empty}]
  /\ task \in [Task -> Request]

GhostTypeOK == doubt \in BOOLEAN /\ stranded \in BOOLEAN

LEMMA TypeParts ==
  WifiTypeOK <=> DriverTypeOK /\ StaticsTypeOK /\ SavedTypeOK /\ GhostTypeOK
BY DEF WifiTypeOK, DriverTypeOK, StaticsTypeOK, SavedTypeOK, GhostTypeOK

LEMMA NvsIsCred ==
  SavedTypeOK /\ Loaded => nvs \in Cred
BY DEF SavedTypeOK, Loaded, Cred

LEMMA Moved ==
  ASSUME SavedTypeOK, NEW t \in Task, NEW from, NEW to \in Place, Move(t, from, to)
  PROVE  /\ task' \in [Task -> Request]
         /\ task[t].at = from /\ task'[t].at = to
         /\ task'[t].next = task[t].next /\ task'[t].previous = task[t].previous
         /\ \A u \in Task \ {t} : task'[u] = task[u]
<1>1. task[t] \in Request
  BY DEF SavedTypeOK
<1>2. [task[t] EXCEPT !.at = to] \in Request
  BY <1>1 DEF Request
<1>3. /\ [task[t] EXCEPT !.at = to].at = to
      /\ [task[t] EXCEPT !.at = to].next = task[t].next
      /\ [task[t] EXCEPT !.at = to].previous = task[t].previous
  BY <1>1 DEF Request
<1>4. task' = [task EXCEPT ![t] = [task[t] EXCEPT !.at = to]]
  BY DEF Move
<1>5. task'[t] = [task[t] EXCEPT !.at = to] /\ \A u \in Task \ {t} : task'[u] = task[u]
  BY <1>4 DEF SavedTypeOK
<1>6. task' \in [Task -> Request]
  BY <1>2, <1>4 DEF SavedTypeOK
<1>7. task[t].at = from
  BY DEF Move
<1> QED
  BY <1>3, <1>5, <1>6, <1>7

LEMMA IdleIsRequest == Idle \in Request /\ NoCred \in [ssid : Ssid \cup {Empty}, pass : Pass \cup {Empty}]
BY DEF Idle, Request, Place, NoCred

LEMMA ConnectType ==
  ASSUME DriverTypeOK, NEW c \in Cred \cup {NoCred}, Connect(c)
  PROVE  /\ target' \in Cred \cup {NoCred}
         /\ radio' \in {"off", "idle", "trying", "joined"}
BY DEF DriverTypeOK, Connect

LEMMA PostType ==
  ASSUME DriverTypeOK, NEW e \in Event, Post(e)
  PROVE  events' \in Seq(Event)
BY AppendProperties DEF DriverTypeOK, Post

LEMMA DisconnectType ==
  ASSUME DriverTypeOK, Disconnect
  PROVE  /\ sta' = sta
         /\ target' \in Cred \cup {NoCred}
         /\ radio' \in {"off", "idle", "trying", "joined"}
         /\ events' \in Seq(Event)
<1>1. CASE radio \in {"trying", "joined"}
  BY <1>1, PostType, EventsType DEF DriverTypeOK, Disconnect
<1>2. CASE radio \notin {"trying", "joined"}
  BY <1>2 DEF DriverTypeOK, Disconnect
<1> QED
  BY <1>1, <1>2

(* The places a reconfiguration leaves by a move, and where it comes to.   *)
LEMMA StepSavedTypeOK ==
  ASSUME WifiTypeOK, [WifiNext]_wifiVars
  PROVE  SavedTypeOK'
<1> USE TypeParts
<1>1. SavedTypeOK
  OBVIOUS
<1>2. ASSUME UNCHANGED <<nvs, task>> PROVE SavedTypeOK'
  BY <1>1, <1>2 DEF SavedTypeOK
<1>3. ASSUME NEW t \in Task, NEW from, NEW to \in Place, Move(t, from, to), nvs' = nvs
      PROVE  SavedTypeOK'
  BY <1>1, <1>3, Moved DEF SavedTypeOK
<1>4. ASSUME NEW t \in Task, Leave(t), nvs' = nvs PROVE SavedTypeOK'
  BY <1>1, <1>4, IdleIsRequest DEF SavedTypeOK, Leave
<1>5. ASSUME NEW t \in Task
      PROVE  task[t].next.ssid \in Ssid \cup {Empty} /\ task[t].next.pass \in Pass \cup {Empty}
  BY <1>1 DEF SavedTypeOK, Request, Cred, NoCred
<1>6. CASE Boot
  BY <1>2, <1>6 DEF Boot, BootConnect, BootConnected, BootGiveUp, BootNothing, SetupAp
<1>7. CASE EventLoop
  BY <1>2, <1>7 DEF EventLoop, OnStart, OnDropBusy, OnDropRetry, OnDropGiveUp, OnIp, elsewhere
<1>8. CASE Join \/ Lose \/ AirChange
  BY <1>2, <1>8 DEF Join, Lose, AirChange, outside
<1>9. ASSUME NEW t \in Task, NEW c \in Entered, Save(t, c) PROVE SavedTypeOK'
  <2>1. nvs' = nvs /\ c \in Cred
    BY <1>9 DEF Save
  <2>2. (IF Loaded THEN nvs ELSE NoCred) \in Cred \cup {NoCred}
    BY <1>1, NvsIsCred
  <2>3. [at |-> "delay", next |-> c, previous |-> IF Loaded THEN nvs ELSE NoCred] \in Request
    BY <2>1, <2>2 DEF Request, Place
  <2> QED
    BY <1>1, <1>9, <2>1, <2>3 DEF Save, SavedTypeOK
<1>10. ASSUME NEW t \in Task, Begin(t) \/ DisconnectOld(t) PROVE SavedTypeOK'
  BY <1>3, <1>10 DEF Begin, DisconnectOld, Place
<1>11. ASSUME NEW t \in Task, ApplyNext(t) PROVE SavedTypeOK'
  BY <1>3, <1>11 DEF ApplyNext, Apply, Refused, Connected, NotConnected, Place
<1>12. ASSUME NEW t \in Task, Fallback(t) \/ DisconnectNew(t) PROVE SavedTypeOK'
  BY <1>3, <1>12 DEF Fallback, DisconnectNew, Place
<1>13. ASSUME NEW t \in Task, ApplyPrevious(t) PROVE SavedTypeOK'
  BY <1>3, <1>13 DEF ApplyPrevious, Apply, Refused, Connected, NotConnected, Place
<1>14. ASSUME NEW t \in Task, SaveSsid(t) PROVE SavedTypeOK'
  BY <1>1, <1>5, <1>14, Moved DEF SaveSsid, SavedTypeOK, Place
<1>15. ASSUME NEW t \in Task, SavePass(t) PROVE SavedTypeOK'
  BY <1>1, <1>5, <1>15, Moved DEF SavePass, SavedTypeOK, Place
<1>16. ASSUME NEW t \in Task, SaveFails(t) PROVE SavedTypeOK'
  BY <1>3, <1>16 DEF SaveFails, Place
<1>17. ASSUME NEW t \in Task, Finish(t) \/ End(t) PROVE SavedTypeOK'
  BY <1>4, <1>17 DEF Finish, End
<1>18. CASE Reset
  BY <1>1, <1>18, IdleIsRequest DEF Reset, SavedTypeOK
<1>19. CASE UNCHANGED wifiVars
  BY <1>2, <1>19 DEF wifiVars
<1> QED
  BY <1>6, <1>7, <1>8, <1>9, <1>10, <1>11, <1>12, <1>13, <1>14, <1>15, <1>16,
     <1>17, <1>18, <1>19 DEF WifiNext, Reconfigure

LEMMA StepDriverTypeOK ==
  ASSUME WifiTypeOK, [WifiNext]_wifiVars
  PROVE  DriverTypeOK'
<1> USE TypeParts, EventsType
<1>1. DriverTypeOK /\ SavedTypeOK /\ Entered \subseteq Cred
  OBVIOUS
<1>2. ASSUME UNCHANGED <<driver, air, worked>> PROVE DriverTypeOK'
  BY <1>1, <1>2 DEF DriverTypeOK, driver
<1>3. ASSUME UNCHANGED <<air, worked>>, Disconnect PROVE DriverTypeOK'
  BY <1>1, <1>3, DisconnectType DEF DriverTypeOK
<1>4. ASSUME UNCHANGED <<air, worked>>, NEW c \in Cred \cup {NoCred}, Connect(c),
             sta' \in {sta, c}, events' \in Seq(Event)
      PROVE  DriverTypeOK'
  BY <1>1, <1>4, ConnectType DEF DriverTypeOK
<1>5. ASSUME NEW kind, Take(kind) PROVE events' \in Seq(Event)
  BY <1>1, <1>5, Taken DEF Take, DriverTypeOK
<1>6. ASSUME NEW t \in Task
      PROVE  task[t].next \in Cred \cup {NoCred} /\ task[t].previous \in Cred \cup {NoCred}
  BY <1>1 DEF SavedTypeOK, Request
<1>7. CASE BootConnect
  <2>1. events' \in Seq(Event) /\ nvs \in Cred
    BY <1>1, <1>7, PostType, NvsIsCred DEF BootConnect
  <2> QED
    BY <1>1, <1>7, <2>1 DEF BootConnect, DriverTypeOK, ghosts
<1>8. CASE BootGiveUp
  BY <1>3, <1>8 DEF BootGiveUp, ghosts
<1>9. CASE BootConnected \/ BootNothing
  BY <1>2, <1>9 DEF BootConnected, BootNothing, ghosts
<1>10. CASE SetupAp
  <2>1. events' \in Seq(Event)
    <3>1. Append(events, Drop) \in Seq(Event)
      BY <1>1, Appended DEF DriverTypeOK
    <3>2. Append(Append(events, Drop), Start) \in Seq(Event)
      BY <3>1, Appended
    <3> QED
      BY <1>1, <1>10, <3>2, PostType DEF SetupAp
  <2> QED
    BY <1>1, <1>10, <2>1 DEF SetupAp, DriverTypeOK, ghosts
<1>11. CASE OnStart
  <2>1. UNCHANGED <<air, worked>> /\ Connect(sta) /\ sta' = sta
    BY <1>11 DEF OnStart, elsewhere
  <2> QED
    BY <1>1, <1>4, <1>5, <1>11, <2>1 DEF OnStart, DriverTypeOK
<1>12. CASE OnDropRetry
  <2>1. UNCHANGED <<air, worked>> /\ Connect(sta) /\ sta' = sta
    BY <1>12 DEF OnDropRetry, elsewhere
  <2> QED
    BY <1>1, <1>4, <1>5, <1>12, <2>1 DEF OnDropRetry, DriverTypeOK
<1>13. CASE OnDropBusy \/ OnDropGiveUp \/ OnIp
  <2>1. events' \in Seq(Event)
    BY <1>5, <1>13 DEF OnDropBusy, OnDropGiveUp, OnIp
  <2> QED
    BY <1>1, <1>13, <2>1 DEF OnDropBusy, OnDropGiveUp, OnIp, elsewhere, DriverTypeOK
<1>14. CASE Join
  <2>1. target \in Cred
    BY <1>1, <1>14 DEF Join, DriverTypeOK
  <2>2. events' \in Seq(Event)
    BY <1>1, <1>14, <2>1, PostType DEF Join
  <2> QED
    BY <1>1, <1>14, <2>1, <2>2 DEF Join, outside, DriverTypeOK
<1>15. CASE Lose
  <2>1. events' \in Seq(Event)
    BY <1>1, <1>15, PostType DEF Lose
  <2> QED
    BY <1>1, <1>15, <2>1 DEF Lose, outside, DriverTypeOK
<1>16. CASE AirChange
  BY <1>1, <1>16 DEF AirChange, outside, DriverTypeOK
<1>17. ASSUME NEW t \in Task, NEW c \in Entered, Save(t, c) PROVE DriverTypeOK'
  BY <1>2, <1>17 DEF Save, ghosts
<1>18. ASSUME NEW t \in Task, Begin(t) \/ Fallback(t) \/ SaveSsid(t) \/ SavePass(t)
                                \/ SaveFails(t) \/ Finish(t) \/ End(t)
       PROVE  DriverTypeOK'
  BY <1>2, <1>18 DEF Begin, Fallback, SaveSsid, SavePass, SaveFails, Finish, End, ghosts
<1>19. ASSUME NEW t \in Task, DisconnectOld(t) \/ DisconnectNew(t) PROVE DriverTypeOK'
  BY <1>3, <1>19 DEF DisconnectOld, DisconnectNew, ghosts
<1>20. ASSUME NEW t \in Task, NEW from, NEW to, NEW c \in Cred \cup {NoCred},
              Apply(t, from, to, c)
       PROVE  DriverTypeOK'
  BY <1>1, <1>4, <1>20 DEF Apply, ghosts, DriverTypeOK
<1>21. ASSUME NEW t \in Task, NEW from, NEW to,
              Refused(t, from, to) \/ Connected(t, from, to) \/ NotConnected(t, from, to)
       PROVE  DriverTypeOK'
  BY <1>2, <1>21 DEF Refused, Connected, NotConnected, ghosts
<1>22. ASSUME NEW t \in Task, ApplyNext(t) \/ ApplyPrevious(t) PROVE DriverTypeOK'
  BY <1>6, <1>20, <1>21, <1>22 DEF ApplyNext, ApplyPrevious
<1>23. CASE Reset
  <2>1. <<>> \in Seq(Event)
    BY EmptySeq
  <2> QED
    BY <1>1, <1>23, <2>1 DEF Reset, DriverTypeOK
<1>24. CASE UNCHANGED wifiVars
  BY <1>2, <1>24 DEF wifiVars, ghosts
<1> QED
  BY <1>7, <1>8, <1>9, <1>10, <1>11, <1>12, <1>13, <1>14, <1>15, <1>16, <1>17,
     <1>18, <1>19, <1>22, <1>23, <1>24
     DEF WifiNext, Boot, EventLoop, Reconfigure

LEMMA NoRetry == 0 \in 0 .. MaxRetry
OBVIOUS

LEMMA StepStaticsTypeOK ==
  ASSUME WifiTypeOK, [WifiNext]_wifiVars
  PROVE  StaticsTypeOK'
<1>1. StaticsTypeOK /\ DriverTypeOK
  BY TypeParts
<1>2. ASSUME UNCHANGED <<boot, statics>> PROVE StaticsTypeOK'
  BY <1>1, <1>2 DEF StaticsTypeOK, statics
<1>3. target.ssid \in Ssid \cup {Empty}
  BY <1>1 DEF DriverTypeOK, Cred, NoCred
<1>4. CASE BootConnect \/ BootNothing
  BY <1>1, <1>4 DEF BootConnect, BootNothing, StaticsTypeOK, statics
<1>5. CASE BootConnected \/ BootGiveUp \/ SetupAp
  BY <1>1, <1>5 DEF BootConnected, BootGiveUp, SetupAp, StaticsTypeOK
<1>6. CASE OnStart
  BY <1>2, <1>6 DEF OnStart, elsewhere
<1>7. CASE OnDropBusy \/ OnDropGiveUp
  BY <1>1, <1>7 DEF OnDropBusy, OnDropGiveUp, elsewhere, StaticsTypeOK
<1>8. CASE OnDropRetry
  <2>1. retry' \in 0 .. MaxRetry
    BY <1>1, <1>8 DEF OnDropRetry, StaticsTypeOK
  <2> QED
    BY <1>1, <1>8, <2>1 DEF OnDropRetry, elsewhere, StaticsTypeOK
<1>9. CASE OnIp
  BY <1>1, <1>3, <1>9, NoRetry DEF OnIp, elsewhere, StaticsTypeOK
<1>10. CASE Join \/ Lose \/ AirChange
  BY <1>2, <1>10 DEF Join, Lose, AirChange, outside
<1>11. ASSUME NEW t \in Task, NEW c \in Entered, Save(t, c) PROVE StaticsTypeOK'
  BY <1>2, <1>11 DEF Save
<1>12. ASSUME NEW t \in Task, Begin(t) \/ Fallback(t) PROVE StaticsTypeOK'
  BY <1>1, <1>12, NoRetry DEF Begin, Fallback, StaticsTypeOK
<1>13. ASSUME NEW t \in Task, DisconnectOld(t) \/ DisconnectNew(t) PROVE StaticsTypeOK'
  BY <1>2, <1>13 DEF DisconnectOld, DisconnectNew
<1>14. ASSUME NEW t \in Task, NEW from, NEW to, NEW c,
              Apply(t, from, to, c) \/ Refused(t, from, to)
       PROVE  StaticsTypeOK'
  BY <1>2, <1>14 DEF Apply, Refused
<1>15. ASSUME NEW t \in Task, NEW from, NEW to,
              Connected(t, from, to) \/ NotConnected(t, from, to)
       PROVE  StaticsTypeOK'
  BY <1>1, <1>15 DEF Connected, NotConnected, StaticsTypeOK
<1>16. ASSUME NEW t \in Task, ApplyNext(t) \/ ApplyPrevious(t) PROVE StaticsTypeOK'
  BY <1>14, <1>15, <1>16 DEF ApplyNext, ApplyPrevious
<1>17. ASSUME NEW t \in Task, SaveSsid(t) \/ SavePass(t) \/ SaveFails(t) PROVE StaticsTypeOK'
  BY <1>2, <1>17 DEF SaveSsid, SavePass, SaveFails
<1>18. ASSUME NEW t \in Task, Finish(t) \/ End(t) PROVE StaticsTypeOK'
  BY <1>1, <1>18 DEF Finish, End, Leave, StaticsTypeOK
<1>19. CASE Reset
  BY <1>19, NoRetry DEF Reset, StaticsTypeOK
<1>20. CASE UNCHANGED wifiVars
  BY <1>2, <1>20 DEF wifiVars
<1> QED
  BY <1>4, <1>5, <1>6, <1>7, <1>8, <1>9, <1>10, <1>11, <1>12, <1>13, <1>16, <1>17,
     <1>18, <1>19, <1>20
     DEF WifiNext, Boot, EventLoop, Reconfigure

LEMMA StepGhostTypeOK ==
  ASSUME WifiTypeOK, [WifiNext]_wifiVars
  PROVE  GhostTypeOK'
<1>1. GhostTypeOK
  BY TypeParts
<1>2. ASSUME UNCHANGED ghosts PROVE GhostTypeOK'
  BY <1>1, <1>2 DEF GhostTypeOK, ghosts
<1>3. CASE Boot
  BY <1>2, <1>3 DEF Boot, BootConnect, BootConnected, BootGiveUp, BootNothing, SetupAp
<1>4. CASE EventLoop
  <2>1. doubt' \in BOOLEAN
    BY <1>1, <1>4 DEF EventLoop, OnStart, OnDropBusy, OnDropRetry, OnDropGiveUp, OnIp, GhostTypeOK
  <2>2. stranded' \in BOOLEAN
    BY <1>1, <1>4 DEF EventLoop, OnStart, OnDropBusy, OnDropRetry, OnDropGiveUp, OnIp, GhostTypeOK
  <2> QED
    BY <2>1, <2>2 DEF GhostTypeOK
<1>5. CASE Join \/ Lose \/ AirChange
  BY <1>1, <1>5 DEF Join, Lose, AirChange, outside, GhostTypeOK
<1>6. ASSUME NEW t \in Task, NEW c \in Entered, Save(t, c) PROVE GhostTypeOK'
  BY <1>2, <1>6 DEF Save
<1>7. ASSUME NEW t \in Task, NEW from, NEW to, NEW c, Apply(t, from, to, c) PROVE GhostTypeOK'
  BY <1>2, <1>7 DEF Apply
<1>8. ASSUME NEW t \in Task, NEW from, NEW to, Refused(t, from, to) PROVE GhostTypeOK'
  BY <1>1, <1>8 DEF Refused, GhostTypeOK
<1>9. ASSUME NEW t \in Task, NEW from, NEW to,
             Connected(t, from, to) \/ NotConnected(t, from, to)
      PROVE  GhostTypeOK'
  BY <1>2, <1>9 DEF Connected, NotConnected
<1>10. ASSUME NEW t \in Task, SaveSsid(t) \/ SaveFails(t) PROVE GhostTypeOK'
  BY <1>1, <1>10 DEF SaveSsid, SaveFails, GhostTypeOK
<1>11. ASSUME NEW t \in Task, Reconfigure(t) PROVE GhostTypeOK'
  BY <1>2, <1>7, <1>8, <1>9, <1>10, <1>11
     DEF Reconfigure, ApplyNext, ApplyPrevious, Begin, DisconnectOld, Fallback,
         DisconnectNew, SavePass, Finish, End
<1>12. CASE Reset
  BY <1>1, <1>12 DEF Reset, GhostTypeOK
<1>13. CASE UNCHANGED wifiVars
  BY <1>2, <1>13 DEF wifiVars
<1> QED
  BY <1>3, <1>4, <1>5, <1>6, <1>11, <1>12, <1>13 DEF WifiNext

LEMMA StepWifiTypeOK ==
  WifiTypeOK /\ [WifiNext]_wifiVars => WifiTypeOK'
BY StepSavedTypeOK, StepDriverTypeOK, StepStaticsTypeOK, StepGhostTypeOK
   DEF WifiTypeOK, DriverTypeOK, StaticsTypeOK, SavedTypeOK, GhostTypeOK

LEMMA InitWifiTypeOK ==
  WifiInit => WifiTypeOK
<1> SUFFICES ASSUME WifiInit PROVE WifiTypeOK
  OBVIOUS
<1>1. Entered \subseteq Cred /\ Cred \subseteq [ssid : Ssid \cup {Empty}, pass : Pass \cup {Empty}]
  BY DEF Cred
<1>2. DriverTypeOK
  <2>1. <<>> \in Seq(Event)
    BY EmptySeq
  <2>2. worked \subseteq Cred
    BY <1>1 DEF WifiInit
  <2> QED
    BY <2>1, <2>2 DEF WifiInit, DriverTypeOK
<1>3. StaticsTypeOK
  BY NoRetry DEF WifiInit, StaticsTypeOK
<1>4. SavedTypeOK
  BY <1>1, IdleIsRequest DEF WifiInit, SavedTypeOK
<1>5. GhostTypeOK
  BY DEF WifiInit, GhostTypeOK
<1> QED
  BY <1>2, <1>3, <1>4, <1>5, TypeParts

(* The variables keep their types: in particular the retries never exceed  *)
(* their limit, and a reconfiguration only ever has credentials that were  *)
(* entered, or none to fall back to.                                       *)
THEOREM WifiTypeCorrect == WifiSpec => []WifiTypeOK
BY InitWifiTypeOK, StepWifiTypeOK, PTL DEF WifiSpec

-----------------------------------------------------------------------------
(* What the event loop has yet to hear                                     *)

LEMMA StepOff ==
  ASSUME WifiTypeOK, OffUntilBoot, [WifiNext]_wifiVars
  PROVE  OffUntilBoot'
<1> USE DEF OffUntilBoot
<1>1. ASSUME UNCHANGED <<boot, radio>> PROVE OffUntilBoot'
  BY <1>1
<1>2. CASE Boot
  BY <1>2 DEF Boot, BootConnect, BootConnected, BootGiveUp, BootNothing, SetupAp
<1>3. ASSUME NEW c, Connect(c), boot' = boot PROVE OffUntilBoot'
  BY <1>3 DEF Connect
<1>4. ASSUME Disconnect, boot' = boot PROVE OffUntilBoot'
  BY <1>4 DEF Disconnect
<1>5. CASE EventLoop
  BY <1>1, <1>3, <1>5
     DEF EventLoop, OnStart, OnDropBusy, OnDropRetry, OnDropGiveUp, OnIp, elsewhere
<1>6. CASE Join \/ Lose
  BY <1>6 DEF Join, Lose, outside
<1>7. CASE AirChange
  BY <1>1, <1>7 DEF AirChange, outside
<1>8. ASSUME NEW t \in Task, NEW c \in Entered, Save(t, c) PROVE OffUntilBoot'
  BY <1>1, <1>8 DEF Save, driver
<1>9. ASSUME NEW t \in Task, NEW from, NEW to, NEW c, Apply(t, from, to, c)
      PROVE  OffUntilBoot'
  BY <1>3, <1>9 DEF Apply
<1>10. ASSUME NEW t \in Task, NEW from, NEW to,
              Refused(t, from, to) \/ Connected(t, from, to) \/ NotConnected(t, from, to)
       PROVE  OffUntilBoot'
  BY <1>1, <1>10 DEF Refused, Connected, NotConnected, driver
<1>11. ASSUME NEW t \in Task, ApplyNext(t) \/ ApplyPrevious(t) PROVE OffUntilBoot'
  BY <1>9, <1>10, <1>11 DEF ApplyNext, ApplyPrevious
<1>12. ASSUME NEW t \in Task, DisconnectOld(t) \/ DisconnectNew(t) PROVE OffUntilBoot'
  BY <1>4, <1>12 DEF DisconnectOld, DisconnectNew
<1>13. ASSUME NEW t \in Task, Begin(t) \/ Fallback(t) \/ SaveSsid(t) \/ SavePass(t)
                                \/ SaveFails(t) \/ Finish(t) \/ End(t)
       PROVE  OffUntilBoot'
  BY <1>1, <1>13
     DEF Begin, Fallback, SaveSsid, SavePass, SaveFails, Finish, End, driver
<1>14. CASE Reset
  BY <1>14 DEF Reset
<1>15. CASE UNCHANGED wifiVars
  BY <1>1, <1>15 DEF wifiVars, driver
<1> QED
  BY <1>2, <1>5, <1>6, <1>7, <1>8, <1>11, <1>12, <1>13, <1>14, <1>15
     DEF WifiNext, Reconfigure

(* A step, as far as the station and the events go: nothing, a drop or a   *)
(* start is posted, an address is, one of them is taken, or all is reset.  *)
Quiet ==
  /\ UNCHANGED <<events, ssid, worked>>
  /\ (radio' = "joined") <=> (radio = "joined")
  /\ radio = "joined" => target' = target

Drops ==
  /\ events' = Append(events, Drop) \/ events' = Append(Append(events, Drop), Start)
  /\ radio' # "joined"
  /\ UNCHANGED <<ssid, worked>>

Starts ==
  /\ events' = Append(events, Start)
  /\ radio # "joined" /\ radio' # "joined"
  /\ UNCHANGED <<ssid, worked>>

Joins ==
  /\ target \in Cred
  /\ events' = Append(events, Ip(target))
  /\ radio' = "joined"
  /\ worked' = worked \cup {target}
  /\ UNCHANGED ssid

Hears ==
  /\ \E kind \in {"start", "drop", "ip"} :
        /\ Take(kind)
        /\ ssid' = CASE kind = "start" -> ssid
                     [] kind = "drop" -> Empty
                     [] kind = "ip" -> IF radio = "joined" THEN target.ssid ELSE ssid
  /\ (radio' = "joined") <=> (radio = "joined")
  /\ radio = "joined" => target' = target
  /\ UNCHANGED worked

Forgets ==
  /\ events' = <<>> /\ radio' # "joined" /\ ssid' = Empty
  /\ UNCHANGED worked

LEMMA StepIsHeard ==
  ASSUME WifiTypeOK, OffUntilBoot, [WifiNext]_wifiVars
  PROVE  Quiet \/ Drops \/ Starts \/ Joins \/ Hears \/ Forgets
<1>1. ASSUME UNCHANGED <<driver, ssid, worked>> PROVE Quiet
  BY <1>1 DEF Quiet, driver
<1>2. ASSUME Disconnect, UNCHANGED <<ssid, worked>> PROVE Quiet \/ Drops
  BY <1>2 DEF Disconnect, Post, Quiet, Drops
<1>3. ASSUME NEW c, Connect(c)
      PROVE  /\ (radio' = "joined") <=> (radio = "joined")
             /\ radio = "joined" => target' = target
  BY <1>3 DEF Connect
<1>4. CASE BootConnect
  BY <1>4 DEF BootConnect, OffUntilBoot, Post, Starts, statics, ghosts
<1>5. CASE BootConnected \/ BootNothing
  BY <1>1, <1>5 DEF BootConnected, BootNothing, statics, ghosts
<1>6. CASE BootGiveUp
  BY <1>2, <1>6 DEF BootGiveUp, ghosts
<1>7. CASE SetupAp
  BY <1>7 DEF SetupAp, Post, Starts, Drops, ghosts
<1>8. CASE OnStart
  BY <1>3, <1>8 DEF OnStart, Hears, elsewhere, statics
<1>9. CASE OnDropBusy \/ OnDropGiveUp
  BY <1>9 DEF OnDropBusy, OnDropGiveUp, Hears, elsewhere
<1>10. CASE OnDropRetry
  BY <1>3, <1>10 DEF OnDropRetry, Hears, elsewhere
<1>11. CASE OnIp
  BY <1>11 DEF OnIp, Hears, elsewhere
<1>12. CASE Join
  <2>1. target \in Cred
    BY <1>12 DEF Join, WifiTypeOK
  <2> QED
    BY <1>12, <2>1 DEF Join, Joins, Post, outside, statics
<1>13. CASE Lose
  BY <1>13 DEF Lose, Drops, Post, outside, statics
<1>14. CASE AirChange
  BY <1>14 DEF AirChange, Quiet, outside, statics
<1>15. ASSUME NEW t \in Task, NEW c \in Entered, Save(t, c) PROVE Quiet
  BY <1>1, <1>15 DEF Save, statics, ghosts
<1>16. ASSUME NEW t \in Task, NEW from, NEW to, NEW c, Apply(t, from, to, c)
       PROVE  Quiet
  BY <1>3, <1>16 DEF Apply, Quiet, statics, ghosts
<1>17. ASSUME NEW t \in Task, NEW from, NEW to,
              Refused(t, from, to) \/ Connected(t, from, to) \/ NotConnected(t, from, to)
       PROVE  Quiet
  BY <1>1, <1>17 DEF Refused, Connected, NotConnected, statics, ghosts
<1>18. ASSUME NEW t \in Task, ApplyNext(t) \/ ApplyPrevious(t) PROVE Quiet
  BY <1>16, <1>17, <1>18 DEF ApplyNext, ApplyPrevious
<1>19. ASSUME NEW t \in Task, DisconnectOld(t) \/ DisconnectNew(t) PROVE Quiet \/ Drops
  BY <1>2, <1>19 DEF DisconnectOld, DisconnectNew, statics, ghosts
<1>20. ASSUME NEW t \in Task, Begin(t) \/ Fallback(t) \/ SaveSsid(t) \/ SavePass(t)
                                \/ SaveFails(t) \/ Finish(t) \/ End(t)
       PROVE  Quiet
  BY <1>1, <1>20
     DEF Begin, Fallback, SaveSsid, SavePass, SaveFails, Finish, End, statics, ghosts
<1>21. CASE Reset
  BY <1>21 DEF Reset, Forgets
<1>22. CASE UNCHANGED wifiVars
  BY <1>1, <1>22 DEF wifiVars, statics, ghosts
<1> QED
  BY <1>4, <1>5, <1>6, <1>7, <1>8, <1>9, <1>10, <1>11, <1>12, <1>13, <1>14, <1>15,
     <1>18, <1>19, <1>20, <1>21, <1>22
     DEF WifiNext, Boot, EventLoop, Reconfigure

(* An address that waits for the event loop is of a network that gave it.  *)
LEMMA StepAddressesWorked ==
  ASSUME WifiTypeOK, OffUntilBoot, AddressesWorked, [WifiNext]_wifiVars
  PROVE  AddressesWorked'
<1> USE DEF AddressesWorked
<1>1. events \in Seq(Event) /\ Len(events) \in Nat
  BY DEF WifiTypeOK
<1>2. ASSUME NEW e \in Event, events' = Append(events, e), worked \subseteq worked',
             e.kind = "ip" => e.cred \in worked'
      PROVE  AddressesWorked'
  <2>1. /\ Len(events') = Len(events) + 1
        /\ \A i \in 1 .. Len(events) : events'[i] = events[i]
        /\ events'[Len(events) + 1] = e
    BY <1>1, <1>2, Appended
  <2> SUFFICES ASSUME NEW i \in 1 .. Len(events'), events'[i].kind = "ip"
               PROVE  events'[i].cred \in worked'
    OBVIOUS
  <2>2. i \in 1 .. Len(events) \/ i = Len(events) + 1
    BY <1>1, <2>1
  <2> QED
    BY <1>2, <2>1, <2>2
<1>3. CASE Quiet
  BY <1>3 DEF Quiet
<1>4. CASE Drops
  <2>1. CASE events' = Append(events, Drop)
    BY <1>2, <1>4, <2>1, EventsType DEF Drops
  <2>2. CASE events' = Append(Append(events, Drop), Start)
    <3> DEFINE s == Append(events, Drop)
    <3>1. /\ s \in Seq(Event) /\ Len(s) = Len(events) + 1
          /\ \A i \in 1 .. Len(events) : s[i] = events[i]
          /\ s[Len(events) + 1] = Drop
      BY <1>1, Appended, EventsType
    <3> HIDE DEF s
    <3>2. /\ Len(events') = Len(s) + 1
          /\ \A i \in 1 .. Len(s) : events'[i] = s[i]
          /\ events'[Len(s) + 1] = Start
      BY <2>2, <3>1, Appended, EventsType DEF s
    <3> SUFFICES ASSUME NEW i \in 1 .. Len(events'), events'[i].kind = "ip"
                 PROVE  events'[i].cred \in worked'
      OBVIOUS
    <3>3. CASE i \in 1 .. Len(events)
      <4>1. i \in 1 .. Len(s)
        BY <1>1, <3>1, <3>3
      <4>2. events'[i] = events[i]
        BY <3>1, <3>2, <3>3, <4>1
      <4> QED
        BY <1>4, <3>3, <4>2 DEF Drops
    <3>4. CASE i = Len(s)
      <4>1. events'[i] = Drop
        BY <1>1, <3>1, <3>2, <3>4
      <4> QED
        BY <4>1, EventsType
    <3>5. CASE i = Len(s) + 1
      BY <3>2, <3>5, EventsType
    <3> QED
      BY <1>1, <3>1, <3>2, <3>3, <3>4, <3>5
  <2> QED
    BY <1>4, <2>1, <2>2 DEF Drops
<1>5. CASE Starts
  BY <1>2, <1>5, EventsType DEF Starts
<1>6. CASE Joins
  <2>1. Ip(target) \in Event /\ Ip(target).cred = target /\ target \in worked'
    BY <1>6, EventsType DEF Joins
  <2> QED
    BY <1>2, <1>6, <2>1 DEF Joins
<1>7. CASE Hears
  <2>1. events # <<>> /\ events' = Tail(events) /\ worked' = worked
    BY <1>7 DEF Hears, Take
  <2>2. /\ Len(events') = Len(events) - 1
        /\ \A i \in 1 .. Len(events) - 1 : events'[i] = events[i + 1]
    BY <1>1, <2>1, Taken
  <2> SUFFICES ASSUME NEW i \in 1 .. Len(events'), events'[i].kind = "ip"
               PROVE  events'[i].cred \in worked'
    OBVIOUS
  <2>3. i \in 1 .. Len(events) - 1 /\ i + 1 \in 1 .. Len(events)
    BY <1>1, <2>2
  <2> QED
    BY <2>1, <2>2, <2>3
<1>8. CASE Forgets
  BY <1>8, EmptySeq DEF Forgets
<1> QED
  BY StepIsHeard, <1>3, <1>4, <1>5, <1>6, <1>7, <1>8

(* The name the status has once all events are handled *)
TrueName == IF radio = "joined" THEN target.ssid ELSE Empty

LEMMA StepLastWordIsTrue ==
  ASSUME WifiTypeOK, OffUntilBoot, LastWordIsTrue, [WifiNext]_wifiVars
  PROVE  LastWordIsTrue'
<1>1. events \in Seq(Event) /\ Len(events) \in Nat
  BY DEF WifiTypeOK
<1>2. /\ (\A i \in 1 .. Len(events) : events[i].kind = "start") => ssid = TrueName
      /\ \A i \in 1 .. Len(events) :
           events[i].kind # "start"
             /\ (\A j \in i + 1 .. Len(events) : events[j].kind = "start")
           => (events[i].kind = "ip" <=> radio = "joined")
  <2>1. \A i \in 1 .. Len(events) : Speaks(i) <=> events[i].kind # "start"
    BY DEF Speaks
  <2>2. \A i \in 1 .. Len(events) : i + 1 .. Len(events) \subseteq 1 .. Len(events)
    BY <1>1
  <2> QED
    BY <2>1, <2>2 DEF LastWordIsTrue, TrueName
<1>3. SUFFICES
        /\ (\A i \in 1 .. Len(events') : events'[i].kind = "start") => ssid' = TrueName'
        /\ \A i \in 1 .. Len(events') :
             events'[i].kind # "start"
               /\ (\A j \in i + 1 .. Len(events') : events'[j].kind = "start")
             => (events'[i].kind = "ip" <=> radio' = "joined")
  <2>0. Len(events') \in Nat
    <3>1. WifiTypeOK'
      BY StepWifiTypeOK
    <3> QED
      BY <3>1 DEF WifiTypeOK
  <2>1. \A i \in 1 .. Len(events') : Speaks(i)' <=> events'[i].kind # "start"
    BY DEF Speaks
  <2>2. \A i \in 1 .. Len(events') : i + 1 .. Len(events') \subseteq 1 .. Len(events')
    BY <2>0
  <2> QED
    BY <2>1, <2>2, <1>3 DEF LastWordIsTrue, TrueName
<1>4. CASE Quiet
  BY <1>2, <1>4 DEF Quiet, TrueName
<1>5. CASE Drops
  <2>1. CASE events' = Append(events, Drop)
    <3>1. /\ Len(events') = Len(events) + 1
          /\ \A i \in 1 .. Len(events) : events'[i] = events[i]
          /\ events'[Len(events) + 1] = Drop
      BY <1>1, <2>1, Appended, EventsType
    <3>2. Drop.kind = "drop" /\ radio' # "joined"
      BY <1>5, EventsType DEF Drops
    <3>3. Len(events) + 1 \in 1 .. Len(events')
      BY <1>1, <3>1
    <3>4. ASSUME NEW i \in 1 .. Len(events'), i # Len(events) + 1
          PROVE  Len(events) + 1 \in i + 1 .. Len(events')
      BY <1>1, <3>1, <3>4
    <3> QED
      BY <3>1, <3>2, <3>3, <3>4
  <2>2. CASE events' = Append(Append(events, Drop), Start)
    <3> DEFINE s == Append(events, Drop)
    <3>1. /\ s \in Seq(Event) /\ Len(s) = Len(events) + 1
          /\ s[Len(events) + 1] = Drop
      BY <1>1, Appended, EventsType
    <3> HIDE DEF s
    <3>2. /\ Len(events') = Len(s) + 1
          /\ \A i \in 1 .. Len(s) : events'[i] = s[i]
          /\ events'[Len(s) + 1] = Start
      BY <2>2, <3>1, Appended, EventsType DEF s
    <3>3. /\ Len(events) + 1 \in 1 .. Len(s) /\ Len(events) + 1 \in 1 .. Len(events')
          /\ Len(s) + 1 = Len(events) + 2
      BY <1>1, <3>1, <3>2
    <3>4. /\ events'[Len(events) + 1].kind = "drop" /\ events'[Len(events) + 2].kind = "start"
          /\ radio' # "joined"
      BY <1>5, <3>1, <3>2, <3>3, EventsType DEF Drops
    <3>5. ASSUME NEW i \in 1 .. Len(events'), i # Len(events) + 1, i # Len(events) + 2
          PROVE  Len(events) + 1 \in i + 1 .. Len(events')
      BY <1>1, <3>1, <3>2, <3>5
    <3> QED
      BY <3>3, <3>4, <3>5
  <2> QED
    BY <1>5, <2>1, <2>2 DEF Drops
<1>6. CASE Starts
  <2>1. /\ Len(events') = Len(events) + 1
        /\ \A i \in 1 .. Len(events) : events'[i] = events[i]
        /\ events'[Len(events) + 1].kind = "start"
    BY <1>1, <1>6, Appended, EventsType DEF Starts
  <2>2. /\ ssid' = ssid /\ TrueName' = TrueName
        /\ radio # "joined" /\ radio' # "joined"
    BY <1>6 DEF Starts, TrueName
  <2>3. 1 .. Len(events) \subseteq 1 .. Len(events')
    BY <1>1, <2>1
  <2>4. ASSUME NEW i \in 1 .. Len(events'), events'[i].kind # "start"
        PROVE  i \in 1 .. Len(events)
    BY <1>1, <2>1, <2>4
  <2>5. \A i \in 1 .. Len(events) : \A j \in i + 1 .. Len(events) :
          j \in i + 1 .. Len(events') /\ j \in 1 .. Len(events)
    BY <1>1, <2>1
  <2>6. (\A i \in 1 .. Len(events') : events'[i].kind = "start") => ssid' = TrueName'
    BY <1>2, <2>1, <2>2, <2>3
  <2>7. ASSUME NEW i \in 1 .. Len(events'), events'[i].kind # "start",
               \A j \in i + 1 .. Len(events') : events'[j].kind = "start"
        PROVE  events'[i].kind = "ip" <=> radio' = "joined"
    <3>1. i \in 1 .. Len(events) /\ events'[i] = events[i]
      BY <2>1, <2>4, <2>7
    <3>2. \A j \in i + 1 .. Len(events) : events[j].kind = "start"
      BY <2>1, <2>5, <2>7, <3>1
    <3> QED
      BY <1>2, <2>2, <2>7, <3>1, <3>2
  <2> QED
    BY <2>6, <2>7
<1>7. CASE Joins
  <2>1. Ip(target) \in Event /\ Ip(target).kind = "ip"
    BY <1>7, EventsType DEF Joins
  <2>2. /\ Len(events') = Len(events) + 1
        /\ events'[Len(events) + 1] = Ip(target)
    BY <1>1, <1>7, <2>1, Appended DEF Joins
  <2>3. events'[Len(events) + 1].kind = "ip" /\ radio' = "joined"
    BY <1>7, <2>1, <2>2 DEF Joins
  <2>4. Len(events) + 1 \in 1 .. Len(events')
    BY <1>1, <2>2
  <2>5. ASSUME NEW i \in 1 .. Len(events'), i # Len(events) + 1
        PROVE  Len(events) + 1 \in i + 1 .. Len(events')
    BY <1>1, <2>2, <2>5
  <2> QED
    BY <2>3, <2>4, <2>5
<1>8. CASE Hears
  <2>1. events # <<>> /\ events' = Tail(events)
    BY <1>8 DEF Hears, Take
  <2>2. /\ Len(events) # 0
        /\ Len(events') = Len(events) - 1
        /\ \A i \in 1 .. Len(events) - 1 : events'[i] = events[i + 1]
        /\ Head(events) = events[1]
    BY <1>1, <2>1, Taken
  <2>3. /\ (radio' = "joined") <=> (radio = "joined")
        /\ radio = "joined" => target' = target
        /\ TrueName' = TrueName
    BY <1>8 DEF Hears, TrueName
  <2>4. ASSUME \A i \in 1 .. Len(events') : events'[i].kind = "start"
        PROVE  ssid' = TrueName'
    <3>1. \A j \in 1 + 1 .. Len(events) : events[j].kind = "start"
      <4> TAKE j \in 1 + 1 .. Len(events)
      <4>1. j - 1 \in 1 .. Len(events) - 1 /\ j - 1 \in 1 .. Len(events') /\ (j - 1) + 1 = j
        BY <1>1, <2>2
      <4>2. events'[j - 1] = events[j]
        BY <2>2, <4>1
      <4> QED
        BY <2>4, <4>1, <4>2
    <3>2. 1 \in 1 .. Len(events)
      BY <1>1, <2>2
    <3>3. events[1].kind # "start" => (events[1].kind = "ip" <=> radio = "joined")
      BY <1>2, <3>1, <3>2
    <3>4. events[1].kind = "start" => ssid = TrueName
      <4>1. \A i \in 1 .. Len(events) : i = 1 \/ i \in 1 + 1 .. Len(events)
        BY <1>1
      <4> QED
        BY <1>2, <3>1, <4>1
    <3>5. \/ events[1].kind = "start" /\ ssid' = ssid
          \/ events[1].kind = "drop" /\ ssid' = Empty
          \/ events[1].kind = "ip" /\ ssid' = IF radio = "joined" THEN target.ssid ELSE ssid
      BY <1>8, <2>2 DEF Hears, Take
    <3> QED
      BY <2>3, <3>3, <3>4, <3>5 DEF TrueName
  <2>5. ASSUME NEW i \in 1 .. Len(events'), events'[i].kind # "start",
               \A j \in i + 1 .. Len(events') : events'[j].kind = "start"
        PROVE  events'[i].kind = "ip" <=> radio' = "joined"
    <3>1. /\ i \in 1 .. Len(events) - 1 /\ i + 1 \in 1 .. Len(events)
          /\ events'[i] = events[i + 1]
      BY <1>1, <2>2
    <3>2. \A j \in (i + 1) + 1 .. Len(events) : events[j].kind = "start"
      <4> TAKE j \in (i + 1) + 1 .. Len(events)
      <4>1. /\ j - 1 \in i + 1 .. Len(events') /\ j - 1 \in 1 .. Len(events) - 1
            /\ (j - 1) + 1 = j
        BY <1>1, <2>2
      <4>2. events'[j - 1] = events[j]
        BY <2>2, <4>1
      <4> QED
        BY <2>5, <4>1, <4>2
    <3>3. events[i + 1].kind = "ip" <=> radio = "joined"
      BY <1>2, <2>5, <3>1, <3>2
    <3> QED
      BY <2>3, <3>1, <3>3
  <2> QED
    BY <2>4, <2>5
<1>9. CASE Forgets
  <2>1. events' = <<>> /\ ssid' = TrueName'
    BY <1>9 DEF Forgets, TrueName
  <2> QED
    BY <2>1, EmptySeq
<1> QED
  BY StepIsHeard, <1>4, <1>5, <1>6, <1>7, <1>8, <1>9

-----------------------------------------------------------------------------
(* What the bits and the saves rest on                                     *)

AwaitingPlace == {"disconnect", "apply", "wait"}
SavePlace == {"save", "savepass"}

(* No task comes to these places, and those that are there keep what they  *)
(* were asked.                                                             *)
Stays(P) ==
  \A u \in Task : task'[u].at \in P =>
    task[u].at \in P /\ task'[u].next = task[u].next

(* No key is written, no bit is set, no task comes to its save: or there   *)
(* is doubt already.                                                       *)
Untouched ==
  \/ doubt'
  \/ /\ doubt' = doubt
     /\ nvs' = nvs
     /\ "connected" \in bits' => "connected" \in bits /\ Stays(AwaitingPlace)
     /\ Stays(SavePlace)
     /\ \A u \in Task : task'[u].at = "savepass" <=> task[u].at = "savepass"

LEMMA WorkedGrows ==
  ASSUME WifiTypeOK, OffUntilBoot, [WifiNext]_wifiVars
  PROVE  worked \subseteq worked'
BY StepIsHeard DEF Quiet, Drops, Starts, Joins, Hears, Forgets

LEMMA MoveUntouched ==
  ASSUME SavedTypeOK, NEW t \in Task, NEW from \in Place, NEW to \in Place \ {"savepass"},
         Move(t, from, to), from # "savepass",
         to \in AwaitingPlace => (from \in AwaitingPlace \/ bits' = {}),
         to \in SavePlace => from \in SavePlace,
         bits' \in {bits, {}}, UNCHANGED <<nvs, doubt>>
  PROVE  Untouched
<1>1. /\ task[t].at = from /\ task'[t].at = to /\ task'[t].next = task[t].next
      /\ \A u \in Task \ {t} : task'[u] = task[u]
  BY Moved
<1>2. Stays(SavePlace)
  BY <1>1 DEF Stays
<1>3. \A u \in Task : task'[u].at = "savepass" <=> task[u].at = "savepass"
  BY <1>1
<1>4. "connected" \in bits' => "connected" \in bits /\ Stays(AwaitingPlace)
  BY <1>1 DEF Stays
<1> QED
  BY <1>2, <1>3, <1>4 DEF Untouched

LEMMA PutUntouched ==
  ASSUME SavedTypeOK, NEW t \in Task, NEW r, task[t].at # "savepass",
         task' = [task EXCEPT ![t] = r], r.at \notin AwaitingPlace \cup SavePlace,
         UNCHANGED <<nvs, bits, doubt>>
  PROVE  Untouched
<1>1. task'[t] = r /\ \A u \in Task \ {t} : task'[u] = task[u]
  BY DEF SavedTypeOK
<1>2. Stays(SavePlace) /\ Stays(AwaitingPlace)
  BY <1>1 DEF Stays
<1>3. \A u \in Task : task'[u].at = "savepass" <=> task[u].at = "savepass"
  BY <1>1 DEF SavePlace
<1> QED
  BY <1>2, <1>3 DEF Untouched

LEMMA StepOfSave ==
  ASSUME WifiTypeOK, [WifiNext]_wifiVars
  PROVE  \/ Untouched
         \/ OnIp
         \/ \E t \in Task : Connected(t, "wait", "save") \/ SaveSsid(t) \/ SavePass(t)
<1> USE DEF AwaitingPlace, SavePlace, Place
<1>1. SavedTypeOK
  BY TypeParts
<1>2. ASSUME UNCHANGED <<nvs, task, doubt>>, "connected" \in bits' => "connected" \in bits
      PROVE  Untouched
  BY <1>2 DEF Untouched, Stays
<1>3. CASE Boot
  BY <1>2, <1>3
     DEF Boot, BootConnect, BootConnected, BootGiveUp, BootNothing, SetupAp, statics, ghosts
<1>4. CASE OnStart \/ OnDropBusy \/ OnDropRetry \/ OnDropGiveUp
  BY <1>2, <1>4 DEF OnStart, OnDropBusy, OnDropRetry, OnDropGiveUp, elsewhere, statics
<1>5. CASE Join \/ Lose \/ AirChange
  BY <1>2, <1>5 DEF Join, Lose, AirChange, outside, statics
<1>6. ASSUME NEW t \in Task, NEW c \in Entered, Save(t, c) PROVE Untouched
  <2>1. task[t].at = "idle"
    BY <1>6 DEF Save, Idle
  <2> QED
    BY <1>1, <1>6, <2>1, PutUntouched DEF Save, statics, ghosts
<1>7. ASSUME NEW t \in Task, Begin(t) PROVE Untouched
  BY <1>1, <1>7, MoveUntouched DEF Begin, ghosts
<1>8. ASSUME NEW t \in Task, DisconnectOld(t) PROVE Untouched
  BY <1>1, <1>8, MoveUntouched DEF DisconnectOld, statics, ghosts
<1>9. ASSUME NEW t \in Task, NEW from \in Place, NEW to \in Place \ {"savepass"}, NEW c,
             from # "savepass",
             to \in AwaitingPlace => from \in AwaitingPlace,
             to \in SavePlace => from \in SavePlace,
             \/ Apply(t, from, to, c) \/ Refused(t, from, to)
             \/ Connected(t, from, to) \/ NotConnected(t, from, to)
      PROVE  Untouched
  <2>1. Move(t, from, to) /\ bits' \in {bits, {}} /\ UNCHANGED <<nvs, doubt>>
    BY <1>9 DEF Apply, Refused, Connected, NotConnected, statics, ghosts
  <2> QED
    BY <1>1, <1>9, <2>1, MoveUntouched
<1>10. ASSUME NEW t \in Task, ApplyNext(t), ~Connected(t, "wait", "save") PROVE Untouched
  <2>1. CASE Apply(t, "apply", "wait", task[t].next)
    BY <1>9, <2>1
  <2>2. CASE Refused(t, "apply", "failed")
    BY <1>9, <2>2
  <2>3. CASE NotConnected(t, "wait", "failed")
    BY <1>9, <2>3
  <2> QED
    BY <1>10, <2>1, <2>2, <2>3 DEF ApplyNext
<1>11. ASSUME NEW t \in Task, Fallback(t) PROVE Untouched
  BY <1>1, <1>11, MoveUntouched DEF Fallback, ghosts
<1>12. ASSUME NEW t \in Task, DisconnectNew(t) PROVE Untouched
  BY <1>1, <1>12, MoveUntouched DEF DisconnectNew, statics, ghosts
<1>13. ASSUME NEW t \in Task, ApplyPrevious(t) PROVE Untouched
  <2>1. CASE Apply(t, "back", "backwait", task[t].previous)
    BY <1>9, <2>1
  <2>2. CASE Refused(t, "back", "lost")
    BY <1>9, <2>2
  <2>3. CASE Connected(t, "backwait", "end")
    BY <1>9, <2>3
  <2>4. CASE NotConnected(t, "backwait", "end")
    BY <1>9, <2>4
  <2> QED
    BY <1>13, <2>1, <2>2, <2>3, <2>4 DEF ApplyPrevious
<1>14. ASSUME NEW t \in Task, SaveFails(t) PROVE Untouched
  <2>1. CASE task[t].at = "savepass"
    BY <1>14, <2>1 DEF SaveFails, Untouched
  <2>2. CASE task[t].at # "savepass"
    <3>1. Move(t, "save", "end")
      BY <1>14, <2>2 DEF SaveFails, Move
    <3>2. bits' = bits /\ nvs' = nvs
      BY <1>14 DEF SaveFails, statics
    <3>3. doubt' = doubt
      BY <1>14, <2>2, TypeParts DEF SaveFails, GhostTypeOK
    <3> QED
      BY <1>1, <3>1, <3>2, <3>3, MoveUntouched
  <2> QED
    BY <2>1, <2>2
<1>15. ASSUME NEW t \in Task, Finish(t) \/ End(t) PROVE Untouched
  <2>1. task[t].at # "savepass" /\ Idle.at \notin AwaitingPlace \cup SavePlace
    BY <1>15 DEF Finish, End, Idle
  <2> QED
    BY <1>1, <1>15, <2>1, PutUntouched DEF Finish, End, Leave, ghosts
<1>16. CASE Reset
  <2>1. CASE doubt'
    BY <2>1 DEF Untouched
  <2>2. CASE ~doubt'
    <3>1. doubt' = doubt /\ \A u \in Task : task[u].at # "savepass"
      BY <1>16, <2>2, TypeParts DEF Reset, GhostTypeOK
    <3>2. \A u \in Task : task'[u].at = "idle"
      BY <1>16 DEF Reset, Idle
    <3>3. Stays(SavePlace)
      BY <3>2 DEF Stays
    <3> QED
      BY <1>16, <3>1, <3>2, <3>3 DEF Reset, Untouched
  <2> QED
    BY <2>1, <2>2
<1>17. CASE UNCHANGED wifiVars
  BY <1>2, <1>17 DEF wifiVars, statics, ghosts
<1> QED
  BY <1>3, <1>4, <1>5, <1>6, <1>7, <1>8, <1>10, <1>11, <1>12, <1>13, <1>14, <1>15,
     <1>16, <1>17
     DEF WifiNext, EventLoop, Reconfigure

SavesAreSafe ==
  doubt \/ (BitIsOfNext /\ SavesWhatWorked /\ HalfIsNext /\ SavedHasWorked)

LEMMA StepSavesAreSafe ==
  ASSUME WifiTypeOK, OffUntilBoot, AddressesWorked, SavesAreSafe, [WifiNext]_wifiVars
  PROVE  SavesAreSafe'
<1>1. SavedTypeOK /\ GhostTypeOK /\ DriverTypeOK /\ worked \subseteq worked'
  BY TypeParts, WorkedGrows
<1>2. CASE Untouched
  <2>1. CASE doubt'
    BY <2>1 DEF SavesAreSafe
  <2>2. CASE ~doubt'
    <3>1. /\ ~doubt /\ nvs' = nvs
          /\ "connected" \in bits' => "connected" \in bits /\ Stays(AwaitingPlace)
          /\ Stays(SavePlace)
          /\ \A u \in Task : task'[u].at = "savepass" <=> task[u].at = "savepass"
      BY <1>1, <1>2, <2>2 DEF Untouched, GhostTypeOK
    <3>2. BitIsOfNext /\ SavesWhatWorked /\ HalfIsNext /\ SavedHasWorked
      BY <3>1 DEF SavesAreSafe
    <3>3. BitIsOfNext'
      BY <1>1, <3>1, <3>2 DEF BitIsOfNext, Awaiting, Stays, AwaitingPlace
    <3>4. SavesWhatWorked'
      BY <1>1, <3>1, <3>2 DEF SavesWhatWorked, Stays, SavePlace
    <3>5. HalfIsNext'
      BY <3>1, <3>2 DEF HalfIsNext, Stays, SavePlace
    <3>6. SavedHasWorked'
      BY <1>1, <3>1, <3>2 DEF SavedHasWorked, HalfSaved
    <3> QED
      BY <3>3, <3>4, <3>5, <3>6 DEF SavesAreSafe
  <2> QED
    BY <2>1, <2>2
<1>3. CASE OnIp
  <2>1. CASE doubt'
    BY <2>1 DEF SavesAreSafe
  <2>2. CASE ~doubt'
    <3>1. ~doubt /\ \A t \in Awaiting : task[t].next = Head(events).cred
      BY <1>3, <2>2 DEF OnIp
    <3>2. Head(events).cred \in worked
      <4>1. events # <<>> /\ Head(events).kind = "ip" /\ events \in Seq(Event)
        BY <1>1, <1>3 DEF OnIp, Take, DriverTypeOK
      <4>2. Head(events) = events[1] /\ Len(events) \in Nat \ {0}
        BY <4>1, Taken
      <4>3. 1 \in 1 .. Len(events)
        BY <4>2
      <4> QED
        BY <4>1, <4>2, <4>3 DEF AddressesWorked
    <3>3. UNCHANGED <<nvs, task, worked>>
      BY <1>3 DEF OnIp, elsewhere
    <3>4. SavesWhatWorked /\ HalfIsNext /\ SavedHasWorked
      BY <3>1 DEF SavesAreSafe
    <3>5. BitIsOfNext'
      BY <3>1, <3>2, <3>3 DEF BitIsOfNext, Awaiting
    <3>6. SavesWhatWorked' /\ HalfIsNext'
      BY <3>3, <3>4 DEF SavesWhatWorked, HalfIsNext
    <3>7. SavedHasWorked'
      BY <3>3, <3>4, <2>2, <3>1 DEF SavedHasWorked, HalfSaved
    <3> QED
      BY <3>5, <3>6, <3>7 DEF SavesAreSafe
  <2> QED
    BY <2>1, <2>2
<1>4. ASSUME NEW t \in Task, Connected(t, "wait", "save") PROVE SavesAreSafe'
  <2>1. CASE doubt
    BY <1>4, <2>1 DEF Connected, SavesAreSafe, ghosts
  <2>2. CASE ~doubt
    <3>1. BitIsOfNext /\ SavesWhatWorked /\ HalfIsNext /\ SavedHasWorked
      BY <2>2 DEF SavesAreSafe
    <3>2. /\ "connected" \in bits /\ bits' = {} /\ nvs' = nvs /\ UNCHANGED <<worked, doubt>>
          /\ Move(t, "wait", "save")
      BY <1>4 DEF Connected, ghosts
    <3>3. /\ task[t].at = "wait" /\ task'[t].at = "save" /\ task'[t].next = task[t].next
          /\ \A u \in Task \ {t} : task'[u] = task[u]
      BY <1>1, <3>2, Moved DEF Place
    <3>4. task[t].next \in worked
      BY <3>1, <3>2, <3>3 DEF BitIsOfNext, Awaiting
    <3>5. BitIsOfNext'
      BY <3>2 DEF BitIsOfNext
    <3>6. SavesWhatWorked'
      BY <3>1, <3>2, <3>3, <3>4 DEF SavesWhatWorked
    <3>7. HalfIsNext'
      BY <3>1, <3>2, <3>3 DEF HalfIsNext
    <3>8. SavedHasWorked'
      BY <2>2, <3>1, <3>2, <3>3 DEF SavedHasWorked, HalfSaved
    <3> QED
      BY <3>5, <3>6, <3>7, <3>8 DEF SavesAreSafe
  <2> QED
    BY <2>1, <2>2
<1>5. ASSUME NEW t \in Task, SaveSsid(t) PROVE SavesAreSafe'
  <2>1. CASE doubt'
    BY <2>1 DEF SavesAreSafe
  <2>2. CASE ~doubt'
    <3>1. /\ ~doubt /\ \A u \in Task \ {t} : task[u].at # "savepass"
          /\ UNCHANGED <<bits, worked>>
          /\ nvs' = [nvs EXCEPT !.ssid = task[t].next.ssid]
          /\ Move(t, "save", "savepass")
      BY <1>5, <2>2 DEF SaveSsid, statics
    <3>2. /\ task[t].at = "save" /\ task'[t].at = "savepass" /\ task'[t].next = task[t].next
          /\ \A u \in Task \ {t} : task'[u] = task[u]
      BY <1>1, <3>1, Moved DEF Place
    <3>3. BitIsOfNext /\ SavesWhatWorked
      BY <3>1 DEF SavesAreSafe
    <3>4. BitIsOfNext'
      BY <3>1, <3>2, <3>3 DEF BitIsOfNext, Awaiting
    <3>5. SavesWhatWorked'
      BY <3>1, <3>2, <3>3 DEF SavesWhatWorked
    <3>6. nvs'.ssid = task'[t].next.ssid
      BY <1>1, <3>1, <3>2 DEF SavedTypeOK
    <3>7. \A u \in Task : task'[u].at = "savepass" => u = t
      BY <3>1, <3>2
    <3>8. HalfIsNext'
      BY <3>6, <3>7 DEF HalfIsNext
    <3>9. SavedHasWorked'
      BY <3>2 DEF SavedHasWorked, HalfSaved
    <3> QED
      BY <3>4, <3>5, <3>8, <3>9 DEF SavesAreSafe
  <2> QED
    BY <2>1, <2>2
<1>6. ASSUME NEW t \in Task, SavePass(t) PROVE SavesAreSafe'
  <2>1. /\ UNCHANGED <<bits, worked, doubt>>
        /\ nvs' = [nvs EXCEPT !.pass = task[t].next.pass]
        /\ Move(t, "savepass", "done")
    BY <1>6 DEF SavePass, statics, ghosts
  <2>2. /\ task[t].at = "savepass" /\ task'[t].at = "done" /\ task'[t].next = task[t].next
        /\ \A u \in Task \ {t} : task'[u] = task[u]
    BY <1>1, <2>1, Moved DEF Place
  <2>3. CASE doubt
    BY <2>1, <2>3 DEF SavesAreSafe
  <2>4. CASE ~doubt
    <3>1. BitIsOfNext /\ SavesWhatWorked /\ HalfIsNext
      BY <2>4 DEF SavesAreSafe
    <3>2. task[t].next \in worked /\ nvs.ssid = task[t].next.ssid
          /\ \A u \in Task : task[u].at = "savepass" => u = t
      BY <2>2, <3>1 DEF SavesWhatWorked, HalfIsNext
    <3>3. task[t].next \in Cred
      BY <1>1, <3>2 DEF DriverTypeOK
    <3>4. nvs' = task[t].next
      BY <1>1, <2>1, <3>2, <3>3 DEF SavedTypeOK, Cred
    <3>5. BitIsOfNext'
      BY <2>1, <2>2, <3>1 DEF BitIsOfNext, Awaiting
    <3>6. SavesWhatWorked'
      BY <2>1, <2>2, <3>1 DEF SavesWhatWorked
    <3>7. HalfIsNext'
      BY <2>2, <3>2 DEF HalfIsNext
    <3>8. SavedHasWorked'
      BY <2>1, <3>2, <3>4 DEF SavedHasWorked
    <3> QED
      BY <3>5, <3>6, <3>7, <3>8 DEF SavesAreSafe
  <2> QED
    BY <2>3, <2>4
<1> QED
  BY StepOfSave, <1>2, <1>3, <1>4, <1>5, <1>6

-----------------------------------------------------------------------------
(* The inductive invariant and what follows from it                        *)

LEMMA InvParts ==
  WifiInv <=> WifiTypeOK /\ OffUntilBoot /\ AddressesWorked /\ SavesAreSafe /\ LastWordIsTrue
BY DEF WifiInv, SavesAreSafe

LEMMA InitWifiInv ==
  WifiInit => WifiInv
<1> SUFFICES ASSUME WifiInit PROVE WifiInv
  OBVIOUS
<1>1. Len(events) = 0 /\ \A i \in 1 .. Len(events) : FALSE
  BY EmptySeq DEF WifiInit
<1>2. WifiTypeOK /\ OffUntilBoot
  BY InitWifiTypeOK DEF WifiInit, OffUntilBoot
<1>3. AddressesWorked
  BY <1>1 DEF AddressesWorked
<1>4. BitIsOfNext /\ SavesWhatWorked /\ HalfIsNext
  BY DEF WifiInit, BitIsOfNext, SavesWhatWorked, HalfIsNext, Idle
<1>5. SavedHasWorked
  BY DEF WifiInit, SavedHasWorked
<1>6. LastWordIsTrue
  BY <1>1 DEF WifiInit, LastWordIsTrue
<1> QED
  BY <1>2, <1>3, <1>4, <1>5, <1>6, InvParts DEF SavesAreSafe

LEMMA StepWifiInv ==
  WifiInv /\ [WifiNext]_wifiVars => WifiInv'
<1> SUFFICES ASSUME WifiInv, [WifiNext]_wifiVars PROVE WifiInv'
  OBVIOUS
<1>1. WifiTypeOK /\ OffUntilBoot /\ AddressesWorked /\ SavesAreSafe /\ LastWordIsTrue
  BY InvParts
<1>2. WifiTypeOK' /\ OffUntilBoot' /\ AddressesWorked' /\ SavesAreSafe' /\ LastWordIsTrue'
  BY <1>1, StepWifiTypeOK, StepOff, StepAddressesWorked, StepSavesAreSafe, StepLastWordIsTrue
<1> QED
  BY <1>2 DEF WifiInv, SavesAreSafe

LEMMA WifiInvHolds == WifiSpec => []WifiInv
BY InitWifiInv, StepWifiInv, PTL DEF WifiSpec

(* SavedHasWorked: however many reconfigurations overlap and whatever the  *)
(* networks and the driver do, what is saved has given the device an       *)
(* address, but for the three cases that are named.                        *)
THEOREM OnlyWorkingIsSaved == WifiSpec => []SavedHasWorked
<1>1. WifiInv => SavedHasWorked
  BY DEF WifiInv, SavedHasWorked
<1> QED
  BY <1>1, WifiInvHolds, PTL

(* StatusIsTrue: the name in the status is that of the network the station *)
(* is on once every event is handled.                                      *)
THEOREM StatusIsTold == WifiSpec => []StatusIsTrue
<1>1. WifiInv => StatusIsTrue
  <2> SUFFICES ASSUME WifiInv, events = <<>>
               PROVE  ssid = IF radio = "joined" THEN target.ssid ELSE Empty
    BY DEF StatusIsTrue
  <2>1. \A i \in 1 .. Len(events) : ~Speaks(i)
    BY EmptySeq
  <2> QED
    BY <2>1 DEF WifiInv, LastWordIsTrue
<1> QED
  BY <1>1, WifiInvHolds, PTL

-----------------------------------------------------------------------------
(* The station out of work                                                 *)

UnderwayPlace == Place \ {"idle", "delay"}

LEMMA UnderwayIs ==
  ASSUME SavedTypeOK
  PROVE  Underway = {t \in Task : task[t].at \in UnderwayPlace}
<1>1. \A t \in Task : task[t].at \in Place
  BY DEF SavedTypeOK, Request
<1> QED
  BY <1>1 DEF Underway, UnderwayPlace

LEMMA AppendIsNotEmpty ==
  ASSUME NEW s \in Seq(Event), NEW e \in Event
  PROVE  Append(s, e) # <<>>
<1>1. Append(s, e) \in Seq(Event) /\ Len(s) \in Nat /\ Len(Append(s, e)) = Len(s) + 1
  BY Appended
<1>2. Len(Append(s, e)) # 0
  BY <1>1
<1> QED
  BY <1>2

(* What the driver is asked or tells leaves something to be handled.       *)
LEMMA PostIsHeard ==
  ASSUME DriverTypeOK, NEW e \in Event, Post(e)
  PROVE  events' # <<>>
BY AppendIsNotEmpty DEF DriverTypeOK, Post

(* Only a move of Begin or of Save leaves a place that is not underway.    *)
LEMMA MovedUnderway ==
  ASSUME SavedTypeOK, OneAtATime, NEW t \in Task,
         NEW from \in UnderwayPlace, NEW to \in UnderwayPlace, Move(t, from, to)
  PROVE  /\ Underway = {t} /\ Underway' = {t}
         /\ task[t].at = from /\ task'[t].at = to
         /\ \A u \in Task \ {t} : task'[u] = task[u]
<1>1. /\ task[t].at = from /\ task'[t].at = to
      /\ \A u \in Task \ {t} : task'[u] = task[u]
  BY Moved DEF UnderwayPlace
<1>2. t \in Underway /\ t \in Underway'
  BY <1>1 DEF Underway, UnderwayPlace
<1>3. Underway = {t}
  BY <1>2 DEF OneAtATime, Underway
<1>4. \A u \in Task \ {t} : u \notin Underway'
  <2> TAKE u \in Task \ {t}
  <2>1. u \notin Underway /\ task'[u] = task[u]
    BY <1>1, <1>3
  <2> QED
    BY <2>1 DEF Underway
<1>5. Underway' = {t}
  BY <1>2, <1>4 DEF Underway
<1> QED
  BY <1>1, <1>3, <1>5

(* A task that goes on behind its apply, and does not touch the station or *)
(* leaves something to be handled, finds the station explained as before.  *)
LEMMA StaysExplained ==
  ASSUME OfflineInv, NEW t \in Task, Underway = {t}, task[t].at \notin {"disconnect", "apply"},
         UNCHANGED <<boot, stranded>>,
         UNCHANGED <<radio, events>> \/ events' # <<>>
  PROVE  OutOfWork' => stranded'
BY DEF OfflineInv, OutOfWork

LEMMA StepOfTask ==
  ASSUME WifiTypeOK, OneAtATime, OfflineInv, NEW t \in Task, Reconfigure(t)
  PROVE  OfflineInv'
<1>0. SavedTypeOK /\ DriverTypeOK
  BY TypeParts
<1> USE DEF Place, UnderwayPlace
<1>1. ASSUME NEW from \in UnderwayPlace, NEW to \in UnderwayPlace, Move(t, from, to),
             UNCHANGED <<boot, busy>>,
             to = "apply" \/ (OutOfWork' => stranded')
      PROVE  OfflineInv'
  <2>1. /\ Underway = {t} /\ Underway' = {t}
        /\ task[t].at = from /\ task'[t].at = to
        /\ \A u \in Task \ {t} : task'[u] = task[u]
    BY <1>0, <1>1, MovedUnderway
  <2>2. boot = "up" /\ busy
    BY <2>1 DEF OfflineInv
  <2> QED
    BY <1>1, <2>1, <2>2 DEF OfflineInv
<1>2. ASSUME NEW from \in UnderwayPlace \ {"disconnect", "apply"},
             NEW to \in UnderwayPlace, Move(t, from, to),
             UNCHANGED <<boot, busy, stranded>>,
             UNCHANGED <<radio, events>> \/ events' # <<>>
      PROVE  OfflineInv'
  <2>1. Underway = {t} /\ task[t].at = from
    BY <1>0, <1>2, MovedUnderway
  <2>2. OutOfWork' => stranded'
    BY <1>2, <2>1, StaysExplained
  <2> QED
    BY <1>1, <1>2, <2>2
<1>3. ASSUME Disconnect PROVE UNCHANGED <<radio, events>> \/ events' # <<>>
  <2>1. CASE Post(Drop)
    BY <1>0, <2>1, PostIsHeard, EventsType
  <2> QED
    BY <1>3, <2>1 DEF Disconnect
<1>4. ASSUME NEW from \in UnderwayPlace, NEW to \in UnderwayPlace, NEW c,
             Apply(t, from, to, c)
      PROVE  OfflineInv'
  <2>1. radio' # "idle"
    BY <1>4 DEF Apply, Connect
  <2> QED
    BY <1>1, <1>4, <2>1 DEF Apply, OutOfWork, statics, ghosts
<1>5. ASSUME NEW from \in UnderwayPlace, NEW to \in UnderwayPlace, Refused(t, from, to)
      PROVE  OfflineInv'
  BY <1>1, <1>5 DEF Refused, statics
<1>6. ASSUME NEW from \in UnderwayPlace \ {"disconnect", "apply"}, NEW to \in UnderwayPlace,
             Connected(t, from, to) \/ NotConnected(t, from, to)
      PROVE  OfflineInv'
  BY <1>2, <1>6 DEF Connected, NotConnected, driver, ghosts
<1>7. ASSUME Leave(t), UNCHANGED <<boot, driver, stranded>>,
             task[t].at \in UnderwayPlace \ {"disconnect", "apply"}
      PROVE  OfflineInv'
  <2>1. task'[t].at = "idle" /\ \A u \in Task \ {t} : task'[u] = task[u]
    BY <1>0, <1>7 DEF Leave, Idle, SavedTypeOK
  <2>2. Underway = {t}
    BY <1>7 DEF OneAtATime, Underway
  <2>3. Underway' = {}
    <3>1. \A u \in Task : u \notin Underway'
      <4> TAKE u \in Task
      <4>1. CASE u = t
        BY <2>1, <4>1 DEF Underway
      <4>2. CASE u # t
        <5>1. u \notin Underway /\ task'[u] = task[u]
          BY <2>1, <2>2, <4>2
        <5> QED
          BY <5>1 DEF Underway
      <4> QED
        BY <4>1, <4>2
    <3> QED
      BY <3>1 DEF Underway
  <2>4. boot' = "up" /\ ~busy'
    BY <1>7, <2>2 DEF OfflineInv, Leave
  <2>5. OutOfWork' => stranded'
    BY <1>7, <2>2, StaysExplained DEF driver
  <2> QED
    BY <2>3, <2>4, <2>5 DEF OfflineInv
<1>8. CASE Begin(t)
  <2>1. /\ task[t].at = "delay" /\ task'[t].at = "disconnect"
        /\ \A u \in Task \ {t} : task'[u] = task[u]
    BY <1>0, <1>8, Moved DEF Begin
  <2>2. boot' = "up" /\ busy'
    BY <1>8, <2>1 DEF Begin, OfflineInv
  <2>3. t \in Underway'
    BY <2>1 DEF Underway
  <2> QED
    BY <2>1, <2>2, <2>3 DEF OfflineInv
<1>9. CASE DisconnectOld(t)
  BY <1>1, <1>9 DEF DisconnectOld, statics
<1>10. CASE ApplyNext(t)
  BY <1>4, <1>5, <1>6, <1>10 DEF ApplyNext
<1>11. CASE Fallback(t)
  BY <1>2, <1>11 DEF Fallback, driver, ghosts
<1>12. CASE DisconnectNew(t)
  BY <1>2, <1>3, <1>12 DEF DisconnectNew, statics, ghosts
<1>13. CASE ApplyPrevious(t)
  BY <1>4, <1>5, <1>6, <1>13 DEF ApplyPrevious
<1>14. CASE SaveSsid(t) \/ SavePass(t) \/ SaveFails(t)
  BY <1>2, <1>14 DEF SaveSsid, SavePass, SaveFails, statics, driver, ghosts
<1>15. CASE Finish(t) \/ End(t)
  BY <1>7, <1>15 DEF Finish, End, ghosts
<1> QED
  BY <1>8, <1>9, <1>10, <1>11, <1>12, <1>13, <1>14, <1>15 DEF Reconfigure

(* An address that is handled when the station has been lost is followed   *)
(* by the loss.                                                            *)
LEMMA LossFollows ==
  ASSUME WifiTypeOK, LastWordIsTrue, Take("ip"), radio = "idle"
  PROVE  events' # <<>>
<1>1. /\ events \in Seq(Event) /\ events # <<>> /\ events' = Tail(events)
      /\ Head(events).kind = "ip"
  BY DEF WifiTypeOK, Take
<1>2. /\ Len(events) \in Nat \ {0} /\ Len(events') = Len(events) - 1
      /\ events[1].kind = "ip"
  BY <1>1, Taken
<1> SUFFICES ASSUME events' = <<>> PROVE FALSE
  OBVIOUS
<1>3. Len(events) = 1
  BY <1>2
<1>4. Speaks(1) /\ \A j \in 1 + 1 .. Len(events) : ~Speaks(j)
  BY <1>2, <1>3 DEF Speaks
<1>5. 1 \in 1 .. Len(events)
  BY <1>3
<1>6. events[1].kind = "ip" <=> radio = "joined"
  BY <1>4, <1>5 DEF LastWordIsTrue
<1> QED
  BY <1>2, <1>6

LEMMA StepOfflineInv ==
  ASSUME WifiInv, OneAtATime, OfflineInv, [WifiNext]_wifiVars
  PROVE  OfflineInv'
<1>0. WifiTypeOK /\ SavedTypeOK /\ DriverTypeOK /\ StaticsTypeOK /\ LastWordIsTrue
  BY TypeParts DEF WifiInv
<1>1. ASSUME UNCHANGED <<task, busy>>, boot' = boot,
             OutOfWork' => \/ OutOfWork /\ UNCHANGED <<ap, retry, stranded>>
                           \/ stranded'
                           \/ Underway = {} /\ (ap' \/ retry' = MaxRetry)
      PROVE  OfflineInv'
  <2>1. Underway' = Underway
    BY <1>1 DEF Underway
  <2> QED
    BY <1>1, <2>1 DEF OfflineInv
<1>2. ASSUME boot # "up", UNCHANGED <<task, busy>>,
             OutOfWork' => OutOfWork /\ UNCHANGED <<ap, retry, stranded>>
      PROVE  OfflineInv'
  <2>1. Underway' = Underway /\ \A t \in Task : task'[t].at = "idle"
    BY <1>2 DEF Underway, OfflineInv
  <2> QED
    BY <1>2, <2>1 DEF OfflineInv
<1>3. ASSUME NEW e \in Event, Post(e) PROVE ~OutOfWork'
  BY <1>0, <1>3, PostIsHeard DEF OutOfWork
<1>4. ASSUME NEW c, Connect(c) PROVE radio' # "idle"
  BY <1>4 DEF Connect
<1>5. CASE BootConnect
  BY <1>2, <1>3, <1>5, EventsType DEF BootConnect, statics
<1>6. CASE BootConnected
  BY <1>2, <1>6 DEF BootConnected, OutOfWork, driver, ghosts
<1>7. CASE BootGiveUp
  BY <1>2, <1>7 DEF BootGiveUp, OutOfWork
<1>8. CASE BootNothing
  BY <1>2, <1>8 DEF BootNothing, OutOfWork, statics
<1>9. CASE SetupAp
  <2>1. ~OutOfWork'
    <3>1. CASE radio \in {"trying", "joined"}
      <4>1. Append(events, Drop) \in Seq(Event) /\ events' = Append(Append(events, Drop), Start)
        BY <1>0, <1>9, <3>1, Appended, EventsType DEF SetupAp, DriverTypeOK
      <4> QED
        BY <4>1, AppendIsNotEmpty, EventsType DEF OutOfWork
    <3>2. CASE radio \notin {"trying", "joined"}
      BY <1>3, <1>9, <3>2, EventsType DEF SetupAp
    <3> QED
      BY <3>1, <3>2
  <2> QED
    BY <1>2, <1>9, <2>1 DEF SetupAp
<1>10. CASE OnStart
  BY <1>1, <1>4, <1>10 DEF OnStart, OutOfWork, elsewhere, statics
<1>11. CASE OnDropBusy
  BY <1>1, <1>11 DEF OnDropBusy, OfflineInv, elsewhere
<1>12. CASE OnDropRetry
  BY <1>1, <1>4, <1>12 DEF OnDropRetry, OutOfWork, elsewhere
<1>13. CASE OnDropGiveUp
  <2>1. Underway = {}
    BY <1>13 DEF OnDropGiveUp, OfflineInv
  <2>2. ap' \/ retry' = MaxRetry
    BY <1>0, <1>13 DEF OnDropGiveUp, StaticsTypeOK
  <2> QED
    BY <1>1, <1>13, <2>1, <2>2 DEF OnDropGiveUp, elsewhere
<1>14. CASE OnIp
  <2>1. radio = "idle" => events' # <<>>
    BY <1>0, <1>14, LossFollows DEF OnIp
  <2> QED
    BY <1>1, <1>14, <2>1 DEF OnIp, OutOfWork, elsewhere
<1>15. CASE Join
  <2>1. target \in Cred
    BY <1>0, <1>15 DEF Join, WifiTypeOK
  <2> QED
    BY <1>1, <1>3, <1>15, <2>1, EventsType DEF Join, outside, statics
<1>16. CASE Lose
  BY <1>1, <1>3, <1>16, EventsType DEF Lose, outside, statics
<1>17. CASE AirChange
  BY <1>1, <1>17 DEF AirChange, OutOfWork, outside, statics
<1>18. ASSUME NEW t \in Task, NEW c \in Entered, Save(t, c) PROVE OfflineInv'
  <2>1. /\ task[t].at = "idle" /\ task'[t].at = "delay"
        /\ \A u \in Task \ {t} : task'[u] = task[u]
    BY <1>0, <1>18 DEF Save, Idle, SavedTypeOK
  <2>2. Underway' = Underway
    BY <2>1 DEF Underway
  <2>3. boot' = "up" /\ boot = "up"
    BY <1>18 DEF Save
  <2>4. \A u \in Underway : task'[u].at = task[u].at
    BY <2>1 DEF Underway
  <2> QED
    BY <1>18, <2>2, <2>3, <2>4 DEF Save, OfflineInv, OutOfWork, statics, driver, ghosts
<1>19. ASSUME NEW t \in Task, Reconfigure(t) PROVE OfflineInv'
  BY <1>0, <1>19, StepOfTask
<1>20. CASE Reset
  <2>1. \A t \in Task : task'[t].at = "idle"
    BY <1>20 DEF Reset, Idle
  <2>2. Underway' = {}
    BY <2>1 DEF Underway
  <2> QED
    BY <1>20, <2>1, <2>2 DEF Reset, OfflineInv, OutOfWork
<1>21. CASE UNCHANGED wifiVars
  BY <1>1, <1>21 DEF wifiVars, OutOfWork, statics, driver, ghosts
<1> QED
  BY <1>5, <1>6, <1>7, <1>8, <1>9, <1>10, <1>11, <1>12, <1>13, <1>14, <1>15, <1>16, <1>17,
     <1>18, <1>19, <1>20, <1>21
     DEF WifiNext, Boot, EventLoop

LEMMA OfflineExplained ==
  WifiInv /\ OfflineInv => OfflineIsExplained
BY DEF OfflineInv, OfflineIsExplained, OutOfWork

(* When all is quiet and the station neither is on a network nor tries to  *)
(* be, and no setup access point runs, its retries are used up (134), or a *)
(* reconfiguration took its last drop for its own (130) or was refused a   *)
(* call of the driver: as long as no two reconfigurations overlap, for any *)
(* number of them one after the other, of networks, and of retries.        *)
THEOREM OfflineHasAReason ==
  WifiSpec /\ []OneAtATime => []OfflineIsExplained
<1>1. WifiInit => OfflineInv
  <2> SUFFICES ASSUME WifiInit PROVE OfflineInv
    OBVIOUS
  <2>1. \A t \in Task : task[t].at = "idle"
    BY DEF WifiInit, Idle
  <2>2. Underway = {}
    BY <2>1 DEF Underway
  <2> QED
    BY <2>1, <2>2 DEF WifiInit, OfflineInv, OutOfWork
<1>2. WifiInv /\ OneAtATime /\ OfflineInv /\ [WifiNext]_wifiVars => OfflineInv'
  BY StepOfflineInv
<1> QED
  BY <1>1, <1>2, WifiInvHolds, OfflineExplained, PTL DEF WifiSpec
=============================================================================
