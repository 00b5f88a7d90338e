--------------------------- MODULE BleLink_proofs ---------------------------
(***************************************************************************)
(* The BLE link and the notifications that come over it: proofs, for every *)
(* set of bikes, length of the queue, width of a byte and of a number, and *)
(* for messages of any length.                                             *)
(*                                                                         *)
(* What a recursive function computes is proved along its recursion: it    *)
(* exists up to every argument (ValueRuns, WithoutRuns, ItemsRun,          *)
(* MessageRuns, MeaningRuns), and a set of numbers with 0 and every        *)
(* successor is all of them (SetInduction).                                *)
(***************************************************************************)
EXTENDS BleLink, WireFormat, SequenceTheorems, FiniteSetTheorems,
        WellFoundedInduction, TLAPS

USE BleAssumption

(* A step that is not one of these leaves the queue, the host or the       *)
(* client alone; each lemma lists those that do not.                       *)
LEMMA QueueTypesStay == QueueTypes /\ [BleNext]_bleVars => QueueTypes'
<1> SUFFICES ASSUME QueueTypes, [BleNext]_bleVars PROVE QueueTypes'
  OBVIOUS
<1>1. ASSUME NEW note \in Nat, sent' = note, Enqueue(note), UNCHANGED <<hasQueue, decoded>>
      PROVE  QueueTypes'
  <2>1. CASE inbox' = Append(inbox, note) /\ Len(inbox) < QueueMax /\ refused' = FALSE
    <3>1. inbox' \in Seq(Nat) /\ Len(inbox') = Len(inbox) + 1
      BY <2>1 DEF QueueTypes
    <3>2. Len(inbox') <= QueueMax
      BY <2>1, <3>1 DEF QueueTypes
    <3> QED
      BY <1>1, <2>1, <3>1, <3>2, Zenon DEF QueueTypes
  <2>2. CASE UNCHANGED inbox /\ refused' = TRUE
    BY <1>1, <2>2 DEF QueueTypes
  <2> QED
    BY <1>1, <2>1, <2>2 DEF Enqueue
<1>2. CASE ReadAnswered
  BY <1>1, <1>2 DEF ReadAnswered, QueueTypes
<1>3. CASE Notified
  <2>1. CASE chr = table.chr
    BY <1>1, <1>3, <2>1 DEF Notified, QueueTypes
  <2>2. CASE chr # table.chr
    <3>1. sent' = sent + 1 /\ refused' = TRUE /\ UNCHANGED <<inbox, hasQueue, decoded>>
      BY <1>3, <2>2 DEF Notified
    <3> QED
      BY <3>1 DEF QueueTypes
  <2> QED
    BY <2>1, <2>2
<1>4. CASE Decode
  BY <1>4 DEF Decode, QueueTypes, notes
<1>5. CASE Connect
  BY <1>5 DEF Connect, OnConnect, EnsureWorker, QueueTypes, notes
<1>6. CASE UNCHANGED <<queue, notes>>
  BY <1>6 DEF QueueTypes, queue, notes
<1>7. CASE Sync \/ HostResets \/ OnReset \/ AdvComplete \/ SetDeviceName \/ ConnectFails
           \/ LinkLost \/ Encrypted \/ EncryptionFails
  BY <1>6, <1>7 DEF Sync, HostResets, OnReset, AdvComplete, SetDeviceName, ConnectFails,
                    LinkLost, Encrypted, EncryptionFails
<1>8. CASE \/ Disconnect \/ MtuAgreed \/ \E p \in Procedure : ProcedureFails(p)
           \/ ServiceFound \/ ServiceDone \/ CharacteristicFound \/ CharacteristicDone
           \/ DescriptorFound \/ DescriptorsDone \/ Subscribed \/ ReadFails
  BY <1>6, <1>8 DEF Disconnect, MtuAgreed, ProcedureFails, ServiceFound, ServiceDone,
                    CharacteristicFound, CharacteristicDone, DescriptorFound, DescriptorsDone,
                    Subscribed, ReadFails
<1> QED
  BY <1>2, <1>3, <1>4, <1>5, <1>6, <1>7, <1>8 DEF BleNext, Callback, bleVars

LEMMA RadioTypesStay == RadioTypes /\ [BleNext]_bleVars => RadioTypes'
<1> SUFFICES ASSUME RadioTypes, [BleNext]_bleVars PROVE RadioTypes'
  OBVIOUS
<1> USE DEF RadioTypes, radio
<1>1. CASE Sync \/ HostResets \/ OnReset \/ AdvComplete \/ SetDeviceName
  BY <1>1 DEF Sync, HostResets, OnReset, AdvComplete, SetDeviceName, StartAdvertising
<1>2. CASE Connect \/ ConnectFails \/ LinkLost \/ Disconnect \/ Encrypted
  BY <1>2 DEF Connect, ConnectFails, LinkLost, Disconnect, Encrypted, StartAdvertising
<1>3. CASE UNCHANGED radio
  BY <1>3
<1>4. CASE \/ EncryptionFails \/ MtuAgreed \/ \E p \in Procedure : ProcedureFails(p)
           \/ ServiceFound \/ ServiceDone \/ CharacteristicFound \/ CharacteristicDone
           \/ DescriptorFound \/ DescriptorsDone \/ Subscribed \/ ReadAnswered \/ ReadFails
           \/ Notified \/ Decode
  <2>1. UNCHANGED radio
    BY <1>4 DEF EncryptionFails, MtuAgreed, ProcedureFails, ServiceFound, ServiceDone,
                CharacteristicFound, CharacteristicDone, DescriptorFound, DescriptorsDone,
                Subscribed, ReadAnswered, ReadFails, Notified, Decode
  <2> QED
    BY <1>3, <2>1
<1> QED
  BY <1>1, <1>2, <1>3, <1>4 DEF BleNext, Callback, bleVars

LEMMA ShownTypesStay == ShownTypes /\ [BleNext]_bleVars => ShownTypes'
<1> SUFFICES ASSUME ShownTypes, [BleNext]_bleVars PROVE ShownTypes'
  OBVIOUS
<1> USE DEF ShownTypes
<1>1. ASSUME NEW ready, NEW light \in {led, "error"}, StartAdvertising(ready, light),
             UNCHANGED <<closing, kept>>
      PROVE  ShownTypes'
  BY <1>1 DEF StartAdvertising
<1>2. ASSUME FailConnection, UNCHANGED gaveUp
      PROVE  ShownTypes'
  BY <1>2 DEF FailConnection
<1>3. ASSUME NEW now, NEW next, NEW light \in {led, "secured"}, Ask(now, next, light),
             UNCHANGED gaveUp
      PROVE  ShownTypes'
  BY <1>2, <1>3 DEF Ask
<1>4. ASSUME NEW now, NEW ok, NEW light \in {led, "secured"}, OnEncrypted(now, ok, light),
             UNCHANGED gaveUp
      PROVE  ShownTypes'
  BY <1>3, <1>4 DEF OnEncrypted
<1>5. CASE Sync \/ AdvComplete \/ ConnectFails
  BY <1>1, <1>5 DEF Sync, AdvComplete, ConnectFails
<1>6. CASE Disconnect
  BY <1>6 DEF Disconnect, StartAdvertising
<1>7. CASE Connect
  BY <1>7 DEF Connect, OnConnect
<1>8. CASE Encrypted \/ MtuAgreed
  BY <1>4, <1>8 DEF Encrypted, MtuAgreed
<1>9. CASE ServiceFound \/ CharacteristicFound \/ DescriptorsDone
  BY <1>2, <1>3, <1>9 DEF ServiceFound, CharacteristicFound, DescriptorsDone
<1>10. CASE ServiceDone \/ CharacteristicDone \/ \E p \in Procedure : ProcedureFails(p)
  BY <1>2, <1>10 DEF ServiceDone, CharacteristicDone, ProcedureFails, DiscoveryOver
<1>11. CASE OnReset \/ EncryptionFails \/ Subscribed
  BY <1>11 DEF OnReset, EncryptionFails, Subscribed
<1>12. CASE \/ HostResets \/ SetDeviceName \/ LinkLost \/ DescriptorFound \/ ReadAnswered
            \/ ReadFails \/ Notified \/ Decode \/ UNCHANGED bleVars
  BY <1>12 DEF HostResets, SetDeviceName, LinkLost, DescriptorFound, ReadAnswered, ReadFails,
               Notified, Decode, bleVars
<1> QED
  BY <1>5, <1>6, <1>7, <1>8, <1>9, <1>10, <1>11, <1>12 DEF BleNext, Callback

LEMMA ProceduresStay ==
  proc \in [Procedure -> Nat] /\ [BleNext]_bleVars => (proc \in [Procedure -> Nat])'
<1> SUFFICES ASSUME proc \in [Procedure -> Nat], [BleNext]_bleVars
             PROVE  (proc \in [Procedure -> Nat])'
  OBVIOUS
<1>1. /\ Idle \in [Procedure -> Nat]
      /\ \A p \in Procedure : Ended(p) \in [Procedure -> Nat] /\ Reported(p) \in [Procedure -> Nat]
  BY DEF Idle, Ended, Reported
<1>2. \A now \in [Procedure -> Nat], p \in Procedure : [now EXCEPT ![p] = 1] \in [Procedure -> Nat]
  OBVIOUS
<1>3. {"mtu", "svc", "chr", "dsc", "write", "read"} \subseteq Procedure
  BY DEF Procedure
<1>4. ASSUME NEW now \in [Procedure -> Nat], NEW next \in Procedure, NEW light,
             Ask(now, next, light)
      PROVE  (proc \in [Procedure -> Nat])'
  BY <1>2, <1>4 DEF Ask
<1>5. CASE Connect
  <2>1. proc' = Idle \/ proc' = [Idle EXCEPT !["mtu"] = 1]
    BY <1>5 DEF Connect, OnConnect
  <2>2. [Idle EXCEPT !["mtu"] = 1] \in [Procedure -> Nat]
    BY <1>1, <1>3
  <2> QED
    BY <1>1, <2>1, <2>2
<1>6. CASE Encrypted
  BY <1>3, <1>4, <1>6 DEF Encrypted, OnEncrypted
<1>7. CASE MtuAgreed
  BY <1>1, <1>3, <1>4, <1>7 DEF MtuAgreed, OnEncrypted
<1>8. CASE ServiceFound \/ CharacteristicFound \/ DescriptorsDone
  BY <1>1, <1>3, <1>4, <1>8 DEF ServiceFound, CharacteristicFound, DescriptorsDone
<1>9. CASE \/ ServiceDone \/ CharacteristicDone \/ DescriptorFound
           \/ \E p \in Procedure : ProcedureFails(p)
  BY <1>1, <1>3, <1>9 DEF ServiceDone, CharacteristicDone, DescriptorFound, ProcedureFails,
                          DiscoveryOver
<1>10. CASE Subscribed \/ ReadAnswered \/ ReadFails
  <2>1. \/ proc' = [Ended("write") EXCEPT !["read"] = 1]
        \/ proc' = Ended("write") \/ proc' = Ended("read")
    BY <1>10 DEF Subscribed, ReadAnswered, ReadFails
  <2>2. Ended("write") \in [Procedure -> Nat] /\ Ended("read") \in [Procedure -> Nat]
    BY <1>1, <1>3
  <2>3. [Ended("write") EXCEPT !["read"] = 1] \in [Procedure -> Nat]
    BY <2>2
  <2> QED
    BY <2>1, <2>2, <2>3
<1>11. CASE \/ Sync \/ HostResets \/ OnReset \/ AdvComplete \/ SetDeviceName \/ ConnectFails
            \/ LinkLost \/ EncryptionFails \/ Disconnect \/ Notified \/ Decode
            \/ UNCHANGED bleVars
  BY <1>11 DEF Sync, HostResets, OnReset, AdvComplete, SetDeviceName, ConnectFails, LinkLost,
               EncryptionFails, Disconnect, Notified, Decode, bleVars
<1> QED
  BY <1>5, <1>6, <1>7, <1>8, <1>9, <1>10, <1>11 DEF BleNext, Callback

LEMMA ClientTypesStay == BleTypeOK /\ [BleNext]_bleVars => ClientTypes'
<1> SUFFICES ASSUME BleTypeOK, [BleNext]_bleVars PROVE ClientTypes'
  OBVIOUS
<1> USE DEF ClientTypes
<1>1. ClientTypes /\ RadioTypes /\ proc \in [Procedure -> Nat] /\ "dsc" \in Procedure
  BY DEF BleTypeOK, Procedure
<1>2. CASE Connect
  BY <1>1, <1>2 DEF Connect, OnConnect, ClientReset
<1>3. CASE Disconnect
  BY <1>1, <1>3 DEF Disconnect, ClientReset
<1>4. CASE Encrypted \/ MtuAgreed
  BY <1>1, <1>4 DEF Encrypted, MtuAgreed, OnEncrypted
<1>5. CASE ServiceFound
  BY <1>1, <1>5 DEF ServiceFound
<1>6. CASE CharacteristicFound
  <2>1. table \in Table
    BY <1>1, <1>6 DEF CharacteristicFound, Answers, RadioTypes
  <2> QED
    BY <1>1, <1>6, <2>1 DEF CharacteristicFound
<1>7. CASE DescriptorFound
  <2>1. table \in Table
    BY <1>1, <1>7 DEF DescriptorFound, Answers, RadioTypes
  <2>2. table.cccds \in Seq(Nat) /\ proc["dsc"] \in 1 .. Len(table.cccds)
    BY <1>1, <1>7, <2>1 DEF DescriptorFound, Answers, Handle
  <2>3. table.cccds[proc["dsc"]] \in Nat
    BY <2>2
  <2> QED
    BY <1>1, <1>7, <2>3 DEF DescriptorFound
<1>8. CASE Subscribed
  BY <1>1, <1>8 DEF Subscribed, client
<1>9. CASE UNCHANGED <<client, enabled>>
  BY <1>1, <1>9 DEF client
<1>10. CASE \/ Sync \/ HostResets \/ OnReset \/ AdvComplete \/ SetDeviceName \/ ConnectFails
            \/ LinkLost \/ EncryptionFails \/ \E p \in Procedure : ProcedureFails(p)
            \/ ServiceDone \/ CharacteristicDone \/ DescriptorsDone
            \/ ReadAnswered \/ ReadFails \/ Notified \/ Decode
  BY <1>9, <1>10 DEF Sync, HostResets, OnReset, AdvComplete, SetDeviceName, ConnectFails,
       LinkLost, EncryptionFails, ProcedureFails, ServiceDone, CharacteristicDone,
       DescriptorsDone, ReadAnswered, ReadFails, Notified, Decode
<1> QED
  BY <1>2, <1>3, <1>4, <1>5, <1>6, <1>7, <1>8, <1>9, <1>10 DEF BleNext, Callback, bleVars

LEMMA TypesStay == BleTypeOK /\ [BleNext]_bleVars => BleTypeOK'
BY QueueTypesStay, RadioTypesStay, ShownTypesStay, ProceduresStay, ClientTypesStay DEF BleTypeOK

-----------------------------------------------------------------------------
LEMMA HandlesStay ==
  BleTypeOK /\ HandlesAreFresh /\ [BleNext]_bleVars => HandlesAreFresh'
<1> SUFFICES ASSUME BleTypeOK, HandlesAreFresh, [BleNext]_bleVars
             PROVE  HandlesAreFresh'
  OBVIOUS
<1> USE DEF HandlesAreFresh, FoundIn
<1>1. RadioTypes /\ proc \in [Procedure -> Nat] /\ "dsc" \in Procedure
  BY DEF BleTypeOK, Procedure
<1>2. CASE Connect
  BY <1>1, <1>2 DEF Connect, OnConnect, ClientReset
<1>3. CASE Disconnect
  BY <1>3 DEF Disconnect, ClientReset
<1>4. CASE LinkLost
  BY <1>4 DEF LinkLost, client
<1>5. CASE HostResets
  BY <1>5 DEF HostResets, client
<1>6. CASE CharacteristicFound
  <2>1. table # NoTable
    BY <1>1, <1>6 DEF CharacteristicFound, Answers, RadioTypes
  <2> QED
    BY <1>6, <2>1 DEF CharacteristicFound, radio
<1>7. CASE DescriptorFound
  <2>1. table \in Table
    BY <1>1, <1>7 DEF DescriptorFound, Answers, RadioTypes
  <2>2. proc["dsc"] \in 1 .. Len(table.cccds) /\ cccd' = table.cccds[proc["dsc"]]
    BY <1>1, <1>7, <2>1 DEF DescriptorFound, Answers, Handle
  <2>3. UNCHANGED <<connected, chr, table, link, enabled>>
    BY <1>7 DEF DescriptorFound, radio
  <2> QED
    BY <2>1, <2>2, <2>3
<1>8. CASE Subscribed
  BY <1>8 DEF Subscribed, client, radio
<1>9. CASE UNCHANGED <<connected, chr, cccd, enabled, table, link>>
  BY <1>9
<1>10. CASE \/ Sync \/ OnReset \/ AdvComplete \/ SetDeviceName \/ ConnectFails \/ Encrypted
            \/ EncryptionFails \/ MtuAgreed \/ (\E p \in Procedure : ProcedureFails(p))
            \/ ServiceFound \/ ServiceDone \/ CharacteristicDone \/ DescriptorsDone
            \/ ReadAnswered \/ ReadFails \/ Notified \/ Decode
  BY <1>9, <1>10 DEF Sync, OnReset, AdvComplete, SetDeviceName, ConnectFails, Encrypted,
       EncryptionFails, MtuAgreed, ProcedureFails, ServiceFound, ServiceDone,
       CharacteristicDone, DescriptorsDone, ReadAnswered, ReadFails, Notified, Decode,
       client, radio
<1> QED
  BY <1>2, <1>3, <1>4, <1>5, <1>6, <1>7, <1>8, <1>9, <1>10 DEF BleNext, Callback,
       bleVars, client, radio

LEMMA OneAtATimeStays ==
  BleTypeOK /\ OneAtATime /\ [BleNext]_bleVars => OneAtATime'
<1> SUFFICES ASSUME BleTypeOK, OneAtATime, [BleNext]_bleVars
             PROVE  OneAtATime'
  OBVIOUS
<1> USE DEF OneAtATime
<1>1. RadioTypes
  BY DEF BleTypeOK
<1>2. CASE Sync
  BY <1>1, <1>2 DEF Sync, StartAdvertising, RadioTypes
<1>3. CASE HostResets \/ OnReset
  BY <1>1, <1>3 DEF HostResets, OnReset, RadioTypes
<1>4. CASE AdvComplete
  BY <1>1, <1>4 DEF AdvComplete, StartAdvertising, RadioTypes
<1>5. CASE SetDeviceName
  BY <1>1, <1>5 DEF SetDeviceName, radio, RadioTypes
<1>6. CASE Connect
  BY <1>6 DEF Connect
<1>7. CASE ConnectFails
  BY <1>7 DEF ConnectFails, StartAdvertising
<1>8. CASE LinkLost
  BY <1>8 DEF LinkLost
<1>9. CASE Disconnect
  BY <1>9 DEF Disconnect, StartAdvertising
<1>10. CASE \/ Encrypted \/ MtuAgreed \/ ServiceFound \/ ServiceDone \/ CharacteristicFound
            \/ CharacteristicDone \/ DescriptorFound \/ DescriptorsDone \/ Subscribed
            \/ ReadAnswered
  BY <1>10 DEF Encrypted, MtuAgreed, ServiceFound, ServiceDone, CharacteristicFound,
       CharacteristicDone, DescriptorFound, DescriptorsDone, Subscribed, ReadAnswered,
       Answers, radio
<1>11. CASE (\E p \in Procedure : ProcedureFails(p)) \/ ReadFails
  BY <1>11 DEF ProcedureFails, ReadFails, Idle, Procedure, radio
<1>12. CASE EncryptionFails \/ Notified \/ Decode \/ UNCHANGED bleVars
  BY <1>12 DEF EncryptionFails, Notified, Decode, bleVars, radio, Idle
<1> QED
  BY <1>2, <1>3, <1>4, <1>5, <1>6, <1>7, <1>8, <1>9, <1>10, <1>11, <1>12 DEF BleNext, Callback

(* What a request and its failure do to the procedures and the LED.        *)
LEMMA Asking ==
  ASSUME NEW now \in [Procedure -> Nat], NEW next \in Procedure, NEW light,
         Ask(now, next, light)
  PROVE  /\ \A p \in Procedure : proc'[p] = now[p] \/ (p = next /\ proc'[p] = 1)
         /\ led' = light \/ led' = "error"
<1>1. \/ proc' = [now EXCEPT ![next] = 1] /\ led' = light
      \/ proc' = now /\ led' = "error"
  BY Zenon DEF Ask, FailConnection
<1>2. led' = light \/ led' = "error"
  BY <1>1, Zenon
<1>3. proc' = [now EXCEPT ![next] = 1] \/ proc' = now
  BY <1>1, Zenon
<1>4. ASSUME NEW p \in Procedure
      PROVE  proc'[p] = now[p] \/ (p = next /\ proc'[p] = 1)
  BY <1>3
<1> QED
  BY <1>2, <1>4, Zenon

(* The chain stays in order.  Each step lists what it does to it.          *)
LEMMA InOrderStays ==
  BleTypeOK /\ HandlesAreFresh /\ OneAtATime /\ InOrder /\ [BleNext]_bleVars => InOrder'
<1> SUFFICES ASSUME BleTypeOK, HandlesAreFresh, OneAtATime, InOrder, [BleNext]_bleVars
             PROVE  InOrder'
  OBVIOUS
<1> USE DEF InOrder
<1>1. /\ proc \in [Procedure -> Nat] /\ RadioTypes
      /\ mtuOk \in BOOLEAN /\ started \in BOOLEAN /\ service \in BOOLEAN
      /\ chr \in Nat /\ cccd \in Nat /\ enabled \in Nat
  BY DEF BleTypeOK, ClientTypes
<1>2. CASE Connect
  <2>1. proc' = Idle \/ proc' = [Idle EXCEPT !["mtu"] = 1]
    BY <1>2 DEF Connect, OnConnect
  <2>2. \A p \in Procedure \ {"mtu"} : proc'[p] = 0
    BY <2>1 DEF Idle, Procedure
  <2> QED
    BY <1>2, <2>2 DEF Connect, OnConnect, ClientReset, Procedure
<1>3. CASE Disconnect
  <2>1. \A p \in Procedure : proc'[p] = 0
    BY <1>3 DEF Disconnect, Idle
  <2> QED
    BY <1>3, <2>1 DEF Disconnect, ClientReset, Procedure
<1>4. ASSUME NEW now \in [Procedure -> Nat], NEW light, OnEncrypted(now, mtuOk', light),
             \A p \in Procedure : now[p] = proc[p] \/ (p = "mtu" /\ now[p] = 0),
             now["mtu"] = 0 \/ UNCHANGED mtuOk, mtuOk => mtuOk', mtuOk' \in BOOLEAN,
             UNCHANGED <<service, chr, cccd, enabled>>
      PROVE  InOrder'
  <2>1. CASE mtuOk' /\ ~started
    <3>1. started' /\ \A p \in Procedure : proc'[p] = now[p] \/ (p = "svc" /\ proc'[p] = 1)
      BY <1>4, <2>1, Asking DEF OnEncrypted, Procedure
    <3>2. \A p \in Procedure \ {"mtu", "svc"} : proc'[p] = 0
      BY <1>4, <2>1, <3>1
    <3> QED
      BY <1>1, <1>4, <2>1, <3>1, <3>2 DEF Procedure
  <2>2. CASE ~(mtuOk' /\ ~started)
    <3>1. UNCHANGED started /\ proc' = now
      BY <1>4, <2>2 DEF OnEncrypted
    <3> QED
      BY <1>1, <1>4, <2>2, <3>1 DEF Procedure
  <2> QED
    BY <2>1, <2>2
<1>5. CASE Encrypted
  <2>1. mtuOk' = mtuOk /\ UNCHANGED <<service, chr, cccd, enabled>>
    BY <1>5 DEF Encrypted
  <2>2. OnEncrypted(proc, mtuOk', "secured")
    BY <1>5, <2>1 DEF Encrypted, OnEncrypted
  <2>3. \A p \in Procedure : proc[p] = proc[p] \/ (p = "mtu" /\ proc[p] = 0)
    OBVIOUS
  <2>4. (proc["mtu"] = 0 \/ UNCHANGED mtuOk) /\ (mtuOk => mtuOk') /\ mtuOk' \in BOOLEAN
    BY <1>1, <2>1
  <2> QED
    BY <1>1, <1>4, <2>1, <2>2, <2>3, <2>4, Zenon
<1>6. CASE MtuAgreed
  <2>1. /\ Ended("mtu") \in [Procedure -> Nat]
        /\ \A p \in Procedure : Ended("mtu")[p] = IF p = "mtu" THEN 0 ELSE proc[p]
        /\ proc["mtu"] > 0 /\ mtuOk' \in BOOLEAN
    BY <1>1, <1>6 DEF MtuAgreed, Answers, Ended, Procedure
  <2> QED
    BY <1>4, <1>6, <2>1 DEF MtuAgreed, Procedure
<1>7. CASE \E p \in Procedure : ProcedureFails(p)
  <2>1. \A p \in Procedure : proc'[p] \in {0, proc[p]}
    BY <1>1, <1>7 DEF ProcedureFails, Ended
  <2>2. UNCHANGED <<client, enabled>>
    BY <1>7 DEF ProcedureFails
  <2> QED
    BY <1>1, <2>1, <2>2 DEF client, Procedure
<1>8. CASE ServiceDone \/ CharacteristicDone \/ ReadAnswered \/ ReadFails
  <2>1. \A p \in Procedure : proc'[p] \in {0, proc[p]}
    BY <1>1, <1>8 DEF ServiceDone, CharacteristicDone, ReadAnswered, ReadFails, DiscoveryOver, Ended
  <2>2. UNCHANGED <<client, enabled>>
    BY <1>8 DEF ServiceDone, CharacteristicDone, ReadAnswered, ReadFails
  <2> QED
    BY <1>1, <2>1, <2>2 DEF client, Procedure
<1>9. CASE ServiceFound
  <2>1. /\ Reported("svc") \in [Procedure -> Nat]
        /\ \A p \in Procedure : Reported("svc")[p] = IF p = "svc" THEN 2 ELSE proc[p]
    BY <1>1, <1>9 DEF ServiceFound, Reported, Procedure
  <2>2. \A p \in Procedure : proc'[p] = Reported("svc")[p] \/ (p = "chr" /\ proc'[p] = 1)
    BY <1>9, <2>1, Asking DEF ServiceFound, Procedure
  <2>3. UNCHANGED <<mtuOk, started, chr, cccd, enabled>> /\ proc["svc"] = 1
    BY <1>9 DEF ServiceFound
  <2> QED
    BY <1>1, <2>1, <2>2, <2>3 DEF Procedure
<1>10. CASE CharacteristicFound
  <2>1. /\ Reported("chr") \in [Procedure -> Nat]
        /\ \A p \in Procedure : Reported("chr")[p] = IF p = "chr" THEN 2 ELSE proc[p]
    BY <1>1, <1>10 DEF CharacteristicFound, Reported, Procedure
  <2>2. \A p \in Procedure : proc'[p] = Reported("chr")[p] \/ (p = "dsc" /\ proc'[p] = 1)
    BY <1>10, <2>1, Asking DEF CharacteristicFound, Procedure
  <2>3. UNCHANGED <<mtuOk, started, service, cccd, enabled>> /\ proc["chr"] = 1
    BY <1>10 DEF CharacteristicFound
  <2> QED
    BY <1>1, <2>1, <2>2, <2>3 DEF Procedure
<1>11. CASE DescriptorFound
  <2>1. /\ proc["dsc"] > 0
        /\ \A p \in Procedure : proc'[p] = IF p = "dsc" THEN proc[p] + 1 ELSE proc[p]
    BY <1>1, <1>11 DEF DescriptorFound, Reported, Answers, Procedure
  <2>2. UNCHANGED <<mtuOk, started, service, chr, enabled>>
    BY <1>11 DEF DescriptorFound
  <2> QED
    BY <1>1, <2>1, <2>2 DEF Procedure
<1>12. CASE DescriptorsDone
  <2>1. /\ Ended("dsc") \in [Procedure -> Nat]
        /\ \A p \in Procedure : Ended("dsc")[p] = IF p = "dsc" THEN 0 ELSE proc[p]
        /\ proc["dsc"] > 0
    BY <1>1, <1>12 DEF DescriptorsDone, Ended, Answers, Procedure
  <2>2. \A p \in Procedure : \/ proc'[p] = Ended("dsc")[p]
                             \/ (p = "write" /\ proc'[p] = 1 /\ cccd # 0)
    BY <1>12, <2>1, Asking DEF DescriptorsDone, Procedure
  <2>3. UNCHANGED <<client, enabled>>
    BY <1>12 DEF DescriptorsDone
  <2> QED
    BY <1>1, <2>1, <2>2, <2>3 DEF client, Procedure
<1>13. CASE Subscribed
  <2>3. proc' = Ended("write") \/ proc' = [Ended("write") EXCEPT !["read"] = 1]
    BY <1>13 DEF Subscribed
  <2>4. /\ Ended("write") \in [Procedure -> Nat]
        /\ \A p \in Procedure : Ended("write")[p] = IF p = "write" THEN 0 ELSE proc[p]
    BY <1>1 DEF Ended, Procedure
  <2>5. \A p \in Procedure : proc'[p] = Ended("write")[p] \/ p = "read"
    BY <2>3, <2>4
  <2>1. \A p \in Procedure : proc'[p] = proc[p] \/ p = "read" \/ (p = "write" /\ proc'[p] = 0)
    BY <2>4, <2>5
  <2>2. proc["write"] > 0 /\ proc'["write"] = 0 /\ enabled' = cccd /\ UNCHANGED client
    BY <1>1, <1>13 DEF Subscribed, Answers, Ended, Procedure
  <2> QED
    BY <1>1, <2>1, <2>2 DEF client, Procedure
<1>14. CASE UNCHANGED <<client, proc, enabled>>
  BY <1>14 DEF client
<1>15. CASE \/ Sync \/ HostResets \/ OnReset \/ AdvComplete \/ SetDeviceName \/ ConnectFails
            \/ LinkLost \/ EncryptionFails \/ Notified \/ Decode
  BY <1>14, <1>15 DEF Sync, HostResets, OnReset, AdvComplete, SetDeviceName, ConnectFails,
       LinkLost, EncryptionFails, Notified, Decode
<1> QED
  BY <1>2, <1>3, <1>5, <1>6, <1>7, <1>8, <1>9, <1>10, <1>11, <1>12, <1>13, <1>14, <1>15
     DEF BleNext, Callback, bleVars

(* A green LED stays justified: a step leaves it and what justifies it     *)
(* alone, or shows something else, or is one of the few looked at below.   *)
LEMMA ReadyStays ==
  BleTypeOK /\ OneAtATime /\ InOrder /\ ReadyIsSubscribed /\ [BleNext]_bleVars
    => ReadyIsSubscribed'
<1> SUFFICES ASSUME BleTypeOK, OneAtATime, InOrder, ReadyIsSubscribed, [BleNext]_bleVars
             PROVE  ReadyIsSubscribed'
  OBVIOUS
<1> USE DEF ReadyIsSubscribed
<1>1. CASE UNCHANGED <<led, mtuOk, cccd, enabled, link, adv, gaveUp>>
  BY <1>1
<1>2. CASE led' # "ready"
  BY <1>2
<1>3. CASE Sync \/ AdvComplete \/ ConnectFails \/ Disconnect
  BY <1>3 DEF Sync, AdvComplete, ConnectFails, Disconnect, StartAdvertising, OneAtATime
<1>4. CASE HostResets \/ LinkLost \/ SetDeviceName
  BY <1>4 DEF HostResets, LinkLost, SetDeviceName, client, OneAtATime
<1>5. CASE MtuAgreed
  <2>1. led # "ready"
    BY <1>5 DEF MtuAgreed, Answers, InOrder
  <2>2. led' = led \/ led' = "error"
    BY <1>5 DEF MtuAgreed, OnEncrypted, Ask, FailConnection
  <2> QED
    BY <1>2, <2>1, <2>2
<1>6. CASE ServiceFound \/ CharacteristicFound \/ DescriptorsDone
  <2>1. led' = led \/ led' = "error"
    BY <1>6 DEF ServiceFound, CharacteristicFound, DescriptorsDone, Ask, FailConnection
  <2>2. UNCHANGED <<mtuOk, cccd, enabled, link, adv, gaveUp>>
    BY <1>6 DEF ServiceFound, CharacteristicFound, DescriptorsDone, client, radio
  <2> QED
    BY <1>1, <1>2, <2>1, <2>2
<1>7. CASE ServiceDone \/ CharacteristicDone \/ \E p \in Procedure : ProcedureFails(p)
  <2>1. led' = led \/ led' = "error"
    BY <1>7 DEF ServiceDone, CharacteristicDone, DiscoveryOver, ProcedureFails, FailConnection
  <2>2. UNCHANGED <<mtuOk, cccd, enabled, link, adv, gaveUp>>
    BY <1>7 DEF ServiceDone, CharacteristicDone, ProcedureFails, client, radio
  <2> QED
    BY <1>1, <1>2, <2>1, <2>2
<1>8. CASE DescriptorFound
  <2>1. enabled = 0 /\ link = "up" /\ led' = led
    BY <1>8 DEF DescriptorFound, Answers, InOrder
  <2> QED
    BY <1>2, <2>1
<1>9. CASE Subscribed
  <2>1. proc["write"] > 0 /\ link = "up"
    BY <1>9 DEF Subscribed, Answers
  <2>2. started /\ mtuOk /\ cccd # 0
    BY <2>1 DEF InOrder, Procedure
  <2> QED
    BY <1>9, <2>1, <2>2 DEF Subscribed, client, radio
<1>10. CASE Connect \/ Encrypted \/ EncryptionFails \/ OnReset
  BY <1>2, <1>10 DEF Connect, OnConnect, Encrypted, OnEncrypted, Ask, FailConnection,
                     EncryptionFails, OnReset
<1>11. CASE ReadAnswered \/ ReadFails \/ Notified \/ Decode \/ UNCHANGED bleVars
  BY <1>1, <1>11 DEF ReadAnswered, ReadFails, Notified, Decode, client, radio, bleVars
<1> QED
  BY <1>3, <1>4, <1>5, <1>6, <1>7, <1>8, <1>9, <1>10, <1>11 DEF BleNext, Callback

(* The inductive invariant holds in the first state and is kept.           *)
LEMMA BleInvInitially == BleInit => BleInv
<1> SUFFICES ASSUME BleInit PROVE BleInv
  OBVIOUS
<1>1. proc \in [Procedure -> Nat] /\ \A p \in Procedure : proc[p] = 0
  BY DEF BleInit, Idle
<1>2. BleTypeOK
  <2>1. ClientTypes /\ RadioTypes /\ ShownTypes
    BY DEF BleInit, ClientTypes, RadioTypes, ShownTypes
  <2>2. /\ inbox = <<>> /\ decoded = 0 /\ sent = 0
        /\ hasQueue \in BOOLEAN /\ refused \in BOOLEAN
    BY DEF BleInit
  <2>3. <<>> \in Seq(Nat) /\ Len(<<>>) <= QueueMax
    OBVIOUS
  <2>4. inbox \in Seq(Nat) /\ Len(inbox) <= QueueMax
    BY <2>2, <2>3
  <2>5. QueueTypes
    BY <2>2, <2>4 DEF QueueTypes
  <2> QED
    BY <1>1, <2>1, <2>5 DEF BleTypeOK
<1>3. HandlesAreFresh /\ OneAtATime /\ ReadyIsSubscribed
  BY DEF BleInit, HandlesAreFresh, OneAtATime, ReadyIsSubscribed
<1>4. InOrder
  <2>1. /\ ~mtuOk /\ ~started /\ ~service
        /\ chr = 0 /\ cccd = 0 /\ enabled = 0
    BY DEF BleInit
  <2>2. /\ proc["mtu"] = 0 /\ proc["svc"] = 0 /\ proc["chr"] = 0
        /\ proc["dsc"] = 0 /\ proc["write"] = 0
        /\ \A p \in Procedure \ {"mtu"} : proc[p] = 0
    BY <1>1 DEF Procedure
  <2> QED
    BY <2>1, <2>2 DEF InOrder
<1> QED
  BY <1>2, <1>3, <1>4 DEF BleInv

(* In every state the parts of the inductive invariant hold: the types,    *)
(* the handles' origin, the order of the chain, one connection or          *)
(* advertising at a time, and what green means.                            *)
THEOREM BleInvariant == BleSpec => []BleInv
<1>1. BleInv /\ [BleNext]_bleVars => BleInv'
  BY TypesStay, HandlesStay, OneAtATimeStays, InOrderStays, ReadyStays DEF BleInv
<1> QED
  BY BleInvInitially, <1>1, PTL DEF BleSpec

(* The variables keep their types; with them the queue to the live data    *)
(* worker never holds more than live_data_queue does.                      *)
THEOREM BleTypeCorrect == BleSpec => []BleTypeOK
<1>1. BleInv => BleTypeOK
  BY DEF BleInv
<1> QED
  BY BleInvariant, <1>1, PTL

(* The handles that the client writes to, reads or listens for are those   *)
(* of the bike on the link, whichever bikes there are and in whatever      *)
(* order the callbacks come (gatt_client_reset, fail_connection).          *)
THEOREM HandlesBelongToBike == BleSpec => []HandlesAreFresh
<1>1. BleInv => HandlesAreFresh
  BY DEF BleInv
<1> QED
  BY BleInvariant, <1>1, PTL

(* The LED is green only for a bike that was told to notify, or after an   *)
(* advertising that could not be started (app_ble_gap_start_advertising).  *)
THEOREM GreenMeansSubscribed == BleSpec => []ReadyIsSubscribed
<1>1. BleInv => ReadyIsSubscribed
  BY DEF BleInv
<1> QED
  BY BleInvariant, <1>1, PTL

(* The search for services begins once per link and on a clean slate,      *)
(* whichever of gatt_client_on_encrypted's two causes comes first.         *)
THEOREM DiscoveryBeginsOnce == BleSpec => DiscoversOnce
<1>1. BleInv /\ [BleNext]_bleVars =>
        [(proc["svc"] = 0 /\ proc'["svc"] # 0) =>
           /\ mtuOk'
           /\ ~service /\ chr = 0 /\ cccd = 0 /\ enabled = 0
           /\ \A p \in Procedure \ {"mtu"} : proc[p] = 0]_bleVars
  <2> SUFFICES ASSUME BleInv, BleNext, proc["svc"] = 0, proc'["svc"] # 0
               PROVE  /\ mtuOk'
                      /\ ~service /\ chr = 0 /\ cccd = 0 /\ enabled = 0
                      /\ \A p \in Procedure \ {"mtu"} : proc[p] = 0
    BY Zenon
  <2>1. /\ proc \in [Procedure -> Nat]
        /\ ~started => /\ ~service /\ chr = 0 /\ cccd = 0 /\ enabled = 0
                       /\ \A p \in Procedure \ {"mtu"} : proc[p] = 0
    BY DEF BleInv, BleTypeOK, InOrder
  <2>2. SUFFICES mtuOk' /\ ~started
    BY <2>1, Zenon
  <2>3. CASE Encrypted \/ MtuAgreed
    <3>1. Ended("mtu")["svc"] = 0
      BY <2>1 DEF Ended, Procedure
    <3> QED
      BY <2>3, <3>1 DEF Encrypted, MtuAgreed, OnEncrypted
  <2>4. CASE Connect
    <3>1. proc' = Idle \/ proc' = [Idle EXCEPT !["mtu"] = 1]
      BY <2>4 DEF Connect, OnConnect
    <3> QED
      BY <3>1 DEF Idle, Procedure
  <2>5. CASE \/ \E p \in Procedure : ProcedureFails(p)
             \/ ServiceDone \/ CharacteristicDone \/ DescriptorFound \/ ReadAnswered \/ ReadFails
    <3>1. PICK p \in Procedure : proc' = Ended(p) \/ (proc' = Reported(p) /\ proc[p] > 0)
      BY <2>5 DEF ProcedureFails, ServiceDone, CharacteristicDone, DiscoveryOver, DescriptorFound,
                  Answers, ReadAnswered, ReadFails, Procedure
    <3> QED
      BY <2>1, <3>1 DEF Ended, Reported, Procedure
  <2>6. CASE ServiceFound
    BY <2>6 DEF ServiceFound
  <2>7. CASE CharacteristicFound
    <3>1. Reported("chr") \in [Procedure -> Nat] /\ Reported("chr")["svc"] = 0
      BY <2>1 DEF Reported, Procedure
    <3>2. \A p \in Procedure : proc'[p] = Reported("chr")[p] \/ (p = "dsc" /\ proc'[p] = 1)
      BY <2>7, <3>1, Asking DEF CharacteristicFound, Procedure
    <3> QED
      BY <3>1, <3>2 DEF Procedure
  <2>8. CASE DescriptorsDone
    <3>1. Ended("dsc") \in [Procedure -> Nat] /\ Ended("dsc")["svc"] = 0
      BY <2>1 DEF Ended, Procedure
    <3>2. \A p \in Procedure : proc'[p] = Ended("dsc")[p] \/ (p = "write" /\ proc'[p] = 1)
      BY <2>8, <3>1, Asking DEF DescriptorsDone, Procedure
    <3> QED
      BY <3>1, <3>2 DEF Procedure
  <2>9. CASE Subscribed
    <3>1. Ended("write") \in [Procedure -> Nat] /\ Ended("write")["svc"] = 0
      BY <2>1 DEF Ended, Procedure
    <3>2. proc' = Ended("write") \/ proc' = [Ended("write") EXCEPT !["read"] = 1]
      BY <2>9 DEF Subscribed
    <3> QED
      BY <3>1, <3>2 DEF Procedure
  <2>10. CASE UNCHANGED proc
    BY <2>10
  <2>11. CASE \/ Sync \/ HostResets \/ OnReset \/ AdvComplete \/ SetDeviceName \/ ConnectFails
              \/ LinkLost \/ Disconnect \/ EncryptionFails \/ Notified \/ Decode
    BY <2>10, <2>11 DEF Sync, HostResets, OnReset, AdvComplete, SetDeviceName, ConnectFails,
         LinkLost, Disconnect, EncryptionFails, Notified, Decode
  <2> QED
    BY <2>3, <2>4, <2>5, <2>6, <2>7, <2>8, <2>9, <2>11 DEF BleNext, Callback
<1> QED
  BY BleInvariant, <1>1, PTL DEF BleSpec, DiscoversOnce

-----------------------------------------------------------------------------
(* The notifications.  One that is sent is later than all there are.       *)
LEMMA Appended ==
  ASSUME NotesInv, QueueTypes', UNCHANGED decoded,
         sent' = sent + 1, Enqueue(sent')
  PROVE  NotesInv'
<1>1. CASE UNCHANGED inbox /\ refused' = TRUE
  BY <1>1 DEF NotesInv, QueueTypes
<1>2. CASE inbox' = Append(inbox, sent') /\ refused' = FALSE
  <2>1. /\ inbox \in Seq(Nat) /\ sent' \in Nat /\ sent \in Nat /\ decoded \in Nat
        /\ Len(inbox') = Len(inbox) + 1
        /\ inbox'[Len(inbox) + 1] = sent'
        /\ \A k \in 1..Len(inbox) : inbox'[k] = inbox[k] /\ inbox[k] \in Nat
    BY <1>2 DEF NotesInv, QueueTypes
  <2>2. decoded < sent' /\ \A k \in 1..Len(inbox) : inbox[k] < sent'
    BY <2>1 DEF NotesInv
  <2>3. ASSUME NEW k \in 1..Len(inbox')
        PROVE  decoded' < inbox'[k] /\ inbox'[k] <= sent'
    <3>1. Len(inbox) \in Nat /\ k \in 1..(Len(inbox) + 1)
      BY <2>1
    <3>2. CASE k \in 1..Len(inbox)
      <4>1. inbox'[k] = inbox[k] /\ inbox[k] < sent'
        BY <2>1, <2>2, <3>2
      <4>2. decoded < inbox[k]
        BY <3>2 DEF NotesInv
      <4> QED
        BY <2>1, <4>1, <4>2
    <3>3. CASE k = Len(inbox) + 1
      BY <2>1, <2>2, <3>3
    <3>4. k \in 1..Len(inbox) \/ k = Len(inbox) + 1
      BY <3>1
    <3> QED
      BY <3>2, <3>3, <3>4
  <2>4. ASSUME NEW j \in 1..Len(inbox'), NEW k \in 1..Len(inbox'), j < k
        PROVE  inbox'[j] < inbox'[k]
    <3>1. Len(inbox) \in Nat /\ j \in 1..Len(inbox) /\ inbox'[j] = inbox[j]
      BY <2>1, <2>4
    <3>2. CASE k \in 1..Len(inbox)
      BY <2>1, <2>4, <3>1, <3>2 DEF NotesInv
    <3>3. CASE k = Len(inbox) + 1
      BY <2>1, <2>2, <3>1, <3>3
    <3>4. k \in 1..(Len(inbox) + 1)
      BY <2>1
    <3>5. k \in 1..Len(inbox) \/ k = Len(inbox) + 1
      BY <3>1, <3>4
    <3> QED
      BY <3>2, <3>3, <3>5
  <2>5. inbox' # <<>> /\ inbox'[Len(inbox')] = sent' /\ decoded' <= sent'
    BY <2>1, <2>2
  <2> QED
    BY <2>3, <2>4, <2>5 DEF NotesInv
<1> QED
  BY <1>1, <1>2, Zenon DEF Enqueue

LEMMA NotesInvStays == NotesInv /\ [BleNext]_bleVars => NotesInv'
<1> SUFFICES ASSUME NotesInv, [BleNext]_bleVars PROVE NotesInv'
  OBVIOUS
<1>1. QueueTypes'
  BY QueueTypesStay DEF NotesInv
<1>2. CASE UNCHANGED <<inbox, decoded, notes>>
  BY <1>1, <1>2 DEF NotesInv, notes
<1>3. CASE ReadAnswered
  BY <1>1, <1>3, Appended DEF ReadAnswered
<1>4. CASE Notified
  <2>1. CASE chr = table.chr
    BY <1>1, <1>4, <2>1, Appended DEF Notified
  <2>2. CASE chr # table.chr
    <3>1. sent' = sent + 1 /\ refused' = TRUE /\ UNCHANGED <<inbox, decoded>>
      BY <1>4, <2>2 DEF Notified
    <3> QED
      BY <1>1, <3>1 DEF NotesInv, QueueTypes
  <2> QED
    BY <2>1, <2>2
<1>5. CASE Decode
  <2>1. /\ inbox # <<>> /\ inbox \in Seq(Nat)
        /\ decoded' = inbox[1] /\ inbox' = Tail(inbox)
        /\ UNCHANGED notes
    BY <1>5 DEF Decode, NotesInv, QueueTypes
  <2>2. /\ Len(inbox) \in Nat \ {0} /\ Len(inbox') = Len(inbox) - 1
        /\ \A k \in 1..Len(inbox') : inbox'[k] = inbox[k + 1] /\ k + 1 \in 2..Len(inbox)
    BY <2>1
  <2>3. decoded' <= sent'
    BY <2>1, <2>2 DEF NotesInv, notes
  <2>4. \A k \in 1..Len(inbox') : decoded' < inbox'[k] /\ inbox'[k] <= sent'
    BY <2>1, <2>2 DEF NotesInv, notes
  <2>5. ASSUME NEW j \in 1..Len(inbox'), NEW k \in 1..Len(inbox'), j < k
        PROVE  inbox'[j] < inbox'[k]
    <3>1. j + 1 \in 1..Len(inbox) /\ k + 1 \in 1..Len(inbox) /\ j + 1 < k + 1
      BY <2>2, <2>5
    <3> QED
      BY <2>2, <2>5, <3>1 DEF NotesInv
  <2>6. ~refused' => IF inbox' = <<>> THEN decoded' = sent' ELSE inbox'[Len(inbox')] = sent'
    <3>1. CASE Len(inbox) = 1
      BY <2>1, <2>2, <3>1 DEF NotesInv, notes
    <3>2. CASE Len(inbox) # 1
      <4>1. Len(inbox') \in 1..Len(inbox') /\ inbox' # <<>>
        BY <2>2, <3>2
      <4>2. inbox'[Len(inbox')] = inbox[Len(inbox)]
        BY <2>2, <4>1
      <4> QED
        BY <2>1, <4>1, <4>2 DEF NotesInv, notes
    <3> QED
      BY <3>1, <3>2
  <2> QED
    BY <1>1, <2>3, <2>4, <2>5, <2>6 DEF NotesInv
<1>6. CASE Connect
  BY <1>2, <1>6 DEF Connect, notes
<1>7. CASE Sync \/ HostResets \/ OnReset \/ AdvComplete \/ SetDeviceName \/ ConnectFails
           \/ LinkLost \/ Encrypted \/ EncryptionFails
  BY <1>2, <1>7 DEF Sync, HostResets, OnReset, AdvComplete, SetDeviceName, ConnectFails,
                    LinkLost, Encrypted, EncryptionFails, queue
<1>8. CASE \/ Disconnect \/ MtuAgreed \/ \E p \in Procedure : ProcedureFails(p)
           \/ ServiceFound \/ ServiceDone \/ CharacteristicFound \/ CharacteristicDone
           \/ DescriptorFound \/ DescriptorsDone \/ Subscribed \/ ReadFails
           \/ UNCHANGED bleVars
  BY <1>2, <1>8 DEF Disconnect, MtuAgreed, ProcedureFails, ServiceFound, ServiceDone,
                    CharacteristicFound, CharacteristicDone, DescriptorFound, DescriptorsDone,
                    Subscribed, ReadFails, queue, bleVars
<1> QED
  BY <1>3, <1>4, <1>5, <1>6, <1>7, <1>8 DEF BleNext, Callback

(* The live data worker decodes the notifications in the order they came,  *)
(* and with none waiting or dropped has decoded the last, whatever the     *)
(* length of the queue and whichever of them enqueue_mbuf drops.           *)
THEOREM NotesKeepOrder == BleSpec => []DecodesInOrder
<1>1. BleInit => NotesInv
  <2> SUFFICES ASSUME BleInit PROVE NotesInv
    OBVIOUS
  <2>1. QueueTypes
    BY BleInvInitially DEF BleInv, BleTypeOK
  <2>2. inbox = <<>> /\ decoded = 0 /\ sent = 0
    BY DEF BleInit
  <2> QED
    BY <2>1, <2>2 DEF NotesInv
<1>2. NotesInv => DecodesInOrder
  <2> SUFFICES ASSUME NotesInv PROVE DecodesInOrder
    OBVIOUS
  <2> DEFINE order == <<decoded>> \o inbox
  <2>1. /\ Len(order) = Len(inbox) + 1 /\ order[1] = decoded
        /\ \A k \in 2..Len(order) : order[k] = inbox[k - 1] /\ k - 1 \in 1..Len(inbox)
        /\ Len(inbox) \in Nat
    BY DEF NotesInv, QueueTypes
  <2> HIDE DEF order
  <2>2. ASSUME NEW j \in 1..Len(order), NEW k \in 1..Len(order), j < k
        PROVE  order[j] < order[k]
    <3>1. CASE j = 1
      BY <2>1, <2>2, <3>1 DEF NotesInv
    <3>2. CASE j # 1
      BY <2>1, <2>2, <3>2 DEF NotesInv
    <3> QED
      BY <3>1, <3>2
  <2>3. ~refused => order[Len(order)] = sent
    <3>1. CASE inbox = <<>>
      BY <2>1, <3>1 DEF NotesInv
    <3>2. CASE inbox # <<>>
      <4>1. Len(inbox) > 0
        BY <3>2 DEF NotesInv, QueueTypes
      <4> QED
        BY <2>1, <3>2, <4>1 DEF NotesInv
    <3> QED
      BY <3>1, <3>2
  <2> QED
    BY <2>2, <2>3 DEF DecodesInOrder, order
<1> QED
  BY <1>1, <1>2, NotesInvStays, PTL DEF BleSpec

-----------------------------------------------------------------------------
(* How a notification is read                                              *)

HIDE BleAssumption

LEMMA LessIsWellFounded ==
  IsWellFoundedOn({ss \in Nat \X Nat : ss[1] < ss[2]}, Nat)
BY NatLessThanWellFounded DEF OpToRel

(* Induction over the numbers, as a statement about sets.                  *)
LEMMA SetInduction ==
  ASSUME NEW S, 0 \in S, \A n \in Nat : n \in S => n + 1 \in S
  PROVE  Nat \subseteq S
<1> DEFINE R == {ss \in Nat \X Nat : ss[1] < ss[2]}
           T == Nat \ S
<1>1. SUFFICES ASSUME T # {} PROVE FALSE
  OBVIOUS
<1>2. IsWellFoundedOn(R, Nat)
  BY LessIsWellFounded
<1>3. T \subseteq Nat
  OBVIOUS
<1> HIDE DEF R, T
<1>4. PICK m \in T : \A k \in T : ~ (<<k, m>> \in R)
  BY <1>1, <1>2, <1>3, WFMin
<1> USE DEF R, T
<1>5. m # 0 /\ m - 1 \in Nat
  OBVIOUS
<1>6. m - 1 \in T
  BY <1>5
<1>7. <<m - 1, m>> \in R
  BY <1>5
<1> QED BY <1>4, <1>6, <1>7

-----------------------------------------------------------------------------
(* Numbers                                                                 *)

LEMMA QuotientIsNat ==
  ASSUME NEW n \in Nat \ {0}, NEW q \in Int, NEW r \in 0 .. n - 1, n * q + r \in Nat
  PROVE  q \in Nat
<1>1. SUFFICES ASSUME q <= -1 PROVE FALSE
  OBVIOUS
<1>2. n * q <= n * (-1)
  BY <1>1
<1> QED BY <1>2

LEMMA DivMod ==
  ASSUME NEW a \in Nat, NEW n \in Nat \ {0}
  PROVE  /\ a \div n \in Nat /\ a % n \in 0 .. n - 1
         /\ a = (n * (a \div n)) + (a % n)
<1>1. /\ a \div n \in Int /\ a % n \in 0 .. n - 1
      /\ a = (n * (a \div n)) + (a % n)
  OBVIOUS
<1>2. a \div n \in Nat
  <2>1. (n * (a \div n)) + (a % n) \in Nat
    BY <1>1, Zenon
  <2> QED BY <1>1, <2>1, QuotientIsNat, Zenon
<1> QED BY <1>1, <1>2, Zenon

LEMMA DivModUnique ==
  ASSUME NEW n \in Nat \ {0}, NEW q \in Int, NEW r \in 0 .. n - 1
  PROVE  (n * q + r) \div n = q /\ (n * q + r) % n = r
OBVIOUS

LEMMA ModOfMod ==
  ASSUME NEW a \in Nat, NEW w \in Nat \ {0}, NEW n \in Nat \ {0}, w % n = 0
  PROVE  (a % w) % n = a % n
<1> DEFINE q == w \div n
           p == a \div w
           r == a % w
<1>1. q \in Nat /\ w = n * q
  BY DivMod
<1>2. p \in Nat /\ r \in 0 .. w - 1 /\ a = w * p + r
  BY DivMod
<1> DEFINE s == r % n
           t == r \div n
<1>3. r \in Nat
  BY <1>2
<1>4. s \in 0 .. n - 1 /\ t \in Nat /\ r = n * t + s
  <2> HIDE DEF r
  <2> QED BY <1>3, DivMod
<1> HIDE DEF q, p, r, s, t
<1>5. a = n * (q * p + t) + s
  BY <1>1, <1>2, <1>4
<1>6. q * p + t \in Int
  BY <1>1, <1>2, <1>4
<1>7. a % n = s
  <2> DEFINE u == q * p + t
  <2>1. u \in Int /\ a = n * u + s
    BY <1>5, <1>6
  <2> HIDE DEF u
  <2> QED BY <1>4, <2>1, DivModUnique
<1> QED BY <1>7 DEF r, s

(* The value of a sequence of digits, digit by digit from the last.        *)
Valued(digits, base, last) ==
  last = [k \in 0 .. Len(digits) |->
            IF k = 0 THEN 0 ELSE digits[Len(digits) - k + 1] + base * last[k - 1]]

LEMMA ValueRuns ==
  ASSUME NEW digits, Len(digits) \in Nat, NEW base
  PROVE  \E last : Valued(digits, base, last) /\ Value(digits, base) = last[Len(digits)]
<1> DEFINE V(rest, k) == digits[Len(digits) - k + 1] + base * rest
           Runs(n, run) == run = [k \in 0 .. n |-> IF k = 0 THEN 0 ELSE V(run[k - 1], k)]
           S == {n \in Nat : \E run : Runs(n, run)}
<1> HIDE DEF V
<1>1. 0 \in S
  <2>1. Runs(0, [k \in 0 .. 0 |-> 0])
    OBVIOUS
  <2> QED BY <2>1
<1>2. ASSUME NEW n \in Nat, n \in S PROVE n + 1 \in S
  <2>1. PICK old : Runs(n, old)
    BY <1>2
  <2> DEFINE new == [k \in 0 .. n + 1 |-> IF k = n + 1 THEN V(old[n], n + 1) ELSE old[k]]
  <2>2. \A k \in 0 .. n + 1 : new[k] = IF k = 0 THEN 0 ELSE V(new[k - 1], k)
    BY <2>1
  <2>3. Runs(n + 1, new)
    BY <2>2
  <2>4. \E run : Runs(n + 1, run)
    <3> HIDE DEF new, Runs
    <3> QED BY <2>3
  <2> QED BY <2>4
<1>3. Nat \subseteq S
  <2> HIDE DEF S
  <2> QED BY <1>1, <1>2, SetInduction
<1>4. \E run : Runs(Len(digits), run)
  BY <1>3
<1> DEFINE last[k \in 0 .. Len(digits)] ==
             IF k = 0 THEN 0 ELSE digits[Len(digits) - k + 1] + base * last[k - 1]
<1>5. Value(digits, base) = last[Len(digits)]
  BY DEF Value
<1>6. Runs(Len(digits), last)
  BY <1>4 DEF V
<1>7. Valued(digits, base, last)
  BY <1>6 DEF V, Valued
<1> QED BY <1>5, <1>7

LEMMA ValueType ==
  ASSUME NEW digits, Len(digits) \in Nat, \A i \in 1 .. Len(digits) : digits[i] \in Nat,
         NEW base \in Nat
  PROVE  Value(digits, base) \in Nat
<1> DEFINE n == Len(digits)
<1>1. PICK last : Valued(digits, base, last) /\ Value(digits, base) = last[n]
  BY ValueRuns
<1> DEFINE S == {k \in Nat : k <= n => last[k] \in Nat}
<1>2. 0 \in S
  BY <1>1 DEF Valued
<1>3. ASSUME NEW k \in Nat, k \in S PROVE k + 1 \in S
  <2>1. SUFFICES ASSUME k + 1 <= n PROVE last[k + 1] \in Nat
    OBVIOUS
  <2>2. last[k] \in Nat /\ digits[n - k] \in Nat
    BY <1>3, <2>1
  <2>3. last[k + 1] = digits[n - (k + 1) + 1] + base * last[(k + 1) - 1]
    BY <1>1, <2>1 DEF Valued
  <2>4. n - (k + 1) + 1 = n - k /\ (k + 1) - 1 = k
    OBVIOUS
  <2>5. last[k + 1] = digits[n - k] + base * last[k]
    BY <2>3, <2>4
  <2> HIDE DEF n
  <2>6. base * last[k] \in Nat
    BY <2>2
  <2> QED BY <2>2, <2>5, <2>6
<1>4. n \in S
  <2> HIDE DEF S
  <2> QED BY <1>2, <1>3, SetInduction
<1> QED BY <1>1, <1>4

(* What is left of a number, digit by digit.                               *)
LeftOf(n, base, k, rest) ==
  rest = [i \in 0 .. k |-> IF i = 0 THEN n ELSE rest[i - 1] \div base]

LEMMA WithoutRuns ==
  ASSUME NEW n, NEW base, NEW k \in Nat
  PROVE  \E rest : LeftOf(n, base, k, rest) /\ Without(n, base, k) = rest[k]
<1> DEFINE V(left) == left \div base
           Runs(m, run) == run = [i \in 0 .. m |-> IF i = 0 THEN n ELSE V(run[i - 1])]
           S == {m \in Nat : \E run : Runs(m, run)}
<1> HIDE DEF V
<1>1. 0 \in S
  <2>1. Runs(0, [i \in 0 .. 0 |-> n])
    OBVIOUS
  <2> QED BY <2>1
<1>2. ASSUME NEW m \in Nat, m \in S PROVE m + 1 \in S
  <2>1. PICK old : Runs(m, old)
    BY <1>2
  <2> DEFINE new == [i \in 0 .. m + 1 |-> IF i = m + 1 THEN V(old[m]) ELSE old[i]]
  <2>2. \A i \in 0 .. m + 1 : new[i] = IF i = 0 THEN n ELSE V(new[i - 1])
    BY <2>1
  <2>3. Runs(m + 1, new)
    BY <2>2
  <2>4. \E run : Runs(m + 1, run)
    <3> HIDE DEF new, Runs
    <3> QED BY <2>3
  <2> QED BY <2>4
<1>3. Nat \subseteq S
  <2> HIDE DEF S
  <2> QED BY <1>1, <1>2, SetInduction
<1>4. \E run : Runs(k, run)
  BY <1>3
<1> DEFINE rest[i \in 0 .. k] == IF i = 0 THEN n ELSE rest[i - 1] \div base
<1>5. Without(n, base, k) = rest[k]
  BY DEF Without
<1>6. Runs(k, rest)
  BY <1>4 DEF V
<1>7. LeftOf(n, base, k, rest)
  BY <1>6 DEF V, LeftOf
<1> QED BY <1>5, <1>7

LEMMA LeftIsUnique ==
  ASSUME NEW n, NEW base, NEW k \in Nat, NEW m \in Nat, k <= m,
         NEW rest, LeftOf(n, base, k, rest), NEW more, LeftOf(n, base, m, more)
  PROVE  rest[k] = more[k]
<1> DEFINE S == {i \in Nat : i <= k => rest[i] = more[i]}
<1>1. 0 \in S
  BY DEF LeftOf
<1>2. ASSUME NEW i \in Nat, i \in S PROVE i + 1 \in S
  <2>1. SUFFICES ASSUME i + 1 <= k PROVE rest[i + 1] = more[i + 1]
    OBVIOUS
  <2>2. rest[i + 1] = rest[(i + 1) - 1] \div base /\ more[i + 1] = more[(i + 1) - 1] \div base
    <3>1. i + 1 \in 0 .. k /\ i + 1 \in 0 .. m /\ i + 1 # 0
      BY <2>1
    <3> QED BY <3>1 DEF LeftOf
  <2>3. rest[i] = more[i] /\ (i + 1) - 1 = i
    BY <1>2, <2>1
  <2> QED BY <2>2, <2>3
<1>3. k \in S
  <2> HIDE DEF S
  <2> QED BY <1>1, <1>2, SetInduction
<1> QED BY <1>3

LEMMA WithoutStep ==
  ASSUME NEW n, NEW base
  PROVE  /\ Without(n, base, 0) = n
         /\ \A k \in Nat : Without(n, base, k + 1) = Without(n, base, k) \div base
<1>1. Without(n, base, 0) = n
  <2>1. PICK rest : LeftOf(n, base, 0, rest) /\ Without(n, base, 0) = rest[0]
    BY WithoutRuns
  <2> QED BY <2>1 DEF LeftOf
<1>2. ASSUME NEW k \in Nat PROVE Without(n, base, k + 1) = Without(n, base, k) \div base
  <2>1. PICK rest : LeftOf(n, base, k, rest) /\ Without(n, base, k) = rest[k]
    BY WithoutRuns
  <2>2. PICK more : LeftOf(n, base, k + 1, more) /\ Without(n, base, k + 1) = more[k + 1]
    BY WithoutRuns
  <2>3. rest[k] = more[k]
    BY <2>1, <2>2, LeftIsUnique
  <2>4. more[k + 1] = more[(k + 1) - 1] \div base /\ (k + 1) - 1 = k
    BY <2>2 DEF LeftOf
  <2> QED BY <2>1, <2>2, <2>3, <2>4
<1> QED BY <1>1, <1>2

LEMMA WithoutType ==
  ASSUME NEW n \in Nat, NEW base \in Nat \ {0}, NEW k \in Nat
  PROVE  Without(n, base, k) \in Nat
<1> DEFINE S == {i \in Nat : Without(n, base, i) \in Nat}
<1>1. 0 \in S
  BY WithoutStep
<1>2. ASSUME NEW i \in Nat, i \in S PROVE i + 1 \in S
  <2>1. Without(n, base, i) \in Nat
    BY <1>2
  <2>2. Without(n, base, i) \div base \in Nat
    BY <2>1, DivMod
  <2>3. Without(n, base, i + 1) = Without(n, base, i) \div base
    BY WithoutStep
  <2>4. Without(n, base, i + 1) \in Nat
    BY <2>2, <2>3, Zenon
  <2> QED BY <2>4
<1>3. k \in S
  <2> HIDE DEF S
  <2> QED BY <1>1, <1>2, SetInduction
<1> QED BY <1>3

LEMMA DivMonotone ==
  ASSUME NEW a \in Nat, NEW b \in Nat, a <= b, NEW n \in Nat \ {0}
  PROVE  a \div n <= b \div n
<1> DEFINE p == a \div n
           q == b \div n
           r == a % n
           s == b % n
<1>1. /\ p \in Nat /\ r \in 0 .. n - 1 /\ a = n * p + r
      /\ q \in Nat /\ s \in 0 .. n - 1 /\ b = n * q + s
  BY DivMod
<1> HIDE DEF p, q, r, s
<1>2. SUFFICES ASSUME q < p PROVE FALSE
  BY <1>1 DEF p, q
<1>3. p - q - 1 \in Nat
  BY <1>1, <1>2
<1>4. n * (p - q - 1) \in Nat
  BY <1>3
<1>5. n * p = n * q + n + n * (p - q - 1)
  BY <1>1
<1> QED BY <1>1, <1>4, <1>5

LEMMA WithoutMonotone ==
  ASSUME NEW a \in Nat, NEW b \in Nat, a <= b, NEW base \in Nat \ {0}, NEW k \in Nat
  PROVE  Without(a, base, k) <= Without(b, base, k)
<1> DEFINE S == {i \in Nat : Without(a, base, i) <= Without(b, base, i)}
<1>1. 0 \in S
  BY WithoutStep
<1>2. ASSUME NEW i \in Nat, i \in S PROVE i + 1 \in S
  <2>1. Without(a, base, i) \in Nat /\ Without(b, base, i) \in Nat
    BY WithoutType
  <2>2. Without(a, base, i) <= Without(b, base, i)
    BY <1>2
  <2>3. Without(a, base, i) \div base <= Without(b, base, i) \div base
    BY <2>1, <2>2, DivMonotone
  <2>4. /\ Without(a, base, i + 1) = Without(a, base, i) \div base
        /\ Without(b, base, i + 1) = Without(b, base, i) \div base
    BY WithoutStep
  <2>5. Without(a, base, i + 1) <= Without(b, base, i + 1)
    BY <2>3, <2>4, Zenon
  <2> QED BY <2>5
<1>3. k \in S
  <2> HIDE DEF S
  <2> QED BY <1>1, <1>2, SetInduction
<1> QED BY <1>3

(* The digits of a number have its value, if nothing is left of it.        *)
LEMMA ValueOfDigits ==
  ASSUME NEW n \in Nat, NEW base \in Nat \ {0}, NEW k \in Nat, Without(n, base, k) = 0
  PROVE  Value(Digits(n, base, k), base) = n
<1> DEFINE d == Digits(n, base, k)
<1>1. Len(d) = k /\ \A i \in 1 .. k : d[i] = Without(n, base, i - 1) % base
  BY DEF Digits
<1> HIDE DEF d
<1>2. PICK last : Valued(d, base, last) /\ Value(d, base) = last[k]
  BY <1>1, ValueRuns
<1> DEFINE S == {j \in Nat : j <= k => last[j] = Without(n, base, k - j)}
<1>3. 0 \in S
  <2>1. last[0] = 0 /\ k - 0 = k
    BY <1>1, <1>2 DEF Valued
  <2> QED BY <2>1
<1>4. ASSUME NEW j \in Nat, j \in S PROVE j + 1 \in S
  <2>1. SUFFICES ASSUME j + 1 <= k PROVE last[j + 1] = Without(n, base, k - (j + 1))
    OBVIOUS
  <2> DEFINE m == k - (j + 1)
             w == Without(n, base, m)
  <2>2. m \in Nat /\ m + 1 = k - j /\ k - (j + 1) + 1 = m + 1 /\ (m + 1) - 1 = m
        /\ m + 1 \in 1 .. k /\ (j + 1) - 1 = j
    BY <2>1
  <2>3. last[j + 1] = d[k - (j + 1) + 1] + base * last[(j + 1) - 1]
    BY <1>1, <1>2, <2>1 DEF Valued
  <2>4. last[j] = Without(n, base, k - j)
    BY <1>4, <2>1
  <2> HIDE DEF m
  <2>5. d[m + 1] = w % base
    BY <1>1, <2>2
  <2>6. Without(n, base, m + 1) = w \div base
    <3>1. m \in Nat
      BY <2>2
    <3> QED BY <3>1, WithoutStep
  <2>7. last[j + 1] = (w % base) + (base * (w \div base))
    BY <2>2, <2>3, <2>4, <2>5, <2>6
  <2>8. w \in Nat
    BY <2>2, WithoutType
  <2> HIDE DEF w
  <2>9. w = (w % base) + (base * (w \div base))
    <3> DEFINE q == w \div base
               r == w % base
    <3>1. q \in Nat /\ r \in 0 .. base - 1 /\ w = (base * q) + r
      BY <2>8, DivMod, Zenon
    <3> HIDE DEF q, r
    <3>2. base * q \in Nat
      BY <3>1
    <3>3. w = r + base * q
      BY <3>1, <3>2
    <3> QED BY <3>3 DEF q, r
  <2> QED BY <2>7, <2>9 DEF w, m
<1>5. k \in S
  <2> HIDE DEF S
  <2> QED BY <1>3, <1>4, SetInduction
<1>6. last[k] = Without(n, base, k - k) /\ k - k = 0
  BY <1>5
<1> QED BY <1>2, <1>6, WithoutStep DEF d

USE WireAssumption

-----------------------------------------------------------------------------
(* Varints                                                                 *)

LEMMA LeastOf ==
  ASSUME NEW S, S \subseteq Nat, S # {}
  PROVE  \E m \in S : \A k \in S : m <= k
<1> DEFINE R == {ss \in Nat \X Nat : ss[1] < ss[2]}
<1>1. IsWellFoundedOn(R, Nat)
  BY LessIsWellFounded
<1> HIDE DEF R
<1>2. PICK m \in S : \A k \in S : ~ (<<k, m>> \in R)
  BY <1>1, WFMin
<1>3. ASSUME NEW k \in S, ~(m <= k) PROVE FALSE
  <2>1. <<k, m>> \in R
    BY <1>3 DEF R
  <2> QED BY <1>2, <2>1
<1> QED BY <1>3

LEMMA VarintUnique ==
  ASSUME NEW s, NEW a \in Nat, NEW b \in Nat, NEW c \in Nat, IsVarint(s, a, b), IsVarint(s, a, c)
  PROVE  b = c
<1>1. ASSUME NEW x \in Nat, NEW y \in Nat, IsVarint(s, a, x), IsVarint(s, a, y), x < y PROVE FALSE
  <2>1. x \in a + 1 .. x /\ x \in a + 1 .. y
    BY <1>1 DEF IsVarint
  <2>2. s[x] < Base
    BY <1>1, <2>1 DEF IsVarint
  <2>3. x = y
    BY <1>1, <2>1, <2>2 DEF IsVarint
  <2> QED BY <1>1, <2>3
<1>2. ~(b < c) /\ ~(c < b)
  BY <1>1
<1> QED BY <1>2

LEMMA ModIsNat ==
  ASSUME NEW n \in Nat, NEW m \in Nat \ {0}
  PROVE  n % m \in Nat
<1>1. n % m \in 0 .. m - 1
  BY DivMod, Zenon
<1> DEFINE r == n % m
<1>2. r \in 0 .. m - 1
  BY <1>1
<1> HIDE DEF r
<1>3. r \in Nat
  BY <1>2
<1> QED BY <1>3 DEF r

LEMMA VarintValueType ==
  ASSUME NEW s \in Seq(Byte), NEW a \in Nat, NEW b \in Nat, a <= b, b <= Len(s)
  PROVE  VarintValue(s, a, b) \in Nat
<1> DEFINE d == [i \in 1 .. b - a |-> s[a + i] % Base]
<1>1. Len(d) = b - a /\ b - a \in Nat
  OBVIOUS
<1>2. \A i \in 1 .. Len(d) : d[i] \in Nat
  <2> TAKE i \in 1 .. Len(d)
  <2>1. a + i \in 1 .. Len(s)
    BY <1>1
  <2>2. s[a + i] \in Byte
    BY <2>1
  <2>3. s[a + i] \in Nat
    BY <2>2 DEF Byte
  <2>4. s[a + i] % Base \in Nat
    BY <2>3, ModIsNat, WireAssumption, Zenon
  <2> QED BY <1>1, <2>4
<1> HIDE DEF d
<1>3. Value(d, Base) \in Nat
  BY <1>1, <1>2, ValueType
<1> QED BY <1>3 DEF VarintValue, d

LEMMA ReadsVarint ==
  ASSUME NEW s \in Seq(Byte), NEW a \in 0 .. Len(s)
  PROVE  /\ \A b \in a + 1 .. Len(s) :
              IsVarint(s, a, b) => ReadVarint(s, a) = Read(b, VarintValue(s, a, b) % Wide)
         /\ ReadVarint(s, a) = Failed \/ \E b \in a + 1 .. Len(s) : IsVarint(s, a, b)
<1> DEFINE lengths == {n \in 1 .. VarintMax : a + n <= Len(s) /\ s[a + n] < Base}
           n0 == CHOOSE n \in lengths : \A m \in lengths : n <= m
           found == Read(a + n0, Number([i \in 1 .. n0 |-> s[a + i] % Base], Base))
<1>0. Len(s) \in Nat
  OBVIOUS
<1>1. ReadVarint(s, a) = IF lengths = {} THEN Failed ELSE found
  BY DEF ReadVarint
<1>2. ASSUME NEW b \in a + 1 .. Len(s), IsVarint(s, a, b)
      PROVE  ReadVarint(s, a) = Read(b, VarintValue(s, a, b) % Wide)
  <2>1. b - a \in lengths
    <3>1. b - a \in 1 .. VarintMax /\ a + (b - a) = b
      BY <1>0, <1>2 DEF IsVarint
    <3>2. s[b] < Base
      BY <1>0, <1>2 DEF IsVarint
    <3> QED BY <1>0, <3>1, <3>2
  <2>2. ASSUME NEW m \in lengths PROVE b - a <= m
    <3>1. SUFFICES ASSUME m < b - a PROVE FALSE
      BY <1>0, <2>1
    <3>2. a + m \in a + 1 .. b /\ s[a + m] < Base /\ a + m # b
      BY <1>0, <3>1
    <3> QED BY <1>2, <3>2 DEF IsVarint
  <2>3. n0 = b - a
    <3>1. n0 \in lengths /\ \A m \in lengths : n0 <= m
      <4> HIDE DEF lengths
      <4> QED BY <2>1, <2>2
    <3>2. n0 <= b - a /\ b - a <= n0 /\ n0 \in Nat
      <4>1. n0 <= b - a /\ b - a <= n0
        <5> HIDE DEF lengths, n0
        <5> QED BY <2>1, <2>2, <3>1
      <4>2. n0 \in Nat
        <5> HIDE DEF n0
        <5> QED BY <3>1
      <4> QED BY <4>1, <4>2
    <3> HIDE DEF n0
    <3> QED BY <1>0, <3>2
  <2>4. ReadVarint(s, a) = found
    <3> HIDE DEF lengths, found
    <3> QED BY <1>1, <2>1
  <2> HIDE DEF n0
  <2>5. a + n0 = b
    BY <1>0, <2>3
  <2>6. found = Read(b, VarintValue(s, a, b) % Wide)
    BY <2>3, <2>5 DEF VarintValue, Number
  <2> QED BY <2>4, <2>6
<1>3. ASSUME lengths # {} PROVE \E b \in a + 1 .. Len(s) : IsVarint(s, a, b)
  <2>1. PICK m \in lengths : \A k \in lengths : m <= k
    <3>1. lengths \subseteq Nat
      OBVIOUS
    <3> HIDE DEF lengths
    <3> QED BY <1>3, <3>1, LeastOf
  <2>2. m \in 1 .. VarintMax /\ a + m <= Len(s) /\ s[a + m] < Base
    OBVIOUS
  <2>3. ASSUME NEW i \in a + 1 .. a + m, s[i] < Base PROVE i = a + m
    <3>1. i - a \in 1 .. VarintMax /\ a + (i - a) = i /\ i <= Len(s)
      BY <2>2
    <3>2. i - a \in lengths
      BY <2>3, <3>1
    <3>3. m <= i - a
      BY <2>1, <3>2
    <3> QED BY <2>2, <3>1, <3>3
  <2>4. IsVarint(s, a, a + m)
    BY <2>2, <2>3 DEF IsVarint
  <2>5. a + m \in a + 1 .. Len(s)
    BY <1>0, <2>2
  <2> QED BY <2>4, <2>5
<1>4. ReadVarint(s, a) = Failed \/ lengths # {}
  <2> HIDE DEF lengths, found
  <2> QED BY <1>1
<1> HIDE DEF lengths, found
<1> QED BY <1>2, <1>3, <1>4

-----------------------------------------------------------------------------
(* Items                                                                   *)

KeyAt(s, a, k) == VarintValue(s, a, k) % Wide

(* Behind a key, the bytes from k up to b are this value and this length.  *)
Payload(s, k, b, type, value, length) ==
  \/ type = 0 /\ IsVarint(s, k, b) /\ value = VarintValue(s, k, b) % Wide /\ length = 0
  \/ /\ type = 1 /\ b - k = Fixed64
     /\ value = Number(SubSeq(s, k + 1, b), 2 * Base) /\ length = Fixed64
  \/ /\ type = 5 /\ b - k = Fixed32
     /\ value = Number(SubSeq(s, k + 1, b), 2 * Base) /\ length = Fixed32
  \/ /\ type = 2
     /\ \E n \in k + 1 .. b :
          /\ IsVarint(s, k, n) /\ VarintValue(s, k, n) % Wide = b - n
          /\ value = 0 /\ length = (b - n) % Narrow

ItemOf(key, value, length) ==
  [field |-> (key \div 8) % Narrow, type |-> key % 8, value |-> value, length |-> length]

IsItemOf(s, a, b, item) ==
  \E k \in a + 1 .. b, value \in Nat, length \in Nat :
    /\ IsVarint(s, a, k)
    /\ Payload(s, k, b, KeyAt(s, a, k) % 8, value, length)
    /\ item = ItemOf(KeyAt(s, a, k), value, length)

ItemType == [field : 0 .. Narrow - 1, type : 0 .. 7, value : Nat, length : Nat]

LEMMA FixedType ==
  ASSUME NEW s \in Seq(Byte), NEW k \in Nat, NEW b \in Nat, k <= b, b <= Len(s)
  PROVE  /\ Number(SubSeq(s, k + 1, b), 2 * Base) \in Nat
         /\ SubSeq(s, k + 1, b) = [i \in 1 .. b - k |-> s[k + i]]
<1> DEFINE d == SubSeq(s, k + 1, b)
<1>1. d = [i \in 1 .. b - k |-> s[k + i]]
  <2>1. d = [i \in 1 .. b - (k + 1) + 1 |-> s[i + (k + 1) - 1]]
    OBVIOUS
  <2>2. b - (k + 1) + 1 = b - k /\ \A i \in 1 .. b - k : i + (k + 1) - 1 = k + i
    OBVIOUS
  <2> HIDE DEF d
  <2> QED BY <2>1, <2>2
<1>2. Len(d) = b - k /\ b - k \in Nat
  <2> HIDE DEF d
  <2> QED BY <1>1
<1>3. \A i \in 1 .. Len(d) : d[i] \in Nat
  <2> TAKE i \in 1 .. Len(d)
  <2>1. k + i \in 1 .. Len(s)
    BY <1>2
  <2>2. s[k + i] \in Byte
    BY <2>1
  <2>3. s[k + i] \in Nat
    BY <2>2 DEF Byte
  <2> QED BY <1>1, <1>2, <2>3
<1> HIDE DEF d
<1>4. Value(d, 2 * Base) \in Nat
  BY <1>2, <1>3, ValueType
<1>5. Number(d, 2 * Base) \in Nat
  BY <1>4, ModIsNat, WireAssumption, Zenon DEF Number
<1> QED BY <1>1, <1>5 DEF d

LEMMA ReadsFixed ==
  ASSUME NEW s \in Seq(Byte), NEW k \in 0 .. Len(s), NEW bytes \in Nat
  PROVE  /\ k + bytes <= Len(s) =>
              ReadFixed(s, k, bytes) =
                Read(k + bytes, Number(SubSeq(s, k + 1, k + bytes), 2 * Base))
         /\ ~(k + bytes <= Len(s)) => ReadFixed(s, k, bytes) = Failed
<1>1. k + bytes <= Len(s) <=> ~(Len(s) - k < bytes)
  OBVIOUS
<1> QED BY <1>1, Zenon DEF ReadFixed

LEMMA PayloadCases ==
  ASSUME NEW s, NEW k, NEW key
  PROVE  /\ key % 8 = 0 => ReadPayload(s, k, key) = NumberItem(key, ReadVarint(s, k), 0)
         /\ key % 8 = 1 =>
              ReadPayload(s, k, key) = NumberItem(key, ReadFixed(s, k, Fixed64), Fixed64)
         /\ key % 8 = 5 =>
              ReadPayload(s, k, key) = NumberItem(key, ReadFixed(s, k, Fixed32), Fixed32)
         /\ key % 8 = 2 =>
              ReadPayload(s, k, key) = BytesItem(key, ReadVarint(s, k), Len(s))
         /\ key % 8 \notin {0, 1, 2, 5} => ReadPayload(s, k, key) = Failed
<1> DEFINE t == key % 8
           p == ReadPayload(s, k, key)
           A == NumberItem(key, ReadVarint(s, k), 0)
           B == NumberItem(key, ReadFixed(s, k, Fixed64), Fixed64)
           C == NumberItem(key, ReadFixed(s, k, Fixed32), Fixed32)
           D == BytesItem(key, ReadVarint(s, k), Len(s))
<1>1. p = CASE t = 0 -> A [] t = 1 -> B [] t = 5 -> C [] t = 2 -> D [] OTHER -> Failed
  BY Zenon DEF ReadPayload
<1> HIDE DEF t, p, A, B, C, D
<1>2. /\ t = 0 => p = A
      /\ t = 1 => p = B
      /\ t = 5 => p = C
      /\ t = 2 => p = D
      /\ t \notin {0, 1, 2, 5} => p = Failed
  BY <1>1
<1> QED BY <1>2, Zenon DEF t, p, A, B, C, D

LEMMA Outcomes ==
  /\ Failed.ok = FALSE
  /\ \A pos, value : /\ Read(pos, value).ok = TRUE
                     /\ Read(pos, value).pos = pos /\ Read(pos, value).value = value
BY DEF Failed, Read

(* What is read behind a key is what the bytes are, or there is nothing.   *)
LEMMA ReadsPayload ==
  ASSUME NEW s \in Seq(Byte), NEW k \in 0 .. Len(s), NEW key \in Nat
  PROVE  /\ \A b \in k .. Len(s) : \A value, length :
              Payload(s, k, b, key % 8, value, length)
                => ReadPayload(s, k, key) = Read(b, ItemOf(key, value, length))
         /\ \/ ReadPayload(s, k, key) = Failed
            \/ \E b \in k .. Len(s), value \in Nat, length \in Nat :
                 Payload(s, k, b, key % 8, value, length)
<1>0. Len(s) \in Nat
  OBVIOUS
<1> DEFINE number == ReadVarint(s, k)
<1>1. CASE key % 8 = 0
  <2>1. ReadPayload(s, k, key) = NumberItem(key, number, 0)
    BY <1>1, PayloadCases, Zenon
  <2>2. ASSUME NEW b \in k .. Len(s), NEW value, NEW length,
               Payload(s, k, b, key % 8, value, length)
        PROVE  ReadPayload(s, k, key) = Read(b, ItemOf(key, value, length))
    <3>1. IsVarint(s, k, b) /\ value = VarintValue(s, k, b) % Wide /\ length = 0
      BY <1>1, <2>2 DEF Payload
    <3>2. b \in k + 1 .. Len(s)
      BY <1>0, <3>1 DEF IsVarint
    <3>3. number = Read(b, value)
      BY <3>1, <3>2, ReadsVarint
    <3> QED BY <2>1, <3>1, <3>3, Outcomes DEF NumberItem, Item, ItemOf
  <2>3. ASSUME number # Failed
        PROVE  \E b \in k .. Len(s), value \in Nat, length \in Nat :
                 Payload(s, k, b, key % 8, value, length)
    <3>1. PICK b \in k + 1 .. Len(s) : IsVarint(s, k, b)
      BY <2>3, ReadsVarint
    <3>2. VarintValue(s, k, b) % Wide \in Nat
      <4>1. VarintValue(s, k, b) \in Nat
        BY <1>0, VarintValueType
      <4> QED BY <4>1, ModIsNat, WireAssumption, Zenon
    <3>3. Payload(s, k, b, key % 8, VarintValue(s, k, b) % Wide, 0)
      BY <1>1, <3>1 DEF Payload
    <3>4. b \in k .. Len(s)
      BY <1>0
    <3> QED BY <3>2, <3>3, <3>4
  <2>4. number = Failed => ReadPayload(s, k, key) = Failed
    BY <2>1, Outcomes DEF NumberItem
  <2> QED BY <2>2, <2>3, <2>4
<1>2. ASSUME NEW type \in {1, 5}, NEW bytes \in Nat, bytes = IF type = 1 THEN Fixed64 ELSE Fixed32,
             key % 8 = type
      PROVE  /\ \A b \in k .. Len(s) : \A value, length :
                  Payload(s, k, b, key % 8, value, length)
                    => ReadPayload(s, k, key) = Read(b, ItemOf(key, value, length))
             /\ \/ ReadPayload(s, k, key) = Failed
                \/ \E b \in k .. Len(s), value \in Nat, length \in Nat :
                     Payload(s, k, b, key % 8, value, length)
  <2>1. ReadPayload(s, k, key) = NumberItem(key, ReadFixed(s, k, bytes), bytes)
    BY <1>2, PayloadCases
  <2>2. ASSUME NEW b \in k .. Len(s), NEW value, NEW length,
               Payload(s, k, b, key % 8, value, length)
        PROVE  ReadPayload(s, k, key) = Read(b, ItemOf(key, value, length))
    <3>1. /\ b - k = bytes /\ value = Number(SubSeq(s, k + 1, b), 2 * Base) /\ length = bytes
      BY <1>2, <2>2 DEF Payload
    <3>2. b = k + bytes /\ k + bytes <= Len(s)
      BY <1>0, <3>1
    <3>3. ReadFixed(s, k, bytes) = Read(b, value)
      BY <3>1, <3>2, ReadsFixed
    <3> QED BY <2>1, <3>1, <3>3, Outcomes DEF NumberItem, Item, ItemOf
  <2>3. ASSUME k + bytes <= Len(s)
        PROVE  \E b \in k .. Len(s), value \in Nat, length \in Nat :
                 Payload(s, k, b, key % 8, value, length)
    <3> DEFINE b == k + bytes
    <3>1. b \in k .. Len(s) /\ b - k = bytes /\ b \in Nat
      BY <1>0, <2>3
    <3> HIDE DEF b
    <3>2. Number(SubSeq(s, k + 1, b), 2 * Base) \in Nat
      BY <1>0, <3>1, FixedType
    <3>3. Payload(s, k, b, key % 8, Number(SubSeq(s, k + 1, b), 2 * Base), bytes)
      BY <1>2, <3>1 DEF Payload
    <3> QED BY <3>1, <3>2, <3>3
  <2>4. ~(k + bytes <= Len(s)) => ReadPayload(s, k, key) = Failed
    BY <2>1, ReadsFixed, Outcomes DEF NumberItem
  <2> QED BY <2>2, <2>3, <2>4
<1>3. CASE key % 8 = 2
  <2>1. ReadPayload(s, k, key) = BytesItem(key, number, Len(s))
    BY <1>3, PayloadCases, Zenon
  <2>2. ASSUME NEW b \in k .. Len(s), NEW value, NEW length,
               Payload(s, k, b, key % 8, value, length)
        PROVE  ReadPayload(s, k, key) = Read(b, ItemOf(key, value, length))
    <3>1. PICK n \in k + 1 .. b :
            /\ IsVarint(s, k, n) /\ VarintValue(s, k, n) % Wide = b - n
            /\ value = 0 /\ length = (b - n) % Narrow
      BY <1>3, <2>2 DEF Payload
    <3>2. n \in k + 1 .. Len(s) /\ n + (b - n) = b /\ b - n <= Len(s) - n
      BY <1>0
    <3>3. number = Read(n, b - n)
      BY <3>1, <3>2, ReadsVarint
    <3>4. number.ok /\ number.pos = n /\ number.value = b - n
      BY <3>3, Outcomes
    <3> HIDE DEF number
    <3>5. BytesItem(key, number, Len(s)) = Item(key, n + (b - n), 0, (b - n) % Narrow)
      BY <3>2, <3>4 DEF BytesItem
    <3> QED BY <2>1, <3>1, <3>2, <3>5 DEF Item, ItemOf
  <2>3. ASSUME number # Failed, ReadPayload(s, k, key) # Failed
        PROVE  \E b \in k .. Len(s), value \in Nat, length \in Nat :
                 Payload(s, k, b, key % 8, value, length)
    <3>1. PICK n \in k + 1 .. Len(s) : IsVarint(s, k, n)
      BY <2>3, ReadsVarint
    <3> DEFINE v == VarintValue(s, k, n) % Wide
    <3>2. v \in Nat
      <4>1. VarintValue(s, k, n) \in Nat
        BY <1>0, VarintValueType
      <4> QED BY <4>1, ModIsNat, WireAssumption, Zenon
    <3>3. number = Read(n, v)
      BY <3>1, ReadsVarint
    <3>4. number.pos = n /\ number.value = v
      BY <3>3, Outcomes
    <3> HIDE DEF v, number
    <3>5. v <= Len(s) - n
      BY <2>1, <2>3, <3>4 DEF BytesItem
    <3> DEFINE b == n + v
    <3>6. b \in k .. Len(s) /\ n \in k + 1 .. b /\ b - n = v
      BY <1>0, <3>2, <3>5
    <3> HIDE DEF b
    <3>7. v % Narrow \in Nat
      BY <3>2, ModIsNat, WireAssumption, Zenon
    <3>8. Payload(s, k, b, key % 8, 0, v % Narrow)
      BY <1>3, <3>1, <3>6 DEF Payload, v
    <3> QED BY <3>6, <3>7, <3>8
  <2>4. number = Failed => ReadPayload(s, k, key) = Failed
    BY <2>1, Outcomes DEF BytesItem
  <2> HIDE DEF number
  <2> QED BY <2>2, <2>3, <2>4
<1>4. CASE key % 8 \notin {0, 1, 2, 5}
  BY <1>4, PayloadCases DEF Payload
<1>5. CASE key % 8 = 1
  BY <1>2, <1>5
<1>6. CASE key % 8 = 5
  BY <1>2, <1>6
<1> QED BY <1>1, <1>3, <1>4, <1>5, <1>6

HIDE WireAssumption

LEMMA KeyType ==
  ASSUME NEW s \in Seq(Byte), NEW a \in 0 .. Len(s), NEW k \in a .. Len(s)
  PROVE  /\ VarintValue(s, a, k) \in Nat /\ KeyAt(s, a, k) \in Nat
         /\ KeyAt(s, a, k) % 8 = VarintValue(s, a, k) % 8
<1>1. VarintValue(s, a, k) \in Nat
  <2>1. a \in Nat /\ k \in Nat /\ a <= k /\ k <= Len(s)
    OBVIOUS
  <2> QED BY <2>1, VarintValueType
<1>2. KeyAt(s, a, k) \in Nat
  BY <1>1, ModIsNat, WireAssumption, Zenon DEF KeyAt
<1>3. KeyAt(s, a, k) % 8 = VarintValue(s, a, k) % 8
  <2>1. Wide \in Nat \ {0} /\ 8 \in Nat \ {0} /\ Wide % 8 = 0
    BY WireAssumption
  <2> QED BY <1>1, <2>1, ModOfMod, Zenon DEF KeyAt
<1> QED BY <1>1, <1>2, <1>3

LEMMA ItemOfType ==
  ASSUME NEW key \in Nat, NEW value \in Nat, NEW length \in Nat
  PROVE  ItemOf(key, value, length) \in ItemType
<1>1. key \div 8 \in Nat /\ key % 8 \in 0 .. 7
  OBVIOUS
<1>2. (key \div 8) % Narrow \in 0 .. Narrow - 1
  BY <1>1, DivMod, WireAssumption, Zenon
<1> QED BY <1>1, <1>2, Zenon DEF ItemOf, ItemType

(* An item is read as what it says, and what is read is an item.           *)
LEMMA ReadsItem ==
  ASSUME NEW s \in Seq(Byte), NEW a \in 0 .. Len(s)
  PROVE  /\ \A b \in a .. Len(s) : \A item :
              IsItemOf(s, a, b, item) => ReadItem(s, a) = Read(b, item)
         /\ \/ ReadItem(s, a) = Failed
            \/ \E b \in a + 1 .. Len(s), item \in ItemType : IsItemOf(s, a, b, item)
<1>0. Len(s) \in Nat
  OBVIOUS
<1> DEFINE key == ReadVarint(s, a)
<1>1. ASSUME NEW b \in a .. Len(s), NEW item, IsItemOf(s, a, b, item)
      PROVE  ReadItem(s, a) = Read(b, item)
  <2>1. PICK k \in a + 1 .. b, value \in Nat, length \in Nat :
          /\ IsVarint(s, a, k)
          /\ Payload(s, k, b, KeyAt(s, a, k) % 8, value, length)
          /\ item = ItemOf(KeyAt(s, a, k), value, length)
    BY <1>1 DEF IsItemOf
  <2>2. k \in a + 1 .. Len(s) /\ k \in 0 .. Len(s) /\ k \in a .. Len(s) /\ b \in k .. Len(s)
    BY <1>0
  <2>3. key = Read(k, KeyAt(s, a, k))
    BY <2>1, <2>2, ReadsVarint DEF KeyAt
  <2>4. KeyAt(s, a, k) \in Nat
    BY <2>2, KeyType
  <2>5. ReadPayload(s, k, KeyAt(s, a, k)) = Read(b, item)
    BY <2>1, <2>2, <2>4, ReadsPayload
  <2>6. key.ok /\ key.pos = k /\ key.value = KeyAt(s, a, k)
    BY <2>3, Outcomes
  <2> HIDE DEF key
  <2>7. ItemBehind(s, key) = Read(b, item)
    BY <2>5, <2>6 DEF ItemBehind
  <2> QED BY <2>7 DEF ReadItem, key
<1>2. ASSUME ReadItem(s, a) # Failed
      PROVE  \E b \in a + 1 .. Len(s), item \in ItemType : IsItemOf(s, a, b, item)
  <2>1. key # Failed
    <3>1. ItemBehind(s, Failed) = Failed
      BY Outcomes DEF ItemBehind
    <3> QED BY <1>2, <3>1 DEF ReadItem
  <2>2. PICK k \in a + 1 .. Len(s) : IsVarint(s, a, k)
    BY <2>1, ReadsVarint
  <2>3. k \in 0 .. Len(s) /\ k \in a .. Len(s)
    BY <1>0
  <2>4. key = Read(k, KeyAt(s, a, k))
    BY <2>2, ReadsVarint DEF KeyAt
  <2>5. key.ok /\ key.pos = k /\ key.value = KeyAt(s, a, k)
    BY <2>4, Outcomes
  <2>6. KeyAt(s, a, k) \in Nat
    BY <2>3, KeyType
  <2> HIDE DEF key
  <2>7. ReadPayload(s, k, KeyAt(s, a, k)) # Failed
    BY <1>2, <2>5 DEF ReadItem, ItemBehind, key
  <2>8. PICK b \in k .. Len(s), value \in Nat, length \in Nat :
          Payload(s, k, b, KeyAt(s, a, k) % 8, value, length)
    BY <2>3, <2>6, <2>7, ReadsPayload
  <2>9. b \in a + 1 .. Len(s) /\ k \in a + 1 .. b
    BY <1>0
  <2> DEFINE item == ItemOf(KeyAt(s, a, k), value, length)
  <2>10. item \in ItemType
    BY <2>6, ItemOfType
  <2>11. IsItemOf(s, a, b, item)
    BY <2>2, <2>8, <2>9 DEF IsItemOf
  <2> HIDE DEF item
  <2> QED BY <2>9, <2>10, <2>11
<1> QED BY <1>1, <1>2

(* The grammar has an item where the bytes are one.                        *)
LEMMA ItemIs ==
  ASSUME NEW s \in Seq(Byte), NEW a \in 0 .. Len(s), NEW b \in a .. Len(s)
  PROVE  IsItem(s, a, b) <=> \E item \in ItemType : IsItemOf(s, a, b, item)
<1>0. Len(s) \in Nat
  OBVIOUS
<1>1. ASSUME IsItem(s, a, b) PROVE \E item \in ItemType : IsItemOf(s, a, b, item)
  <2>1. PICK k \in a + 1 .. b :
          /\ IsVarint(s, a, k)
          /\ LET type == VarintValue(s, a, k) % 8
             IN \/ type = 0 /\ IsVarint(s, k, b)
                \/ type = 1 /\ b - k = Fixed64
                \/ type = 5 /\ b - k = Fixed32
                \/ type = 2 /\ \E n \in k + 1 .. b :
                                 IsVarint(s, k, n) /\ VarintValue(s, k, n) % Wide = b - n
    BY <1>1 DEF IsItem
  <2>2. k \in a .. Len(s) /\ k \in 0 .. Len(s) /\ b \in k .. Len(s) /\ k \in Nat /\ b \in Nat
        /\ k <= b /\ b <= Len(s)
    BY <1>0
  <2> DEFINE type == KeyAt(s, a, k) % 8
  <2>3. KeyAt(s, a, k) \in Nat /\ type = VarintValue(s, a, k) % 8
    BY <2>2, KeyType
  <2> HIDE DEF type
  <2>4. SUFFICES \E value \in Nat, length \in Nat : Payload(s, k, b, type, value, length)
    <3>1. PICK value \in Nat, length \in Nat : Payload(s, k, b, type, value, length)
      BY <2>4
    <3>2. ItemOf(KeyAt(s, a, k), value, length) \in ItemType
      BY <2>3, ItemOfType
    <3>3. IsItemOf(s, a, b, ItemOf(KeyAt(s, a, k), value, length))
      BY <2>1, <3>1 DEF IsItemOf, type
    <3> QED BY <3>2, <3>3
  <2>5. CASE type = 0 /\ IsVarint(s, k, b)
    <3>1. VarintValue(s, k, b) \in Nat
      BY <2>2, KeyType
    <3>2. VarintValue(s, k, b) % Wide \in Nat
      BY <3>1, ModIsNat, WireAssumption, Zenon
    <3>3. Payload(s, k, b, type, VarintValue(s, k, b) % Wide, 0)
      BY <2>5 DEF Payload
    <3> QED BY <3>2, <3>3
  <2>6. CASE type = 1 /\ b - k = Fixed64
    <3>1. Number(SubSeq(s, k + 1, b), 2 * Base) \in Nat
      BY <2>2, FixedType
    <3>2. Payload(s, k, b, type, Number(SubSeq(s, k + 1, b), 2 * Base), Fixed64)
      BY <2>6 DEF Payload
    <3> QED BY <3>1, <3>2, WireAssumption
  <2>7. CASE type = 5 /\ b - k = Fixed32
    <3>1. Number(SubSeq(s, k + 1, b), 2 * Base) \in Nat
      BY <2>2, FixedType
    <3>2. Payload(s, k, b, type, Number(SubSeq(s, k + 1, b), 2 * Base), Fixed32)
      BY <2>7 DEF Payload
    <3> QED BY <3>1, <3>2, WireAssumption
  <2>8. CASE type = 2 /\ \E n \in k + 1 .. b :
               IsVarint(s, k, n) /\ VarintValue(s, k, n) % Wide = b - n
    <3>1. PICK n \in k + 1 .. b : IsVarint(s, k, n) /\ VarintValue(s, k, n) % Wide = b - n
      BY <2>8
    <3>2. b - n \in Nat
      BY <2>2
    <3>3. (b - n) % Narrow \in Nat
      BY <3>2, ModIsNat, WireAssumption, Zenon
    <3>4. Payload(s, k, b, type, 0, (b - n) % Narrow)
      BY <2>8, <3>1 DEF Payload
    <3> QED BY <3>3, <3>4
  <2> QED BY <2>1, <2>3, <2>5, <2>6, <2>7, <2>8
<1>2. ASSUME NEW item, IsItemOf(s, a, b, item) PROVE IsItem(s, a, b)
  <2>1. PICK k \in a + 1 .. b, value \in Nat, length \in Nat :
          IsVarint(s, a, k) /\ Payload(s, k, b, KeyAt(s, a, k) % 8, value, length)
    BY <1>2 DEF IsItemOf
  <2>2. k \in a .. Len(s)
    BY <1>0
  <2>3. KeyAt(s, a, k) % 8 = VarintValue(s, a, k) % 8
    BY <2>2, KeyType
  <2>4. Payload(s, k, b, VarintValue(s, a, k) % 8, value, length)
    BY <2>1, <2>3
  <2> HIDE DEF KeyAt
  <2> QED BY <2>1, <2>4 DEF IsItem, Payload
<1> QED BY <1>1, <1>2

-----------------------------------------------------------------------------
(* Messages                                                                *)

(* What `from' of Items holds, position by position.                       *)
Parsing(s, from) ==
  from = [pos \in 0 .. Len(s) |->
            IF pos = Len(s) THEN Read(pos, <<>>)
            ELSE IF ReadItem(s, pos).ok THEN Prepend(ReadItem(s, pos), from[ReadItem(s, pos).pos])
            ELSE Failed]

LEMMA NextPosition ==
  ASSUME NEW s \in Seq(Byte), NEW a \in 0 .. Len(s), ReadItem(s, a).ok
  PROVE  \E b \in a + 1 .. Len(s), item \in ItemType :
           IsItemOf(s, a, b, item) /\ ReadItem(s, a) = Read(b, item)
<1>1. ReadItem(s, a) # Failed
  BY Outcomes
<1>2. PICK b \in a + 1 .. Len(s), item \in ItemType : IsItemOf(s, a, b, item)
  BY <1>1, ReadsItem
<1>3. b \in a .. Len(s)
  OBVIOUS
<1> QED BY <1>2, <1>3, ReadsItem

LEMMA ItemsRun ==
  ASSUME NEW s \in Seq(Byte)
  PROVE  \E from : Parsing(s, from) /\ Items(s) = from[0]
<1> DEFINE L == Len(s)
           V(run, pos) ==
             IF pos = L THEN Read(pos, <<>>)
             ELSE IF ReadItem(s, pos).ok THEN Prepend(ReadItem(s, pos), run[ReadItem(s, pos).pos])
             ELSE Failed
           Runs(n, run) == run = [pos \in L - n .. L |-> V(run, pos)]
           S == {n \in Nat : n <= L => \E run : Runs(n, run)}
<1>0. L \in Nat
  OBVIOUS
<1>V. ASSUME NEW n \in Nat, NEW pos \in L - n .. L, pos \in 0 .. L, NEW f, NEW g,
             \A q \in pos + 1 .. L : f[q] = g[q]
      PROVE  V(f, pos) = V(g, pos)
  <2>1. CASE pos # L /\ ReadItem(s, pos).ok
    <3>1. PICK b \in pos + 1 .. L, item \in ItemType : ReadItem(s, pos) = Read(b, item)
      BY <1>V, <2>1, NextPosition
    <3>2. ReadItem(s, pos).pos = b
      BY <3>1, Outcomes
    <3>3. f[ReadItem(s, pos).pos] = g[ReadItem(s, pos).pos]
      BY <1>V, <3>2
    <3> HIDE DEF L
    <3> QED BY <2>1, <3>3
  <2>2. CASE ~(pos # L /\ ReadItem(s, pos).ok)
    <3> HIDE DEF L
    <3> QED BY <2>2
  <2> QED BY <2>1, <2>2
<1> HIDE DEF V, L
<1>1. 0 \in S
  <2> DEFINE run == [pos \in L - 0 .. L |-> V(<<>>, pos)]
  <2>1. \A pos \in L - 0 .. L : V(<<>>, pos) = V(run, pos)
    <3> TAKE pos \in L - 0 .. L
    <3>1. pos \in 0 .. L /\ pos + 1 .. L = {} /\ 0 \in Nat
      BY <1>0
    <3>2. \A q \in pos + 1 .. L : <<>>[q] = run[q]
      BY <3>1
    <3> HIDE DEF run
    <3> QED BY <3>1, <3>2, <1>V
  <2>2. Runs(0, run)
    BY <2>1
  <2>3. \E r : Runs(0, r)
    <3> HIDE DEF run, Runs
    <3> QED BY <2>2
  <2> QED BY <2>3
<1>2. ASSUME NEW n \in Nat, n \in S PROVE n + 1 \in S
  <2>0. SUFFICES ASSUME n + 1 <= L PROVE \E run : Runs(n + 1, run)
    OBVIOUS
  <2>1. PICK old : Runs(n, old)
    BY <1>0, <1>2, <2>0
  <2> DEFINE p == L - (n + 1)
             new == [pos \in p .. L |-> IF pos = p THEN V(old, p) ELSE old[pos]]
  <2>2. p \in Nat /\ \A pos \in p .. L : pos # p => pos \in L - n .. L
    BY <1>0, <2>0
  <2>3. \A q \in p + 1 .. L : old[q] = new[q]
    BY <1>0, <2>0
  <2>4. \A pos \in p .. L : new[pos] = V(new, pos)
    <3> TAKE pos \in p .. L
    <3>1. CASE pos = p
      <4>1. p \in L - (n + 1) .. L /\ p \in 0 .. L /\ n + 1 \in Nat
        BY <1>0, <2>0
      <4>2. new[p] = V(old, p)
        BY <4>1
      <4> HIDE DEF p, new
      <4>3. V(old, p) = V(new, p)
        BY <2>3, <4>1, <1>V
      <4> QED BY <3>1, <4>2, <4>3
    <3>2. CASE pos # p
      <4>1. pos \in L - n .. L /\ pos \in 0 .. L
        BY <1>0, <2>2, <3>2
      <4>2. new[pos] = old[pos] /\ old[pos] = V(old, pos)
        BY <2>1, <3>2, <4>1
      <4>3. \A q \in pos + 1 .. L : old[q] = new[q]
        BY <1>0, <2>2, <2>3
      <4> HIDE DEF p, new
      <4>4. V(old, pos) = V(new, pos)
        BY <4>1, <4>3, <1>V
      <4> QED BY <4>2, <4>4
    <3> QED BY <3>1, <3>2
  <2>5. Runs(n + 1, new)
    <3>1. new = [pos \in p .. L |-> new[pos]]
      OBVIOUS
    <3>2. new = [pos \in p .. L |-> V(new, pos)]
      <4> HIDE DEF new, p
      <4> QED BY <2>4, <3>1
    <3> HIDE DEF new
    <3> QED BY <3>2
  <2> HIDE DEF new, Runs
  <2> QED BY <2>5
<1>3. L \in S
  <2> HIDE DEF S
  <2> QED BY <1>0, <1>1, <1>2, SetInduction
<1>4. \E run : run = [pos \in 0 .. L |-> V(run, pos)]
  <2>1. PICK run : Runs(L, run)
    BY <1>0, <1>3
  <2>2. L - L = 0
    BY <1>0
  <2> QED BY <2>1, <2>2
<1> DEFINE item[pos \in 0 .. Len(s)] == ReadItem(s, pos)
           from[pos \in 0 .. Len(s)] ==
             IF pos = Len(s) THEN Read(pos, <<>>)
             ELSE IF item[pos].ok THEN Prepend(item[pos], from[item[pos].pos])
             ELSE Failed
           W(f, pos) ==
             IF pos = Len(s) THEN Read(pos, <<>>)
             ELSE IF item[pos].ok THEN Prepend(item[pos], f[item[pos].pos])
             ELSE Failed
<1>5. Items(s) = from[0]
  BY DEF Items
<1>6. \A f : [pos \in 0 .. Len(s) |-> W(f, pos)] = [pos \in 0 .. Len(s) |-> V(f, pos)]
  <2> TAKE f
  <2>1. \A pos \in 0 .. Len(s) : item[pos] = ReadItem(s, pos)
    OBVIOUS
  <2> HIDE DEF item
  <2>2. \A pos \in 0 .. Len(s) : W(f, pos) = V(f, pos)
    BY <2>1 DEF V, L
  <2> HIDE DEF W
  <2> QED BY <2>2
<1>7. from = CHOOSE f : f = [pos \in 0 .. Len(s) |-> W(f, pos)]
  OBVIOUS
<1>8. from = [pos \in 0 .. Len(s) |-> W(from, pos)]
  <2> HIDE DEF from, W
  <2>1. \E f : f = [pos \in 0 .. Len(s) |-> W(f, pos)]
    BY <1>4, <1>6 DEF L
  <2> QED BY <1>7, <2>1
<1>9. from = [pos \in 0 .. L |-> V(from, pos)]
  <2> HIDE DEF from, W
  <2> QED BY <1>6, <1>8 DEF L
<1>10. Parsing(s, from)
  <2> HIDE DEF from
  <2> QED BY <1>9 DEF Parsing, V, L
<1> HIDE DEF from
<1> QED BY <1>5, <1>10

(* What `follows' of IsMessage holds.                                      *)
Following(s, follows) ==
  follows = [a \in 0 .. Len(s) |->
               \/ a = Len(s)
               \/ \E b \in a + 1 .. Len(s) : IsItem(s, a, b) /\ follows[b]]

LEMMA MessageRuns ==
  ASSUME NEW s \in Seq(Byte)
  PROVE  \E follows : Following(s, follows) /\ IsMessage(s) = follows[0]
<1> DEFINE L == Len(s)
           V(run, a) == a = L \/ \E b \in a + 1 .. L : IsItem(s, a, b) /\ run[b]
           Runs(n, run) == run = [a \in L - n .. L |-> V(run, a)]
           S == {n \in Nat : n <= L => \E run : Runs(n, run)}
<1>0. L \in Nat
  OBVIOUS
<1>V. ASSUME NEW a, NEW f, NEW g, \A q \in a + 1 .. L : f[q] = g[q]
      PROVE  V(f, a) = V(g, a)
  <2> HIDE DEF L
  <2> QED BY <1>V
<1> HIDE DEF V, L
<1>1. 0 \in S
  <2> DEFINE run == [a \in L - 0 .. L |-> V(<<>>, a)]
  <2>1. \A a \in L - 0 .. L : V(<<>>, a) = V(run, a)
    <3> TAKE a \in L - 0 .. L
    <3>1. a + 1 .. L = {}
      BY <1>0
    <3>2. \A q \in a + 1 .. L : <<>>[q] = run[q]
      BY <3>1
    <3> HIDE DEF run
    <3> QED BY <3>2, <1>V
  <2>2. Runs(0, run)
    BY <2>1
  <2>3. \E r : Runs(0, r)
    <3> HIDE DEF run, Runs
    <3> QED BY <2>2
  <2> QED BY <2>3
<1>2. ASSUME NEW n \in Nat, n \in S PROVE n + 1 \in S
  <2>0. SUFFICES ASSUME n + 1 <= L PROVE \E run : Runs(n + 1, run)
    OBVIOUS
  <2>1. PICK old : Runs(n, old)
    BY <1>0, <1>2, <2>0
  <2> DEFINE p == L - (n + 1)
             new == [a \in p .. L |-> IF a = p THEN V(old, p) ELSE old[a]]
  <2>2. p \in Nat /\ \A a \in p .. L : a # p => a \in L - n .. L
    BY <1>0, <2>0
  <2>3. \A q \in p + 1 .. L : old[q] = new[q]
    BY <1>0, <2>0
  <2>4. \A a \in p .. L : new[a] = V(new, a)
    <3> TAKE a \in p .. L
    <3>1. CASE a = p
      <4>1. new[p] = V(old, p)
        BY <1>0, <2>0
      <4> HIDE DEF p, new
      <4>2. V(old, p) = V(new, p)
        BY <2>3, <1>V
      <4> QED BY <3>1, <4>1, <4>2
    <3>2. CASE a # p
      <4>1. new[a] = old[a] /\ old[a] = V(old, a)
        BY <2>1, <2>2, <3>2
      <4>2. \A q \in a + 1 .. L : old[q] = new[q]
        BY <1>0, <2>2, <2>3
      <4> HIDE DEF p, new
      <4>3. V(old, a) = V(new, a)
        BY <4>2, <1>V
      <4> QED BY <4>1, <4>3
    <3> QED BY <3>1, <3>2
  <2>5. Runs(n + 1, new)
    <3>1. new = [a \in p .. L |-> new[a]]
      OBVIOUS
    <3>2. new = [a \in p .. L |-> V(new, a)]
      <4> HIDE DEF new, p
      <4> QED BY <2>4, <3>1
    <3> HIDE DEF new
    <3> QED BY <3>2
  <2> HIDE DEF new, Runs
  <2> QED BY <2>5
<1>3. L \in S
  <2> HIDE DEF S
  <2> QED BY <1>0, <1>1, <1>2, SetInduction
<1>4. \E run : run = [a \in 0 .. L |-> V(run, a)]
  <2>1. PICK run : Runs(L, run)
    BY <1>0, <1>3
  <2>2. L - L = 0
    BY <1>0
  <2> QED BY <2>1, <2>2
<1> DEFINE follows[a \in 0 .. Len(s)] ==
             a = Len(s) \/ \E b \in a + 1 .. Len(s) : IsItem(s, a, b) /\ follows[b]
<1>5. IsMessage(s) = follows[0]
  BY Zenon DEF IsMessage
<1>6. follows = [a \in 0 .. L |-> V(follows, a)]
  BY <1>4 DEF V, L
<1>7. Following(s, follows)
  <2> HIDE DEF follows
  <2> QED BY <1>6, Zenon DEF Following, V, L
<1> HIDE DEF follows
<1> QED BY <1>5, <1>7

(* The decoder accepts what the grammar has, from every position.          *)
LEMMA AcceptsWhatIsAMessage ==
  ASSUME NEW s \in Seq(Byte)
  PROVE  Items(s).ok <=> IsMessage(s)
<1> DEFINE L == Len(s)
<1>0. L \in Nat
  OBVIOUS
<1>1. PICK from : Parsing(s, from) /\ Items(s) = from[0]
  BY ItemsRun
<1>2. PICK follows : Following(s, follows) /\ IsMessage(s) = follows[0]
  BY MessageRuns
<1> DEFINE Agree(a) == from[a].ok <=> follows[a]
           S == {n \in Nat : \A a \in 0 .. L : a >= L - n => Agree(a)}
<1>3. Agree(L)
  <2>1. from[L] = Read(L, <<>>)
    BY <1>0, <1>1 DEF Parsing
  <2>2. from[L].ok
    BY <2>1, Outcomes
  <2>3. follows[L]
    BY <1>0, <1>2 DEF Following
  <2> QED BY <2>2, <2>3
<1>4. ASSUME NEW a \in 0 .. L, a # L, \A q \in a + 1 .. L : Agree(q)
      PROVE  Agree(a)
  <2>1. from[a] = IF ReadItem(s, a).ok THEN Prepend(ReadItem(s, a), from[ReadItem(s, a).pos])
                  ELSE Failed
    BY <1>1, <1>4 DEF Parsing
  <2>2. follows[a] <=> \E b \in a + 1 .. L : IsItem(s, a, b) /\ follows[b]
    BY <1>2, <1>4 DEF Following
  <2> HIDE DEF L
  <2>3. CASE ReadItem(s, a).ok
    <3>1. PICK b \in a + 1 .. L, item \in ItemType :
            IsItemOf(s, a, b, item) /\ ReadItem(s, a) = Read(b, item)
      BY <2>3, NextPosition DEF L
    <3>2. from[a] = Prepend(Read(b, item), from[b])
      BY <2>1, <2>3, <3>1, Outcomes
    <3>3. from[a].ok <=> from[b].ok
      BY <3>2, Outcomes DEF Prepend
    <3>4. \A c \in a + 1 .. L : IsItem(s, a, c) <=> c = b
      <4> TAKE c \in a + 1 .. L
      <4>1. c \in a .. L /\ b \in a .. L
        BY <1>0
      <4>2. IsItem(s, a, b)
        BY <3>1, <4>1, ItemIs DEF L
      <4>3. ASSUME IsItem(s, a, c) PROVE c = b
        <5>1. PICK other \in ItemType : IsItemOf(s, a, c, other)
          BY <4>1, <4>3, ItemIs DEF L
        <5>2. ReadItem(s, a) = Read(c, other)
          BY <4>1, <5>1, ReadsItem DEF L
        <5>3. Read(b, item).pos = b /\ Read(c, other).pos = c
          BY Outcomes, Zenon
        <5> QED BY <3>1, <5>2, <5>3, Zenon
      <4> QED BY <4>2, <4>3
    <3>5. follows[a] <=> follows[b]
      BY <2>2, <3>4
    <3> QED BY <1>4, <3>3, <3>5
  <2>4. CASE ~ReadItem(s, a).ok
    <3>1. ~from[a].ok
      BY <2>1, <2>4, Outcomes
    <3>2. \A c \in a + 1 .. L : ~IsItem(s, a, c)
      <4> SUFFICES ASSUME NEW c \in a + 1 .. L, IsItem(s, a, c) PROVE FALSE
        OBVIOUS
      <4>1. c \in a .. L
        BY <1>0
      <4>2. PICK other \in ItemType : IsItemOf(s, a, c, other)
        BY <4>1, ItemIs DEF L
      <4>3. ReadItem(s, a) = Read(c, other)
        BY <4>1, <4>2, ReadsItem DEF L
      <4> QED BY <2>4, <4>3, Outcomes
    <3> QED BY <2>2, <3>1, <3>2
  <2> QED BY <2>3, <2>4
<1> HIDE DEF Agree, L
<1>5. 0 \in S
  BY <1>0, <1>3
<1>6. ASSUME NEW n \in Nat, n \in S PROVE n + 1 \in S
  <2> SUFFICES ASSUME NEW a \in 0 .. L, a >= L - (n + 1) PROVE Agree(a)
    OBVIOUS
  <2>1. \A q \in a + 1 .. L : Agree(q)
    BY <1>0, <1>6
  <2> QED BY <1>3, <1>4, <2>1
<1>7. L \in S
  <2> HIDE DEF S
  <2> QED BY <1>0, <1>5, <1>6, SetInduction
<1>8. Agree(0)
  BY <1>0, <1>7
<1> QED BY <1>1, <1>2, <1>8 DEF Agree

-----------------------------------------------------------------------------
(* Bytes behind an item do not change it                                   *)

LEMMA Agreeing ==
  ASSUME NEW s \in Seq(Byte), NEW t \in Seq(Byte), NEW a \in Nat, NEW b \in Nat,
         a <= b, b <= Len(s), b <= Len(t), \A i \in a + 1 .. b : s[i] = t[i]
  PROVE  /\ IsVarint(s, a, b) <=> IsVarint(t, a, b)
         /\ VarintValue(s, a, b) = VarintValue(t, a, b)
         /\ SubSeq(s, a + 1, b) = SubSeq(t, a + 1, b)
<1>1. IsVarint(s, a, b) <=> IsVarint(t, a, b)
  BY DEF IsVarint
<1>2. \A i \in 1 .. b - a : a + i \in a + 1 .. b
  OBVIOUS
<1>3. [i \in 1 .. b - a |-> s[a + i] % Base] = [i \in 1 .. b - a |-> t[a + i] % Base]
  BY <1>2
<1>4. SubSeq(s, a + 1, b) = SubSeq(t, a + 1, b)
  <2>1. /\ SubSeq(s, a + 1, b) = [i \in 1 .. b - a |-> s[a + i]]
        /\ SubSeq(t, a + 1, b) = [i \in 1 .. b - a |-> t[a + i]]
    BY FixedType
  <2> QED BY <1>2, <2>1
<1> QED BY <1>1, <1>3, <1>4, Zenon DEF VarintValue

LEMMA StillAnItem ==
  ASSUME NEW s \in Seq(Byte), NEW t \in Seq(Byte), NEW a \in 0 .. Len(s), NEW b \in a .. Len(s),
         b <= Len(t), \A i \in 1 .. b : s[i] = t[i], NEW item, IsItemOf(s, a, b, item)
  PROVE  IsItemOf(t, a, b, item)
<1>0. Len(s) \in Nat /\ Len(t) \in Nat
  OBVIOUS
<1>1. PICK k \in a + 1 .. b, value \in Nat, length \in Nat :
        /\ IsVarint(s, a, k)
        /\ Payload(s, k, b, KeyAt(s, a, k) % 8, value, length)
        /\ item = ItemOf(KeyAt(s, a, k), value, length)
  BY DEF IsItemOf
<1>2. \A c \in 0 .. b : \A d \in c .. b :
        /\ IsVarint(s, c, d) <=> IsVarint(t, c, d)
        /\ VarintValue(s, c, d) = VarintValue(t, c, d)
        /\ SubSeq(s, c + 1, d) = SubSeq(t, c + 1, d)
  <2> TAKE c \in 0 .. b
  <2> TAKE d \in c .. b
  <2>1. /\ c \in Nat /\ d \in Nat /\ c <= d /\ d <= Len(s) /\ d <= Len(t)
        /\ \A i \in c + 1 .. d : i \in 1 .. b
    BY <1>0
  <2> QED BY <2>1, Agreeing
<1>3. a \in 0 .. b /\ k \in a .. b /\ k \in 0 .. b /\ b \in k .. b
      /\ \A n \in k + 1 .. b : n \in k .. b
  BY <1>0
<1>4. IsVarint(t, a, k) /\ KeyAt(t, a, k) = KeyAt(s, a, k)
  BY <1>1, <1>2, <1>3, Zenon DEF KeyAt
<1> DEFINE type == KeyAt(s, a, k) % 8
<1> HIDE DEF type
<1>5. Payload(t, k, b, type, value, length)
  <2>1. Payload(s, k, b, type, value, length)
    BY <1>1 DEF type
  <2>2. /\ IsVarint(s, k, b) <=> IsVarint(t, k, b)
        /\ VarintValue(s, k, b) = VarintValue(t, k, b)
        /\ SubSeq(s, k + 1, b) = SubSeq(t, k + 1, b)
        /\ \A n \in k + 1 .. b : /\ IsVarint(s, k, n) <=> IsVarint(t, k, n)
                                 /\ VarintValue(s, k, n) = VarintValue(t, k, n)
    BY <1>2, <1>3
  <2> QED BY <2>1, <2>2, Zenon DEF Payload
<1> QED BY <1>1, <1>4, <1>5 DEF IsItemOf, type

(* An item more behind a message is an item more in what is read.          *)
LEMMA OneItemMore ==
  ASSUME NEW s \in Seq(Byte), NEW t \in Seq(Byte), NEW item,
         Len(s) <= Len(t), \A i \in 1 .. Len(s) : s[i] = t[i],
         IsItemOf(t, Len(s), Len(t), item), Items(s).ok,
         NEW T, item \in T, ItemType \subseteq T
  PROVE  /\ Items(s).value \in Seq(T)
         /\ Items(t) = Read(Len(t), Append(Items(s).value, item))
<1> DEFINE L == Len(s)
           M == Len(t)
<1>0. L \in Nat /\ M \in Nat
  OBVIOUS
<1>1. PICK from : Parsing(s, from) /\ Items(s) = from[0]
  BY ItemsRun
<1>2. PICK more : Parsing(t, more) /\ Items(t) = more[0]
  BY ItemsRun
<1> DEFINE Grown(a) ==
             from[a].ok => /\ from[a].value \in Seq(T)
                           /\ more[a] = Read(M, Append(from[a].value, item))
           S == {n \in Nat : \A a \in 0 .. L : a >= L - n => Grown(a)}
<1>3. Grown(L)
  <2>1. from[L] = Read(L, <<>>)
    BY <1>0, <1>1 DEF Parsing
  <2>2. from[L].value = <<>>
    BY <2>1, Outcomes
  <2>3. L # M
    BY <1>0 DEF IsItemOf
  <2>4. L \in 0 .. M /\ M \in L .. M /\ M \in 0 .. M
    BY <1>0
  <2>5. ReadItem(t, L) = Read(M, item)
    BY <2>4, ReadsItem
  <2>6. more[M] = Read(M, <<>>)
    BY <1>2, <2>4 DEF Parsing
  <2>7. more[L] = Prepend(Read(M, item), more[M])
    <3>1. more[L] = IF ReadItem(t, L).ok THEN Prepend(ReadItem(t, L), more[ReadItem(t, L).pos])
                    ELSE Failed
      BY <1>2, <2>3, <2>4 DEF Parsing
    <3> QED BY <2>5, <3>1, Outcomes
  <2>8. more[L] = Read(M, <<item>> \o <<>>)
    <3>1. /\ Read(M, <<>>).ok /\ Read(M, <<>>).pos = M /\ Read(M, <<>>).value = <<>>
          /\ Read(M, item).value = item
      BY Outcomes, Zenon
    <3>2. Prepend(Read(M, item), Read(M, <<>>)) = Read(M, <<item>> \o <<>>)
      BY <3>1, Zenon DEF Prepend
    <3> QED BY <2>6, <2>7, <3>2, Zenon
  <2>9. <<item>> \o <<>> = Append(<<>>, item)
    OBVIOUS
  <2>10. <<>> \in Seq(T)
    OBVIOUS
  <2> HIDE DEF L, M
  <2> QED BY <2>2, <2>8, <2>9, <2>10
<1>4. ASSUME NEW a \in 0 .. L, a # L, \A q \in a + 1 .. L : Grown(q)
      PROVE  Grown(a)
  <2>0. SUFFICES ASSUME from[a].ok
                 PROVE  from[a].value \in Seq(T) /\ more[a] = Read(M, Append(from[a].value, item))
    OBVIOUS
  <2>1. from[a] = IF ReadItem(s, a).ok THEN Prepend(ReadItem(s, a), from[ReadItem(s, a).pos])
                  ELSE Failed
    BY <1>1, <1>4 DEF Parsing
  <2>2. a \in 0 .. M /\ a # M
    BY <1>0, <1>4
  <2>3. more[a] = IF ReadItem(t, a).ok THEN Prepend(ReadItem(t, a), more[ReadItem(t, a).pos])
                  ELSE Failed
    BY <1>2, <2>2 DEF Parsing
  <2>4. ReadItem(s, a).ok
    BY <2>0, <2>1, Outcomes
  <2>5. PICK b \in a + 1 .. L, here \in ItemType :
          IsItemOf(s, a, b, here) /\ ReadItem(s, a) = Read(b, here)
    BY <2>4, NextPosition
  <2>6. b \in a .. L /\ b \in a .. M /\ b <= M /\ \A i \in 1 .. b : s[i] = t[i]
    BY <1>0
  <2>7. IsItemOf(t, a, b, here)
    BY <2>5, <2>6, StillAnItem
  <2>8. ReadItem(t, a) = Read(b, here)
    BY <2>2, <2>6, <2>7, ReadsItem
  <2>9. from[a] = Prepend(Read(b, here), from[b]) /\ more[a] = Prepend(Read(b, here), more[b])
    BY <2>1, <2>3, <2>4, <2>5, <2>8, Outcomes
  <2>10. from[b].ok /\ from[a] = Read(from[b].pos, <<here>> \o from[b].value)
    BY <2>0, <2>9, Outcomes DEF Prepend
  <2>11. from[b].value \in Seq(T) /\ more[b] = Read(M, Append(from[b].value, item))
    BY <1>4, <2>10
  <2> HIDE DEF L, M
  <2>12. more[a] = Read(M, <<here>> \o Append(from[b].value, item))
    BY <2>9, <2>11, Outcomes DEF Prepend
  <2>13. from[a].value = <<here>> \o from[b].value
    <3>1. Read(from[b].pos, <<here>> \o from[b].value).value = <<here>> \o from[b].value
      BY Outcomes, Zenon
    <3> QED BY <2>10, <3>1, Zenon
  <2> DEFINE v == from[b].value
  <2>14. v \in Seq(T) /\ here \in T
    BY <2>5, <2>11
  <2> HIDE DEF v
  <2>15. /\ <<here>> \o v \in Seq(T)
         /\ <<here>> \o Append(v, item) = Append(<<here>> \o v, item)
    BY <2>14
  <2> QED BY <2>12, <2>13, <2>15 DEF v
<1> HIDE DEF Grown, L
<1>5. 0 \in S
  BY <1>0, <1>3
<1>6. ASSUME NEW n \in Nat, n \in S PROVE n + 1 \in S
  <2> SUFFICES ASSUME NEW a \in 0 .. L, a >= L - (n + 1) PROVE Grown(a)
    OBVIOUS
  <2>1. \A q \in a + 1 .. L : Grown(q)
    BY <1>0, <1>6
  <2> QED BY <1>3, <1>4, <2>1
<1>7. L \in S
  <2> HIDE DEF S
  <2> QED BY <1>0, <1>5, <1>6, SetInduction
<1>8. Grown(0)
  BY <1>0, <1>7
<1> QED BY <1>1, <1>2, <1>8 DEF Grown

(* What is read are items.                                                 *)
LEMMA ItemsType ==
  ASSUME NEW s \in Seq(Byte), Items(s).ok
  PROVE  Items(s).value \in Seq(ItemType)
<1> DEFINE L == Len(s)
<1>0. L \in Nat
  OBVIOUS
<1>1. PICK from : Parsing(s, from) /\ Items(s) = from[0]
  BY ItemsRun
<1> DEFINE Typed(a) == from[a].ok => from[a].value \in Seq(ItemType)
           S == {n \in Nat : \A a \in 0 .. L : a >= L - n => Typed(a)}
<1>3. Typed(L)
  <2>1. from[L] = Read(L, <<>>)
    BY <1>0, <1>1 DEF Parsing
  <2>2. from[L].value = <<>>
    <3>1. Read(L, <<>>).value = <<>>
      BY Outcomes, Zenon
    <3> QED BY <2>1, <3>1, Zenon
  <2>3. <<>> \in Seq(ItemType)
    OBVIOUS
  <2> QED BY <2>2, <2>3
<1>4. ASSUME NEW a \in 0 .. L, a # L, \A q \in a + 1 .. L : Typed(q)
      PROVE  Typed(a)
  <2>0. SUFFICES ASSUME from[a].ok PROVE from[a].value \in Seq(ItemType)
    OBVIOUS
  <2>1. from[a] = IF ReadItem(s, a).ok THEN Prepend(ReadItem(s, a), from[ReadItem(s, a).pos])
                  ELSE Failed
    BY <1>1, <1>4 DEF Parsing
  <2>4. ReadItem(s, a).ok
    BY <2>0, <2>1, Outcomes
  <2>5. PICK b \in a + 1 .. L, here \in ItemType : ReadItem(s, a) = Read(b, here)
    BY <2>4, NextPosition
  <2>9. from[a] = Prepend(Read(b, here), from[b])
    BY <2>1, <2>4, <2>5, Outcomes
  <2>10. from[b].ok /\ from[a] = Read(from[b].pos, <<here>> \o from[b].value)
    BY <2>0, <2>9, Outcomes DEF Prepend
  <2>11. from[b].value \in Seq(ItemType)
    BY <1>4, <2>10
  <2>13. from[a].value = <<here>> \o from[b].value
    <3>1. Read(from[b].pos, <<here>> \o from[b].value).value = <<here>> \o from[b].value
      BY Outcomes, Zenon
    <3> QED BY <2>10, <3>1, Zenon
  <2> DEFINE v == from[b].value
  <2>14. v \in Seq(ItemType)
    BY <2>11
  <2> HIDE DEF v, ItemType
  <2>15. <<here>> \o v \in Seq(ItemType)
    BY <2>14
  <2> QED BY <2>13, <2>15 DEF v
<1> HIDE DEF Typed, L
<1>5. 0 \in S
  BY <1>0, <1>3
<1>6. ASSUME NEW n \in Nat, n \in S PROVE n + 1 \in S
  <2> SUFFICES ASSUME NEW a \in 0 .. L, a >= L - (n + 1) PROVE Typed(a)
    OBVIOUS
  <2>1. \A q \in a + 1 .. L : Typed(q)
    BY <1>0, <1>6
  <2> QED BY <1>3, <1>4, <2>1
<1>7. L \in S
  <2> HIDE DEF S
  <2> QED BY <1>0, <1>5, <1>6, SetInduction
<1>8. Typed(0)
  BY <1>0, <1>7
<1> QED BY <1>1, <1>8 DEF Typed

-----------------------------------------------------------------------------
(* The encoder                                                             *)

LEMMA SmallMod ==
  ASSUME NEW m \in Nat \ {0}, NEW n \in 0 .. m - 1
  PROVE  n % m = n
<1>1. m * 0 + n = n
  OBVIOUS
<1>2. (m * 0 + n) % m = n
  <2>1. 0 \in Int
    OBVIOUS
  <2> QED BY <2>1, DivModUnique, Zenon
<1> QED BY <1>1, <1>2, Zenon

LEMMA Sizes ==
  /\ Base \in Nat \ {0} /\ Base > 1 /\ Wide \in Nat \ {0} /\ Narrow \in Nat \ {0}
  /\ Narrow > 0 /\ Wide - 1 \in Nat /\ 8 * Narrow <= Wide /\ Narrow <= Wide
  /\ 2 * Base \in Nat \ {0} /\ VarintMax \in Nat
BY WireAssumption

(* A varint is what IsVarint asks for, wherever it stands, of this value.  *)
LEMMA VarintEncodes ==
  ASSUME NEW n \in 0 .. Wide - 1
  PROVE  /\ Varint(n) \in Seq(Byte)
         /\ \A s \in Seq(Byte) : \A a \in 0 .. Len(s) :
              LET b == a + Len(Varint(n))
              IN  b <= Len(s) /\ (\A i \in 1 .. Len(Varint(n)) : s[a + i] = Varint(n)[i])
                    => b \in a + 1 .. Len(s) /\ IsVarint(s, a, b) /\ VarintValue(s, a, b) = n
<1> DEFINE lengths == {k \in 1 .. VarintMax : Without(n, Base, k) = 0}
           k == CHOOSE k \in lengths : \A m \in lengths : k <= m
           digits == Digits(n, Base, k)
           v == [i \in 1 .. k |-> IF i < k THEN Base + digits[i] ELSE digits[i]]
<1>0. n \in Nat /\ n <= Wide - 1
  BY Sizes
<1>1. Varint(n) = v
  BY Zenon DEF Varint
<1>2. VarintMax \in lengths
  <2>1. Without(n, Base, VarintMax) <= Without(Wide - 1, Base, VarintMax)
    BY <1>0, Sizes, WithoutMonotone
  <2>2. Without(n, Base, VarintMax) \in Nat
    BY <1>0, Sizes, WithoutType
  <2>3. Without(Wide - 1, Base, VarintMax) = 0 /\ VarintMax \in Nat \ {0}
    BY WireAssumption
  <2>4. Without(n, Base, VarintMax) = 0
    BY <2>1, <2>2, <2>3
  <2> QED BY <2>3, <2>4
<1>3. k \in lengths
  <2>1. lengths \subseteq Nat
    OBVIOUS
  <2> HIDE DEF lengths
  <2>2. \E m \in lengths : \A o \in lengths : m <= o
    BY <1>2, <2>1, LeastOf
  <2> QED BY <2>2
<1>4. k \in 1 .. VarintMax /\ Without(n, Base, k) = 0
  <2> HIDE DEF k
  <2> QED BY <1>3
<1> HIDE DEF k
<1>5. k \in Nat /\ k >= 1 /\ k <= VarintMax
  BY <1>4, Sizes
<1>6. \A i \in 1 .. k : digits[i] \in 0 .. Base - 1
  <2> TAKE i \in 1 .. k
  <2>1. i - 1 \in Nat
    BY <1>5
  <2>2. Without(n, Base, i - 1) \in Nat
    BY <1>0, <2>1, Sizes, WithoutType
  <2>3. Without(n, Base, i - 1) % Base \in 0 .. Base - 1
    BY <2>2, Sizes, DivMod, Zenon
  <2>4. digits[i] = Without(n, Base, i - 1) % Base
    BY Zenon DEF Digits
  <2> QED BY <2>3, <2>4, Zenon
<1>7. digits = [i \in 1 .. k |-> digits[i]]
  BY DEF Digits
<1>8. Value(digits, Base) = n
  BY <1>0, <1>4, <1>5, Sizes, ValueOfDigits
<1> HIDE DEF digits
<1>9. /\ v \in Seq(Byte) /\ Len(v) = k
      /\ \A i \in 1 .. k : /\ v[i] < Base <=> i = k
                           /\ v[i] = digits[i] \/ v[i] = Base + digits[i]
  <2>1. \A i \in 1 .. k : v[i] \in Byte
    BY <1>5, <1>6, Sizes DEF Byte
  <2>2. v \in Seq(Byte) /\ Len(v) = k
    <3>1. v \in [1 .. k -> Byte]
      BY <2>1
    <3> HIDE DEF v
    <3> QED BY <1>5, <3>1
  <2>3. \A i \in 1 .. k : v[i] = digits[i] \/ v[i] = Base + digits[i]
    OBVIOUS
  <2>4. \A i \in 1 .. k : v[i] < Base <=> i = k
    BY <1>5, <1>6, Sizes
  <2> QED BY <2>2, <2>3, <2>4
<1> HIDE DEF v
<1>10. \A i \in 1 .. k : v[i] % Base = digits[i]
  <2> TAKE i \in 1 .. k
  <2>1. digits[i] \in 0 .. Base - 1
    BY <1>6
  <2>2. digits[i] % Base = digits[i]
    BY <2>1, Sizes, SmallMod, Zenon
  <2>3. (Base + digits[i]) % Base = digits[i]
    <3> DEFINE d == digits[i]
    <3>1. d \in 0 .. Base - 1
      BY <2>1
    <3> HIDE DEF d
    <3>2. 1 \in Int /\ Base * 1 + d = Base + d
      BY <3>1, Sizes
    <3>3. (Base * 1 + d) % Base = d
      BY <3>1, <3>2, Sizes, DivModUnique, Zenon
    <3> QED BY <3>2, <3>3, Zenon DEF d
  <2>4. v[i] = digits[i] \/ v[i] = Base + digits[i]
    BY <1>9
  <2> QED BY <2>2, <2>3, <2>4, Zenon
<1>11. ASSUME NEW s \in Seq(Byte), NEW a \in 0 .. Len(s), a + k <= Len(s),
              \A i \in 1 .. k : s[a + i] = v[i]
       PROVE  a + k \in a + 1 .. Len(s) /\ IsVarint(s, a, a + k) /\ VarintValue(s, a, a + k) = n
  <2>0. a \in Nat /\ Len(s) \in Nat
    OBVIOUS
  <2> DEFINE b == a + k
  <2>1. b \in a + 1 .. Len(s) /\ b - a = k /\ b \in Nat
    BY <1>5, <1>11, <2>0
  <2>2. \A i \in a + 1 .. b : s[i] < Base <=> i = b
    <3> TAKE i \in a + 1 .. b
    <3>1. i - a \in 1 .. k /\ a + (i - a) = i /\ (i - a = k <=> i = b)
      BY <1>5, <2>0
    <3>2. s[i] = v[i - a]
      BY <1>11, <3>1
    <3> QED BY <1>9, <3>1, <3>2
  <2> HIDE DEF b
  <2>3. IsVarint(s, a, b)
    BY <1>4, <2>1, <2>2 DEF IsVarint
  <2>4. [i \in 1 .. b - a |-> s[a + i] % Base] = digits
    <3>1. \A i \in 1 .. k : s[a + i] % Base = digits[i]
      BY <1>10, <1>11
    <3>2. [i \in 1 .. k |-> s[a + i] % Base] = [i \in 1 .. k |-> digits[i]]
      BY <3>1, Zenon
    <3> QED BY <1>7, <2>1, <3>2, Zenon
  <2>5. VarintValue(s, a, b) = n
    BY <1>8, <2>4, Zenon DEF VarintValue
  <2> QED BY <2>1, <2>3, <2>5 DEF b
<1> QED BY <1>1, <1>9, <1>11

LEMMA FixedEncodes ==
  ASSUME NEW n \in 0 .. Wide - 1, NEW bytes \in Nat, Without(n, 2 * Base, bytes) = 0
  PROVE  /\ Fixed(n, bytes) \in Seq(Byte) /\ Len(Fixed(n, bytes)) = bytes
         /\ Number(Fixed(n, bytes), 2 * Base) = n
<1> DEFINE f == Fixed(n, bytes)
<1>0. n \in Nat
  BY Sizes
<1>1. \A i \in 1 .. bytes : Without(n, 2 * Base, i - 1) % (2 * Base) \in Byte
  <2> TAKE i \in 1 .. bytes
  <2>1. i - 1 \in Nat
    OBVIOUS
  <2>2. Without(n, 2 * Base, i - 1) \in Nat
    BY <1>0, <2>1, Sizes, WithoutType
  <2> QED BY <2>2, Sizes, DivMod, Zenon DEF Byte
<1>2. f \in [1 .. bytes -> Byte]
  BY <1>1 DEF Fixed, Digits
<1>3. f \in Seq(Byte) /\ Len(f) = bytes
  <2> HIDE DEF f
  <2> QED BY <1>2
<1>4. Value(f, 2 * Base) = n
  BY <1>0, Sizes, ValueOfDigits DEF Fixed
<1>5. n % Wide = n
  BY Sizes, SmallMod, Zenon
<1> HIDE DEF f
<1>6. Number(f, 2 * Base) = n
  BY <1>4, <1>5, Zenon DEF Number
<1> QED BY <1>3, <1>6 DEF f

Types == {0, 1, 2, 5}

SentItem == [field : 0 .. Narrow - 1, type : Types, value : Nat, length : Nat]

LEMMA KeyOf ==
  ASSUME NEW field \in 0 .. Narrow - 1, NEW type \in Types
  PROVE  LET key == 8 * field + type
         IN  /\ key \in 0 .. Wide - 1
             /\ key % Wide = key /\ key % 8 = type /\ (key \div 8) % Narrow = field
<1> DEFINE key == 8 * field + type
<1>1. field \in Nat /\ type \in 0 .. 7 /\ field + 1 <= Narrow
  BY Sizes DEF Types
<1>2. key \in Nat /\ key < 8 * Narrow
  BY <1>1, Sizes
<1>3. key \in 0 .. Wide - 1
  BY <1>2, Sizes
<1>4. key \div 8 = field /\ key % 8 = type
  BY <1>1
<1>5. field % Narrow = field
  BY Sizes, SmallMod, Zenon
<1> HIDE DEF key
<1>6. key % Wide = key
  BY <1>3, Sizes, SmallMod, Zenon
<1>7. (key \div 8) % Narrow = field
  BY <1>4, <1>5, Zenon
<1> QED BY <1>3, <1>4, <1>6, <1>7 DEF key

(* What stands behind the key in Encode, and what it is read as.           *)
PayloadOf(item) ==
  CASE item.type = 0 -> Varint(item.value)
    [] item.type = 1 -> Fixed(item.value, Fixed64)
    [] item.type = 5 -> Fixed(item.value, Fixed32)
    [] item.type = 2 -> Varint(item.length) \o [i \in 1 .. item.length |-> Base]

(* The bytes of s behind a are those of p. *)
StandsAt(s, a, p) == a + Len(p) = Len(s) /\ \A i \in 1 .. Len(p) : s[a + i] = p[i]

LEMMA TypeCases ==
  ASSUME NEW item
  PROVE  /\ item.type = 0 => PayloadOf(item) = Varint(item.value)
         /\ item.type = 1 => PayloadOf(item) = Fixed(item.value, Fixed64)
         /\ item.type = 5 => PayloadOf(item) = Fixed(item.value, Fixed32)
         /\ item.type = 2 =>
              PayloadOf(item) = Varint(item.length) \o [i \in 1 .. item.length |-> Base]
<1> DEFINE t == item.type
           p == PayloadOf(item)
           A == Varint(item.value)
           B == Fixed(item.value, Fixed64)
           C == Fixed(item.value, Fixed32)
           D == Varint(item.length) \o [i \in 1 .. item.length |-> Base]
<1>1. p = CASE t = 0 -> A [] t = 1 -> B [] t = 5 -> C [] t = 2 -> D
  BY Zenon DEF PayloadOf
<1> HIDE DEF t, p, A, B, C, D
<1>3. (t = 0 => p = A) /\ (t = 1 => p = B) /\ (t = 5 => p = C) /\ (t = 2 => p = D)
  BY <1>1
<1> QED BY <1>3, Zenon DEF t, p, A, B, C, D

LEMMA Concatenated ==
  ASSUME NEW S, NEW v \in Seq(S), NEW p \in Seq(S)
  PROVE  /\ v \o p \in Seq(S) /\ Len(v \o p) = Len(v) + Len(p)
         /\ Len(v) \in Nat /\ Len(p) \in Nat
         /\ \A i \in 1 .. Len(v) : (v \o p)[i] = v[i]
         /\ \A i \in 1 .. Len(p) : (v \o p)[Len(v) + i] = p[i]
<1>1. v \o p \in Seq(S) /\ Len(v) \in Nat /\ Len(p) \in Nat /\ Len(v \o p) = Len(v) + Len(p)
  OBVIOUS
<1>2. \A i \in 1 .. Len(v) : (v \o p)[i] = v[i]
  OBVIOUS
<1>3. \A i \in 1 .. Len(p) : (v \o p)[Len(v) + i] = p[i]
  OBVIOUS
<1> QED BY <1>1, <1>2, <1>3

LEMMA PayloadEncodes ==
  ASSUME NEW item \in SentItem, Encodable(item)
  PROVE  /\ PayloadOf(item) \in Seq(Byte)
         /\ \A s \in Seq(Byte) : \A k \in 0 .. Len(s) :
              StandsAt(s, k, PayloadOf(item))
                => Payload(s, k, Len(s), item.type, item.value, item.length)
<1> DEFINE p == PayloadOf(item)
<1>0. /\ item.type \in Types /\ item.value \in Nat /\ item.length \in Nat
  BY DEF SentItem
<1>1. CASE item.type = 0
  <2>1. p = Varint(item.value) /\ item.value \in 0 .. Wide - 1 /\ item.length = 0
    BY <1>1, TypeCases DEF Encodable
  <2>2. item.value % Wide = item.value
    BY <2>1, Sizes, SmallMod, Zenon
  <2>3. p \in Seq(Byte)
    BY <2>1, VarintEncodes
  <2>4. ASSUME NEW s \in Seq(Byte), NEW k \in 0 .. Len(s), StandsAt(s, k, p)
        PROVE  Payload(s, k, Len(s), item.type, item.value, item.length)
    <3> HIDE DEF p
    <3>1. k + Len(p) = Len(s) /\ k + Len(p) <= Len(s) /\ \A i \in 1 .. Len(p) : s[k + i] = p[i]
      BY <2>3, <2>4 DEF StandsAt
    <3>2. IsVarint(s, k, Len(s)) /\ VarintValue(s, k, Len(s)) = item.value
      <4>1. LET b == k + Len(Varint(item.value))
            IN  (/\ b <= Len(s)
                 /\ \A i \in 1 .. Len(Varint(item.value)) : s[k + i] = Varint(item.value)[i])
                  => b \in k + 1 .. Len(s) /\ IsVarint(s, k, b) /\ VarintValue(s, k, b) = item.value
        BY <2>1, VarintEncodes
      <4> QED BY <2>1, <3>1, <4>1
    <3> QED BY <1>1, <2>1, <2>2, <3>2 DEF Payload
  <2> QED BY <2>3, <2>4
<1>2. ASSUME NEW bytes \in Nat, p = Fixed(item.value, bytes), item.value \in 0 .. Wide - 1,
             item.length = bytes, Without(item.value, 2 * Base, bytes) = 0,
             \/ item.type = 1 /\ bytes = Fixed64
             \/ item.type = 5 /\ bytes = Fixed32
      PROVE  /\ p \in Seq(Byte)
             /\ \A s \in Seq(Byte) : \A k \in 0 .. Len(s) :
                  StandsAt(s, k, p) => Payload(s, k, Len(s), item.type, item.value, item.length)
  <2>1. p \in Seq(Byte) /\ Len(p) = bytes /\ Number(p, 2 * Base) = item.value
    BY <1>2, FixedEncodes
  <2>2. ASSUME NEW s \in Seq(Byte), NEW k \in 0 .. Len(s), StandsAt(s, k, p)
        PROVE  Payload(s, k, Len(s), item.type, item.value, item.length)
    <3> HIDE DEF p
    <3>0. Len(s) \in Nat
      OBVIOUS
    <3>1. Len(s) - k = bytes /\ \A i \in 1 .. bytes : s[k + i] = p[i]
      BY <2>1, <2>2, <3>0 DEF StandsAt
    <3>2. p = [i \in 1 .. bytes |-> p[i]]
      BY <2>1
    <3>3. SubSeq(s, k + 1, Len(s)) = [i \in 1 .. Len(s) - k |-> s[k + i]]
      BY <3>0, FixedType
    <3>4. [i \in 1 .. Len(s) - k |-> s[k + i]] = [i \in 1 .. bytes |-> p[i]]
      BY <3>1
    <3>5. Number(SubSeq(s, k + 1, Len(s)), 2 * Base) = item.value
      BY <2>1, <3>2, <3>3, <3>4, Zenon
    <3> QED BY <1>2, <3>1, <3>5 DEF Payload
  <2> QED BY <2>1, <2>2
<1>3. CASE item.type = 1
  <2>1. /\ p = Fixed(item.value, Fixed64) /\ item.value \in 0 .. Wide - 1
        /\ item.length = Fixed64 /\ Without(item.value, 2 * Base, Fixed64) = 0
    BY <1>3, TypeCases DEF Encodable
  <2> HIDE DEF p
  <2>2. /\ p \in Seq(Byte)
        /\ \A s \in Seq(Byte) : \A k \in 0 .. Len(s) :
             StandsAt(s, k, p) => Payload(s, k, Len(s), item.type, item.value, item.length)
    BY <1>2, <1>3, <2>1, WireAssumption
  <2> QED BY <2>2 DEF p
<1>4. CASE item.type = 5
  <2>1. /\ p = Fixed(item.value, Fixed32) /\ item.value \in 0 .. Wide - 1
        /\ item.length = Fixed32 /\ Without(item.value, 2 * Base, Fixed32) = 0
    BY <1>4, TypeCases DEF Encodable
  <2> HIDE DEF p
  <2>2. /\ p \in Seq(Byte)
        /\ \A s \in Seq(Byte) : \A k \in 0 .. Len(s) :
             StandsAt(s, k, p) => Payload(s, k, Len(s), item.type, item.value, item.length)
    BY <1>2, <1>4, <2>1, WireAssumption
  <2> QED BY <2>2 DEF p
<1>5. CASE item.type = 2
  <2> DEFINE l == item.length
             v == Varint(l)
             blanks == [i \in 1 .. l |-> Base]
  <2>1. p = v \o blanks /\ item.value = 0 /\ l \in 0 .. Narrow - 1
    BY <1>5, TypeCases DEF Encodable
  <2>2. l \in Nat /\ l \in 0 .. Wide - 1
    BY <2>1, Sizes
  <2>3. l % Wide = l /\ l % Narrow = l
    BY <2>1, <2>2, Sizes, SmallMod, Zenon
  <2>4. v \in Seq(Byte)
    BY <2>2, VarintEncodes
  <2>5. blanks \in Seq(Byte) /\ Len(blanks) = l
    <3>1. Base \in Byte
      BY Sizes DEF Byte
    <3>2. blanks \in [1 .. l -> Byte]
      BY <3>1
    <3> HIDE DEF blanks, l
    <3> QED BY <2>2, <3>2
  <2> HIDE DEF v, blanks
  <2>6. p \in Seq(Byte) /\ Len(p) = Len(v) + l /\ \A i \in 1 .. Len(v) : p[i] = v[i]
    <3> HIDE DEF p, l
    <3>1. /\ v \o blanks \in Seq(Byte) /\ Len(v \o blanks) = Len(v) + Len(blanks)
          /\ \A i \in 1 .. Len(v) : (v \o blanks)[i] = v[i]
      BY <2>4, <2>5, Concatenated
    <3> QED BY <2>1, <2>5, <3>1
  <2>7. ASSUME NEW s \in Seq(Byte), NEW k \in 0 .. Len(s), StandsAt(s, k, p)
        PROVE  Payload(s, k, Len(s), item.type, item.value, item.length)
    <3> HIDE DEF p
    <3>0. Len(s) \in Nat /\ Len(v) \in Nat
      BY <2>4
    <3> DEFINE n == k + Len(v)
    <3>1. n <= Len(s) /\ Len(s) - n = l /\ \A i \in 1 .. Len(v) : s[k + i] = v[i]
      <4>1. k + Len(p) = Len(s) /\ \A i \in 1 .. Len(p) : s[k + i] = p[i]
        BY <2>7 DEF StandsAt
      <4>2. k + (Len(v) + l) = Len(s) /\ \A i \in 1 .. Len(v) : i \in 1 .. Len(p)
        BY <2>2, <2>6, <3>0, <4>1
      <4>3. \A i \in 1 .. Len(v) : s[k + i] = v[i]
        BY <2>6, <4>1, <4>2
      <4> HIDE DEF l
      <4> QED BY <2>2, <3>0, <4>2, <4>3
    <3>2. n \in k + 1 .. Len(s) /\ IsVarint(s, k, n) /\ VarintValue(s, k, n) = l
      <4> USE DEF v
      <4> QED BY <2>2, <3>1, VarintEncodes
    <3> HIDE DEF n
    <3>3. VarintValue(s, k, n) % Wide = Len(s) - n /\ item.length = (Len(s) - n) % Narrow
      BY <2>3, <3>1, <3>2, Zenon DEF l
    <3> QED BY <1>5, <2>1, <3>2, <3>3 DEF Payload
  <2> QED BY <2>6, <2>7
<1> QED BY <1>0, <1>1, <1>3, <1>4, <1>5 DEF Types

LEMMA EncodesItem ==
  ASSUME NEW item \in SentItem, Encodable(item), NEW s \in Seq(Byte)
  PROVE  LET t == s \o Encode(item)
         IN  /\ t \in Seq(Byte) /\ Len(s) <= Len(t) /\ \A i \in 1 .. Len(s) : s[i] = t[i]
             /\ IsItemOf(t, Len(s), Len(t), item)
<1> DEFINE key == 8 * item.field + item.type
           v == Varint(key)
           p == PayloadOf(item)
           t == s \o Encode(item)
           a == Len(s)
           k == a + Len(v)
<1>0. /\ item.field \in 0 .. Narrow - 1 /\ item.type \in Types
      /\ item.value \in Nat /\ item.length \in Nat
      /\ item = [field |-> item.field, type |-> item.type,
                 value |-> item.value, length |-> item.length]
  BY DEF SentItem
<1>1. Encode(item) = v \o p
  BY Zenon DEF Encode, PayloadOf
<1>2. /\ key \in 0 .. Wide - 1
      /\ key % Wide = key /\ key % 8 = item.type /\ (key \div 8) % Narrow = item.field
  BY <1>0, KeyOf
<1> HIDE DEF key
<1>3. v \in Seq(Byte) /\ p \in Seq(Byte)
  BY <1>2, VarintEncodes, PayloadEncodes
<1> HIDE DEF v, p
<1>4. /\ t \in Seq(Byte) /\ Len(t) = Len(s) + Len(v) + Len(p)
      /\ \A i \in 1 .. Len(s) : t[i] = s[i]
      /\ \A i \in 1 .. Len(v) : t[Len(s) + i] = v[i]
      /\ \A i \in 1 .. Len(p) : t[(Len(s) + Len(v)) + i] = p[i]
  <2> DEFINE e == v \o p
  <2>1. /\ e \in Seq(Byte) /\ Len(e) = Len(v) + Len(p)
        /\ \A i \in 1 .. Len(v) : e[i] = v[i]
        /\ \A i \in 1 .. Len(p) : e[Len(v) + i] = p[i]
    BY <1>3, Concatenated
  <2> HIDE DEF e
  <2>2. t = s \o e
    BY <1>1 DEF e
  <2>3. /\ t \in Seq(Byte) /\ Len(t) = Len(s) + Len(e)
        /\ \A i \in 1 .. Len(s) : t[i] = s[i]
        /\ \A i \in 1 .. Len(e) : t[Len(s) + i] = e[i]
    BY <2>1, <2>2, Concatenated
  <2>4. Len(s) \in Nat /\ Len(v) \in Nat /\ Len(p) \in Nat
    BY <1>3
  <2>5. \A i \in 1 .. Len(v) : t[Len(s) + i] = v[i]
    BY <2>1, <2>3, <2>4
  <2>6. ASSUME NEW i \in 1 .. Len(p) PROVE t[(Len(s) + Len(v)) + i] = p[i]
    <3>1. Len(v) + i \in 1 .. Len(e) /\ Len(s) + (Len(v) + i) = (Len(s) + Len(v)) + i
      BY <2>1, <2>4
    <3>2. t[Len(s) + (Len(v) + i)] = e[Len(v) + i] /\ e[Len(v) + i] = p[i]
      BY <2>1, <2>3, <3>1
    <3> QED BY <3>1, <3>2
  <2> QED BY <2>1, <2>3, <2>4, <2>5, <2>6
<1> HIDE DEF t
<1>5. a \in Nat /\ Len(v) \in Nat /\ Len(p) \in Nat /\ a \in 0 .. Len(t) /\ k <= Len(t)
      /\ k + Len(p) = Len(t) /\ Len(t) \in Nat
  BY <1>3, <1>4
<1>6. k \in a + 1 .. Len(t) /\ IsVarint(t, a, k) /\ VarintValue(t, a, k) = key
  <2>1. \A i \in 1 .. Len(v) : t[a + i] = v[i]
    BY <1>4
  <2> USE DEF v
  <2> QED BY <1>2, <1>4, <1>5, <2>1, VarintEncodes
<1>7. KeyAt(t, a, k) = key
  BY <1>2, <1>6, Zenon DEF KeyAt
<1>8. Payload(t, k, Len(t), item.type, item.value, item.length)
  <2>1. StandsAt(t, k, p) /\ k \in 0 .. Len(t)
    BY <1>4, <1>5 DEF StandsAt
  <2> HIDE DEF k
  <2> QED BY <1>4, <2>1, PayloadEncodes DEF p
<1>9. item = ItemOf(key, item.value, item.length)
  BY <1>0, <1>2, Zenon DEF ItemOf
<1>10. IsItemOf(t, a, Len(t), item)
  <2> HIDE DEF a, k
  <2> QED BY <1>0, <1>2, <1>6, <1>7, <1>8, <1>9 DEF IsItemOf
<1> QED BY <1>4, <1>5, <1>10 DEF t

-----------------------------------------------------------------------------
(* What a message says                                                     *)

After(items, after) ==
  after = [i \in 0 .. Len(items) |-> IF i = 0 THEN Nothing ELSE TakeItem(after[i - 1], items[i])]

LEMMA MeaningRuns ==
  ASSUME NEW items, Len(items) \in Nat
  PROVE  \E after : After(items, after) /\ Meaning(items) = after[Len(items)]
<1> DEFINE V(data, i) == TakeItem(data, items[i])
           Runs(n, run) == run = [i \in 0 .. n |-> IF i = 0 THEN Nothing ELSE V(run[i - 1], i)]
           S == {n \in Nat : \E run : Runs(n, run)}
<1> HIDE DEF V
<1>1. 0 \in S
  <2>1. Runs(0, [i \in 0 .. 0 |-> Nothing])
    OBVIOUS
  <2> QED BY <2>1
<1>2. ASSUME NEW n \in Nat, n \in S PROVE n + 1 \in S
  <2>1. PICK old : Runs(n, old)
    BY <1>2
  <2> DEFINE new == [i \in 0 .. n + 1 |-> IF i = n + 1 THEN V(old[n], n + 1) ELSE old[i]]
  <2>2. \A i \in 0 .. n + 1 : new[i] = IF i = 0 THEN Nothing ELSE V(new[i - 1], i)
    BY <2>1
  <2>3. Runs(n + 1, new)
    BY <2>2
  <2>4. \E run : Runs(n + 1, run)
    <3> HIDE DEF new, Runs
    <3> QED BY <2>3
  <2> QED BY <2>4
<1>3. Nat \subseteq S
  <2> HIDE DEF S
  <2> QED BY <1>1, <1>2, SetInduction
<1>4. \E run : Runs(Len(items), run)
  BY <1>3
<1> DEFINE after[i \in 0 .. Len(items)] ==
             IF i = 0 THEN Nothing ELSE TakeItem(after[i - 1], items[i])
<1>5. Meaning(items) = after[Len(items)]
  BY Zenon DEF Meaning
<1>6. Runs(Len(items), after)
  BY <1>4 DEF V
<1>7. After(items, after)
  BY <1>6 DEF V, After
<1> QED BY <1>5, <1>7

LEMMA MeaningOfPrefix ==
  ASSUME NEW items, Len(items) \in Nat, NEW after, After(items, after),
         NEW more, Len(more) \in Nat, NEW later, After(more, later),
         Len(items) <= Len(more), \A i \in 1 .. Len(items) : items[i] = more[i]
  PROVE  after[Len(items)] = later[Len(items)]
<1> DEFINE k == Len(items)
           S == {i \in Nat : i <= k => after[i] = later[i]}
<1>1. 0 \in S
  BY DEF After
<1>2. ASSUME NEW i \in Nat, i \in S PROVE i + 1 \in S
  <2>1. SUFFICES ASSUME i + 1 <= k PROVE after[i + 1] = later[i + 1]
    OBVIOUS
  <2>2. /\ after[i + 1] = TakeItem(after[(i + 1) - 1], items[i + 1])
        /\ later[i + 1] = TakeItem(later[(i + 1) - 1], more[i + 1])
    <3>1. i + 1 \in 0 .. k /\ i + 1 \in 0 .. Len(more) /\ i + 1 # 0
      BY <2>1
    <3> QED BY <3>1 DEF After
  <2>3. after[i] = later[i] /\ (i + 1) - 1 = i /\ items[i + 1] = more[i + 1]
    BY <1>2, <2>1
  <2> QED BY <2>2, <2>3
<1>3. k \in S
  <2> HIDE DEF S
  <2> QED BY <1>1, <1>2, SetInduction
<1> QED BY <1>3

LEMMA AppendFacts ==
  ASSUME NEW T, NEW items \in Seq(T), NEW x \in T
  PROVE  LET m == Append(items, x)
         IN  /\ m \in Seq(T) /\ Len(items) \in Nat /\ Len(m) = Len(items) + 1
             /\ DOMAIN items = 1 .. Len(items) /\ DOMAIN m = 1 .. Len(items) + 1
             /\ m[Len(items) + 1] = x /\ \A i \in 1 .. Len(items) : m[i] = items[i]
OBVIOUS

LEMMA MeaningStep ==
  /\ Meaning(<<>>) = Nothing
  /\ \A T : \A items \in Seq(T), x \in T :
       Meaning(Append(items, x)) = TakeItem(Meaning(items), x)
<1>1. Meaning(<<>>) = Nothing
  <2>1. Len(<<>>) = 0
    OBVIOUS
  <2>2. PICK after : After(<<>>, after) /\ Meaning(<<>>) = after[0]
    BY <2>1, MeaningRuns
  <2> QED BY <2>1, <2>2 DEF After
<1>2. ASSUME NEW T, NEW items \in Seq(T), NEW x \in T
      PROVE  Meaning(Append(items, x)) = TakeItem(Meaning(items), x)
  <2> DEFINE m == Append(items, x)
             n == Len(items)
  <2>1. /\ n \in Nat /\ Len(m) = n + 1 /\ Len(m) \in Nat /\ m[n + 1] = x
        /\ n <= Len(m) /\ \A i \in 1 .. n : items[i] = m[i]
    BY AppendFacts
  <2>2. PICK after : After(items, after) /\ Meaning(items) = after[n]
    BY <2>1, MeaningRuns
  <2> HIDE DEF m
  <2>3. PICK later : After(m, later) /\ Meaning(m) = later[Len(m)]
    BY <2>1, MeaningRuns
  <2>4. after[n] = later[n]
    BY <2>1, <2>2, <2>3, MeaningOfPrefix
  <2> HIDE DEF n
  <2>5. later[n + 1] = TakeItem(later[n], m[n + 1])
    <3>1. n + 1 \in 0 .. Len(m) /\ n + 1 # 0 /\ (n + 1) - 1 = n
      BY <2>1
    <3>2. later[n + 1] = TakeItem(later[(n + 1) - 1], m[n + 1])
      BY <2>3, <3>1 DEF After
    <3> QED BY <3>1, <3>2, Zenon
  <2> QED BY <2>1, <2>2, <2>3, <2>4, <2>5 DEF m, n
<1> QED BY <1>1, <1>2

(* What TakeItem does to the two parts of the data.                        *)
IsData(data) == data = [known |-> [f \in Known |-> data.known[f]], unknown |-> data.unknown]

LEMMA TakesItem ==
  ASSUME NEW data, IsData(data), NEW x
  PROVE  /\ IsData(TakeItem(data, x))
         /\ \A f \in Known : TakeItem(data, x).known[f] =
              IF IsKnown(x) /\ x.field = f THEN Kept(x.field, x.value) ELSE data.known[f]
         /\ TakeItem(data, x).unknown =
              IF IsKnown(x) THEN data.unknown ELSE Upsert(data.unknown, x)
<1> DEFINE old == data.known
           unknowns == data.unknown
           value == Kept(x.field, x.value)
           other == Upsert(data.unknown, x)
           known == IsKnown(x)
<1>1. data = [known |-> old, unknown |-> unknowns] /\ old = [f \in Known |-> old[f]]
  <2>1. data = [known |-> [f \in Known |-> data.known[f]], unknown |-> data.unknown]
    BY Zenon DEF IsData
  <2>2. data.known = [f \in Known |-> data.known[f]]
    BY <2>1
  <2> QED BY <2>1, <2>2, Zenon
<1>2. CASE IsKnown(x)
  <2>1. TakeItem(data, x) = [data EXCEPT !.known[x.field] = value]
    BY <1>2, Zenon DEF TakeItem
  <2> DEFINE new == [old EXCEPT ![x.field] = value]
  <2>2. TakeItem(data, x) = [known |-> new, unknown |-> unknowns]
    <3> HIDE DEF old, unknowns, value
    <3> QED BY <1>1, <2>1
  <2>3. /\ new = [f \in Known |-> new[f]]
        /\ \A f \in Known : new[f] = IF x.field = f THEN value ELSE old[f]
    <3> HIDE DEF old, value
    <3> QED BY <1>1
  <2> HIDE DEF new, old, unknowns, value
  <2>4. TakeItem(data, x).known = new /\ TakeItem(data, x).unknown = unknowns
    BY <2>2
  <2> DEFINE t == TakeItem(data, x)
  <2>5. IsData(t)
    <3> HIDE DEF t
    <3> QED BY <2>2, <2>3, <2>4, Zenon DEF IsData, t
  <2> QED BY <1>2, <2>3, <2>4, <2>5 DEF old, unknowns, value
<1>3. CASE ~IsKnown(x)
  <2>1. TakeItem(data, x) = [data EXCEPT !.unknown = other]
    <3>1. TakeItem(data, x) = [data EXCEPT !.unknown = Upsert(@, x)]
      BY <1>3, Zenon DEF TakeItem
    <3> QED BY <3>1
  <2>2. TakeItem(data, x) = [known |-> old, unknown |-> other]
    <3> HIDE DEF old, unknowns, other
    <3> QED BY <1>1, <2>1
  <2> HIDE DEF old, unknowns, other
  <2>4. TakeItem(data, x).known = old /\ TakeItem(data, x).unknown = other
    BY <2>2
  <2> DEFINE t == TakeItem(data, x)
  <2>5. IsData(t)
    <3> HIDE DEF t
    <3> QED BY <1>1, <2>2, <2>4, Zenon DEF IsData, t
  <2> QED BY <1>3, <2>4, <2>5 DEF old, other
<1> QED BY <1>2, <1>3

LEMMA LatestIn ==
  ASSUME NEW n \in Nat, NEW places \in SUBSET (1 .. n), places # {}
  PROVE  Latest(places) \in places
<1> DEFINE S == {n - p : p \in places}
<1>1. S \subseteq Nat /\ S # {}
  <2>1. \A p \in places : n - p \in Nat
    OBVIOUS
  <2>2. \E s : s \in S
    <3>1. PICK p : p \in places
      OBVIOUS
    <3>2. n - p \in S
      BY <3>1
    <3> QED BY <3>2
  <2>3. S \subseteq Nat
    BY <2>1
  <2> QED BY <2>2, <2>3
<1>2. PICK m \in S : \A k \in S : m <= k
  <2> HIDE DEF S
  <2> QED BY <1>1, LeastOf
<1>3. PICK p \in places : m = n - p
  OBVIOUS
<1>4. \A j \in places : j <= p
  <2> TAKE j \in places
  <2>1. n - j \in S
    OBVIOUS
  <2> QED BY <1>2, <1>3, <2>1
<1> QED BY <1>4 DEF Latest

LEMMA LatestIsLast ==
  ASSUME NEW n \in Nat, NEW places \in SUBSET (1 .. n), n \in places
  PROVE  Latest(places) = n
<1>1. \E i \in places : \A j \in places : j <= i
  OBVIOUS
<1>2. Latest(places) \in places /\ \A j \in places : j <= Latest(places)
  BY <1>1 DEF Latest
<1>3. PICK l \in places : l = Latest(places) /\ n <= l
  BY <1>2, Zenon
<1>4. l \in 1 .. n
  OBVIOUS
<1>5. l = n
  BY <1>3, <1>4
<1> QED BY <1>3, <1>5, Zenon

(* One more item, and the known fields.                                    *)
LEMMA KnownStep ==
  ASSUME NEW items \in Seq(ItemType), NEW x \in ItemType, NEW data, IsData(data),
         LastOfKnown(items, data)
  PROVE  LastOfKnown(Append(items, x), TakeItem(data, x))
<1> DEFINE m == Append(items, x)
           n == Len(items)
           d == TakeItem(data, x)
<1>1. /\ n \in Nat /\ n + 1 \in Nat /\ DOMAIN items = 1 .. n /\ DOMAIN m = 1 .. n + 1
      /\ m[n + 1] = x /\ \A i \in 1 .. n : m[i] = items[i]
  <2> HIDE DEF ItemType
  <2> QED BY AppendFacts
<1> HIDE DEF m, n
<1>2. SUFFICES ASSUME NEW f \in Known
               PROVE  LET places == {i \in DOMAIN m : m[i].type = 0 /\ m[i].field = f}
                      IN d.known[f] = IF places = {} THEN Absent
                                      ELSE Kept(f, m[Latest(places)].value)
  BY Zenon DEF LastOfKnown, m
<1> DEFINE old == {i \in 1 .. n : items[i].type = 0 /\ items[i].field = f}
           new == {i \in 1 .. n + 1 : m[i].type = 0 /\ m[i].field = f}
<1>3. data.known[f] = IF old = {} THEN Absent ELSE Kept(f, items[Latest(old)].value)
  BY <1>1, Zenon DEF LastOfKnown
<1>4. d.known[f] = IF IsKnown(x) /\ x.field = f THEN Kept(f, x.value) ELSE data.known[f]
  BY TakesItem
<1>5. SUFFICES d.known[f] = IF new = {} THEN Absent ELSE Kept(f, m[Latest(new)].value)
  BY <1>1
<1> HIDE DEF d
<1>6. CASE IsKnown(x) /\ x.field = f
  <2>1. n + 1 \in new /\ new \in SUBSET (1 .. n + 1)
    BY <1>1, <1>6 DEF IsKnown
  <2>2. Latest(new) = n + 1
    <3> HIDE DEF new
    <3> QED BY <1>1, <2>1, LatestIsLast
  <2>3. new # {}
    BY <2>1
  <2> HIDE DEF new
  <2> QED BY <1>1, <1>4, <1>6, <2>2, <2>3, Zenon
<1>7. CASE ~(IsKnown(x) /\ x.field = f)
  <2>1. ~(x.type = 0 /\ x.field = f)
    BY <1>7 DEF IsKnown
  <2>2. new = old
    BY <1>1, <2>1
  <2>3. CASE old = {}
    <3> HIDE DEF old, new
    <3> QED BY <1>3, <1>4, <1>7, <2>2, <2>3, Zenon
  <2>4. CASE old # {}
    <3>1. old \in SUBSET (1 .. n)
      OBVIOUS
    <3> HIDE DEF old, new
    <3>2. Latest(old) \in 1 .. n
      BY <1>1, <2>4, <3>1, LatestIn
    <3>3. m[Latest(old)] = items[Latest(old)]
      BY <1>1, <3>2
    <3> QED BY <1>3, <1>4, <1>7, <2>2, <2>4, <3>3, Zenon
  <2> QED BY <2>3, <2>4
<1> QED BY <1>6, <1>7

-----------------------------------------------------------------------------
(* The unknowns of the unknown fields                                         *)

(* What LastOfUnknown says of a row.                                       *)
RowHolds(items, unknowns, row) ==
  /\ unknowns[row] = items[Latest({i \in DOMAIN items : SameField(items[i], unknowns[row])})]
  /\ \E i \in Firsts(items) :
       /\ SameField(items[i], unknowns[row])
       /\ Cardinality({j \in Firsts(items) : j < i}) = row - 1

LEMMA FirstsFinite ==
  ASSUME NEW items \in Seq(ItemType)
  PROVE  /\ Firsts(items) \in SUBSET (1 .. Len(items)) /\ IsFiniteSet(Firsts(items))
         /\ Cardinality(Firsts(items)) \in Nat
         /\ \A i : /\ IsFiniteSet({j \in Firsts(items) : j < i})
                   /\ Cardinality({j \in Firsts(items) : j < i}) \in Nat
<1>1. Len(items) \in Nat /\ DOMAIN items = 1 .. Len(items)
  <2> HIDE DEF ItemType
  <2> QED OBVIOUS
<1>2. Firsts(items) \in SUBSET (1 .. Len(items))
  BY <1>1 DEF Firsts
<1>3. IsFiniteSet(1 .. Len(items))
  BY <1>1, FS_Interval
<1>4. IsFiniteSet(Firsts(items))
  BY <1>2, <1>3, FS_Subset
<1> HIDE DEF Firsts
<1>5. \A i : {j \in Firsts(items) : j < i} \in SUBSET Firsts(items)
  OBVIOUS
<1>6. \A i : IsFiniteSet({j \in Firsts(items) : j < i})
  BY <1>4, <1>5, FS_Subset
<1> QED BY <1>2, <1>4, <1>6, FS_CardinalityType

LEMMA FirstsStep ==
  ASSUME NEW items \in Seq(ItemType), NEW x \in ItemType
  PROVE  /\ Firsts(Append(items, x)) =
              Firsts(items) \cup
                IF ~IsKnown(x) /\ \A i \in 1 .. Len(items) : ~SameField(items[i], x)
                  THEN {Len(items) + 1} ELSE {}
         /\ \A i \in 1 .. Len(items) + 1 :
              {j \in Firsts(Append(items, x)) : j < i} = {j \in Firsts(items) : j < i}
<1> DEFINE m == Append(items, x)
           n == Len(items)
<1>1. /\ n \in Nat /\ DOMAIN items = 1 .. n /\ DOMAIN m = 1 .. n + 1
      /\ m[n + 1] = x /\ \A i \in 1 .. n : m[i] = items[i]
  <2> HIDE DEF ItemType
  <2> QED BY AppendFacts
<1> HIDE DEF m, n
<1>2. \A i \in 1 .. n : i \in Firsts(m) <=> i \in Firsts(items)
  BY <1>1 DEF Firsts
<1>3. n + 1 \in Firsts(m) <=> ~IsKnown(x) /\ \A i \in 1 .. n : ~SameField(items[i], x)
  <2>1. \A i \in 1 .. n : SameField(m[n + 1], m[i]) <=> SameField(items[i], x)
    BY <1>1 DEF SameField
  <2>2. \A i \in 1 .. n : ~(n + 1 <= i)
    BY <1>1
  <2>3. n + 1 \in 1 .. n + 1 /\ n + 1 <= n + 1
    BY <1>1
  <2>4. \A i \in 1 .. n + 1 : i \in 1 .. n \/ i = n + 1
    BY <1>1
  <2> QED BY <1>1, <2>1, <2>2, <2>3, <2>4 DEF Firsts
<1>4. Firsts(items) \subseteq 1 .. n /\ Firsts(m) \subseteq 1 .. n + 1
  BY <1>1 DEF Firsts
<1> HIDE DEF Firsts
<1>5. Firsts(m) = Firsts(items) \cup
        IF ~IsKnown(x) /\ \A i \in 1 .. n : ~SameField(items[i], x) THEN {n + 1} ELSE {}
  <2>1. \A i : i \in Firsts(m) => i \in 1 .. n \/ i = n + 1
    BY <1>1, <1>4
  <2>2. \A i : i \in Firsts(items) => i \in 1 .. n
    BY <1>4
  <2> QED BY <1>2, <1>3, <2>1, <2>2
<1>6. ASSUME NEW i \in 1 .. n + 1
      PROVE  {j \in Firsts(m) : j < i} = {j \in Firsts(items) : j < i}
  BY <1>1, <1>2, <1>4
<1> QED BY <1>5, <1>6 DEF m, n

(* A row keeps what it holds when an item of another field comes.          *)
LEMMA KeepsRow ==
  ASSUME NEW items \in Seq(ItemType), NEW x \in ItemType, NEW unknowns, NEW more, NEW row,
         RowHolds(items, unknowns, row), more[row] = unknowns[row], ~SameField(x, unknowns[row])
  PROVE  RowHolds(Append(items, x), more, row)
<1> DEFINE m == Append(items, x)
           n == Len(items)
           t == unknowns[row]
           old == {i \in 1 .. n : SameField(items[i], t)}
           new == {i \in 1 .. n + 1 : SameField(m[i], t)}
<1>1. /\ n \in Nat /\ DOMAIN items = 1 .. n /\ DOMAIN m = 1 .. n + 1
      /\ m[n + 1] = x /\ \A i \in 1 .. n : m[i] = items[i]
  <2> HIDE DEF ItemType
  <2> QED BY AppendFacts
<1> HIDE DEF m, t
<1>2. PICK i \in Firsts(items) :
        SameField(items[i], t) /\ Cardinality({j \in Firsts(items) : j < i}) = row - 1
  BY DEF RowHolds, t
<1>3. t = items[Latest(old)]
  BY <1>1, Zenon DEF RowHolds, t
<1>4. Firsts(items) \in SUBSET (1 .. n)
  BY FirstsFinite
<1>5. i \in 1 .. n /\ i \in 1 .. n + 1
  BY <1>1, <1>2, <1>4
<1>6. new = old
  <2> HIDE DEF n
  <2>1. ~SameField(x, t)
    BY DEF t
  <2>2. \A k \in 1 .. n + 1 : k \in 1 .. n \/ k = n + 1
    BY <1>1
  <2>3. \A k \in 1 .. n : k \in 1 .. n + 1
    BY <1>1
  <2> QED BY <1>1, <2>1, <2>2, <2>3
<1>7. Latest(old) \in 1 .. n
  <2>1. old \in SUBSET (1 .. n) /\ old # {}
    BY <1>2, <1>5
  <2> HIDE DEF old, n
  <2> QED BY <1>1, <2>1, LatestIn
<1>8. t = m[Latest(new)]
  BY <1>1, <1>3, <1>6, <1>7
<1>9. i \in Firsts(m) /\ {j \in Firsts(m) : j < i} = {j \in Firsts(items) : j < i}
  BY <1>2, <1>5, FirstsStep DEF m
<1>10. SameField(m[i], t)
  BY <1>1, <1>2, <1>5
<1>11. more[row] = t
  BY DEF t
<1> HIDE DEF old, n
<1>12. t = m[Latest({k \in DOMAIN m : SameField(m[k], t)})]
  BY <1>1, <1>8, Zenon
<1>13. Cardinality({j \in Firsts(m) : j < i}) = row - 1
  BY <1>2, <1>9, Zenon
<1>14. RowHolds(m, more, row)
  BY <1>9, <1>10, <1>11, <1>12, <1>13, Zenon DEF RowHolds
<1> QED BY <1>14 DEF m

(* Of two sets of places the one with the last place has more of them.     *)
LEMMA RankGrows ==
  ASSUME NEW items \in Seq(ItemType), NEW f \in Firsts(items)
  PROVE  /\ Cardinality({j \in Firsts(items) : j < f}) < Cardinality(Firsts(items))
         /\ \A g \in Firsts(items) : f < g =>
              Cardinality({j \in Firsts(items) : j < f})
                < Cardinality({j \in Firsts(items) : j < g})
<1> DEFINE F == Firsts(items)
           Below(i) == {j \in F : j < i}
<1>1. /\ F \in SUBSET (1 .. Len(items)) /\ IsFiniteSet(F) /\ Cardinality(F) \in Nat
      /\ \A i : IsFiniteSet(Below(i)) /\ Cardinality(Below(i)) \in Nat
  BY FirstsFinite
<1>2. f \in Nat /\ f \in F
  BY <1>1
<1> HIDE DEF F
<1>3. ASSUME NEW B, IsFiniteSet(B), Cardinality(B) \in Nat, f \in B, Below(f) \subseteq B
      PROVE  Cardinality(Below(f)) < Cardinality(B)
  <2>1. Below(f) \in SUBSET B
    BY <1>3
  <2>2. f \notin Below(f)
    BY <1>2
  <2>3. Below(f) # B
    BY <1>3, <2>2
  <2>4. /\ Cardinality(Below(f)) <= Cardinality(B)
        /\ Cardinality(B) = Cardinality(Below(f)) => B = Below(f)
    BY <1>3, <2>1, FS_Subset
  <2>5. Cardinality(Below(f)) \in Nat
    BY <1>1
  <2> HIDE DEF Below
  <2> QED BY <1>3, <2>3, <2>4, <2>5
<1>4. Cardinality(Below(f)) < Cardinality(F)
  <2>1. Below(f) \subseteq F
    OBVIOUS
  <2> HIDE DEF Below
  <2> QED BY <1>1, <1>2, <1>3, <2>1
<1>5. ASSUME NEW g \in F, f < g PROVE Cardinality(Below(f)) < Cardinality(Below(g))
  <2>0. F \subseteq Nat /\ f \in Nat /\ g \in Nat
    BY <1>1, <1>2
  <2>1. f \in Below(g) /\ Below(f) \subseteq Below(g)
    <3>1. f \in Below(g)
      BY <1>2, <1>5
    <3>2. ASSUME NEW j \in F, j < f PROVE j < g
      <4>1. j \in Nat
        BY <2>0
      <4> QED BY <1>5, <2>0, <3>2, <4>1
    <3> QED BY <3>1, <3>2
  <2> HIDE DEF Below
  <2> QED BY <1>1, <1>3, <2>1
<1> QED BY <1>4, <1>5 DEF F

(* While there is room, the unknowns has every unknown field that came.       *)
LEMMA EveryFieldHasARow ==
  ASSUME NEW items \in Seq(ItemType), NEW unknowns,
         Len(unknowns) = Cardinality(Firsts(items)), DOMAIN unknowns = 1 .. Len(unknowns),
         \A row \in DOMAIN unknowns : RowHolds(items, unknowns, row),
         NEW i \in 1 .. Len(items), ~IsKnown(items[i])
  PROVE  \E row \in DOMAIN unknowns : SameField(items[i], unknowns[row])
<1> DEFINE F == Firsts(items)
           Same == {j \in 1 .. Len(items) : SameField(items[j], items[i])}
           Rank(j) == Cardinality({k \in F : k < j})
<1>1. /\ F \in SUBSET (1 .. Len(items)) /\ Cardinality(F) \in Nat
      /\ \A j : Rank(j) \in Nat
  BY FirstsFinite
<1>2. PICK f \in Same : \A j \in Same : f <= j
  <2>1. Same \subseteq Nat /\ i \in Same
    BY DEF SameField
  <2> HIDE DEF Same
  <2> QED BY <2>1, LeastOf
<1>3. f \in F
  <2>1. DOMAIN items = 1 .. Len(items)
    <3> HIDE DEF ItemType
    <3> QED OBVIOUS
  <2>2. ~IsKnown(items[f])
    BY <1>2 DEF SameField, IsKnown
  <2>3. ASSUME NEW j \in 1 .. Len(items), SameField(items[f], items[j]) PROVE f <= j
    <3>1. j \in Same
      BY <1>2, <2>3 DEF SameField
    <3> QED BY <1>2, <3>1
  <2> QED BY <1>2, <2>1, <2>2, <2>3 DEF Firsts
<1>4. Rank(f) < Cardinality(F)
  BY <1>3, RankGrows
<1> DEFINE row == Rank(f) + 1
<1>5. row \in DOMAIN unknowns /\ row - 1 = Rank(f)
  <2>1. Rank(f) \in Nat
    BY <1>1
  <2> HIDE DEF Rank, F
  <2> QED BY <1>1, <1>4, <2>1 DEF F
<1>6. PICK g \in F : SameField(items[g], unknowns[row]) /\ Rank(g) = row - 1
  BY <1>5 DEF RowHolds
<1>7. f = g
  <2>1. f < g => Rank(f) < Rank(g)
    BY <1>3, RankGrows
  <2>2. g < f => Rank(g) < Rank(f)
    BY <1>3, RankGrows
  <2>3. f \in Nat /\ g \in Nat /\ Rank(f) \in Nat /\ Rank(g) = Rank(f)
    BY <1>1, <1>3, <1>5, <1>6
  <2> HIDE DEF Rank, F, Same
  <2> QED BY <2>1, <2>2, <2>3
<1>8. SameField(items[i], unknowns[row])
  BY <1>2, <1>6, <1>7 DEF SameField
<1> QED BY <1>5, <1>8

LEMMA Upserts ==
  ASSUME NEW T, NEW unknowns \in Seq(T), NEW x \in T
  PROVE  LET rows == {i \in 1 .. Len(unknowns) : SameField(unknowns[i], x)}
             more == Upsert(unknowns, x)
         IN  /\ more \in Seq(T) /\ Len(unknowns) \in Nat /\ DOMAIN unknowns = 1 .. Len(unknowns)
             /\ DOMAIN more = 1 .. Len(more)
             /\ rows # {} => /\ Len(more) = Len(unknowns)
                             /\ \A i \in 1 .. Len(unknowns) :
                                  more[i] = IF i \in rows THEN x ELSE unknowns[i]
             /\ rows = {} /\ Len(unknowns) < MaxUnknown => more = Append(unknowns, x)
             /\ rows = {} /\ ~(Len(unknowns) < MaxUnknown) => more = unknowns
<1> DEFINE rows == {i \in 1 .. Len(unknowns) : SameField(unknowns[i], x)}
           more == Upsert(unknowns, x)
           set == [i \in 1 .. Len(unknowns) |-> IF i \in rows THEN x ELSE unknowns[i]]
<1>1. Len(unknowns) \in Nat /\ DOMAIN unknowns = 1 .. Len(unknowns)
  OBVIOUS
<1>2. more = IF rows # {} THEN set
             ELSE IF Len(unknowns) < MaxUnknown THEN Append(unknowns, x)
             ELSE unknowns
  BY <1>1, Zenon DEF Upsert
<1>3. set \in Seq(T) /\ Len(set) = Len(unknowns) /\ DOMAIN set = 1 .. Len(unknowns)
      /\ \A i \in 1 .. Len(unknowns) : set[i] = IF i \in rows THEN x ELSE unknowns[i]
  <2>1. \A i \in 1 .. Len(unknowns) : unknowns[i] \in T
    OBVIOUS
  <2> HIDE DEF rows
  <2>2. set \in [1 .. Len(unknowns) -> T]
    BY <2>1
  <2>3. \A i \in 1 .. Len(unknowns) : set[i] = IF i \in rows THEN x ELSE unknowns[i]
    OBVIOUS
  <2> HIDE DEF set
  <2> QED BY <1>1, <2>2, <2>3
<1>4. /\ Append(unknowns, x) \in Seq(T)
      /\ DOMAIN Append(unknowns, x) = 1 .. Len(Append(unknowns, x))
  OBVIOUS
<1> HIDE DEF set, rows, more
<1>5. CASE rows # {}
  BY <1>1, <1>2, <1>3, <1>5 DEF rows, more
<1>6. CASE rows = {} /\ Len(unknowns) < MaxUnknown
  <2>1. more = Append(unknowns, x)
    BY <1>2, <1>6, Zenon
  <2> QED BY <1>1, <1>4, <1>6, <2>1, Zenon DEF rows, more
<1>7. CASE rows = {} /\ ~(Len(unknowns) < MaxUnknown)
  <2>1. more = unknowns
    BY <1>2, <1>7, Zenon
  <2> QED BY <1>1, <1>7, <2>1, Zenon DEF rows, more
<1> QED BY <1>5, <1>6, <1>7

(* A row that takes the last value of its field.                           *)
LEMMA TakesRow ==
  ASSUME NEW items \in Seq(ItemType), NEW x \in ItemType, NEW more, NEW row, more[row] = x,
         NEW i \in Firsts(Append(items, x)), i \in 1 .. Len(items) + 1,
         SameField(Append(items, x)[i], x),
         Cardinality({j \in Firsts(items) : j < i}) = row - 1
  PROVE  RowHolds(Append(items, x), more, row)
<1> DEFINE m == Append(items, x)
           n == Len(items)
           same == {k \in 1 .. n + 1 : SameField(m[k], x)}
<1>1. n \in Nat /\ n + 1 \in Nat /\ DOMAIN m = 1 .. n + 1 /\ m[n + 1] = x
  <2> HIDE DEF ItemType
  <2> QED BY AppendFacts
<1>2. {j \in Firsts(m) : j < i} = {j \in Firsts(items) : j < i}
  BY FirstsStep
<1> HIDE DEF m, n
<1>3. same \in SUBSET (1 .. n + 1) /\ n + 1 \in same
  BY <1>1 DEF SameField
<1>4. Latest(same) = n + 1
  <2> HIDE DEF same
  <2> QED BY <1>1, <1>3, LatestIsLast
<1>5. m[Latest({k \in DOMAIN m : SameField(m[k], more[row])})] = x
  BY <1>1, <1>4, Zenon
<1>6. SameField(m[i], more[row])
  BY DEF m
<1>7. Cardinality({j \in Firsts(m) : j < i}) = row - 1 /\ i \in Firsts(m)
  BY <1>2, Zenon DEF m
<1>8. RowHolds(m, more, row)
  BY <1>5, <1>6, <1>7, Zenon DEF RowHolds
<1> QED BY <1>8 DEF m

LEMMA UnknownStep ==
  ASSUME NEW items \in Seq(ItemType), NEW x \in ItemType, NEW unknowns \in Seq(ItemType),
         LastOfUnknown(items, unknowns)
  PROVE  LET more == IF IsKnown(x) THEN unknowns ELSE Upsert(unknowns, x)
         IN  more \in Seq(ItemType) /\ LastOfUnknown(Append(items, x), more)
<1> DEFINE m == Append(items, x)
           n == Len(items)
           F == Firsts(items)
           G == Firsts(m)
           rows == {i \in 1 .. Len(unknowns) : SameField(unknowns[i], x)}
           is == ~IsKnown(x) /\ \A i \in 1 .. n : ~SameField(items[i], x)
           Size(A) == IF Cardinality(A) < MaxUnknown THEN Cardinality(A) ELSE MaxUnknown
           Below(i) == {j \in F : j < i}
<1> HIDE DEF ItemType
<1>1. /\ n \in Nat /\ DOMAIN items = 1 .. n /\ DOMAIN m = 1 .. n + 1 /\ m \in Seq(ItemType)
      /\ m[n + 1] = x /\ \A i \in 1 .. n : m[i] = items[i]
  BY AppendFacts
<1>2. /\ G = F \cup (IF is THEN {n + 1} ELSE {})
      /\ F \in SUBSET (1 .. n) /\ IsFiniteSet(F) /\ Cardinality(F) \in Nat
  BY FirstsStep, FirstsFinite
<1>3. IsFiniteSet(G) /\ Cardinality(G) \in Nat /\ G \in SUBSET (1 .. Len(m))
  BY <1>1, FirstsFinite
<1>4. /\ Len(unknowns) = Size(F)
      /\ DOMAIN unknowns = 1 .. Len(unknowns) /\ Len(unknowns) \in Nat
      /\ \A row \in DOMAIN unknowns : RowHolds(items, unknowns, row)
  <2>1. DOMAIN unknowns = 1 .. Len(unknowns) /\ Len(unknowns) \in Nat
    OBVIOUS
  <2> QED BY <2>1, Zenon DEF LastOfUnknown, RowHolds
<1>5. ASSUME NEW more \in Seq(ItemType), DOMAIN more = 1 .. Len(more),
             Len(more) = Size(G), \A row \in 1 .. Len(more) : RowHolds(m, more, row)
      PROVE  LastOfUnknown(m, more)
  <2> HIDE DEF m
  <2> QED BY <1>5, Zenon DEF LastOfUnknown, RowHolds
<1>6. ASSUME NEW row \in 1 .. Len(unknowns), NEW more, more[row] = unknowns[row],
             ~SameField(x, unknowns[row])
      PROVE  RowHolds(m, more, row)
  BY <1>4, <1>6, KeepsRow
<1>7. /\ \A a, b : SameField(a, b) => SameField(b, a) /\ (IsKnown(a) <=> IsKnown(b))
      /\ \A a, b, c : SameField(a, b) /\ SameField(b, c) => SameField(a, c)
  BY DEF SameField, IsKnown
<1>8. ASSUME NEW row \in 1 .. Len(unknowns)
      PROVE  \E i \in F : /\ i \in 1 .. n /\ ~IsKnown(items[i])
                          /\ SameField(items[i], unknowns[row]) /\ Cardinality(Below(i)) = row - 1
  <2>1. PICK i \in F : SameField(items[i], unknowns[row]) /\ Cardinality(Below(i)) = row - 1
    BY <1>4 DEF RowHolds
  <2>2. ~IsKnown(items[i])
    BY DEF Firsts
  <2> QED BY <1>2, <2>1, <2>2
<1> HIDE DEF F, G, m, n, Below
<1>9. CASE IsKnown(x)
  <2>1. G = F
    BY <1>2, <1>9
  <2>2. \A row \in 1 .. Len(unknowns) : ~SameField(x, unknowns[row])
    BY <1>7, <1>8, <1>9
  <2>3. LastOfUnknown(m, unknowns)
    BY <1>4, <1>5, <1>6, <2>1, <2>2
  <2> QED BY <1>9, <2>3 DEF m
<1>10. ASSUME ~IsKnown(x)
       PROVE  Upsert(unknowns, x) \in Seq(ItemType) /\ LastOfUnknown(m, Upsert(unknowns, x))
  <2> DEFINE more == Upsert(unknowns, x)
  <2>1. /\ more \in Seq(ItemType) /\ DOMAIN more = 1 .. Len(more)
        /\ rows # {} => /\ Len(more) = Len(unknowns)
                        /\ \A i \in 1 .. Len(unknowns) :
                             more[i] = IF i \in rows THEN x ELSE unknowns[i]
        /\ rows = {} /\ Len(unknowns) < MaxUnknown => more = Append(unknowns, x)
        /\ rows = {} /\ ~(Len(unknowns) < MaxUnknown) => more = unknowns
    BY Upserts
  <2> HIDE DEF more
  <2>2. CASE rows # {}
    <3>1. PICK r \in rows : TRUE
      BY <2>2
    <3>2. PICK i \in F : i \in 1 .. n /\ SameField(items[i], unknowns[r])
      BY <1>8, <3>1
    <3>3. SameField(items[i], x)
      BY <1>7, <3>1, <3>2
    <3>4. G = F
      BY <1>2, <3>2, <3>3
    <3>5. ASSUME NEW row \in 1 .. Len(unknowns), row \in rows PROVE RowHolds(m, more, row)
      <4>1. PICK k \in F : /\ k \in 1 .. n /\ SameField(items[k], unknowns[row])
                           /\ Cardinality(Below(k)) = row - 1
        BY <1>8
      <4>2. SameField(m[k], x) /\ k \in 1 .. n + 1 /\ k \in G
        BY <1>1, <1>7, <3>4, <3>5, <4>1
      <4>3. more[row] = x
        BY <2>1, <2>2, <3>5
      <4> QED BY <4>1, <4>2, <4>3, TakesRow DEF m, n, G, F, Below
    <3>6. ASSUME NEW row \in 1 .. Len(unknowns), row \notin rows PROVE RowHolds(m, more, row)
      <4>1. more[row] = unknowns[row]
        BY <2>1, <2>2, <3>6
      <4>2. ~SameField(x, unknowns[row])
        BY <1>7, <3>6
      <4> QED BY <1>6, <4>1, <4>2
    <3>7. \A row \in 1 .. Len(more) : RowHolds(m, more, row)
      <4>1. Len(more) = Len(unknowns)
        BY <2>1, <2>2
      <4> HIDE DEF rows
      <4> QED BY <3>5, <3>6, <4>1
    <3>8. Len(more) = Size(G)
      BY <1>4, <2>1, <2>2, <3>4, Zenon
    <3> QED BY <1>5, <2>1, <3>7, <3>8 DEF more
  <2>3. CASE rows = {} /\ Len(unknowns) < MaxUnknown
    <3>1. Len(unknowns) = Cardinality(F)
      BY <1>2, <1>4, <2>3
    <3>2. \A i \in 1 .. n : ~SameField(items[i], x)
      <4> SUFFICES ASSUME NEW i \in 1 .. n, SameField(items[i], x) PROVE FALSE
        OBVIOUS
      <4>1. ~IsKnown(items[i])
        BY <1>7, <1>10
      <4>2. PICK row \in DOMAIN unknowns : SameField(items[i], unknowns[row])
        BY <1>4, <3>1, <4>1, EveryFieldHasARow DEF F, n
      <4>3. SameField(unknowns[row], x)
        BY <1>7, <4>2
      <4>4. row \in rows
        BY <1>4, <4>3
      <4> QED BY <2>3, <4>4
    <3>3. G = F \cup {n + 1} /\ n + 1 \notin F
      BY <1>1, <1>2, <1>10, <3>2
    <3>4. Cardinality(G) = Cardinality(F) + 1
      BY <1>2, <3>3, FS_AddElement
    <3>5. /\ more = Append(unknowns, x) /\ Len(more) = Len(unknowns) + 1
          /\ more[Len(unknowns) + 1] = x
          /\ \A row \in 1 .. Len(unknowns) : more[row] = unknowns[row]
      <4>1. more = Append(unknowns, x)
        BY <2>1, <2>3
      <4>2. LET a == Append(unknowns, x)
            IN  /\ Len(a) = Len(unknowns) + 1 /\ a[Len(unknowns) + 1] = x
                /\ \A row \in 1 .. Len(unknowns) : a[row] = unknowns[row]
        BY AppendFacts
      <4> QED BY <4>1, <4>2, Zenon
    <3>6. Len(more) = Size(G)
      BY <1>2, <1>4, <2>3, <3>1, <3>4, <3>5, Sizes, WireAssumption
    <3>7. ASSUME NEW row \in 1 .. Len(unknowns) PROVE RowHolds(m, more, row)
      <4>1. ~SameField(x, unknowns[row])
        BY <1>7, <2>3
      <4> QED BY <1>6, <3>5, <4>1
    <3>8. RowHolds(m, more, Len(unknowns) + 1)
      <4>1. n + 1 \in G /\ n + 1 \in 1 .. n + 1 /\ SameField(m[n + 1], x)
        BY <1>1, <3>3 DEF SameField
      <4>2. Below(n + 1) = F
        <5>1. \A j \in F : j < n + 1
          BY <1>1, <1>2
        <5> QED BY <5>1 DEF Below
      <4>3. Cardinality(Below(n + 1)) = (Len(unknowns) + 1) - 1
        BY <1>4, <3>1, <4>2
      <4> QED BY <3>5, <4>1, <4>3, TakesRow DEF m, n, G, F, Below
    <3>9. \A row \in 1 .. Len(more) : RowHolds(m, more, row)
      <4>1. \A row \in 1 .. Len(more) : row \in 1 .. Len(unknowns) \/ row = Len(unknowns) + 1
        BY <1>4, <3>5
      <4> QED BY <3>7, <3>8, <4>1
    <3> QED BY <1>5, <2>1, <3>6, <3>9 DEF more
  <2>4. CASE rows = {} /\ ~(Len(unknowns) < MaxUnknown)
    <3>1. more = unknowns
      BY <2>1, <2>4
    <3>2. \A row \in 1 .. Len(unknowns) : RowHolds(m, unknowns, row)
      <4> TAKE row \in 1 .. Len(unknowns)
      <4>1. ~SameField(x, unknowns[row])
        BY <1>7, <2>4
      <4> QED BY <1>6, <4>1
    <3>3. Cardinality(F) <= Cardinality(G)
      BY <1>2, <1>3, FS_Subset
    <3>4. Len(unknowns) = Size(G)
      BY <1>2, <1>3, <1>4, <2>4, <3>3, WireAssumption
    <3> QED BY <1>4, <1>5, <3>1, <3>2, <3>4 DEF more
  <2> QED BY <2>2, <2>3, <2>4
<1> QED BY <1>9, <1>10 DEF m

(* What a sequence of items says.                                          *)
LEMMA MeaningHolds ==
  \A items \in Seq(ItemType) :
    /\ IsData(Meaning(items)) /\ Meaning(items).unknown \in Seq(ItemType)
    /\ LastOfKnown(items, Meaning(items)) /\ LastOfUnknown(items, Meaning(items).unknown)
<1> DEFINE Holds(items) ==
             /\ IsData(Meaning(items)) /\ Meaning(items).unknown \in Seq(ItemType)
             /\ LastOfKnown(items, Meaning(items)) /\ LastOfUnknown(items, Meaning(items).unknown)
           S == {n \in Nat : \A items \in Seq(ItemType) : Len(items) = n => Holds(items)}
<1> HIDE DEF ItemType
<1>1. 0 \in S
  <2> SUFFICES ASSUME NEW items \in Seq(ItemType), Len(items) = 0 PROVE Holds(items)
    OBVIOUS
  <2>1. items = <<>> /\ DOMAIN items = {} /\ <<>> \in Seq(ItemType) /\ Len(<<>>) = 0
    OBVIOUS
  <2>2. Meaning(items) = Nothing
    BY <2>1, MeaningStep, Zenon
  <2>3. /\ IsData(Nothing) /\ Nothing.unknown = <<>>
        /\ \A f \in Known : Nothing.known[f] = Absent
    BY DEF IsData, Nothing
  <2>4. LastOfKnown(items, Nothing)
    <3>1. ASSUME NEW f \in Known
          PROVE  LET places == {i \in DOMAIN items : items[i].type = 0 /\ items[i].field = f}
                 IN Nothing.known[f] = IF places = {} THEN Absent
                                       ELSE Kept(f, items[Latest(places)].value)
      <4>1. {i \in DOMAIN items : items[i].type = 0 /\ items[i].field = f} = {}
        BY <2>1
      <4>2. Nothing.known[f] = Absent
        BY <2>3
      <4> QED BY <4>1, <4>2, Zenon
    <3> QED BY <3>1, Zenon DEF LastOfKnown
  <2>5. LastOfUnknown(items, <<>>)
    <3>1. Firsts(items) = {}
      BY <2>1 DEF Firsts
    <3>2. Cardinality(Firsts(items)) = 0
      BY <3>1, FS_EmptySet
    <3>3. 0 = IF Cardinality(Firsts(items)) < MaxUnknown THEN Cardinality(Firsts(items))
              ELSE MaxUnknown
      BY <3>2, WireAssumption
    <3>4. DOMAIN <<>> = {}
      OBVIOUS
    <3> QED BY <2>1, <3>3, <3>4, Zenon DEF LastOfUnknown
  <2> QED BY <2>1, <2>2, <2>3, <2>4, <2>5, Zenon
<1>2. ASSUME NEW n \in Nat, n \in S PROVE n + 1 \in S
  <2> SUFFICES ASSUME NEW items \in Seq(ItemType), Len(items) = n + 1 PROVE Holds(items)
    OBVIOUS
  <2> DEFINE front == [i \in 1 .. n |-> items[i]]
             x == items[n + 1]
  <2>1. x \in ItemType /\ front \in Seq(ItemType) /\ Len(front) = n /\ items = Append(front, x)
    <3>1. \A i \in 1 .. n + 1 : items[i] \in ItemType
      OBVIOUS
    <3>2. x \in ItemType
      BY <3>1
    <3>3. front \in [1 .. n -> ItemType]
      BY <3>1
    <3>4. front \in Seq(ItemType) /\ Len(front) = n
      <4> HIDE DEF front
      <4> QED BY <3>3
    <3>5. items = Append(front, x)
      <4>1. \A i \in 1 .. n + 1 : items[i] = Append(front, x)[i]
        BY <3>4
      <4> HIDE DEF front, x
      <4>2. Append(front, x) \in Seq(ItemType) /\ Len(Append(front, x)) = n + 1
        BY <3>2, <3>4
      <4> QED BY <4>1, <4>2
    <3> QED BY <3>2, <3>4, <3>5
  <2> HIDE DEF front, x
  <2>2. Holds(front)
    BY <1>2, <2>1
  <2> DEFINE data == Meaning(front)
  <2>3. Meaning(items) = TakeItem(data, x)
    BY <2>1, MeaningStep
  <2> HIDE DEF Holds
  <2>4. /\ IsData(data) /\ data.unknown \in Seq(ItemType)
        /\ LastOfKnown(front, data) /\ LastOfUnknown(front, data.unknown)
    BY <2>2 DEF Holds
  <2> HIDE DEF data
  <2>5. /\ IsData(TakeItem(data, x))
        /\ TakeItem(data, x).unknown = IF IsKnown(x) THEN data.unknown ELSE Upsert(data.unknown, x)
    BY <2>4, TakesItem
  <2>6. LastOfKnown(items, TakeItem(data, x))
    BY <2>1, <2>4, KnownStep
  <2>7. /\ TakeItem(data, x).unknown \in Seq(ItemType)
        /\ LastOfUnknown(items, TakeItem(data, x).unknown)
    <3> DEFINE unknowns == data.unknown
               more == IF IsKnown(x) THEN unknowns ELSE Upsert(unknowns, x)
    <3>1. more \in Seq(ItemType) /\ LastOfUnknown(Append(front, x), more)
      BY <2>1, <2>4, UnknownStep
    <3> QED BY <2>1, <2>5, <3>1, Zenon
  <2> QED BY <2>3, <2>5, <2>6, <2>7, Zenon DEF Holds
<1>3. Nat \subseteq S
  <2> HIDE DEF S
  <2> QED BY <1>1, <1>2, SetInduction
<1> SUFFICES ASSUME NEW items \in Seq(ItemType) PROVE Holds(items)
  OBVIOUS
<1>4. Len(items) \in S
  <2> HIDE DEF S
  <2> QED BY <1>3
<1> QED BY <1>4

-----------------------------------------------------------------------------
(* Signs                                                                   *)

LEMMA KeptCases ==
  ASSUME NEW f, NEW v
  PROVE  /\ f \in Signed => Kept(f, v) = AsSigned(v % Narrow, Narrow)
         /\ f \in Clock => Kept(f, v) = AsSigned(v, Wide)
<1> DEFINE k == Kept(f, v)
           U == v % Narrow
           S == AsSigned(v % Narrow, Narrow)
           C == AsSigned(v, Wide)
           F == IF v # 0 THEN 1 ELSE 0
<1>1. k = CASE f \in Unsigned -> U [] f \in Signed -> S [] f \in Clock -> C [] f \in Flag -> F
  BY Zenon DEF Kept
<1>2. /\ f \in Signed => f \notin Unsigned /\ f \notin Clock /\ f \notin Flag
      /\ f \in Clock => f \notin Unsigned /\ f \notin Signed /\ f \notin Flag
  BY WireAssumption
<1> HIDE DEF k, U, S, C, F
<1>3. (f \in Signed => k = S) /\ (f \in Clock => k = C)
  BY <1>1, <1>2
<1> QED BY <1>3, Zenon DEF k, S, C

(* A number is the residue of itself as a signed number of that width.     *)
LEMMA SignOf ==
  ASSUME NEW w \in Nat \ {0}, NEW h \in Nat, w = 2 * h, NEW n \in -h .. h - 1
  PROVE  AsSigned(n % w, w) = n /\ n % w \in 0 .. w - 1
<1>1. w \div 2 = h
  OBVIOUS
<1>2. CASE n >= 0
  <2>1. n \in 0 .. w - 1 /\ n < h
    BY <1>2
  <2>2. n % w = n
    BY <2>1, SmallMod, Zenon
  <2> QED BY <1>1, <2>1, <2>2, Zenon DEF AsSigned
<1>3. CASE n < 0
  <2>1. /\ w + n \in 0 .. w - 1 /\ -1 \in Int
        /\ w * (-1) + (w + n) = n /\ ~(w + n < h) /\ (w + n) - w = n
    BY <1>3
  <2>2. (w * (-1) + (w + n)) % w = w + n
    BY <2>1, DivModUnique, Zenon
  <2>3. n % w = w + n
    BY <2>1, <2>2, Zenon
  <2> QED BY <1>1, <2>1, <2>3, Zenon DEF AsSigned
<1> QED BY <1>2, <1>3

LEMMA DivModInt ==
  ASSUME NEW a \in Int, NEW n \in Nat \ {0}
  PROVE  a \div n \in Int /\ a % n \in 0 .. n - 1 /\ a = n * (a \div n) + (a % n)
OBVIOUS

LEMMA ModOfModInt ==
  ASSUME NEW n \in Int, NEW p \in Nat \ {0}, NEW q \in Int, NEW w \in Nat \ {0}, w = p * q
  PROVE  (n % w) % p = n % p
<1> DEFINE r == n % w
           d == n \div w
           s == n % p
           e == n \div p
<1>1. d \in Int /\ r \in 0 .. w - 1 /\ n = w * d + r
  BY DivModInt, Zenon
<1>2. e \in Int /\ s \in 0 .. p - 1 /\ n = p * e + s
  BY DivModInt, Zenon
<1> HIDE DEF r, d, s, e
<1> DEFINE g == e - q * d
<1>3. g \in Int /\ r = p * g + s
  <2>1. g \in Int
    BY <1>1, <1>2
  <2>2. w * d = p * (q * d)
    BY <1>1
  <2>3. r = p * e - p * (q * d) + s
    BY <1>1, <1>2, <2>2
  <2>4. p * e - p * (q * d) = p * g
    BY <1>1, <1>2
  <2> QED BY <1>1, <1>2, <2>1, <2>3, <2>4
<1> HIDE DEF g
<1>4. r % p = s
  BY <1>2, <1>3, DivModUnique, Zenon
<1> QED BY <1>4 DEF r, s

LEMMA KeepsSign ==
  ASSUME NEW f \in Signed \cup Clock, NEW n \in -(Narrow \div 2) .. Narrow \div 2 - 1
  PROVE  n % Wide \in 0 .. Wide - 1 /\ Kept(f, n % Wide) = n
<1> DEFINE h == Narrow \div 2
           q == Wide \div Narrow
           H == h * q
<1>1. h \in Nat /\ Narrow = 2 * h /\ h \in Nat \ {0}
  BY WireAssumption
<1>2. q \in Nat /\ Wide = Narrow * q
  <2>1. /\ q \in Nat
        /\ Wide = (Narrow * q) + (Wide % Narrow)
    BY Sizes, DivMod, Zenon
  <2>2. Wide % Narrow = 0
    BY WireAssumption
  <2> HIDE DEF q
  <2> QED BY <2>1, <2>2, Sizes
<1> HIDE DEF h, q
<1>3. q >= 1
  BY <1>1, <1>2, Sizes
<1>4. H \in Nat /\ h <= H /\ Wide = 2 * H
  <2>1. H = h + h * (q - 1) /\ q - 1 \in Nat
    BY <1>1, <1>2, <1>3
  <2>2. h * (q - 1) \in Nat
    BY <1>1, <2>1
  <2>3. Narrow * q = 2 * H
    BY <1>1, <1>2
  <2> HIDE DEF H
  <2> QED BY <1>1, <1>2, <2>1, <2>2, <2>3
<1> HIDE DEF H
<1>5. n \in -h .. h - 1 /\ n \in -H .. H - 1 /\ n \in Int
  <2>1. n \in -h .. h - 1
    BY DEF h
  <2> QED BY <1>1, <1>4, <2>1
<1>6. n % Wide \in 0 .. Wide - 1 /\ AsSigned(n % Wide, Wide) = n
  BY <1>4, <1>5, Sizes, SignOf, Zenon
<1>7. AsSigned((n % Wide) % Narrow, Narrow) = n
  <2>1. (n % Wide) % Narrow = n % Narrow
    <3>1. q \in Int
      BY <1>2
    <3>2. Wide = Narrow * q /\ n \in Int /\ Narrow \in Nat \ {0} /\ Wide \in Nat \ {0}
      BY <1>2, <1>5, Sizes
    <3> QED BY <3>1, <3>2, ModOfModInt
  <2>2. AsSigned(n % Narrow, Narrow) = n
    BY <1>1, <1>5, Sizes, SignOf, Zenon
  <2> QED BY <2>1, <2>2, Zenon
<1> QED BY <1>6, <1>7, KeptCases, Zenon

-----------------------------------------------------------------------------
(* The specification                                                       *)

(* The bytes are bytes, and what the firmware reads of those of the bike   *)
(* are the items the bike has encoded.                                     *)
WireInv ==
  /\ message \in Seq(Byte)
  /\ got = Items(message)
  /\ sender = "bike" => encoded \in Seq(ItemType) /\ got = Read(Len(message), encoded)

LEMMA ConcatThree ==
  ASSUME NEW S, NEW a \in Seq(S), NEW b \in Seq(S), NEW c \in Seq(S)
  PROVE  a \o b \o c = a \o (b \o c)
<1> DEFINE l == a \o b \o c
           r == a \o (b \o c)
<1>1. /\ Len(a) \in Nat /\ Len(b) \in Nat /\ Len(c) \in Nat
      /\ l \in Seq(S) /\ r \in Seq(S)
      /\ Len(l) = Len(a) + Len(b) + Len(c) /\ Len(r) = Len(a) + Len(b) + Len(c)
  OBVIOUS
<1>2. \A i \in 1 .. Len(a) + Len(b) + Len(c) : l[i] = r[i]
  OBVIOUS
<1> HIDE DEF l, r
<1>3. l = r
  BY <1>1, <1>2
<1> QED BY <1>3 DEF l, r

LEMMA SendsItems ==
  ASSUME NEW item \in SentItem, Encodable(item),
         NEW s \in Seq(Byte), NEW items \in Seq(ItemType), Items(s) = Read(Len(s), items)
  PROVE  LET t == s \o Encode(item)
         IN  /\ t \in Seq(Byte) /\ Append(items, item) \in Seq(ItemType)
             /\ Items(t) = Read(Len(t), Append(items, item))
<1> DEFINE t == s \o Encode(item)
<1>1. /\ t \in Seq(Byte) /\ Len(s) <= Len(t) /\ \A i \in 1 .. Len(s) : s[i] = t[i]
      /\ IsItemOf(t, Len(s), Len(t), item)
  BY EncodesItem
<1>2. item \in ItemType
  BY DEF SentItem, Types, ItemType
<1>3. Items(s).ok /\ Items(s).value = items
  BY Outcomes
<1>4. Append(items, item) \in Seq(ItemType)
  <2> HIDE DEF ItemType
  <2> QED BY <1>2
<1> HIDE DEF t
<1>5. Items(t) = Read(Len(t), Append(Items(s).value, item))
  BY <1>1, <1>2, <1>3, OneItemMore
<1>6. Items(t) = Read(Len(t), Append(items, item))
  BY <1>3, <1>5, Zenon
<1> QED BY <1>1, <1>4, <1>6 DEF t

LEMMA SendableIsSent ==
  ASSUME NEW item \in Sendable
  PROVE  item \in SentItem /\ Encodable(item)
BY WireAssumption DEF SentItem, Types

LEMMA WireInitInv == WireInit => WireInv
<1> SUFFICES ASSUME WireInit PROVE WireInv
  OBVIOUS
<1>1. <<>> \in Seq(Byte) /\ <<>> \in Seq(ItemType) /\ Len(<<>>) = 0 /\ 0 \in 0 .. 0
  OBVIOUS
<1>2. PICK from : Parsing(<<>>, from) /\ Items(<<>>) = from[0]
  BY <1>1, ItemsRun
<1>3. from[0] = Read(0, <<>>)
  BY <1>1, <1>2 DEF Parsing
<1> QED BY <1>1, <1>2, <1>3 DEF WireInit, WireInv

LEMMA WireNextInv == WireInv /\ [NextByte \/ SendItem]_wireVars => WireInv'
<1> SUFFICES ASSUME WireInv, [NextByte \/ SendItem]_wireVars PROVE WireInv'
  OBVIOUS
<1>1. CASE NextByte
  <2>1. PICK b \in Byte : message' = Append(message, b)
    BY <1>1 DEF NextByte
  <2>2. message' \in Seq(Byte)
    BY <2>1 DEF WireInv
  <2> QED BY <1>1, <2>2 DEF NextByte, WireInv
<1>2. CASE SendItem
  <2>1. PICK item \in Sendable :
          encoded' = Append(encoded, item) /\ message' = message \o Encode(item)
    BY <1>2 DEF SendItem
  <2>2. /\ message \in Seq(Byte) /\ encoded \in Seq(ItemType)
        /\ Items(message) = Read(Len(message), encoded)
    BY <1>2 DEF SendItem, WireInv
  <2>3. LET t == message \o Encode(item)
        IN  /\ t \in Seq(Byte) /\ Append(encoded, item) \in Seq(ItemType)
            /\ Items(t) = Read(Len(t), Append(encoded, item))
    BY <2>2, SendableIsSent, SendsItems
  <2>4. /\ message' \in Seq(Byte) /\ encoded' \in Seq(ItemType)
        /\ Items(message') = Read(Len(message'), encoded')
    BY <2>1, <2>3, Zenon
  <2>5. got' = Items(message')
    BY <1>2 DEF SendItem
  <2> QED BY <2>4, <2>5, Zenon DEF WireInv
<1>3. CASE UNCHANGED wireVars
  BY <1>3 DEF wireVars, WireInv
<1> QED BY <1>1, <1>2, <1>3

LEMMA WireInvImplies ==
  ASSUME WireInv
  PROVE  AcceptsMessages /\ LastValueCounts /\ ReadsWhatWasSent
<1>1. AcceptsMessages
  BY AcceptsWhatIsAMessage, Zenon DEF AcceptsMessages, WireInv
<1>2. LastValueCounts
  <2>1. got.ok => got.value \in Seq(ItemType)
    BY ItemsType, Zenon DEF WireInv
  <2> QED BY <2>1, MeaningHolds, Zenon DEF LastValueCounts
<1>3. ASSUME sender = "bike" PROVE got.ok /\ got.value = encoded
  BY <1>3, Outcomes DEF WireInv
<1>4. ASSUME sender = "bike", NEW f \in Signed \cup Clock,
             NEW n \in -(Narrow \div 2) .. Narrow \div 2 - 1
      PROVE  LET all == Items(message \o Varint(8 * f) \o Varint(n % Wide))
             IN  all.ok /\ Meaning(all.value).known[f] = n
  <2> DEFINE item == [field |-> f, type |-> 0, value |-> n % Wide, length |-> 0]
  <2>1. /\ message \in Seq(Byte) /\ encoded \in Seq(ItemType)
        /\ Items(message) = Read(Len(message), encoded)
    BY <1>4 DEF WireInv
  <2>2. n % Wide \in 0 .. Wide - 1 /\ Kept(f, n % Wide) = n
    BY KeepsSign
  <2>3. f \in 0 .. Narrow - 1 /\ f \in Known
    BY WireAssumption DEF Known
  <2>4. item.field = f /\ item.type = 0 /\ item.value = n % Wide /\ item.length = 0
    OBVIOUS
  <2>5. item \in SentItem
    <3> DEFINE v == n % Wide
    <3>1. v \in Nat
      BY <2>2, Sizes
    <3> HIDE DEF v
    <3>2. [field |-> f, type |-> 0, value |-> v, length |-> 0] \in SentItem
      BY <2>3, <3>1 DEF SentItem, Types
    <3> QED BY <3>2 DEF v
  <2> HIDE DEF item
  <2>6. Encodable(item)
    <3>1. item.type # 1 /\ item.type # 5 /\ item.type # 2
      BY <2>4
    <3> QED BY <2>2, <2>4, <3>1, Zenon DEF Encodable
  <2> DEFINE v == Varint(8 * f)
             p == Varint(n % Wide)
  <2>7. Encode(item) = v \o p
    <3>1. 8 * item.field + item.type = 8 * f
      BY <2>3, <2>4
    <3>2. PayloadOf(item) = p
      BY <2>4, TypeCases
    <3>3. Encode(item) = Varint(8 * item.field + item.type) \o PayloadOf(item)
      BY Zenon DEF Encode, PayloadOf
    <3> QED BY <3>1, <3>2, <3>3, Zenon
  <2>8. v \in Seq(Byte) /\ p \in Seq(Byte)
    <3>1. 8 * f \in 0 .. Wide - 1
      BY <2>3, Sizes
    <3> QED BY <2>2, <3>1, VarintEncodes
  <2> HIDE DEF v, p
  <2>9. message \o v \o p = message \o Encode(item)
    <3>1. message \o v \o p = message \o (v \o p)
      BY <2>1, <2>8, ConcatThree
    <3> QED BY <2>7, <3>1, Zenon
  <2>10. LET t == message \o Encode(item)
         IN  /\ t \in Seq(Byte) /\ Append(encoded, item) \in Seq(ItemType)
             /\ Items(t) = Read(Len(t), Append(encoded, item))
    BY <2>1, <2>5, <2>6, SendsItems
  <2> DEFINE all == Items(message \o v \o p)
  <2>11. all.ok /\ all.value = Append(encoded, item)
    <3>1. all = Read(Len(message \o Encode(item)), Append(encoded, item))
      BY <2>9, <2>10, Zenon
    <3> HIDE DEF all
    <3> QED BY <3>1, Outcomes
  <2> HIDE DEF all
  <2>12. item \in ItemType
    BY <2>5 DEF SentItem, Types, ItemType
  <2>13. Meaning(all.value) = TakeItem(Meaning(encoded), item)
    BY <2>1, <2>11, <2>12, MeaningStep, Zenon
  <2>14. IsData(Meaning(encoded))
    BY <2>1, MeaningHolds, Zenon
  <2>15. TakeItem(Meaning(encoded), item).known[f] = Kept(f, n % Wide)
    <3>1. IsKnown(item) /\ item.field = f
      BY <2>3, <2>4 DEF IsKnown
    <3>2. TakeItem(Meaning(encoded), item).known[f] =
            IF IsKnown(item) /\ item.field = f THEN Kept(item.field, item.value)
            ELSE Meaning(encoded).known[f]
      BY <2>3, <2>14, TakesItem, Zenon
    <3> QED BY <2>4, <3>1, <3>2, Zenon
  <2>16. Meaning(all.value).known[f] = n
    BY <2>2, <2>13, <2>15, Zenon
  <2> QED BY <2>11, <2>16 DEF all, v, p
<1>5. ReadsWhatWasSent
  BY <1>3, <1>4, Zenon DEF ReadsWhatWasSent
<1> QED BY <1>1, <1>2, <1>5

(* A notification is read as WireInv says, by every sender: what the       *)
(* decoder (791-888) makes of the bytes of a bike are the bike's items.    *)
THEOREM WireInvariant == WireSpec => []WireInv
<1>1. WireInit => WireInv
  BY WireInitInv
<1>2. WireInv /\ [NextByte \/ SendItem]_wireVars => WireInv'
  BY WireNextInv
<1> QED BY <1>1, <1>2, PTL DEF WireSpec

(* The decoder accepts the messages of the grammar and no other bytes      *)
(* (791-888), for every length of a varint and of the message.             *)
THEOREM AcceptsGrammar == WireSpec => []AcceptsMessages
<1>1. WireInv => AcceptsMessages
  BY WireInvImplies
<1> QED BY <1>1, WireInvariant, PTL

(* Of several values for a field the last counts, and the table of the     *)
(* unknown fields has the first ones that came (202-225, 791-888).         *)
THEOREM LastValuesCount == WireSpec => []LastValueCounts
<1>1. WireInv => LastValueCounts
  BY WireInvImplies
<1> QED BY <1>1, WireInvariant, PTL

(* Whatever a bike encodes is read as encoded, values with a sign included *)
(* (84-100, 798-855).                                                      *)
THEOREM RoundTrip == WireSpec => []ReadsWhatWasSent
<1>1. WireInv => ReadsWhatWasSent
  BY WireInvImplies
<1> QED BY <1>1, WireInvariant, PTL

=============================================================================
