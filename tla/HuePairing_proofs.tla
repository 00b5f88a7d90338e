-------------------------- MODULE HuePairing_proofs -------------------------
(***************************************************************************)
(* The pairing window: proofs, for every number of attempts and bridges.   *)
(***************************************************************************)
EXTENDS HuePairing, TLAPS

USE HueAssumption

LEMMA HueInvInitially == HueInit => HueInv
<1> SUFFICES ASSUME HueInit PROVE HueInv
  OBVIOUS
<1> USE DEF HueInit
<1>1. Unpaired \in Pairing /\ Unpaired.key = None
  BY DEF Unpaired, Pairing, Text
<1>2. /\ at \in [Process -> TaskPlace \cup HttpdPlace]
      /\ \A p \in Process : at[p] = "idle"
      /\ "idle" \in TaskPlace /\ "idle" \in HttpdPlace
  BY DEF TaskPlace, HttpdPlace
<1>3. HueTypeOK
  <2>1. /\ arg \in [Process -> Text] /\ cfg \in [Process -> Pairing]
        /\ twice \in [Process -> BOOLEAN] /\ attempt \in [Task -> 0 .. Attempts]
    BY <1>1 DEF Text
  <2> QED
    BY <1>1, <1>2, <2>1 DEF HueTypeOK, Process
<1>4. WindowIsOne /\ StartsAlone /\ HoldsKey /\ PairedIsStored /\ ReportsStored /\ CancelIsKept
  BY <1>2 DEF WindowIsOne, StartsAlone, HoldsKey, PairedIsStored, ReportsStored, CancelIsKept,
              Process
<1> QED
  BY <1>3, <1>4 DEF HueInv

(* A task that ends was the only one. *)
LEMMA EndPreserves ==
  ASSUME HueInv, NEW t \in Task, NEW s \in BOOLEAN,
         at[t] # "idle",
         s => nvs.key # None \/ erased,
         SetState(FALSE, s),
         EndTask(t),
         UNCHANGED <<nvs, canceled, erased>>
  PROVE  HueInv'
<1> USE DEF HueInv, EndTask, Goto
<1>1. at' = [at EXCEPT ![t] = "idle"] /\ at \in [Process -> TaskPlace \cup HttpdPlace]
  BY DEF HueTypeOK
<1>2. t \in Process /\ httpd \in Process /\ t # httpd /\ \A u \in Task : u \in Process
  BY DEF Process
<1>3. /\ \A u \in Task : at'[u] = "idle"
      /\ at'[httpd] = at[httpd]
      /\ \A p \in Process : at'[p] # "idle" => at'[p] = at[p]
  BY <1>1, <1>2 DEF WindowIsOne
<1>4. HueTypeOK'
  <2>1. at' \in [Process -> TaskPlace \cup HttpdPlace] /\ \A u \in Task : at'[u] \in TaskPlace
    BY <1>1, <1>2, <1>3 DEF TaskPlace
  <2>2. attempt' \in [Task -> 0 .. Attempts] /\ arg' \in [Process -> Text]
    BY <1>2 DEF HueTypeOK, Text
  <2>3. running' \in BOOLEAN /\ success' \in BOOLEAN /\ cancel' \in BOOLEAN
    BY DEF SetState, HueTypeOK
  <2> QED
    BY <1>3, <2>1, <2>2, <2>3 DEF HueTypeOK
<1>5. WindowIsOne' /\ StartsAlone' /\ ReportsStored' /\ CancelIsKept'
  BY <1>3 DEF WindowIsOne, StartsAlone, ReportsStored, CancelIsKept, BetweenAttempts, SetState
<1>6. HoldsKey'
  BY <1>3 DEF HoldsKey
<1>7. PairedIsStored'
  BY DEF PairedIsStored, SetState
<1> QED
  BY <1>4, <1>5, <1>6, <1>7

LEMMA HueInvPreserved == HueInv /\ [HueNext]_hueVars => HueInv'
<1> SUFFICES ASSUME HueInv, [HueNext]_hueVars PROVE HueInv'
  OBVIOUS
<1> USE DEF HueInv, HueTypeOK, WindowIsOne, StartsAlone, HoldsKey, PairedIsStored,
            ReportsStored, CancelIsKept, BetweenAttempts, Unpaired, Pairing, Text, Process,
            TaskPlace, HttpdPlace, InPairJson, Goto, flags, locals
<1>1. ASSUME NEW p \in Process, Granted(p) PROVE HueInv'
  BY <1>1 DEF Granted, Return, AfterSave, SetState
<1>2. ASSUME NEW p \in Process, NotGranted(p) PROVE HueInv'
  BY <1>2 DEF NotGranted, Return, AfterSave, SetState
<1>3. ASSUME NEW p \in Process, RefreshName(p) PROVE HueInv'
  <2>1. cfg' \in [Process -> Pairing] /\ twice' \in [Process -> BOOLEAN]
    <3>1. cfg[p] \in Pairing /\ cfg[p].host \in Text
      OBVIOUS
    <3>2. [cfg[p] EXCEPT !.name = cfg[p].host] \in Pairing
      BY <3>1
    <3>3. \/ cfg' = cfg
          \/ cfg' = [cfg EXCEPT ![p] = [cfg[p] EXCEPT !.name = cfg[p].host]]
      BY <1>3 DEF RefreshName
    <3>4. twice' = twice \/ twice' = [twice EXCEPT ![p] = TRUE]
      BY <1>3 DEF RefreshName
    <3>5. cfg' \in [Process -> Pairing]
      BY <3>2, <3>3
    <3> QED
      BY <3>4, <3>5
  <2>2. cfg'[p].key = cfg[p].key /\ \A q \in Process : q # p => cfg'[q] = cfg[q]
    BY <1>3 DEF RefreshName
  <2> QED
    BY <1>3, <2>1, <2>2 DEF RefreshName
<1>4. ASSUME NEW p \in Process, SaveHost(p) PROVE HueInv'
  BY <1>4 DEF SaveHost, Return, AfterSave, SetState
<1>5. ASSUME NEW p \in Process, SaveName(p) PROVE HueInv'
  BY <1>5 DEF SaveName, Return, AfterSave, SetState
<1>6. ASSUME NEW p \in Process, SaveKey(p) PROVE HueInv'
  <2>1. /\ nvs' \in Pairing /\ nvs'.key # None
    BY <1>6 DEF SaveKey
  <2>2. CASE twice[p]
    <3>1. twice' \in [Process -> BOOLEAN] /\ at' = [at EXCEPT ![p] = "host"]
      BY <1>6, <2>2 DEF SaveKey, AfterSave
    <3> QED
      BY <1>6, <2>1, <2>2, <3>1 DEF SaveKey, AfterSave
  <2>3. CASE ~twice[p]
    <3>1. /\ cfg' = [cfg EXCEPT ![p] = Unpaired] /\ cfg' \in [Process -> Pairing]
          /\ arg' \in [Process -> Text] /\ twice' = twice
      BY <1>6, <2>3 DEF SaveKey, AfterSave, Return
    <3>2. at' = [at EXCEPT ![p] = IF p = httpd THEN "idle" ELSE "paired"]
      BY <1>6, <2>3 DEF SaveKey, AfterSave, Return
    <3>3. UNCHANGED <<running, success, cancel, attempt, canceled>> /\ erased' = FALSE
      BY <1>6 DEF SaveKey
    <3>4. at[p] = "key"
      BY <1>6 DEF SaveKey
    <3>5. HueTypeOK'
      BY <2>1, <3>1, <3>2, <3>3
    <3>6. WindowIsOne' /\ StartsAlone' /\ CancelIsKept'
      BY <3>2, <3>3, <3>4
    <3>7. HoldsKey' /\ PairedIsStored' /\ ReportsStored'
      BY <2>1, <3>1, <3>2, <3>3
    <3> QED
      BY <3>5, <3>6, <3>7
  <2> QED
    BY <2>2, <2>3
<1>7. ASSUME NEW p \in Process, SaveFail(p) PROVE HueInv'
  <2>1. CASE twice[p]
    <3>1. twice' \in [Process -> BOOLEAN] /\ at' = [at EXCEPT ![p] = "host"]
      BY <1>7, <2>1 DEF SaveFail, AfterSave
    <3> QED
      BY <1>7, <2>1, <3>1 DEF SaveFail, AfterSave
  <2>2. CASE ~twice[p]
    <3>1. /\ cfg' = [cfg EXCEPT ![p] = Unpaired] /\ cfg' \in [Process -> Pairing]
          /\ arg' \in [Process -> Text] /\ twice' = twice
      BY <1>7, <2>2 DEF SaveFail, AfterSave, Return
    <3>2. at' = [at EXCEPT ![p] = IF p = httpd THEN "idle" ELSE "unpaired"]
      BY <1>7, <2>2 DEF SaveFail, AfterSave, Return
    <3> QED
      BY <1>7, <3>1, <3>2 DEF SaveFail
  <2> QED
    BY <2>1, <2>2
<1>8. ASSUME NEW t \in Task, Begin(t) PROVE HueInv'
  BY <1>8 DEF Begin, SetState, EndTask
<1>9. ASSUME NEW t \in Task, NoMemory(t) PROVE HueInv'
  BY <1>9, EndPreserves DEF NoMemory
<1>10. ASSUME NEW t \in Task, Check(t) PROVE HueInv'
  BY <1>10 DEF Check, SetState, EndTask
<1>11. ASSUME NEW t \in Task, Quit(t) PROVE HueInv'
  BY <1>11, EndPreserves DEF Quit
<1>12. ASSUME NEW t \in Task, ReportPaired(t) PROVE HueInv'
  BY <1>12, EndPreserves DEF ReportPaired
<1>13. ASSUME NEW t \in Task, ReportUnpaired(t) PROVE HueInv'
  BY <1>13 DEF ReportUnpaired, SetState, EndTask
<1>14. ASSUME NEW t \in Task, NextAttempt(t) PROVE HueInv'
  BY <1>14 DEF NextAttempt, SetState, EndTask
<1>15. ASSUME NEW t \in Task, TimeOut(t) PROVE HueInv'
  BY <1>15, EndPreserves DEF TimeOut
<1>16. ASSUME NEW b \in Bridge \cup {None}, StartLoad(b) PROVE HueInv'
  BY <1>16 DEF StartLoad
<1>16a. CASE StartCheck
  BY <1>16a DEF StartCheck
<1>17. ASSUME NEW b \in Bridge \cup {None}, PairNow(b) PROVE HueInv'
  BY <1>17 DEF PairNow
<1>18. ASSUME NEW t \in Task, StartTask(t) PROVE HueInv'
  BY <1>18 DEF StartTask, SetState
<1>19. CASE StartFails
  <2>1. \A t \in Task : at[t] = "idle"
    BY <1>19 DEF StartFails
  <2>2. running = FALSE
    BY <2>1
  <2>3. running' = FALSE /\ success' \in BOOLEAN /\ cancel' \in BOOLEAN /\ (success' => success)
    <3>1. CASE UNCHANGED flags
      BY <2>2, <3>1
    <3>2. CASE running' = FALSE /\ success' = FALSE /\ cancel' = FALSE
      BY <3>2
    <3> QED
      BY <1>19, <3>1, <3>2 DEF StartFails
  <2> QED
    BY <1>19, <2>1, <2>3 DEF StartFails
<1>20. CASE Cancel
  BY <1>20 DEF Cancel, Return, Erase
<1>21. CASE StatusLoadHost
  BY <1>21 DEF StatusLoadHost, Return, Erase
<1>22. CASE StatusLoadName \/ StatusLoadKey
  BY <1>22 DEF StatusLoadName, StatusLoadKey, Return, Erase
<1>23. CASE StatusRename
  BY <1>23 DEF StatusRename, Return, Erase
<1>24. CASE Clear
  BY <1>24 DEF Clear, Return, Erase
<1>25. CASE EraseAll
  <2>1. /\ nvs' \in Pairing /\ erased' \in BOOLEAN
        /\ nvs.key # None \/ erased => nvs'.key # None \/ erased'
    <3>1. CASE Erase("host", "eraseHost", "eraseName") /\ UNCHANGED erased
      BY <3>1 DEF Erase
    <3>2. CASE Erase("name", "eraseName", "eraseKey") /\ UNCHANGED erased
      BY <3>2 DEF Erase
    <3>3. CASE Erase("key", "eraseKey", "idle") /\ erased' = TRUE
      BY <3>3 DEF Erase
    <3> QED
      BY <1>25, <3>1, <3>2, <3>3 DEF EraseAll
  <2>2. \E place \in {"eraseName", "eraseKey", "idle"} :
          /\ at' = [at EXCEPT ![httpd] = place]
          /\ at[httpd] # "start"
    BY <1>25 DEF EraseAll, Erase
  <2>3. UNCHANGED <<running, success, cancel, arg, attempt, cfg, twice, canceled>>
    BY <1>25 DEF EraseAll, Erase
  <2> QED
    BY <2>1, <2>2, <2>3
<1>26. CASE HueReset
  <2>1. Unpaired \in Pairing
    OBVIOUS
  <2>2. /\ at' \in [Process -> TaskPlace \cup HttpdPlace]
        /\ \A p \in Process : at'[p] = "idle"
    BY <1>26 DEF HueReset
  <2>3. /\ arg' \in [Process -> Text] /\ cfg' \in [Process -> Pairing]
        /\ twice' \in [Process -> BOOLEAN] /\ attempt' \in [Task -> 0 .. Attempts]
    BY <1>26, <2>1 DEF HueReset
  <2>4. HueTypeOK'
    BY <1>26, <2>2, <2>3 DEF HueReset
  <2>5. /\ WindowIsOne' /\ StartsAlone' /\ HoldsKey' /\ PairedIsStored'
        /\ ReportsStored' /\ CancelIsKept'
    BY <1>26, <2>2 DEF HueReset
  <2> QED
    BY <2>4, <2>5
<1>27. CASE UNCHANGED hueVars
  BY <1>27 DEF hueVars
<1> HIDE DEF HueInv
<1> QED
  BY <1>1, <1>2, <1>3, <1>4, <1>5, <1>6, <1>7, <1>8, <1>9, <1>10, <1>11, <1>12, <1>13, <1>14, <1>15, <1>16, <1>16a, <1>17, <1>18, <1>19, <1>20, <1>21, <1>22, <1>23, <1>24, <1>25, <1>26, <1>27
     DEF HueNext, HueHandler, PairTask, PairJson

(* The inductive invariant of hue_pair_task and the handlers around it.    *)
THEOREM HueInvariant == HueSpec => []HueInv
  BY HueInvInitially, HueInvPreserved, PTL DEF HueSpec

(* The types, among them that a window makes at most                       *)
(* HUE_PAIR_WINDOW_ATTEMPTS attempts (hue_integration.c:543).              *)
THEOREM HueTypeCorrect == HueSpec => []HueTypeOK
<1>1. HueInv => HueTypeOK
  BY DEF HueInv
<1> QED
  BY <1>1, HueInvariant, PTL

(* There is at most one pairing task, and hue_pair_running says whether    *)
(* there is one (hue_integration.c:604-640).                               *)
THEOREM OneWindowAtATime == HueSpec => []WindowIsOne
<1>1. HueInv => WindowIsOne
  BY DEF HueInv
<1> QED
  BY <1>1, HueInvariant, PTL

(* A window that reports success has stored a key (hue_integration.c:506,  *)
(* 560), whatever else writes to the pairing.                              *)
THEOREM SuccessIsStored == HueSpec => []PairedIsStored
<1>1. HueInv => PairedIsStored
  BY DEF HueInv
<1> QED
  BY <1>1, HueInvariant, PTL

(* A cancel between two attempts stops the window before the next one      *)
(* (hue_integration.c:543-558, 659-683).                                   *)
THEOREM CancelBetweenAttemptsStops == HueSpec => CancelBetweenStops
<1>1. HueInv /\ [HueNext]_hueVars =>
        [\A t \in Task : BeginsAttempt(t) => canceled # "between"]_hueVars
  <2> SUFFICES ASSUME HueInv, HueNext, NEW t \in Task, at[t] # "request", at'[t] = "request",
                      canceled = "between"
               PROVE  FALSE
    BY DEF BeginsAttempt
  <2>1. at \in [Process -> TaskPlace \cup HttpdPlace] /\ t \in Process /\ t # httpd
    BY DEF HueInv, HueTypeOK, Process
  <2>2. CASE \E u \in Task : Check(u)
    <3>1. Check(t) /\ ~cancel
      BY <2>1, <2>2 DEF Check, Goto, Process
    <3> QED
      BY <3>1 DEF Check, HueInv, CancelIsKept, BetweenAttempts
  <2>3. CASE ~(\E u \in Task : Check(u))
    BY <2>1, <2>3
       DEF HueNext, HueHandler, PairTask, PairJson, Granted, NotGranted, RefreshName, SaveHost,
           SaveName, SaveKey, SaveFail, Return, AfterSave, Begin, NoMemory, Quit, ReportPaired,
           ReportUnpaired, NextAttempt, TimeOut, EndTask, StartLoad, StartCheck, StartTask, StartFails,
           Cancel, PairNow, StatusLoadHost, StatusLoadName, StatusLoadKey, StatusRename, Clear, EraseAll,
           Erase, HueReset, Goto, locals, Process
  <2> QED
    BY <2>2, <2>3
<1> QED
  BY <1>1, HueInvariant, PTL DEF HueSpec, CancelBetweenStops
=============================================================================
