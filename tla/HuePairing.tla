----------------------------- MODULE HuePairing -----------------------------
(***************************************************************************)
(* main/hue_integration.c: the pairing with a Hue Bridge.  A window of     *)
(* attempts runs in a task of its own (hue_pair_task); the HTTP server     *)
(* starts and cancels it, and may at the same time pair by itself, clear   *)
(* the pairing or complete it with the bridge's name.  The pairing is kept *)
(* as several NVS keys, which main/accessory_config.c writes one by one.   *)
(*                                                                         *)
(* The id and the name of the bridge are written next to each other and    *)
(* are one value here.  A bridge stands for its address, its name and the  *)
(* key it grants.  The answers to the browser leave no trace, and neither  *)
(* do calls that only read: progress, devices, resources, light commands.  *)
(***************************************************************************)
EXTENDS Naturals, FiniteSets

CONSTANTS
  Task,      (* incarnations of hue_pair_task                              *)
  httpd,     (* the HTTP server task                                       *)
  Bridge,    (* the bridges on the network                                 *)
  None,      (* an empty string                                            *)
  Attempts,  (* HUE_PAIR_WINDOW_ATTEMPTS                                   *)
  Faults     (* whether memory and NVS fail and the device restarts        *)

Process == Task \cup {httpd}

ASSUME HueAssumption ==
  /\ Attempts \in Nat \ {0}
  /\ httpd \notin Task
  /\ None \notin Bridge
  /\ Faults \in BOOLEAN

VARIABLES
  running,   (* hue_pair_running                                           *)
  success,   (* hue_pair_success                                           *)
  cancel,    (* hue_pair_cancel_requested                                  *)
  nvs,       (* the stored pairing [host, name, key]                 [NVS] *)
  at,        (* at[p]: where process p is                                  *)
  arg,       (* arg[p]: the bridge it was asked for, None for any          *)
  attempt,   (* attempt[t]: the loop variable of task t                    *)
  cfg,       (* cfg[p]: its variable config                                *)
  twice,     (* twice[p]: the save under way is that of                    *)
             (* hue_refresh_bridge_config, and pair_json's own follows     *)
  canceled,  (* a cancel of this window was accepted: "no", "between" two  *)
             (* attempts, or "during" one                                  *)
  erased     (* the key was erased after it had been stored                *)

flags == <<running, success, cancel>>
locals == <<arg, attempt, cfg, twice>>
hueVars == <<flags, nvs, at, locals, canceled, erased>>

Unpaired == [host |-> None, name |-> None, key |-> None]

HueInit ==
  /\ running = FALSE
  /\ success = FALSE
  /\ cancel = FALSE
  /\ nvs = Unpaired
  /\ at = [p \in Process |-> "idle"]
  /\ arg = [p \in Process |-> None]
  /\ attempt = [t \in Task |-> 0]
  /\ cfg = [p \in Process |-> Unpaired]
  /\ twice = [p \in Process |-> FALSE]
  /\ canceled = "no"
  /\ erased = FALSE

Goto(p, place) == at' = [at EXCEPT ![p] = place]

-----------------------------------------------------------------------------
(* hue_pair_set_state: a window that runs (on) forgets a cancel request.   *)

SetState(r, s) ==
  /\ running' = r
  /\ success' = s
  /\ cancel' = IF r THEN FALSE ELSE cancel

(* hue_integration_pair_json, and accessory_config_save_hue within it, are *)
(* called by the pairing task and by the HTTP server.                      *)

Return(p, ok) ==
  /\ Goto(p, IF p = httpd THEN "idle" ELSE IF ok THEN "paired" ELSE "unpaired")
  /\ cfg' = [cfg EXCEPT ![p] = Unpaired]
  /\ arg' = IF p = httpd THEN [arg EXCEPT ![p] = None] ELSE arg

(* The bridge asked for, or any that mDNS finds, grants a key.  mDNS need  *)
(* not know its name.                                                      *)
Granted(p) ==
  /\ at[p] = "request"
  /\ \E b \in Bridge :
       /\ arg[p] \in {None, b}
       /\ \E name \in {None, b} :
            cfg' = [cfg EXCEPT ![p] = [host |-> b, name |-> name, key |-> b]]
  /\ Goto(p, "refresh")
  /\ UNCHANGED <<flags, nvs, arg, attempt, twice, canceled, erased>>

(* No bridge, no answer, no memory, or the button was not pressed. *)
NotGranted(p) ==
  /\ at[p] = "request"
  /\ Return(p, FALSE)
  /\ UNCHANGED <<flags, nvs, attempt, twice, canceled, erased>>

(* hue_refresh_bridge_config: the bridge may tell a new name. *)
RefreshName(p) ==
  /\ at[p] = "refresh"
  /\ \/ UNCHANGED <<cfg, twice>>
     \/ /\ cfg[p].name # cfg[p].host
        /\ cfg' = [cfg EXCEPT ![p].name = cfg[p].host]
        /\ twice' = [twice EXCEPT ![p] = TRUE]
  /\ Goto(p, "host")
  /\ UNCHANGED <<flags, nvs, arg, attempt, canceled, erased>>

(* What follows a save; the result of the first of two is ignored. *)
AfterSave(p, ok) ==
  IF twice[p]
    THEN Goto(p, "host") /\ twice' = [twice EXCEPT ![p] = FALSE] /\ UNCHANGED <<cfg, arg>>
    ELSE Return(p, ok) /\ UNCHANGED twice

SaveHost(p) ==
  /\ at[p] = "host"
  /\ nvs' = [nvs EXCEPT !.host = cfg[p].host]
  /\ Goto(p, "name")
  /\ UNCHANGED <<flags, locals, canceled, erased>>

SaveName(p) ==
  /\ at[p] = "name"
  /\ nvs' = [nvs EXCEPT !.name = cfg[p].name]
  /\ Goto(p, "key")
  /\ UNCHANGED <<flags, locals, canceled, erased>>

SaveKey(p) ==
  /\ at[p] = "key"
  /\ nvs' = [nvs EXCEPT !.key = cfg[p].key]
  /\ erased' = FALSE
  /\ AfterSave(p, TRUE)
  /\ UNCHANGED <<flags, attempt, canceled>>

(* A slip for the mutation runs: the error is not returned. *)
SaveFail_Ignored(p) ==
  /\ Faults
  /\ at[p] \in {"host", "name", "key"}
  /\ AfterSave(p, TRUE)
  /\ UNCHANGED <<flags, nvs, attempt, canceled, erased>>

SaveFail(p) ==
  /\ Faults
  /\ at[p] \in {"host", "name", "key"}
  /\ AfterSave(p, FALSE)
  /\ UNCHANGED <<flags, nvs, attempt, canceled, erased>>

PairJson(p) ==
  \/ Granted(p) \/ NotGranted(p) \/ RefreshName(p)
  \/ SaveHost(p) \/ SaveName(p) \/ SaveKey(p) \/ SaveFail(p)

-----------------------------------------------------------------------------
(* hue_pair_task                                                           *)

EndTask(t) ==
  /\ Goto(t, "idle")
  /\ attempt' = [attempt EXCEPT ![t] = 0]
  /\ arg' = [arg EXCEPT ![t] = None]
  /\ UNCHANGED <<cfg, twice>>

Begin(t) ==
  /\ at[t] = "begin"
  /\ attempt' = [attempt EXCEPT ![t] = 1]
  /\ Goto(t, "check")
  /\ UNCHANGED <<flags, nvs, arg, cfg, twice, canceled, erased>>

(* The response buffer cannot be allocated. *)
NoMemory(t) ==
  /\ Faults
  /\ at[t] = "begin"
  /\ SetState(FALSE, FALSE)
  /\ EndTask(t)
  /\ UNCHANGED <<nvs, canceled, erased>>

Check(t) ==
  /\ at[t] = "check"
  /\ Goto(t, IF cancel THEN "quit" ELSE "request")
  /\ UNCHANGED <<flags, nvs, locals, canceled, erased>>

Quit(t) ==
  /\ at[t] = "quit"
  /\ SetState(FALSE, FALSE)
  /\ EndTask(t)
  /\ UNCHANGED <<nvs, canceled, erased>>

ReportPaired(t) ==
  /\ at[t] = "paired"
  /\ SetState(FALSE, TRUE)
  /\ EndTask(t)
  /\ UNCHANGED <<nvs, canceled, erased>>

ReportUnpaired(t) ==
  /\ at[t] = "unpaired"
  /\ SetState(TRUE, FALSE)
  /\ Goto(t, "delay")
  /\ UNCHANGED <<nvs, locals, canceled, erased>>

(* Slips for the mutation runs: attempts that are not counted, and         *)
(* progress reported before the cancel request is read.                    *)
NextAttempt_Uncounted(t) ==
  /\ at[t] = "delay"
  /\ Goto(t, "check")
  /\ UNCHANGED <<flags, nvs, locals, canceled, erased>>

NextAttempt_Reports(t) ==
  /\ at[t] = "delay"
  /\ attempt[t] < Attempts
  /\ attempt' = [attempt EXCEPT ![t] = @ + 1]
  /\ SetState(TRUE, FALSE)
  /\ Goto(t, "check")
  /\ UNCHANGED <<nvs, arg, cfg, twice, canceled, erased>>

(* The loop goes on when the delay is over ... *)
NextAttempt(t) ==
  /\ at[t] = "delay"
  /\ attempt[t] < Attempts
  /\ attempt' = [attempt EXCEPT ![t] = @ + 1]
  /\ Goto(t, "check")
  /\ UNCHANGED <<flags, nvs, arg, cfg, twice, canceled, erased>>

(* ... or ends. *)
TimeOut(t) ==
  /\ at[t] = "delay"
  /\ attempt[t] = Attempts
  /\ SetState(FALSE, FALSE)
  /\ EndTask(t)
  /\ UNCHANGED <<nvs, canceled, erased>>

PairTask(t) ==
  \/ Begin(t) \/ NoMemory(t) \/ Check(t) \/ Quit(t)
  \/ PairJson(t)
  \/ ReportPaired(t) \/ ReportUnpaired(t)
  \/ NextAttempt(t) \/ TimeOut(t)

-----------------------------------------------------------------------------
(* The HTTP server task                                                    *)

(* hue_integration_pair_start_json: without a stored key ...               *)
StartLoad(b) ==
  /\ at[httpd] = "idle"
  /\ nvs.key = None
  /\ arg' = [arg EXCEPT ![httpd] = b]
  /\ Goto(httpd, "asked")
  /\ UNCHANGED <<flags, nvs, attempt, cfg, twice, canceled, erased>>

(* A slip for the mutation runs: no look at hue_pair_running. *)
StartCheck_Again ==
  /\ at[httpd] = "asked"
  /\ Goto(httpd, "start")
  /\ UNCHANGED <<flags, nvs, arg, attempt, cfg, twice, canceled, erased>>

(* ... it goes on to the discovery, unless a window is open ...            *)
StartCheck ==
  /\ at[httpd] = "asked"
  /\ IF running
       THEN Goto(httpd, "idle") /\ arg' = [arg EXCEPT ![httpd] = None]
       ELSE Goto(httpd, "start") /\ UNCHANGED arg
  /\ UNCHANGED <<flags, nvs, attempt, cfg, twice, canceled, erased>>

(* ... and from there on. *)
StartTask(t) ==
  /\ at[httpd] = "start"
  /\ at[t] = "idle"
  /\ SetState(TRUE, FALSE)
  /\ at' = [at EXCEPT ![httpd] = "idle", ![t] = "begin"]
  /\ arg' = [arg EXCEPT ![httpd] = None, ![t] = arg[httpd]]
  /\ canceled' = "no"
  /\ UNCHANGED <<nvs, attempt, cfg, twice, erased>>

(* Out of memory before (the argument) or after (the task) the flags are   *)
(* set to running.                                                         *)
StartFails ==
  /\ Faults
  /\ at[httpd] = "start"
  /\ \/ UNCHANGED flags
     \/ running' = FALSE /\ success' = FALSE /\ cancel' = FALSE
  /\ Goto(httpd, "idle")
  /\ arg' = [arg EXCEPT ![httpd] = None]
  /\ UNCHANGED <<nvs, attempt, cfg, twice, canceled, erased>>

BetweenAttempts(t) == at[t] \in {"begin", "check", "delay"}

(* hue_integration_pair_cancel_json *)
Cancel ==
  /\ at[httpd] = "idle"
  /\ running
  /\ cancel' = TRUE
  /\ canceled' = IF \E t \in Task : BetweenAttempts(t) THEN "between" ELSE "during"
  /\ UNCHANGED <<running, success, nvs, at, locals, erased>>

(* POST /api/hue/pair *)
PairNow(b) ==
  /\ at[httpd] = "idle"
  /\ arg' = [arg EXCEPT ![httpd] = b]
  /\ Goto(httpd, "request")
  /\ UNCHANGED <<flags, nvs, attempt, cfg, twice, canceled, erased>>

(* hue_integration_status_json: the pairing is read key by key; if it has  *)
(* no name, the bridge or mDNS may tell it, and everything is saved again. *)
StatusLoadHost ==
  /\ at[httpd] = "idle"
  /\ cfg' = [cfg EXCEPT ![httpd] = [Unpaired EXCEPT !.host = nvs.host]]
  /\ Goto(httpd, "loadName")
  /\ UNCHANGED <<flags, nvs, arg, attempt, twice, canceled, erased>>

StatusLoadName ==
  /\ at[httpd] = "loadName"
  /\ cfg' = [cfg EXCEPT ![httpd].name = nvs.name]
  /\ Goto(httpd, "loadKey")
  /\ UNCHANGED <<flags, nvs, arg, attempt, twice, canceled, erased>>

StatusLoadKey ==
  /\ at[httpd] = "loadKey"
  /\ IF nvs.key # None /\ cfg[httpd].name = None /\ cfg[httpd].host # None
       THEN /\ cfg' = [cfg EXCEPT ![httpd].key = nvs.key]
            /\ Goto(httpd, "rename")
            /\ UNCHANGED arg
       ELSE Return(httpd, TRUE)
  /\ UNCHANGED <<flags, nvs, attempt, twice, canceled, erased>>

StatusRename ==
  /\ at[httpd] = "rename"
  /\ \/ /\ cfg' = [cfg EXCEPT ![httpd].name = cfg[httpd].host]
        /\ Goto(httpd, "host")
        /\ UNCHANGED arg
     \/ Return(httpd, FALSE)
  /\ UNCHANGED <<flags, nvs, attempt, twice, canceled, erased>>

(* accessory_config_clear_hue: each key is erased, whatever happens to the *)
(* others.                                                                 *)
Clear ==
  /\ at[httpd] = "idle"
  /\ Goto(httpd, "eraseHost")
  /\ UNCHANGED <<flags, nvs, locals, canceled, erased>>

Erase(key, place, next) ==
  /\ at[httpd] = place
  /\ \/ nvs' = [nvs EXCEPT ![key] = None]
     \/ Faults /\ UNCHANGED nvs
  /\ Goto(httpd, next)
  /\ UNCHANGED <<flags, locals, canceled>>

EraseAll ==
  \/ Erase("host", "eraseHost", "eraseName") /\ UNCHANGED erased
  \/ Erase("name", "eraseName", "eraseKey") /\ UNCHANGED erased
  \/ Erase("key", "eraseKey", "idle") /\ erased' = TRUE

HueHandler ==
  \/ \E b \in Bridge \cup {None} : StartLoad(b) \/ PairNow(b)
  \/ StartCheck
  \/ \E t \in Task : StartTask(t)
  \/ StartFails
  \/ Cancel
  \/ StatusLoadHost \/ StatusLoadName \/ StatusLoadKey \/ StatusRename
  \/ Clear \/ EraseAll
  \/ PairJson(httpd)

-----------------------------------------------------------------------------
HueReset ==
  /\ Faults
  /\ running' = FALSE
  /\ success' = FALSE
  /\ cancel' = FALSE
  /\ at' = [p \in Process |-> "idle"]
  /\ arg' = [p \in Process |-> None]
  /\ attempt' = [t \in Task |-> 0]
  /\ cfg' = [p \in Process |-> Unpaired]
  /\ twice' = [p \in Process |-> FALSE]
  /\ canceled' = "no"
  /\ UNCHANGED <<nvs, erased>>

HueNext == HueHandler \/ (\E t \in Task : PairTask(t)) \/ HueReset

HueSpec == HueInit /\ [][HueNext]_hueVars

(* The pairing task runs, and its HTTP requests and mDNS queries have      *)
(* timeouts.                                                               *)
FairHueSpec == HueSpec /\ \A t \in Task : WF_hueVars(PairTask(t))

-----------------------------------------------------------------------------
(* Properties                                                              *)

Text == Bridge \cup {None}
Pairing == [host : Text, name : Text, key : Text]

InPairJson == {"request", "refresh", "host", "name", "key"}
TaskPlace == {"idle", "begin", "check", "quit", "paired", "unpaired", "delay"} \cup InPairJson
HttpdPlace ==
  {"idle", "asked", "start", "loadName", "loadKey", "rename",
   "eraseHost", "eraseName", "eraseKey"} \cup InPairJson

(* A task counts its attempts from 1 to HUE_PAIR_WINDOW_ATTEMPTS.          *)
HueTypeOK ==
  /\ running \in BOOLEAN
  /\ success \in BOOLEAN
  /\ cancel \in BOOLEAN
  /\ nvs \in Pairing
  /\ at \in [Process -> TaskPlace \cup HttpdPlace]
  /\ at[httpd] \in HttpdPlace
  /\ \A t \in Task : at[t] \in TaskPlace
  /\ arg \in [Process -> Text]
  /\ attempt \in [Task -> 0 .. Attempts]
  /\ cfg \in [Process -> Pairing]
  /\ twice \in [Process -> BOOLEAN]
  /\ canceled \in {"no", "between", "during"}
  /\ erased \in BOOLEAN

(* hue_pair_running is read in one critical section (605) and set in       *)
(* another (634), with a discovery of seconds between: still there is at   *)
(* most one pairing task, and the flag says whether there is one.          *)
WindowIsOne ==
  /\ \A s, t \in Task : at[s] # "idle" /\ at[t] # "idle" => s = t
  /\ running <=> \E t \in Task : at[t] # "idle"

BeginsAttempt(t) == at[t] # "request" /\ at'[t] = "request"

(* wifi_admin.c:1295 "POST /api/hue/pair/cancel asks the current           *)
(* background pairing window to stop": after a cancel that was answered    *)
(* with cancel_requested, the window asks the bridge no more.              *)
CancelStops ==
  [][\A t \in Task : BeginsAttempt(t) => canceled = "no"]_hueVars

(* What is left of that: the window stops if the cancel came between two   *)
(* attempts, since only the report of an attempt (560) forgets it.         *)
CancelBetweenStops ==
  [][\A t \in Task : BeginsAttempt(t) => canceled # "between"]_hueVars

(* A window that reports success (560) has stored a key, whatever else     *)
(* wrote to the pairing meanwhile, unless the key was erased after that.   *)
PairedIsStored == success => nvs.key # None \/ erased

(* README.md:309 "retries automatically every two seconds until the Bridge *)
(* authorizes it or the window times out": the window comes to an end.     *)
WindowEnds == running ~> ~running

(* What the proofs add.  Nobody starts a task while there is one; ...      *)
StartsAlone == at[httpd] = "start" => \A t \in Task : at[t] = "idle"

(* ... whoever saves has been granted a key; ...                           *)
HoldsKey ==
  \A p \in Process :
    at[p] \in {"refresh", "rename", "host", "name", "key"} => cfg[p].key \in Bridge

(* ... a task that is about to report success has stored one; ...          *)
ReportsStored == (\E t \in Task : at[t] = "paired") => nvs.key # None \/ erased

(* ... and a cancel between two attempts is not forgotten.                 *)
CancelIsKept ==
  canceled = "between" =>
    \A t \in Task :
      /\ at[t] \in {"idle", "begin", "check", "delay", "quit"}
      /\ BetweenAttempts(t) => cancel

(* The inductive invariant. *)
HueInv ==
  /\ HueTypeOK
  /\ WindowIsOne
  /\ StartsAlone
  /\ HoldsKey
  /\ PairedIsStored
  /\ ReportsStored
  /\ CancelIsKept

Writing ==
  {"loadName", "loadKey", "rename", "host", "name", "key", "eraseHost", "eraseName", "eraseKey"}

(* README.md:319 "this firmware currently stores one bridge pairing": when *)
(* nobody is writing, the stored key is one of the stored bridge.          *)
OnePairing ==
  (\A p \in Process : at[p] \notin Writing) /\ nvs.key # None => nvs.host = nvs.key
=============================================================================
