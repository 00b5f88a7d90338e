-------------------------- MODULE AutomationRules --------------------------
(***************************************************************************)
(* main/automation.c: the rules in NVS, edited by the HTTP server task,    *)
(* while the automation worker evaluates them and switches Hue lights.     *)
(* The two tasks share automation_rules_active and last_fire_ms without a  *)
(* lock, and the second is indexed by the place of a rule in the list; at  *)
(* boot, the main task writes the first as well.                           *)
(*                                                                         *)
(* The queue of requests is the set of waiting fields that AutomationQueue *)
(* implements.  Whether a rule's conditions match is left open: the bike   *)
(* may report anything.  So is whether Wi-Fi is up.  Every stored rule is  *)
(* valid (no handler stores another), and every body that is offered is    *)
(* one validate_rule_json accepts.  automation_test_rule_triggers changes  *)
(* nothing here.  Saves that fail change nothing either.                   *)
(***************************************************************************)
EXTENDS Integers, Sequences, SequencesExt

CONSTANTS
  Fields,     (* fields that conditions speak of                           *)
  Body,       (* rule contents: [name, flat, fields, lights], see IsBody   *)
  NoName,     (* the empty name                                            *)
  FormName,   (* "Automation", which rule_to_json writes for no name       *)
  MaxRules,   (* AUTOMATION_MAX_RULES                                      *)
  Cooldown,   (* of every rule, in clock ticks                             *)
  MaxTime,    (* bound of the clock                                        *)
  Nr,         (* numbers that follow a stored rule from place to place     *)
  Faults      (* whether refresh_rules_active may fail to load the rules   *)

IsBody(b) ==
  /\ b.flat \in BOOLEAN        (* parse_rule accepts it: no groups         *)
  /\ b.fields \subseteq Fields
  /\ Len(b.lights) > 0         (* the triggers, in order                   *)

Place == 1 .. MaxRules
Time == 1 .. MaxTime

ASSUME RulesAssumption ==
  /\ MaxRules \in Nat \ {0}
  /\ Cooldown \in Nat \ {0}
  /\ MaxTime \in Nat \ {0}
  /\ Faults \in BOOLEAN
  /\ \A b \in Body :
       /\ IsBody(b)
       /\ b.flat /\ b.name = NoName => [b EXCEPT !.name = FormName] \in Body

VARIABLES
  rules,     (* the stored list of [nr, body, on]                    [NVS] *)
  active,    (* automation_rules_active                                    *)
  lastFire,  (* last_fire_ms, 0 for never                                  *)
  boot,      (* refresh_rules_active in automation_start: before its       *)
             (* "load", with what it has read ("heard", "unheard"), "done" *)
  overtaken, (* what it has read is no longer what is stored, or it could  *)
             (* not read it                                                *)
  blind,     (* the flag was last set from such a reading, or from none    *)
  todo,      (* what the handler still has to do after its save: to        *)
             (* "refresh" the flag, to "reset" the cooldowns, or to set    *)
             (* the flag itself ("heard", "unheard"), in this order        *)
  wanted,    (* fields waiting for an evaluation                           *)
  worker,    (* automation_evaluate_latest: its place and its variables    *)
  clock,     (* esp_timer_get_time                                         *)
  lastFull,  (* by rule number: the evaluation that last fired all its     *)
             (* triggers, since the last edit that restarts cooldowns      *)
  raced,     (* the save or the memset of such an edit came after the      *)
             (* worker read its list                                       *)
  tainted    (* an evaluation so raced wrote to lastFire afterwards        *)

starting == <<boot, overtaken>>
flag == <<active, blind, starting>>
store == <<rules, flag, todo>>
history == <<lastFull, raced, tainted>>
ruleVars == <<store, lastFire, wanted, worker, clock, history>>

Never == [p \in Place |-> 0]

Idle == [at |-> "idle", list |-> <<>>, now |-> 0, mask |-> {},
         place |-> 1, trigger |-> 1, ok |-> TRUE]

Enabled(list) == \E p \in 1 .. Len(list) : list[p].on

RulesInit ==
  /\ rules = <<>>
  /\ active = FALSE
  /\ boot = "load"
  /\ overtaken = FALSE
  /\ blind = FALSE
  /\ lastFire = Never
  /\ todo = {}
  /\ wanted = {}
  /\ worker = Idle
  /\ clock = 1
  /\ lastFull = [n \in Nr |-> 0]
  /\ raced = FALSE
  /\ tainted = FALSE

-----------------------------------------------------------------------------
(* The HTTP server task.  It is the only one that writes the rules, so a   *)
(* load, an edit of the copy and the save are one step, at the save.       *)

Used == {rules[p].nr : p \in 1 .. Len(rules)} \cup
        {worker.list[p].nr : p \in 1 .. Len(worker.list)}

NewRule(n, b, on) == [nr |-> n, body |-> b, on |-> on]

Save(list, rest) ==
  /\ todo = {}
  /\ rules' = list
  /\ todo' = rest
  /\ overtaken' = (overtaken \/ boot \in {"heard", "unheard"})
  /\ UNCHANGED <<active, blind, boot, lastFire, wanted, worker, clock, tainted>>

(* An edit was saved whose memset is still to come. *)
ResetDue == "reset" \in todo

(* An edit after which the handler clears last_fire_ms. *)
Restarting ==
  /\ lastFull' = [n \in Nr |-> 0]
  /\ raced' = (worker.at # "idle")

Heard(yes) == IF yes THEN "heard" ELSE "unheard"

(* A slip for the mutation runs: the loop keeps only what it saw last. *)
FlatOn_Last(n) == n > 0 /\ rules[n].body.flat /\ rules[n].on

(* automation_add_rule, for a rule posted as a form.  parse_rule sees only *)
(* flat rules, and the loop stops at a rule equal to the new one, whose    *)
(* name is still empty.                                                    *)
FlatOn(n) == \E p \in 1 .. n : rules[p].body.flat /\ rules[p].on

Twins(b, on) ==
  {p \in 1 .. Len(rules) : rules[p].body = b /\ rules[p].on = on}

AddForm(n, b, on) ==
  /\ n \in Nr \ Used
  /\ b.flat
  /\ b.name = NoName
  /\ Len(b.lights) = 1
  /\ LET stored == [b EXCEPT !.name = FormName]
     IN  IF Twins(b, on) # {}
           THEN \E p \in Twins(b, on) :
                  /\ \A q \in Twins(b, on) : p <= q
                  /\ Save(rules, {Heard(on \/ FlatOn(p))})
           ELSE /\ Len(rules) < MaxRules
                /\ Save(Append(rules, NewRule(n, stored, on)),
                        {Heard(on \/ FlatOn(Len(rules)))})
  /\ UNCHANGED <<lastFull, raced>>

(* automation_add_rule_json *)
AddJson(n, b, on) ==
  /\ n \in Nr \ Used
  /\ Len(rules) < MaxRules
  /\ Save(Append(rules, NewRule(n, b, on)), {"refresh"})
  /\ UNCHANGED <<lastFull, raced>>

(* automation_update_rule_json *)
Update(p, b, on) ==
  /\ p <= Len(rules)
  /\ Save([rules EXCEPT ![p].body = b, ![p].on = on], {"refresh", "reset"})
  /\ Restarting

(* automation_set_rule_enabled *)
SetEnabled(p, on) ==
  /\ p <= Len(rules)
  /\ Save([rules EXCEPT ![p].on = on], {"refresh", "reset"})
  /\ Restarting

(* A slip for the mutation runs: no memset. *)
Delete_KeepsCooldowns(p) ==
  /\ p <= Len(rules)
  /\ Save(RemoveAt(rules, p), {"refresh"})
  /\ Restarting

(* automation_delete_rule *)
Delete(p) ==
  /\ p <= Len(rules)
  /\ Save(RemoveAt(rules, p), {"refresh", "reset"})
  /\ Restarting

(* A slip for the mutation runs: the flag is forgotten. *)
Clear_StaysActive ==
  /\ Save(<<>>, {"reset"})
  /\ Restarting

(* automation_clear_rules *)
Clear ==
  /\ Save(<<>>, {"reset", "unheard"})
  /\ Restarting

(* rules_text_has_enabled_rule *)
RefreshValue == Enabled(rules)

(* refresh_rules_active: FALSE if the rules cannot be read. *)
Refresh ==
  /\ "refresh" \in todo
  /\ \/ active' = RefreshValue /\ blind' = FALSE
     \/ Faults /\ active' = FALSE /\ blind' = TRUE
  /\ todo' = todo \ {"refresh"}
  /\ UNCHANGED <<rules, starting, lastFire, wanted, worker, clock, history>>

SetFlag ==
  /\ \/ todo = {"heard"} /\ active' = TRUE
     \/ todo = {"unheard"} /\ active' = FALSE
  /\ blind' = FALSE
  /\ todo' = {}
  /\ UNCHANGED <<rules, starting, lastFire, wanted, worker, clock, history>>

(* memset(last_fire_ms, 0) *)
ResetCooldowns ==
  /\ "reset" \in todo
  /\ "refresh" \notin todo
  /\ lastFire' = Never
  /\ todo' = todo \ {"reset"}
  /\ tainted' = FALSE
  /\ UNCHANGED <<rules, flag, wanted, worker, clock, lastFull, raced>>

Handler ==
  \/ \E n \in Nr, b \in Body, on \in BOOLEAN : AddForm(n, b, on) \/ AddJson(n, b, on)
  \/ \E p \in Place, b \in Body, on \in BOOLEAN : Update(p, b, on)
  \/ \E p \in Place, on \in BOOLEAN : SetEnabled(p, on)
  \/ \E p \in Place : Delete(p)
  \/ Clear
  \/ Refresh \/ SetFlag \/ ResetCooldowns

-----------------------------------------------------------------------------
(* automation_start, in the main task: refresh_rules_active, with a load   *)
(* from flash between the two steps, and then the queue.  app_main.c has   *)
(* started the HTTP server before (107, 120), so that handlers edit the    *)
(* rules, and set the flag, before, between and after the two.             *)

BootLoad ==
  /\ boot = "load"
  /\ \/ boot' = Heard(RefreshValue) /\ overtaken' = FALSE
     \/ Faults /\ boot' = "unheard" /\ overtaken' = TRUE
  /\ UNCHANGED <<rules, active, blind, todo, lastFire, wanted, worker, clock, history>>

BootWrite ==
  /\ boot \in {"heard", "unheard"}
  /\ active' = (boot = "heard")
  /\ blind' = overtaken
  /\ boot' = "done"
  /\ overtaken' = FALSE
  /\ UNCHANGED <<rules, todo, lastFire, wanted, worker, clock, history>>

-----------------------------------------------------------------------------
(* A notification of the bike in which the fields of m changed.  There is  *)
(* a queue only once automation_start is done.                             *)
Notify(m) ==
  /\ boot = "done"
  /\ active
  /\ m # {}
  /\ wanted' = wanted \cup m
  /\ UNCHANGED <<store, lastFire, worker, clock, history>>

(* The automation worker                                                   *)

Take(m) ==
  /\ worker.at = "idle"
  /\ m # {}
  /\ m \subseteq wanted
  /\ \E kept \in SUBSET m : wanted' = (wanted \ m) \cup kept

(* Wi-Fi is down, or the rules cannot be read: the request is forgotten. *)
EvaluateNothing(m) ==
  /\ Take(m)
  /\ UNCHANGED <<store, lastFire, worker, clock, history>>

EvaluateBegin(m) ==
  /\ Take(m)
  /\ worker' = [Idle EXCEPT !.at = "rule", !.list = rules,
                            !.now = clock, !.mask = m]
  /\ raced' = ResetDue
  /\ UNCHANGED <<store, lastFire, clock, lastFull, tainted>>

Rule == worker.list[worker.place]

NextRule ==
  worker' = IF worker.place < Len(worker.list)
              THEN [worker EXCEPT !.at = "rule", !.place = @ + 1,
                                  !.trigger = 1, !.ok = TRUE]
              ELSE Idle

(* The rule is disabled, none of its fields changed, its conditions do not *)
(* match, or it cools down; or the list is empty.                          *)
PassOver ==
  /\ worker.at = "rule"
  /\ NextRule
  /\ UNCHANGED <<store, lastFire, wanted, clock, history>>

(* A slip for the mutation runs: off by one. *)
Cooling_Short(p, now) == lastFire[p] # 0 /\ now - lastFire[p] < Cooldown - 1

Cooling(p, now) == lastFire[p] # 0 /\ now - lastFire[p] < Cooldown

Fire ==
  /\ worker.at = "rule"
  /\ worker.place <= Len(worker.list)
  /\ Rule.on
  /\ Rule.body.fields \cap worker.mask # {}
  /\ ~Cooling(worker.place, worker.now)
  /\ worker' = [worker EXCEPT !.at = "fire"]
  /\ UNCHANGED <<store, lastFire, wanted, clock, history>>

(* One trigger of fire_rule_triggers_json: the bridge obeys or does not,   *)
(* and the loop goes on to the next one in both cases.                     *)
Switch(obeyed) ==
  /\ worker.at = "fire"
  /\ worker.trigger <= Len(Rule.body.lights)
  /\ worker' = [worker EXCEPT !.trigger = @ + 1, !.ok = @ /\ obeyed]
  /\ UNCHANGED <<store, lastFire, wanted, clock, history>>

(* The cooldown starts only if every trigger succeeded, at the time the    *)
(* evaluation began, and at the place the rule had then.                   *)
FireEnd ==
  /\ worker.at = "fire"
  /\ worker.trigger > Len(Rule.body.lights)
  /\ IF ~worker.ok
       THEN UNCHANGED <<lastFire, lastFull, tainted>>
       ELSE /\ lastFire' = [lastFire EXCEPT ![worker.place] = worker.now]
            /\ IF raced
                 THEN tainted' = TRUE /\ UNCHANGED lastFull
                 ELSE /\ lastFull' = [lastFull EXCEPT ![Rule.nr] = worker.now]
                      /\ UNCHANGED tainted
  /\ NextRule
  /\ UNCHANGED <<store, wanted, clock, raced>>

Evaluate ==
  \/ \E m \in SUBSET Fields : EvaluateNothing(m) \/ EvaluateBegin(m)
  \/ PassOver
  \/ Fire
  \/ FireEnd

Worker == Evaluate \/ \E obeyed \in BOOLEAN : Switch(obeyed)

-----------------------------------------------------------------------------
Tick ==
  /\ clock < MaxTime
  /\ clock' = clock + 1
  /\ UNCHANGED <<store, lastFire, wanted, worker, history>>

(* A reset.  The clock starts again from the beginning.                    *)
Restart ==
  /\ active' = FALSE
  /\ boot' = "load"
  /\ overtaken' = FALSE
  /\ blind' = FALSE
  /\ lastFire' = Never
  /\ todo' = {}
  /\ wanted' = {}
  /\ worker' = Idle
  /\ clock' = 1
  /\ lastFull' = [n \in Nr |-> 0]
  /\ raced' = FALSE
  /\ tainted' = FALSE
  /\ UNCHANGED rules

RulesNext ==
  \/ Handler
  \/ BootLoad \/ BootWrite
  \/ \E m \in SUBSET Fields : Notify(m)
  \/ Worker
  \/ Tick
  \/ Restart

RulesSpec == RulesInit /\ [][RulesNext]_ruleVars
-----------------------------------------------------------------------------
(* Properties                                                              *)

StoredRule == [nr : Nr, body : Body, on : BOOLEAN]

RuleList == {list \in Seq(StoredRule) : Len(list) <= MaxRules}

Evaluation ==
  [at : {"idle", "rule", "fire"}, list : RuleList, now : Nat,
   mask : SUBSET Fields, place : Place, trigger : Nat \ {0}, ok : BOOLEAN]

Rest == {{}, {"refresh"}, {"refresh", "reset"}, {"reset"},
         {"reset", "unheard"}, {"unheard"}, {"heard"}}

(* In particular, the stored list never outgrows last_fire_ms (26).        *)
RulesTypeOK ==
  /\ rules \in RuleList
  /\ active \in BOOLEAN
  /\ boot \in {"load", "heard", "unheard", "done"}
  /\ overtaken \in BOOLEAN
  /\ blind \in BOOLEAN
  /\ lastFire \in [Place -> Nat]
  /\ todo \in Rest
  /\ wanted \subseteq Fields
  /\ worker \in Evaluation
  /\ clock \in Time
  /\ lastFull \in [Nr -> Nat]
  /\ raced \in BOOLEAN
  /\ tainted \in BOOLEAN

(* README.md:334 "evaluation requests are queued only when at least one    *)
(* enabled automation rule exists": whatever edits come, from the boot on, *)
(* once no handler is under way the flag that lets requests through is not *)
(* set without an enabled rule.                                            *)
NeverQueuesForNone == todo = {} /\ active => Enabled(rules)

(* It is not true of a boot whose refresh (412-425, 1143) an edit has      *)
(* overtaken: the refresh then sets the flag from rules which are no       *)
(* longer there, and the next edit puts it right.  But for that it is.     *)
QueuesOnlyForEnabled == ~blind => NeverQueuesForNone

(* Nor is the flag unset with an enabled rule, once automation_start is    *)
(* done; refresh_rules_active unsets it also if it cannot read the rules.  *)
EnabledRuleIsHeard ==
  todo = {} /\ boot = "done" /\ ~blind /\ Enabled(rules) => active

(* That much is true as long as no stored rule has groups or an empty      *)
(* name: what automation_add_rule (815-863) works out for itself is then   *)
(* what refresh_rules_active (412-425) would find, whatever handlers,      *)
(* failed loads and resets come in between.                                *)
FlatAndNamed ==
  \A p \in 1 .. Len(rules) : rules[p].body.flat /\ rules[p].body.name # NoName

FlatRuleIsHeard == FlatAndNamed => EnabledRuleIsHeard

(* A cooldown is kept by place in the list (1108, 1113), and rules change  *)
(* places: the cooldown at a place is that of the rule which is there, and *)
(* a free place has none for the next rule to inherit.  The exception is   *)
(* an evaluation that finishes after an edit which it has not seen (1113   *)
(* against 949, 980, 1004, 1052).                                          *)
CooldownIsOwn ==
  ~ResetDue /\ ~tainted =>
    \A p \in Place :
      lastFire[p] = IF p <= Len(rules) THEN lastFull[rules[p].nr] ELSE 0

(* The worker fires rules from the list it has read (1071): unless that    *)
(* was edited meanwhile, a rule that fires is still stored, enabled and    *)
(* the same, at the place whose cooldown the worker will set.              *)
FiresStoredRule ==
  worker.at = "fire" /\ ~raced =>
    /\ worker.place <= Len(rules)
    /\ rules[worker.place] = Rule
    /\ Rule.on

(* README.md:334 "Each rule has a cooldown": a rule whose triggers have    *)
(* all succeeded does not fire again before it is over, unless rules were  *)
(* edited or the device restarted.                                         *)
CooldownIsKept ==
  worker.at = "fire" =>
    LET t == lastFull[Rule.nr]
    IN  t = 0 \/ worker.now - t >= Cooldown

(* What these rest on.  The stored rules have different numbers, and only  *)
(* they have fired ...                                                     *)
NumbersDiffer ==
  \A p, q \in 1 .. Len(rules) : rules[p].nr = rules[q].nr => p = q

OnlyStoredHaveFired ==
  \A n \in Nr : lastFull[n] # 0 => \E p \in 1 .. Len(rules) : rules[p].nr = n

(* ... the worker's list is the beginning of the stored one, unless an     *)
(* edit overtook it, and then nothing has fired completely since; ...      *)
EditsRestart ==
  /\ ResetDue => \A n \in Nr : lastFull[n] = 0
  /\ worker.at # "idle" /\ raced => \A n \in Nr : lastFull[n] = 0
  /\ worker.at # "idle" /\ ResetDue => raced

ListIsStored ==
  worker.at # "idle" /\ ~raced =>
    /\ Len(worker.list) <= Len(rules)
    /\ \A p \in 1 .. Len(worker.list) : worker.list[p] = rules[p]

(* ... a rule that fires is in that list, and enabled; ...                 *)
FiringIsListed ==
  worker.at = "fire" => worker.place <= Len(worker.list) /\ Rule.on

(* ... and a complete fire is never forgotten before an edit.              *)
FiresAreKept ==
  \A p \in 1 .. Len(rules) :
    lastFull[rules[p].nr] # 0 => lastFire[p] = lastFull[rules[p].nr]

(* The flag that a handler or the boot is about to set is right, and so is *)
(* the one that has been set ...                                           *)
FlagIsRight ==
  /\ "heard" \in todo => Enabled(rules)
  /\ boot = "heard" /\ ~overtaken => Enabled(rules)
  /\ todo \in {{}, {"reset"}} /\ active /\ ~blind => Enabled(rules)

(* ... in both directions, among flat rules.                               *)
FlatFlagIsRight ==
  FlatAndNamed =>
    /\ "unheard" \in todo => ~Enabled(rules)
    /\ boot = "unheard" /\ ~overtaken => ~Enabled(rules)
    /\ todo \in {{}, {"reset"}} /\ boot = "done" /\ ~blind /\ Enabled(rules) => active

(* The inductive invariant. *)
RulesInv ==
  /\ RulesTypeOK
  /\ NumbersDiffer
  /\ OnlyStoredHaveFired
  /\ EditsRestart
  /\ ListIsStored
  /\ FiringIsListed
  /\ FiresAreKept
  /\ FlagIsRight
  /\ FlatFlagIsRight
  /\ CooldownIsOwn
  /\ CooldownIsKept
=============================================================================
