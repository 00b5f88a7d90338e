----------------------- MODULE AutomationRules_proofs ----------------------
(***************************************************************************)
(* The automation rules: proofs, for every number of places, every set of  *)
(* rules and every cooldown, of the invariants that keep the cooldowns and *)
(* the rules-active flag in step with the stored list.                     *)
(***************************************************************************)
EXTENDS AutomationRules, SequenceTheorems, TLAPS

LEMMA EmptyList == <<>> \in RuleList /\ Len(<<>>) = 0
  BY EmptySeq, RulesAssumption DEF RuleList

LEMMA IdleIsEvaluation ==
  /\ Idle \in Evaluation
  /\ Idle.at = "idle"
<1>1. {} \in SUBSET Fields /\ 1 \in Place /\ 0 \in Nat /\ 1 \in Nat \ {0}
  BY RulesAssumption DEF Place
<1> QED
  BY <1>1, EmptyList DEF Idle, Evaluation

LEMMA ListProperties ==
  ASSUME NEW list \in RuleList
  PROVE  /\ list \in Seq(StoredRule)
         /\ Len(list) \in Nat
         /\ Len(list) <= MaxRules
         /\ \A p \in 1 .. Len(list) : list[p] \in StoredRule /\ p \in Place
<1>1. list \in Seq(StoredRule) /\ Len(list) \in Nat /\ Len(list) <= MaxRules
  BY LenProperties DEF RuleList
<1>2. \A p \in 1 .. Len(list) : list[p] \in StoredRule
  BY <1>1, ElementOfSeq
<1>3. \A p \in 1 .. Len(list) : p \in Place
  BY <1>1, RulesAssumption DEF Place
<1> QED
  BY <1>1, <1>2, <1>3

LEMMA AppendToList ==
  ASSUME NEW list \in RuleList, Len(list) < MaxRules, NEW r \in StoredRule
  PROVE  /\ Append(list, r) \in RuleList
         /\ Len(Append(list, r)) = Len(list) + 1
         /\ Append(list, r)[Len(list) + 1] = r
         /\ \A p \in 1 .. Len(list) : Append(list, r)[p] = list[p]
<1>1. /\ Append(list, r) \in Seq(StoredRule)
      /\ Len(Append(list, r)) = Len(list) + 1
      /\ Append(list, r)[Len(list) + 1] = r
      /\ \A p \in 1 .. Len(list) : Append(list, r)[p] = list[p]
  BY AppendProperties, ListProperties
<1>2. Len(list) + 1 <= MaxRules
  BY ListProperties, RulesAssumption
<1> QED
  BY <1>1, <1>2 DEF RuleList

LEMMA RemoveFromList ==
  ASSUME NEW list \in RuleList, NEW p \in 1 .. Len(list)
  PROVE  /\ RemoveAt(list, p) \in RuleList
         /\ Len(RemoveAt(list, p)) = Len(list) - 1
         /\ \A q \in 1 .. Len(list) - 1 :
              RemoveAt(list, p)[q] = IF q < p THEN list[q] ELSE list[q + 1]
<1>1. /\ list \in Seq(StoredRule)
      /\ Len(list) \in Nat
      /\ Len(list) <= MaxRules
  BY ListProperties
<1> DEFINE a == SubSeq(list, 1, p - 1)
           b == SubSeq(list, p + 1, Len(list))
<1>2. /\ a \in Seq(StoredRule)
      /\ Len(a) = p - 1
      /\ \A q \in 1 .. p - 1 : a[q] = list[q]
  BY <1>1, SubSeqProperties
<1>3. /\ b \in Seq(StoredRule)
      /\ Len(b) = Len(list) - p
      /\ \A q \in 1 .. Len(list) - p : b[q] = list[q + p]
  BY <1>1, SubSeqProperties
<1>4. /\ a \o b \in Seq(StoredRule)
      /\ Len(a \o b) = Len(a) + Len(b)
      /\ \A q \in 1 .. Len(a) + Len(b) :
           (a \o b)[q] = IF q <= Len(a) THEN a[q] ELSE b[q - Len(a)]
  BY <1>2, <1>3, ConcatProperties
<1>5. RemoveAt(list, p) = a \o b
  BY DEF RemoveAt
<1> HIDE DEF a, b
<1>6. Len(a \o b) = Len(list) - 1
  BY <1>1, <1>2, <1>3, <1>4
<1>7. ASSUME NEW q \in 1 .. Len(list) - 1
      PROVE  (a \o b)[q] = IF q < p THEN list[q] ELSE list[q + 1]
  <2>1. CASE q < p
    BY <2>1, <1>1, <1>2, <1>3, <1>4
  <2>2. CASE ~(q < p)
    <3>1. q - Len(a) \in 1 .. Len(list) - p /\ ~(q <= Len(a)) /\ (q - Len(a)) + p = q + 1
      BY <2>2, <1>1, <1>2
    <3>2. q \in 1 .. Len(a) + Len(b)
      BY <1>1, <1>2, <1>3
    <3> QED
      BY <2>2, <3>1, <3>2, <1>3, <1>4
  <2> QED
    BY <2>1, <2>2
<1>8. Len(list) - 1 <= MaxRules
  BY <1>1, RulesAssumption
<1> QED
  BY <1>4, <1>5, <1>6, <1>7, <1>8 DEF RuleList

-----------------------------------------------------------------------------
LEMMA RulesInvInitially == RulesInit => RulesInv
<1> SUFFICES ASSUME RulesInit PROVE RulesInv
  OBVIOUS
<1>0. /\ rules \in RuleList /\ Len(rules) = 0
      /\ worker \in Evaluation /\ worker.at = "idle"
  BY EmptyList, IdleIsEvaluation DEF RulesInit
<1>1. /\ todo = {} /\ active = FALSE /\ wanted = {} /\ raced = FALSE /\ tainted = FALSE
      /\ boot = "load" /\ overtaken = FALSE /\ blind = FALSE
      /\ lastFire = Never /\ lastFull = [n \in Nr |-> 0] /\ clock = 1
  BY DEF RulesInit
<1>2. RulesTypeOK
  <2>1. lastFire \in [Place -> Nat] /\ lastFull \in [Nr -> Nat]
    BY <1>1 DEF Never
  <2>2. clock \in Time
    BY <1>1, RulesAssumption DEF Time
  <2>3. todo \in Rest /\ active \in BOOLEAN /\ raced \in BOOLEAN /\ tainted \in BOOLEAN
    BY <1>1 DEF Rest
  <2>4. wanted \subseteq Fields
    BY <1>1
  <2> QED
    BY <1>0, <1>1, <2>1, <2>2, <2>3, <2>4 DEF RulesTypeOK
<1>3. NumbersDiffer /\ FiresAreKept
  BY <1>0 DEF NumbersDiffer, FiresAreKept
<1>4. OnlyStoredHaveFired /\ EditsRestart /\ ListIsStored /\ FiringIsListed /\ CooldownIsKept
  BY <1>0, <1>1 DEF OnlyStoredHaveFired, EditsRestart, ListIsStored, FiringIsListed,
                    CooldownIsKept, ResetDue
<1>5. FlagIsRight /\ FlatFlagIsRight
  BY <1>1 DEF FlagIsRight, FlatFlagIsRight
<1>6. CooldownIsOwn
  BY <1>0, <1>1 DEF CooldownIsOwn, Never, Place
<1> QED
  BY <1>2, <1>3, <1>4, <1>5, <1>6 DEF RulesInv

-----------------------------------------------------------------------------
(* A saved edit that restarts the cooldowns preserves the invariant if it  *)
(* leaves a well-formed list.                                              *)
LEMMA RestartingEdit ==
  ASSUME RulesInv,
         NEW list \in RuleList,
         \A p, q \in 1 .. Len(list) : list[p].nr = list[q].nr => p = q,
         NEW rest \in {{"refresh", "reset"}, {"reset", "unheard"}},
         "unheard" \in rest => ~Enabled(list),
         Save(list, rest),
         Restarting
  PROVE  RulesInv'
<1> USE DEF RulesInv
<1>1. /\ rules' = list /\ todo' = rest /\ worker' = worker /\ lastFire' = lastFire
      /\ active' = active /\ wanted' = wanted /\ clock' = clock /\ tainted' = tainted
      /\ boot' = boot /\ blind' = blind /\ overtaken' \in BOOLEAN
      /\ boot \in {"heard", "unheard"} => overtaken'
      /\ lastFull' = [n \in Nr |-> 0]
      /\ raced' = (worker.at # "idle")
  BY DEF Save, Restarting
<1>2. "reset" \in todo' /\ "heard" \notin todo' /\ todo' \notin {{}, {"reset"}}
  BY <1>1
<1>3. RulesTypeOK'
  <2>1. todo' \in Rest /\ raced' \in BOOLEAN
    BY <1>1 DEF Rest
  <2> QED
    BY <1>1, <2>1 DEF RulesTypeOK
<1>4. \A n \in Nr : lastFull'[n] = 0
  BY <1>1
<1>5. NumbersDiffer'
  BY <1>1 DEF NumbersDiffer
<1>6. OnlyStoredHaveFired' /\ EditsRestart' /\ ListIsStored'
  BY <1>1, <1>4 DEF OnlyStoredHaveFired, EditsRestart, ListIsStored, ResetDue
<1>7. FiringIsListed'
  BY <1>1 DEF FiringIsListed, Rule
<1>8. FiresAreKept'
  <2>1. \A p \in 1 .. Len(list) : list[p].nr \in Nr
    BY ListProperties DEF StoredRule
  <2> QED
    BY <1>1, <1>4, <2>1 DEF FiresAreKept
<1>9. FlagIsRight' /\ FlatFlagIsRight'
  BY <1>1, <1>2 DEF FlagIsRight, FlatFlagIsRight, Enabled
<1>10. CooldownIsOwn'
  BY <1>2 DEF CooldownIsOwn, ResetDue
<1>11. CooldownIsKept'
  <2>1. worker.at = "fire" => Rule.nr \in Nr
    BY ListProperties DEF FiringIsListed, Rule, StoredRule, RulesTypeOK, Evaluation, Place
  <2> QED
    BY <1>1, <1>4, <2>1 DEF CooldownIsKept, Rule
<1> QED
  BY <1>3, <1>5, <1>6, <1>7, <1>8, <1>9, <1>10, <1>11

(* So does a rule added behind the others. *)
LEMMA AddedRule ==
  ASSUME RulesInv,
         NEW r \in StoredRule,
         r.nr \notin Used,
         Len(rules) < MaxRules,
         NEW rest \in {{"refresh"}, {"heard"}, {"unheard"}},
         Save(Append(rules, r), rest),
         rest = {"heard"} => r.on \/ Enabled(rules),
         rest = {"unheard"} /\ FlatAndNamed => ~r.on /\ ~Enabled(rules),
         UNCHANGED <<lastFull, raced>>
  PROVE  RulesInv'
<1> USE DEF RulesInv
<1> DEFINE list == Append(rules, r)
<1>1. /\ rules' = list /\ todo' = rest /\ worker' = worker /\ lastFire' = lastFire
      /\ active' = active /\ wanted' = wanted /\ clock' = clock /\ tainted' = tainted
      /\ boot' = boot /\ blind' = blind /\ overtaken' \in BOOLEAN
      /\ boot \in {"heard", "unheard"} => overtaken'
      /\ lastFull' = lastFull /\ raced' = raced /\ todo = {}
  BY DEF Save
<1>2. /\ rules \in RuleList /\ Len(rules) \in Nat
      /\ list \in RuleList
      /\ Len(list) = Len(rules) + 1
      /\ list[Len(rules) + 1] = r
      /\ \A p \in 1 .. Len(rules) : list[p] = rules[p]
  BY AppendToList, ListProperties DEF RulesTypeOK
<1> HIDE DEF list
<1>3. "reset" \notin todo' /\ todo' \notin {{}, {"reset"}}
  BY <1>1
<1>4. RulesTypeOK'
  <2>1. todo' \in Rest
    BY <1>1 DEF Rest
  <2> QED
    BY <1>1, <1>2, <2>1 DEF RulesTypeOK
<1>5. \A p \in 1 .. Len(rules) : rules[p].nr # r.nr
  BY DEF Used
<1>6. r.nr \in Nr /\ lastFull[r.nr] = 0
  BY <1>5 DEF StoredRule, OnlyStoredHaveFired
<1>7. \A p \in 1 .. Len(list) : p \in 1 .. Len(rules) \/ p = Len(rules) + 1
  BY <1>2
<1>8. NumbersDiffer'
  <2> SUFFICES ASSUME NEW p \in 1 .. Len(list), NEW q \in 1 .. Len(list),
                      list[p].nr = list[q].nr
               PROVE  p = q
    BY <1>1 DEF NumbersDiffer
  <2> QED
    BY <1>2, <1>5, <1>7 DEF NumbersDiffer
<1>9. OnlyStoredHaveFired'
  <2>1. \A p \in 1 .. Len(rules) : p \in 1 .. Len(list)
    BY <1>2
  <2> QED
    BY <1>1, <1>2, <2>1 DEF OnlyStoredHaveFired
<1>10. EditsRestart'
  BY <1>1, <1>3 DEF EditsRestart, ResetDue
<1>11. ListIsStored'
  <2> SUFFICES ASSUME worker.at # "idle", ~raced
               PROVE  /\ Len(worker.list) <= Len(list)
                      /\ \A p \in 1 .. Len(worker.list) : worker.list[p] = list[p]
    BY <1>1 DEF ListIsStored
  <2>1. /\ Len(worker.list) <= Len(rules)
        /\ \A p \in 1 .. Len(worker.list) : worker.list[p] = rules[p]
    BY DEF ListIsStored
  <2>2. Len(worker.list) \in Nat
    BY ListProperties DEF RulesTypeOK, Evaluation
  <2>3. \A p \in 1 .. Len(worker.list) : p \in 1 .. Len(rules)
    BY <1>2, <2>1, <2>2
  <2> QED
    BY <1>2, <2>1, <2>2, <2>3
<1>12. FiringIsListed' /\ CooldownIsKept'
  BY <1>1 DEF FiringIsListed, CooldownIsKept, Rule
<1>13. FiresAreKept'
  BY <1>1, <1>2, <1>6, <1>7 DEF FiresAreKept
<1>14. FlagIsRight'
  <2>1. ASSUME "heard" \in todo' PROVE Enabled(list)
    <3>1. r.on \/ Enabled(rules)
      BY <1>1, <2>1
    <3>2. /\ Len(rules) + 1 \in 1 .. Len(list)
          /\ \A p \in 1 .. Len(rules) : p \in 1 .. Len(list)
      BY <1>2
    <3> QED
      BY <1>2, <3>1, <3>2 DEF Enabled
  <2> QED
    BY <1>1, <1>3, <2>1 DEF FlagIsRight
<1>14a. FlatFlagIsRight'
  <2> SUFFICES ASSUME FlatAndNamed', rest = {"unheard"}
               PROVE  ~Enabled(list)
    BY <1>1, <1>3 DEF FlatFlagIsRight, Enabled
  <2>1. FlatAndNamed
    BY <1>1, <1>2 DEF FlatAndNamed
  <2> QED
    BY <1>2, <1>7, <2>1 DEF Enabled
<1>15. CooldownIsOwn'
  <2> SUFFICES ASSUME ~tainted, NEW p \in Place
               PROVE  lastFire[p] = IF p <= Len(list) THEN lastFull[list[p].nr] ELSE 0
    BY <1>1 DEF CooldownIsOwn
  <2>1. lastFire[p] = IF p <= Len(rules) THEN lastFull[rules[p].nr] ELSE 0
    BY <1>1 DEF CooldownIsOwn, ResetDue
  <2> QED
    BY <1>2, <1>6, <2>1 DEF Place
<1> QED
  BY <1>4, <1>8, <1>9, <1>10, <1>11, <1>12, <1>13, <1>14, <1>14a, <1>15

LEMMA NewRuleIsStored ==
  ASSUME NEW n \in Nr, NEW b \in Body, NEW on \in BOOLEAN
  PROVE  /\ NewRule(n, b, on) \in StoredRule
         /\ NewRule(n, b, on).nr = n
         /\ NewRule(n, b, on).on = on
  BY DEF NewRule, StoredRule

LEMMA AddFormPreserves ==
  ASSUME RulesInv, NEW n \in Nr, NEW b \in Body, NEW on \in BOOLEAN,
         AddForm(n, b, on)
  PROVE  RulesInv'
<1> DEFINE stored == [b EXCEPT !.name = FormName]
<1>1. ASSUME NEW p \in Twins(b, on), Save(rules, {Heard(on \/ FlatOn(p))}),
             UNCHANGED <<lastFull, raced>>
      PROVE  RulesInv'
  <2>1. /\ rules' = rules /\ todo' = {Heard(on \/ FlatOn(p))} /\ todo = {}
        /\ UNCHANGED <<active, boot, blind, lastFire, wanted, worker, clock, tainted, lastFull, raced>>
        /\ overtaken' \in BOOLEAN /\ (boot \in {"heard", "unheard"} => overtaken')
    BY <1>1 DEF Save
  <2>2. todo' \in {{"heard"}, {"unheard"}}
    BY <2>1 DEF Heard
  <2>3. p \in 1 .. Len(rules) /\ rules[p].on = on /\ rules[p].body.name = NoName
    BY DEF Twins, AddForm
  <2>4. FlatOn(p) => Enabled(rules)
    <3>1. p \in Nat /\ Len(rules) \in Nat /\ p <= Len(rules)
      BY <2>3, ListProperties DEF RulesInv, RulesTypeOK
    <3>2. \A q \in 1 .. p : q \in 1 .. Len(rules)
      BY <3>1
    <3> QED
      BY <3>2 DEF FlatOn, Enabled
  <2>5. "heard" \in todo' => Enabled(rules)
    BY <2>1, <2>3, <2>4 DEF Heard, Enabled
  <2>6. RulesTypeOK'
    <3>1. todo' \in Rest
      BY <2>2 DEF Rest
    <3> QED
      BY <2>1, <3>1 DEF RulesInv, RulesTypeOK
  <2>7. FlagIsRight' /\ FlatFlagIsRight'
    BY <2>1, <2>2, <2>3, <2>5 DEF FlagIsRight, FlatFlagIsRight, FlatAndNamed, Enabled
  <2>8. /\ NumbersDiffer' /\ OnlyStoredHaveFired' /\ ListIsStored'
        /\ FiringIsListed' /\ FiresAreKept' /\ CooldownIsKept'
    BY <2>1 DEF RulesInv, NumbersDiffer, OnlyStoredHaveFired, ListIsStored,
                FiringIsListed, FiresAreKept, CooldownIsKept, Rule
  <2>9. EditsRestart' /\ CooldownIsOwn'
    BY <2>1, <2>2 DEF RulesInv, EditsRestart, CooldownIsOwn, ResetDue
  <2> QED
    BY <2>6, <2>7, <2>8, <2>9 DEF RulesInv
<1>2. ASSUME Len(rules) < MaxRules,
             Save(Append(rules, NewRule(n, stored, on)),
                  {Heard(on \/ FlatOn(Len(rules)))}),
             UNCHANGED <<lastFull, raced>>
      PROVE  RulesInv'
  <2>1. stored \in Body
    BY RulesAssumption DEF AddForm
  <2> DEFINE r == NewRule(n, stored, on)
             rest == {Heard(on \/ FlatOn(Len(rules)))}
  <2>2. r \in StoredRule /\ r.nr = n /\ r.on = on
    BY <2>1, NewRuleIsStored
  <2>3. n \notin Used
    BY DEF AddForm
  <2>4. rest \in {{"heard"}, {"unheard"}}
    BY DEF Heard
  <2>5. rest = {"heard"} => on \/ FlatOn(Len(rules))
    BY DEF Heard
  <2>6. FlatOn(Len(rules)) => Enabled(rules)
    BY DEF FlatOn, Enabled
  <2>7. rest = {"unheard"} /\ FlatAndNamed => ~on /\ ~Enabled(rules)
    BY DEF Heard, FlatOn, FlatAndNamed, Enabled
  <2> HIDE DEF r, rest
  <2> QED
    BY <1>2, <2>2, <2>3, <2>4, <2>5, <2>6, <2>7, AddedRule DEF r, rest
<1> QED
  BY <1>1, <1>2 DEF AddForm

LEMMA AddJsonPreserves ==
  ASSUME RulesInv, NEW n \in Nr, NEW b \in Body, NEW on \in BOOLEAN,
         AddJson(n, b, on)
  PROVE  RulesInv'
<1> DEFINE r == NewRule(n, b, on)
<1>1. r \in StoredRule /\ r.nr = n
  BY NewRuleIsStored
<1>2. /\ n \notin Used /\ Len(rules) < MaxRules
      /\ Save(Append(rules, r), {"refresh"})
      /\ UNCHANGED <<lastFull, raced>>
  BY DEF AddJson
<1> HIDE DEF r
<1> QED
  BY <1>1, <1>2, AddedRule

(* Update and SetEnabled replace a rule and leave it its number. *)
LEMMA ReplacedRule ==
  ASSUME RulesInv, NEW p \in 1 .. Len(rules), NEW r \in StoredRule,
         r.nr = rules[p].nr,
         Save([rules EXCEPT ![p] = r], {"refresh", "reset"}), Restarting
  PROVE  RulesInv'
<1> DEFINE list == [rules EXCEPT ![p] = r]
<1>1. rules \in Seq(StoredRule) /\ Len(rules) \in Nat /\ Len(rules) <= MaxRules
  BY ListProperties DEF RulesInv, RulesTypeOK
<1>2. /\ list \in Seq(StoredRule)
      /\ Len(list) = Len(rules)
      /\ \A q \in 1 .. Len(rules) : list[q] = IF q = p THEN r ELSE rules[q]
  BY <1>1, ExceptSeq
<1>3. list \in RuleList
  BY <1>1, <1>2 DEF RuleList
<1>4. \A q, s \in 1 .. Len(list) : list[q].nr = list[s].nr => q = s
  BY <1>2 DEF RulesInv, NumbersDiffer
<1>5. Save(list, {"refresh", "reset"})
  OBVIOUS
<1> HIDE DEF list
<1> QED
  BY <1>3, <1>4, <1>5, RestartingEdit

LEMMA EditsPreserve ==
  ASSUME RulesInv, NEW p \in Place, NEW on \in BOOLEAN,
         \/ \E b \in Body : Update(p, b, on)
         \/ SetEnabled(p, on)
         \/ Delete(p)
         \/ Clear
  PROVE  RulesInv'
<1>1. /\ rules \in RuleList /\ Len(rules) \in Nat
      /\ p <= Len(rules) => p \in 1 .. Len(rules) /\ rules[p] \in StoredRule
  BY ListProperties, RulesAssumption DEF RulesInv, RulesTypeOK, Place
<1>2. ASSUME NEW b \in Body, Update(p, b, on) PROVE RulesInv'
  <2> DEFINE r == [rules[p] EXCEPT !.body = b, !.on = on]
  <2>1. p \in 1 .. Len(rules) /\ rules[p] \in StoredRule
    BY <1>1, <1>2 DEF Update
  <2>2. r \in StoredRule /\ r.nr = rules[p].nr
    BY <2>1 DEF StoredRule
  <2>3. rules = [q \in 1 .. Len(rules) |-> rules[q]]
    BY <1>1, ListProperties, IsASeq
  <2>4. [rules EXCEPT ![p].body = b, ![p].on = on] = [rules EXCEPT ![p] = r]
    BY <2>1, <2>3
  <2>5. Save([rules EXCEPT ![p] = r], {"refresh", "reset"}) /\ Restarting
    BY <1>2, <2>4 DEF Update
  <2> HIDE DEF r
  <2> QED
    BY <2>1, <2>2, <2>5, ReplacedRule
<1>3. CASE SetEnabled(p, on)
  <2> DEFINE r == [rules[p] EXCEPT !.on = on]
  <2>1. p \in 1 .. Len(rules) /\ rules[p] \in StoredRule
    BY <1>1, <1>3 DEF SetEnabled
  <2>2. r \in StoredRule /\ r.nr = rules[p].nr
    BY <2>1 DEF StoredRule
  <2>3. [rules EXCEPT ![p].on = on] = [rules EXCEPT ![p] = r]
    BY <2>1
  <2>4. Save([rules EXCEPT ![p] = r], {"refresh", "reset"}) /\ Restarting
    BY <1>3, <2>3 DEF SetEnabled
  <2> HIDE DEF r
  <2> QED
    BY <2>1, <2>2, <2>4, ReplacedRule
<1>4. CASE Delete(p)
  <2> DEFINE list == RemoveAt(rules, p)
  <2>1. p \in 1 .. Len(rules)
    BY <1>1, <1>4 DEF Delete
  <2>2. /\ list \in RuleList
        /\ Len(list) = Len(rules) - 1
        /\ \A q \in 1 .. Len(rules) - 1 :
             list[q] = IF q < p THEN rules[q] ELSE rules[q + 1]
    BY <1>1, <2>1, RemoveFromList
  <2>3. Save(list, {"refresh", "reset"}) /\ Restarting
    BY <1>4 DEF Delete
  <2> HIDE DEF list
  <2>4. ASSUME NEW q \in 1 .. Len(list), NEW s \in 1 .. Len(list),
               list[q].nr = list[s].nr
        PROVE  q = s
    <3> DEFINE from(i) == IF i < p THEN i ELSE i + 1
    <3>1. /\ from(q) \in 1 .. Len(rules) /\ list[q] = rules[from(q)]
          /\ from(s) \in 1 .. Len(rules) /\ list[s] = rules[from(s)]
      BY <1>1, <2>1, <2>2
    <3>2. from(q) = from(s)
      BY <2>4, <3>1 DEF RulesInv, NumbersDiffer
    <3> QED
      BY <3>2, <2>1, <2>2, <1>1
  <2> QED
    BY <2>2, <2>3, <2>4, RestartingEdit
<1>5. CASE Clear
  <2>1. /\ <<>> \in RuleList
        /\ \A q, s \in 1 .. Len(<<>>) : <<>>[q].nr = <<>>[s].nr => q = s
        /\ ~Enabled(<<>>)
    BY EmptyList DEF Enabled
  <2>2. Save(<<>>, {"reset", "unheard"}) /\ Restarting
    BY <1>5 DEF Clear
  <2> QED
    BY <2>1, <2>2, RestartingEdit
<1> QED
  BY <1>2, <1>3, <1>4, <1>5

-----------------------------------------------------------------------------
(* The rest of a handler. *)
LEMMA RefreshPreserves ==
  ASSUME RulesInv, Refresh
  PROVE  RulesInv'
<1> USE DEF RulesInv
<1>1. /\ rules' = rules /\ lastFire' = lastFire /\ wanted' = wanted /\ worker' = worker
      /\ clock' = clock /\ lastFull' = lastFull /\ raced' = raced /\ tainted' = tainted
      /\ boot' = boot /\ overtaken' = overtaken
      /\ todo' = todo \ {"refresh"}
  BY DEF Refresh, history, starting
<1>2. todo \in {{"refresh"}, {"refresh", "reset"}}
  BY DEF Refresh, RulesTypeOK, Rest
<1>3. todo' \in {{}, {"reset"}} /\ ("reset" \in todo' <=> "reset" \in todo)
  BY <1>1, <1>2
<1>4. /\ active' \in BOOLEAN /\ blind' \in BOOLEAN
      /\ active' => Enabled(rules)
      /\ ~blind' /\ Enabled(rules) => active'
  BY DEF Refresh, RefreshValue, Enabled
<1>5. RulesTypeOK'
  BY <1>1, <1>3, <1>4 DEF RulesTypeOK, Rest
<1>6. FlagIsRight' /\ FlatFlagIsRight'
  BY <1>1, <1>3, <1>4 DEF FlagIsRight, FlatFlagIsRight, FlatAndNamed, Enabled
<1>7. /\ NumbersDiffer' /\ OnlyStoredHaveFired' /\ ListIsStored'
      /\ FiringIsListed' /\ FiresAreKept' /\ CooldownIsKept'
  BY <1>1 DEF NumbersDiffer, OnlyStoredHaveFired, ListIsStored,
              FiringIsListed, FiresAreKept, CooldownIsKept, Rule
<1>8. EditsRestart' /\ CooldownIsOwn'
  BY <1>1, <1>3 DEF EditsRestart, CooldownIsOwn, ResetDue
<1> QED
  BY <1>5, <1>6, <1>7, <1>8

LEMMA SetFlagPreserves ==
  ASSUME RulesInv, SetFlag
  PROVE  RulesInv'
<1> USE DEF RulesInv
<1>1. /\ rules' = rules /\ lastFire' = lastFire /\ wanted' = wanted /\ worker' = worker
      /\ clock' = clock /\ lastFull' = lastFull /\ raced' = raced /\ tainted' = tainted
      /\ boot' = boot /\ overtaken' = overtaken /\ blind' = FALSE
      /\ todo' = {}
  BY DEF SetFlag, history, starting
<1>2. "reset" \notin todo /\ "reset" \notin todo' /\ "heard" \notin todo'
  BY <1>1 DEF SetFlag
<1>3. /\ active' \in BOOLEAN
      /\ active' => Enabled(rules)
      /\ FlatAndNamed /\ Enabled(rules) => active'
  BY DEF SetFlag, FlagIsRight, FlatFlagIsRight
<1>4. RulesTypeOK'
  BY <1>1, <1>3 DEF RulesTypeOK, Rest
<1>5. FlagIsRight' /\ FlatFlagIsRight'
  BY <1>1, <1>2, <1>3 DEF FlagIsRight, FlatFlagIsRight, FlatAndNamed, Enabled
<1>6. /\ NumbersDiffer' /\ OnlyStoredHaveFired' /\ ListIsStored'
      /\ FiringIsListed' /\ FiresAreKept' /\ CooldownIsKept'
  BY <1>1 DEF NumbersDiffer, OnlyStoredHaveFired, ListIsStored,
              FiringIsListed, FiresAreKept, CooldownIsKept, Rule
<1>7. EditsRestart' /\ CooldownIsOwn'
  BY <1>1, <1>2 DEF EditsRestart, CooldownIsOwn, ResetDue
<1> QED
  BY <1>4, <1>5, <1>6, <1>7

LEMMA ResetCooldownsPreserves ==
  ASSUME RulesInv, ResetCooldowns
  PROVE  RulesInv'
<1> USE DEF RulesInv
<1>1. /\ rules' = rules /\ active' = active /\ wanted' = wanted /\ worker' = worker
      /\ clock' = clock /\ lastFull' = lastFull /\ raced' = raced /\ tainted' = FALSE
      /\ lastFire' = Never
      /\ boot' = boot /\ overtaken' = overtaken /\ blind' = blind
      /\ todo' = todo \ {"reset"}
  BY DEF ResetCooldowns, flag, starting
<1>2. todo \in {{"reset"}, {"reset", "unheard"}}
  BY DEF ResetCooldowns, RulesTypeOK, Rest
<1>3. /\ todo' \in {{}, {"unheard"}}
      /\ "reset" \notin todo' /\ "heard" \notin todo'
      /\ todo' = {} => todo = {"reset"}
      /\ "unheard" \in todo' => "unheard" \in todo
  BY <1>1, <1>2
<1>4. \A n \in Nr : lastFull[n] = 0
  BY DEF EditsRestart, ResetDue, ResetCooldowns
<1>5. \A p \in 1 .. Len(rules) : rules[p].nr \in Nr
  BY ListProperties DEF RulesTypeOK, StoredRule
<1>6. RulesTypeOK'
  <2>1. lastFire' \in [Place -> Nat]
    BY <1>1 DEF Never
  <2>2. todo' \in Rest /\ tainted' \in BOOLEAN
    BY <1>1, <1>3 DEF Rest
  <2> QED
    BY <1>1, <2>1, <2>2 DEF RulesTypeOK
<1>7. FlagIsRight' /\ FlatFlagIsRight'
  BY <1>1, <1>3 DEF FlagIsRight, FlatFlagIsRight, FlatAndNamed, Enabled
<1>8. NumbersDiffer' /\ OnlyStoredHaveFired' /\ ListIsStored' /\ FiringIsListed' /\ CooldownIsKept'
  BY <1>1 DEF NumbersDiffer, OnlyStoredHaveFired, ListIsStored,
              FiringIsListed, CooldownIsKept, Rule
<1>9. FiresAreKept'
  BY <1>1, <1>4, <1>5 DEF FiresAreKept
<1>10. EditsRestart'
  BY <1>1, <1>3, <1>4 DEF EditsRestart, ResetDue
<1>11. CooldownIsOwn'
  <2>1. Len(rules) \in Nat
    BY ListProperties DEF RulesTypeOK
  <2>2. \A p \in Place : p <= Len(rules) => p \in 1 .. Len(rules)
    BY <2>1 DEF Place
  <2> QED
    BY <1>1, <1>4, <1>5, <2>2 DEF CooldownIsOwn, Never
<1> QED
  BY <1>6, <1>7, <1>8, <1>9, <1>10, <1>11

-----------------------------------------------------------------------------
(* Steps that change only what waits, the clock, or where the worker is in *)
(* an evaluation, without a fire.                                          *)
LEMMA QuietStep ==
  ASSUME RulesInv,
         UNCHANGED <<store, lastFire, history>>,
         wanted' \subseteq Fields,
         clock' \in Time,
         \/ worker' = worker
         \/ /\ worker' \in Evaluation
            /\ worker'.at # "fire"
            /\ worker'.at # "idle" => worker.at # "idle" /\ worker'.list = worker.list
  PROVE  RulesInv'
<1> USE DEF RulesInv
<1>1. /\ rules' = rules /\ active' = active /\ todo' = todo /\ lastFire' = lastFire
      /\ lastFull' = lastFull /\ raced' = raced /\ tainted' = tainted
      /\ boot' = boot /\ overtaken' = overtaken /\ blind' = blind
  BY DEF store, history, flag, starting
<1>2. worker' \in Evaluation
  BY DEF RulesTypeOK
<1>3. RulesTypeOK'
  BY <1>1, <1>2 DEF RulesTypeOK
<1>4. NumbersDiffer' /\ OnlyStoredHaveFired' /\ FiresAreKept' /\ CooldownIsOwn'
  BY <1>1 DEF NumbersDiffer, OnlyStoredHaveFired, FiresAreKept, CooldownIsOwn, ResetDue
<1>4a. FlagIsRight' /\ FlatFlagIsRight'
  BY <1>1 DEF FlagIsRight, FlatFlagIsRight, FlatAndNamed, Enabled
<1>5. EditsRestart' /\ ListIsStored'
  BY <1>1 DEF EditsRestart, ListIsStored, ResetDue
<1>6. FiringIsListed' /\ CooldownIsKept'
  BY <1>1 DEF FiringIsListed, CooldownIsKept, Rule
<1> QED
  BY <1>3, <1>4, <1>4a, <1>5, <1>6

LEMMA NextRuleIsQuiet ==
  ASSUME RulesTypeOK, worker.at # "idle", NextRule
  PROVE  /\ worker' \in Evaluation
         /\ worker'.at # "fire"
         /\ worker'.at # "idle" => worker'.list = worker.list
<1>1. /\ worker \in Evaluation /\ worker.list \in RuleList
      /\ worker.place \in Place /\ Len(worker.list) \in Nat /\ Len(worker.list) <= MaxRules
  BY ListProperties DEF RulesTypeOK, Evaluation
<1>2. CASE worker.place < Len(worker.list)
  <2>1. worker.place + 1 \in Place /\ 1 \in Nat \ {0}
    BY <1>1, <1>2, RulesAssumption DEF Place
  <2>2. worker' = [worker EXCEPT !.at = "rule", !.place = @ + 1, !.trigger = 1, !.ok = TRUE]
    BY <1>2 DEF NextRule
  <2>3. worker' \in Evaluation
    BY <1>1, <2>1, <2>2 DEF Evaluation
  <2>4. worker'.at = "rule" /\ worker'.list = worker.list
    BY <1>1, <2>2 DEF Evaluation
  <2> QED
    BY <2>3, <2>4
<1>3. CASE ~(worker.place < Len(worker.list))
  BY <1>3, IdleIsEvaluation DEF NextRule
<1> QED
  BY <1>2, <1>3

LEMMA EvaluateBeginPreserves ==
  ASSUME RulesInv, NEW m \in SUBSET Fields, EvaluateBegin(m)
  PROVE  RulesInv'
<1> USE DEF RulesInv
<1>1. /\ rules' = rules /\ active' = active /\ todo' = todo /\ lastFire' = lastFire
      /\ lastFull' = lastFull /\ tainted' = tainted /\ clock' = clock
      /\ boot' = boot /\ overtaken' = overtaken /\ blind' = blind
      /\ raced' = ResetDue /\ worker.at = "idle"
  BY DEF EvaluateBegin, Take, store, flag, starting
<1>2. /\ worker' = [Idle EXCEPT !.at = "rule", !.list = rules, !.now = clock, !.mask = m]
      /\ rules \in RuleList /\ clock \in Nat
  BY DEF EvaluateBegin, RulesTypeOK, Time
<1>3. worker' \in Evaluation /\ worker'.at = "rule" /\ worker'.list = rules
  BY <1>2, IdleIsEvaluation DEF Evaluation
<1>4. wanted' \subseteq Fields
  BY DEF EvaluateBegin, Take, RulesTypeOK
<1>5. RulesTypeOK'
  BY <1>1, <1>3, <1>4 DEF RulesTypeOK, ResetDue
<1>6. NumbersDiffer' /\ OnlyStoredHaveFired' /\ FiresAreKept' /\ CooldownIsOwn'
  BY <1>1 DEF NumbersDiffer, OnlyStoredHaveFired, FiresAreKept, CooldownIsOwn, ResetDue
<1>6a. FlagIsRight' /\ FlatFlagIsRight'
  BY <1>1 DEF FlagIsRight, FlatFlagIsRight, FlatAndNamed, Enabled
<1>7. EditsRestart'
  BY <1>1 DEF EditsRestart, ResetDue
<1>8. ListIsStored'
  <2>1. Len(rules) \in Nat
    BY <1>2, ListProperties
  <2> QED
    BY <1>1, <1>3, <2>1 DEF ListIsStored
<1>9. FiringIsListed' /\ CooldownIsKept'
  BY <1>3 DEF FiringIsListed, CooldownIsKept
<1> QED
  BY <1>5, <1>6, <1>6a, <1>7, <1>8, <1>9

(* A rule starts to fire only if its cooldown, which lastFire keeps, is    *)
(* over; after a raced edit, no rule has fired.                            *)
LEMMA FirePreserves ==
  ASSUME RulesInv, Fire
  PROVE  RulesInv'
<1> USE DEF RulesInv
<1>1. /\ rules' = rules /\ active' = active /\ todo' = todo /\ lastFire' = lastFire
      /\ lastFull' = lastFull /\ raced' = raced /\ tainted' = tainted /\ clock' = clock
      /\ wanted' = wanted /\ worker.at = "rule"
      /\ boot' = boot /\ overtaken' = overtaken /\ blind' = blind
      /\ worker' = [worker EXCEPT !.at = "fire"]
  BY DEF Fire, store, history, flag, starting
<1>2. worker \in Evaluation
  BY DEF RulesTypeOK
<1>3. /\ worker' \in Evaluation /\ worker'.at = "fire" /\ worker'.list = worker.list
      /\ worker'.place = worker.place /\ worker'.now = worker.now
  BY <1>1, <1>2 DEF Evaluation
<1>4. Rule' = Rule
  BY <1>3 DEF Rule
<1>5. /\ worker.place \in Place /\ worker.place \in 1 .. Len(worker.list)
      /\ Len(worker.list) \in Nat /\ Rule \in StoredRule /\ worker.now \in Nat
  <2>1. /\ worker.list \in RuleList /\ worker.place \in Place /\ worker.now \in Nat
        /\ worker.place <= Len(worker.list)
    BY <1>2 DEF Evaluation, Fire
  <2>2. Len(worker.list) \in Nat /\ worker.place \in 1 .. Len(worker.list)
    BY <2>1, ListProperties, RulesAssumption DEF Place
  <2> QED
    BY <2>1, <2>2, ListProperties DEF Rule
<1>6. RulesTypeOK'
  BY <1>1, <1>3 DEF RulesTypeOK
<1>7. NumbersDiffer' /\ OnlyStoredHaveFired' /\ FiresAreKept' /\ CooldownIsOwn'
  BY <1>1 DEF NumbersDiffer, OnlyStoredHaveFired, FiresAreKept, CooldownIsOwn, ResetDue
<1>7a. FlagIsRight' /\ FlatFlagIsRight'
  BY <1>1 DEF FlagIsRight, FlatFlagIsRight, FlatAndNamed, Enabled
<1>8. EditsRestart' /\ ListIsStored'
  BY <1>1, <1>3 DEF EditsRestart, ListIsStored, ResetDue
<1>9. FiringIsListed'
  BY <1>3, <1>4 DEF FiringIsListed, Fire
<1>10. CooldownIsKept'
  <2> DEFINE t == lastFull[Rule.nr]
  <2>1. t = 0 \/ worker.now - t >= Cooldown
    <3>1. CASE raced
      BY <1>1, <1>5, <3>1 DEF EditsRestart, StoredRule
    <3>2. CASE ~raced
      <4>1. /\ Len(worker.list) <= Len(rules)
            /\ rules[worker.place] = Rule
        BY <1>1, <1>5, <3>2 DEF ListIsStored, Rule
      <4>2. Len(rules) \in Nat
        BY ListProperties DEF RulesTypeOK
      <4>3. worker.place \in 1 .. Len(rules)
        BY <1>5, <4>1, <4>2
      <4>4. t # 0 => lastFire[worker.place] = t
        BY <4>1, <4>3 DEF FiresAreKept
      <4>5. lastFire[worker.place] \in Nat
        BY <1>5 DEF RulesTypeOK
      <4>6. ~(lastFire[worker.place] # 0 /\ worker.now - lastFire[worker.place] < Cooldown)
        BY DEF Fire, Cooling
      <4> QED
        BY <4>4, <4>5, <4>6, <1>5, RulesAssumption
    <3> QED
      BY <3>1, <3>2
  <2> QED
    BY <1>1, <1>3, <1>4, <2>1 DEF CooldownIsKept
<1> QED
  BY <1>6, <1>7, <1>7a, <1>8, <1>9, <1>10

LEMMA SwitchPreserves ==
  ASSUME RulesInv, NEW obeyed \in BOOLEAN, Switch(obeyed)
  PROVE  RulesInv'
<1> USE DEF RulesInv
<1>1. /\ rules' = rules /\ active' = active /\ todo' = todo /\ lastFire' = lastFire
      /\ lastFull' = lastFull /\ raced' = raced /\ tainted' = tainted /\ clock' = clock
      /\ wanted' = wanted /\ worker.at = "fire"
      /\ boot' = boot /\ overtaken' = overtaken /\ blind' = blind
      /\ worker' = [worker EXCEPT !.trigger = @ + 1, !.ok = @ /\ obeyed]
  BY DEF Switch, store, history, flag, starting
<1>2. worker \in Evaluation
  BY DEF RulesTypeOK
<1>3. worker.trigger + 1 \in Nat \ {0} /\ (worker.ok /\ obeyed) \in BOOLEAN
  BY <1>2 DEF Evaluation
<1>4. /\ worker' \in Evaluation /\ worker'.at = worker.at /\ worker'.list = worker.list
      /\ worker'.place = worker.place /\ worker'.now = worker.now
  BY <1>1, <1>2, <1>3 DEF Evaluation
<1>5. Rule' = Rule
  BY <1>4 DEF Rule
<1>6. RulesTypeOK'
  BY <1>1, <1>4 DEF RulesTypeOK
<1>7. NumbersDiffer' /\ OnlyStoredHaveFired' /\ FiresAreKept' /\ CooldownIsOwn'
  BY <1>1 DEF NumbersDiffer, OnlyStoredHaveFired, FiresAreKept, CooldownIsOwn, ResetDue
<1>7a. FlagIsRight' /\ FlatFlagIsRight'
  BY <1>1 DEF FlagIsRight, FlatFlagIsRight, FlatAndNamed, Enabled
<1>8. EditsRestart' /\ ListIsStored'
  BY <1>1, <1>4 DEF EditsRestart, ListIsStored, ResetDue
<1>9. FiringIsListed' /\ CooldownIsKept'
  BY <1>1, <1>4, <1>5 DEF FiringIsListed, CooldownIsKept
<1> QED
  BY <1>6, <1>7, <1>7a, <1>8, <1>9

(* A complete fire sets the cooldown at the rule's place; that is still    *)
(* its place, unless an edit raced the evaluation.                         *)
LEMMA FireEndPreserves ==
  ASSUME RulesInv, FireEnd
  PROVE  RulesInv'
<1> USE DEF RulesInv
<1>1. /\ rules' = rules /\ active' = active /\ todo' = todo /\ wanted' = wanted
      /\ boot' = boot /\ overtaken' = overtaken /\ blind' = blind
      /\ clock' = clock /\ raced' = raced /\ worker.at = "fire" /\ NextRule
  BY DEF FireEnd, store, flag, starting
<1>2. /\ worker' \in Evaluation /\ worker'.at # "fire"
      /\ worker'.at # "idle" => worker'.list = worker.list
  BY <1>1, NextRuleIsQuiet
<1>3. CASE ~worker.ok
  <2>1. UNCHANGED <<store, lastFire, history>>
    BY <1>1, <1>3 DEF FireEnd, store, history, flag, starting
  <2>2. wanted' \subseteq Fields /\ clock' \in Time
    BY <1>1 DEF RulesTypeOK
  <2> QED
    BY <1>1, <1>2, <2>1, <2>2, QuietStep
<1>4. CASE worker.ok
  <2> DEFINE place == worker.place
             now == worker.now
             n == Rule.nr
  <2>1. /\ place \in Place /\ place \in 1 .. Len(worker.list) /\ now \in Nat
        /\ Len(worker.list) \in Nat /\ Rule \in StoredRule /\ n \in Nr
    <3>1. /\ worker.list \in RuleList /\ worker.place \in Place /\ worker.now \in Nat
          /\ worker.place <= Len(worker.list)
      BY <1>1 DEF RulesTypeOK, Evaluation, FiringIsListed
    <3>2. Len(worker.list) \in Nat /\ worker.place \in 1 .. Len(worker.list)
      BY <3>1, ListProperties, RulesAssumption DEF Place
    <3> QED
      BY <3>1, <3>2, ListProperties DEF Rule, StoredRule
  <2>2. lastFire' = [lastFire EXCEPT ![place] = now]
    BY <1>4 DEF FireEnd
  <2>3. lastFire' \in [Place -> Nat] /\ Len(rules) \in Nat
    BY <2>1, <2>2, ListProperties DEF RulesTypeOK
  <2> HIDE DEF place, now, n
  <2>4. /\ NumbersDiffer' /\ FlagIsRight' /\ FlatFlagIsRight'
        /\ FiringIsListed' /\ CooldownIsKept'
    BY <1>1, <1>2 DEF NumbersDiffer, FlagIsRight, FlatFlagIsRight, FlatAndNamed,
                      FiringIsListed, CooldownIsKept, Enabled
  <2>5. ListIsStored'
    BY <1>1, <1>2 DEF ListIsStored
  <2>6. CASE raced
    <3>1. tainted' = TRUE /\ lastFull' = lastFull
      BY <1>4, <2>6 DEF FireEnd
    <3>2. \A i \in Nr : lastFull[i] = 0
      BY <1>1, <2>6 DEF EditsRestart
    <3>3. RulesTypeOK'
      BY <1>1, <1>2, <2>3, <3>1 DEF RulesTypeOK
    <3>4. OnlyStoredHaveFired' /\ EditsRestart' /\ CooldownIsOwn'
      BY <1>1, <2>6, <3>1, <3>2
         DEF OnlyStoredHaveFired, EditsRestart, CooldownIsOwn, ResetDue
    <3>5. FiresAreKept'
      <4>1. \A p \in 1 .. Len(rules) : rules[p].nr \in Nr
        BY ListProperties DEF RulesTypeOK, StoredRule
      <4> QED
        BY <1>1, <3>1, <3>2, <4>1 DEF FiresAreKept
    <3> QED
      BY <2>4, <2>5, <3>3, <3>4, <3>5
  <2>7. CASE ~raced
    <3>1. tainted' = tainted /\ lastFull' = [lastFull EXCEPT ![n] = now]
      BY <1>4, <2>7 DEF FireEnd, n, now
    <3>2. /\ Len(worker.list) <= Len(rules) /\ rules[place] = Rule /\ ~ResetDue
      BY <1>1, <2>1, <2>7 DEF ListIsStored, EditsRestart, Rule, place
    <3>3. place \in 1 .. Len(rules) /\ rules[place].nr = n
      BY <2>1, <2>3, <3>2 DEF n
    <3>4. /\ lastFire \in [Place -> Nat] /\ lastFull \in [Nr -> Nat]
          /\ \A p \in 1 .. Len(rules) : p \in Place /\ rules[p].nr \in Nr
      BY ListProperties DEF RulesTypeOK, StoredRule
    <3>5. \A i \in Nr : lastFull'[i] = IF i = n THEN now ELSE lastFull[i]
      BY <3>1, <3>4
    <3>6. \A p \in Place : lastFire'[p] = IF p = place THEN now ELSE lastFire[p]
      BY <2>2, <3>4
    <3>7. \A p \in 1 .. Len(rules) : rules[p].nr = n <=> p = place
      BY <3>3 DEF NumbersDiffer
    <3>8. RulesTypeOK'
      <4>1. lastFull' \in [Nr -> Nat]
        BY <2>1, <3>1, <3>4
      <4> QED
        BY <1>1, <1>2, <2>3, <3>1, <4>1 DEF RulesTypeOK
    <3>9. OnlyStoredHaveFired'
      BY <1>1, <3>3, <3>5 DEF OnlyStoredHaveFired
    <3>10. EditsRestart'
      BY <1>1, <2>7, <3>2 DEF EditsRestart, ResetDue
    <3>11. FiresAreKept'
      BY <1>1, <3>4, <3>5, <3>6, <3>7 DEF FiresAreKept
    <3>12. CooldownIsOwn'
      <4> SUFFICES ASSUME ~tainted, NEW p \in Place
                   PROVE  lastFire'[p] = IF p <= Len(rules) THEN lastFull'[rules[p].nr] ELSE 0
        BY <1>1, <3>1 DEF CooldownIsOwn, ResetDue
      <4>1. lastFire[p] = IF p <= Len(rules) THEN lastFull[rules[p].nr] ELSE 0
        BY <3>2 DEF CooldownIsOwn
      <4>2. p <= Len(rules) => p \in 1 .. Len(rules)
        BY <2>3 DEF Place
      <4>3. place <= Len(rules)
        BY <3>3
      <4> QED
        BY <3>4, <3>5, <3>6, <3>7, <4>1, <4>2, <4>3
    <3> QED
      BY <2>4, <2>5, <3>8, <3>9, <3>10, <3>11, <3>12
  <2> QED
    BY <2>6, <2>7
<1>5. worker.ok \in BOOLEAN
  BY DEF RulesTypeOK, Evaluation
<1> QED
  BY <1>3, <1>4, <1>5

(* What the boot reads is right until an edit overtakes it, and so is what *)
(* it writes then.                                                         *)
LEMMA BootPreserves ==
  ASSUME RulesInv, BootLoad \/ BootWrite
  PROVE  RulesInv'
<1> USE DEF RulesInv
<1>1. /\ rules' = rules /\ todo' = todo /\ lastFire' = lastFire /\ wanted' = wanted
      /\ worker' = worker /\ clock' = clock
      /\ lastFull' = lastFull /\ raced' = raced /\ tainted' = tainted
  BY DEF BootLoad, BootWrite, history
<1>2. /\ NumbersDiffer' /\ OnlyStoredHaveFired' /\ ListIsStored'
      /\ FiringIsListed' /\ FiresAreKept' /\ CooldownIsKept'
      /\ EditsRestart' /\ CooldownIsOwn'
  BY <1>1 DEF NumbersDiffer, OnlyStoredHaveFired, ListIsStored,
              FiringIsListed, FiresAreKept, CooldownIsKept, Rule,
              EditsRestart, CooldownIsOwn, ResetDue
<1>3. CASE BootLoad
  <2>1. /\ active' = active /\ blind' = blind /\ overtaken' \in BOOLEAN
        /\ boot' \in {"heard", "unheard"}
        /\ ~overtaken' => (boot' = "heard" <=> Enabled(rules))
    BY <1>3 DEF BootLoad, Heard, RefreshValue
  <2>2. RulesTypeOK'
    BY <1>1, <2>1 DEF RulesTypeOK
  <2>3. FlagIsRight' /\ FlatFlagIsRight'
    BY <1>1, <2>1 DEF FlagIsRight, FlatFlagIsRight, FlatAndNamed, Enabled
  <2> QED
    BY <1>2, <2>2, <2>3
<1>4. CASE BootWrite
  <2>1. /\ active' = (boot = "heard") /\ blind' = overtaken
        /\ boot' = "done" /\ overtaken' = FALSE
        /\ boot \in {"heard", "unheard"}
    BY <1>4 DEF BootWrite
  <2>2. RulesTypeOK'
    BY <1>1, <2>1 DEF RulesTypeOK
  <2>3. FlagIsRight' /\ FlatFlagIsRight'
    BY <1>1, <2>1 DEF FlagIsRight, FlatFlagIsRight, FlatAndNamed, Enabled
  <2> QED
    BY <1>2, <2>2, <2>3
<1> QED
  BY <1>3, <1>4

LEMMA RestartPreserves ==
  ASSUME RulesInv, Restart
  PROVE  RulesInv'
<1> USE DEF RulesInv
<1>1. /\ rules' = rules /\ active' = FALSE /\ lastFire' = Never /\ todo' = {}
      /\ boot' = "load" /\ overtaken' = FALSE /\ blind' = FALSE
      /\ wanted' = {} /\ worker' = Idle /\ clock' = 1 /\ lastFull' = [n \in Nr |-> 0]
      /\ raced' = FALSE /\ tainted' = FALSE
  BY DEF Restart
<1>2. worker' \in Evaluation /\ worker'.at = "idle"
  BY <1>1, IdleIsEvaluation
<1>3. \A n \in Nr : lastFull'[n] = 0
  BY <1>1
<1>4. /\ Len(rules) \in Nat
      /\ \A p \in 1 .. Len(rules) : rules[p].nr \in Nr
  BY ListProperties DEF RulesTypeOK, StoredRule
<1>5. RulesTypeOK'
  <2>1. lastFire' \in [Place -> Nat] /\ lastFull' \in [Nr -> Nat]
    BY <1>1 DEF Never
  <2>2. clock' \in Time
    BY <1>1, RulesAssumption DEF Time
  <2>3. todo' \in Rest /\ raced' \in BOOLEAN /\ tainted' \in BOOLEAN /\ wanted' \subseteq Fields
    BY <1>1 DEF Rest
  <2> QED
    BY <1>1, <1>2, <2>1, <2>2, <2>3 DEF RulesTypeOK
<1>6. NumbersDiffer' /\ OnlyStoredHaveFired' /\ FiresAreKept'
  BY <1>1, <1>3, <1>4 DEF NumbersDiffer, OnlyStoredHaveFired, FiresAreKept
<1>7. EditsRestart' /\ ListIsStored' /\ FiringIsListed' /\ CooldownIsKept'
  BY <1>1, <1>2 DEF EditsRestart, ListIsStored, FiringIsListed, CooldownIsKept, ResetDue
<1>8. FlagIsRight' /\ FlatFlagIsRight'
  BY <1>1 DEF FlagIsRight, FlatFlagIsRight
<1>9. CooldownIsOwn'
  <2>1. \A p \in Place : p <= Len(rules) => p \in 1 .. Len(rules)
    BY <1>4 DEF Place
  <2> QED
    BY <1>1, <1>3, <1>4, <2>1 DEF CooldownIsOwn, Never
<1> QED
  BY <1>5, <1>6, <1>7, <1>8, <1>9

LEMMA RulesInvPreserved == RulesInv /\ [RulesNext]_ruleVars => RulesInv'
<1> SUFFICES ASSUME RulesInv, [RulesNext]_ruleVars PROVE RulesInv'
  OBVIOUS
<1>1. wanted \subseteq Fields /\ clock \in Time
  BY DEF RulesInv, RulesTypeOK
<1>2. CASE Handler
  <2>1. ASSUME NEW n \in Nr, NEW b \in Body, NEW on \in BOOLEAN,
               AddForm(n, b, on) \/ AddJson(n, b, on)
        PROVE  RulesInv'
    BY <2>1, AddFormPreserves, AddJsonPreserves
  <2>2. 1 \in Place /\ TRUE \in BOOLEAN
    BY RulesAssumption DEF Place
  <2>3. ASSUME NEW p \in Place, NEW b \in Body, NEW on \in BOOLEAN, Update(p, b, on)
        PROVE  RulesInv'
    BY <2>3, EditsPreserve
  <2>4. ASSUME NEW p \in Place, NEW on \in BOOLEAN, SetEnabled(p, on) PROVE RulesInv'
    BY <2>4, EditsPreserve
  <2>5. ASSUME NEW p \in Place, Delete(p) PROVE RulesInv'
    BY <2>2, <2>5, EditsPreserve
  <2>6. CASE Clear
    BY <2>2, <2>6, EditsPreserve
  <2>7. CASE Refresh \/ SetFlag \/ ResetCooldowns
    BY <2>7, RefreshPreserves, SetFlagPreserves, ResetCooldownsPreserves
  <2> QED
    BY <1>2, <2>1, <2>3, <2>4, <2>5, <2>6, <2>7 DEF Handler
<1>3. ASSUME NEW m \in SUBSET Fields, Notify(m) PROVE RulesInv'
  <2>1. /\ UNCHANGED <<store, lastFire, history>> /\ worker' = worker
        /\ wanted' \subseteq Fields /\ clock' \in Time
    BY <1>1, <1>3 DEF Notify
  <2> QED
    BY <2>1, QuietStep
<1>4. ASSUME NEW m \in SUBSET Fields, EvaluateNothing(m) PROVE RulesInv'
  <2>1. /\ UNCHANGED <<store, lastFire, history>> /\ worker' = worker
        /\ wanted' \subseteq Fields /\ clock' \in Time
    BY <1>1, <1>4 DEF EvaluateNothing, Take
  <2> QED
    BY <2>1, QuietStep
<1>5. ASSUME NEW m \in SUBSET Fields, EvaluateBegin(m) PROVE RulesInv'
  BY <1>5, EvaluateBeginPreserves
<1>6. CASE PassOver
  <2>1. /\ UNCHANGED <<store, lastFire, history>> /\ worker.at # "idle" /\ NextRule
        /\ wanted' \subseteq Fields /\ clock' \in Time
    BY <1>1, <1>6 DEF PassOver
  <2>2. /\ worker' \in Evaluation
        /\ worker'.at # "fire"
        /\ worker'.at # "idle" => worker'.list = worker.list
    BY <2>1, NextRuleIsQuiet DEF RulesInv
  <2> QED
    BY <2>1, <2>2, QuietStep
<1>7. CASE Tick
  <2>1. /\ UNCHANGED <<store, lastFire, history>> /\ worker' = worker
        /\ wanted' \subseteq Fields
    BY <1>1, <1>7 DEF Tick
  <2>2. clock' \in Time
    BY <1>1, <1>7, RulesAssumption DEF Tick, Time
  <2> QED
    BY <2>1, <2>2, QuietStep
<1>8. CASE UNCHANGED ruleVars
  <2>1. /\ UNCHANGED <<store, lastFire, history>> /\ worker' = worker
        /\ wanted' \subseteq Fields /\ clock' \in Time
    BY <1>1, <1>8 DEF ruleVars
  <2> QED
    BY <2>1, QuietStep
<1>9. ASSUME NEW obeyed \in BOOLEAN, Switch(obeyed) PROVE RulesInv'
  BY <1>9, SwitchPreserves
<1> QED
  BY <1>2, <1>3, <1>4, <1>5, <1>6, <1>7, <1>8, <1>9, FirePreserves,
     FireEndPreserves, BootPreserves, RestartPreserves
     DEF RulesNext, Worker, Evaluate

-----------------------------------------------------------------------------
(* The inductive invariant: the worker's list is the beginning of the      *)
(* stored one until an edit restarts the cooldowns, and lastFire speaks of *)
(* the rules at their places.                                              *)
THEOREM RulesInvariant == RulesSpec => []RulesInv
  BY RulesInvInitially, RulesInvPreserved, PTL DEF RulesSpec

(* The variables have their types: the stored list never outgrows          *)
(* last_fire_ms (automation.c:26).                                         *)
THEOREM RulesTypeCorrect == RulesSpec => []RulesTypeOK
<1>1. RulesInv => RulesTypeOK
  BY DEF RulesInv
<1> QED
  BY <1>1, RulesInvariant, PTL

(* README.md:334: once no handler is under way, the flag that lets         *)
(* evaluation requests through (automation.c:1164) means that a rule is    *)
(* enabled, unless an edit overtook the refresh at boot (1143).            *)
THEOREM FlagMeansEnabledRule == RulesSpec => []QueuesOnlyForEnabled
<1>1. RulesInv => QueuesOnlyForEnabled
  BY DEF RulesInv, FlagIsRight, QueuesOnlyForEnabled, NeverQueuesForNone
<1> QED
  BY <1>1, RulesInvariant, PTL

(* An enabled rule sets the flag, as long as all rules are flat and named  *)
(* and the flag was last set from what is stored (automation.c:412-425,    *)
(* 815-863).                                                               *)
THEOREM FlatRulesAreHeard == RulesSpec => []FlatRuleIsHeard
<1>1. RulesInv => FlatRuleIsHeard
  BY DEF RulesInv, FlatFlagIsRight, FlatRuleIsHeard, EnabledRuleIsHeard
<1> QED
  BY <1>1, RulesInvariant, PTL

(* The cooldown at a place of the list is the one of the rule there        *)
(* (automation.c:1104, 1113), unless an evaluation ended after an edit     *)
(* that it had not seen.                                                   *)
THEOREM CooldownsAreOwn == RulesSpec => []CooldownIsOwn
<1>1. RulesInv => CooldownIsOwn
  BY DEF RulesInv
<1> QED
  BY <1>1, RulesInvariant, PTL

(* Without an edit or a restart between, a rule does not fire before its   *)
(* cooldown is over (automation.c:1103-1109).                              *)
THEOREM CooldownsAreKept == RulesSpec => []CooldownIsKept
<1>1. RulesInv => CooldownIsKept
  BY DEF RulesInv
<1> QED
  BY <1>1, RulesInvariant, PTL

(* What the worker fires is stored and enabled, at the place whose         *)
(* cooldown it sets, unless an edit overtook it (automation.c:1071-1113).  *)
THEOREM FiredRulesAreStored == RulesSpec => []FiresStoredRule
<1>1. RulesInv => FiresStoredRule
  <2> SUFFICES ASSUME RulesInv, worker.at = "fire", ~raced
               PROVE  worker.place <= Len(rules) /\ rules[worker.place] = Rule /\ Rule.on
    BY DEF FiresStoredRule
  <2>1. /\ worker.list \in RuleList /\ worker.place \in Place /\ rules \in RuleList
    BY DEF RulesInv, RulesTypeOK, Evaluation
  <2>2. /\ Len(worker.list) \in Nat /\ Len(rules) \in Nat
    BY <2>1, ListProperties
  <2>3. /\ worker.place <= Len(worker.list) /\ Rule.on
        /\ Len(worker.list) <= Len(rules)
        /\ \A p \in 1 .. Len(worker.list) : worker.list[p] = rules[p]
    BY DEF RulesInv, FiringIsListed, ListIsStored
  <2> QED
    BY <2>1, <2>2, <2>3 DEF Place, Rule
<1> QED
  BY <1>1, RulesInvariant, PTL
=============================================================================
