------------------------------ MODULE RuleStore ------------------------------
(***************************************************************************)
(* The rules in memory: RuleStorage's list of subscriptions, the links     *)
(* from each rule back to its subscriptions (Rule.subscriptions), and the  *)
(* matchers, which RuleListener keeps up to date with every change.        *)
(*                                                                         *)
(* A rule counts when it is enabled and some enabled subscription of the   *)
(* list holds it.  The code never works that out: each notification makes  *)
(* RuleListener adjust the matchers, by the links alone.                   *)
(*                                                                         *)
(* Everything runs on Firefox's main thread: an operation with all the     *)
(* listeners it triggers is one step.  RuleMatcher has the matchers,       *)
(* RuleFiles the files.                                                    *)
(***************************************************************************)
EXTENDS RuleMatcher

CONSTANTS Active,     \* those that are neither comments nor invalid
          Subs,       \* subscriptions, by their URL
          Special,    \* those that are groups of the user's own rules
          DefaultFor, \* per group: the rules it takes by default, if any
          OldExceptional, OldCustom, \* the groups "~exceptional~" and "~custom~"
          MaxRules,   \* bounds the rules of one subscription
          Duplicates  \* whether a subscription may hold a rule twice

ASSUME StoreAssumption ==
  /\ Active \subseteq Rules /\ Special \subseteq Subs
  /\ DefaultFor \in [Special -> SUBSET Rules]
  /\ MaxRules \in Nat /\ Duplicates \in BOOLEAN

VARIABLES
  subscriptions, \* RuleStorage.subscriptions, in order
  known,         \* RuleStorage.knownSubscriptions
  rules,         \* per subscription: its rules, in order
  links,         \* per rule: how often each subscription is in rule.subscriptions
  subDisabled,   \* the subscriptions with `disabled' set
  ruleDisabled   \* the rules with `disabled' set

lists     == <<subscriptions, known, rules, links>>
flags     == <<subDisabled, ruleDisabled>>
storeVars == <<lists, flags, exceptional, matchers>>

Position(list, x) == SelectInSeq(list, LAMBDA y : y = x)

Occurrences(r, list) == Cardinality({i \in DOMAIN list : list[i] = r})

Lists == {l \in UNION {[1..n -> Rules] : n \in 0..MaxRules} : Duplicates \/ IsInjective(l)}

Init == /\ subscriptions = << >> /\ known = {}
        /\ rules = [s \in Subs |-> << >>]
        /\ links = [r \in Rules |-> [s \in Subs |-> 0]]
        /\ subDisabled = {} /\ ruleDisabled = {}
        /\ exceptional \in Exceptional /\ matchers = Empty
-----------------------------------------------------------------------------
\* RuleListener.  `hasEnabled': by the links as they are after the change.
HasEnabled(r) == \E s \in Subs : links'[r][s] > 0 /\ s \notin subDisabled'

\* Mutant: the rule leaves although another subscription has it.
LeavesAlways(r) == r \in Active

\* addRule() and removeRule(): comments and invalid rules have no matcher.
Enters(r) == r \in Active \ ruleDisabled' /\ HasEnabled(r)
Leaves(r) == r \in Active /\ (r \in ruleDisabled' \/ ~HasEnabled(r))

AddRuleIn(c, r)      == IF Enters(r) THEN CombinedAdd(c, r) ELSE c
RemoveRuleFrom(c, r) == IF Leaves(r) THEN CombinedRemove(c, r) ELSE c

AddAll(c, list)    == FoldLeft(AddRuleIn, c, list)
RemoveAll(c, list) == FoldLeft(RemoveRuleFrom, c, list)

\* onSubscriptionChange(): a disabled subscription is ignored.
NotifyAdded(s)   == matchers' = IF s \in subDisabled THEN matchers ELSE AddAll(matchers, rules'[s])
NotifyRemoved(s) == matchers' = IF s \in subDisabled THEN matchers ELSE RemoveAll(matchers, rules[s])
NotifyUpdated(s) == matchers' = IF s \in subDisabled THEN matchers
                                ELSE AddAll(RemoveAll(matchers, rules[s]), rules'[s])

\* onRuleChange(): a disabled rule is ignored.
NotifyRuleAdded(r)   == matchers' = AddAll(matchers, <<r>>)
NotifyRuleRemoved(r) == matchers' = IF r \in ruleDisabled THEN matchers
                                    ELSE RemoveAll(matchers, <<r>>)
-----------------------------------------------------------------------------
\* addSubscriptionRules() and removeSubscriptionRules(): one link for each time
\* the subscription has the rule.
Linked(lk, s, list) ==
  [r \in Rules |-> [lk[r] EXCEPT ![s] = lk[r][s] + Occurrences(r, list)]]

Unlinked(lk, s, list) ==
  [r \in Rules |-> [lk[r] EXCEPT ![s] = IF lk[r][s] <= Occurrences(r, list) THEN 0
                                        ELSE lk[r][s] - Occurrences(r, list)]]

\* addSubscription(): of a group with the rules it was made with, or of one
\* that was in the list before, with the rules it had.
AddSubscription(s, list) ==
  /\ s \notin known
  /\ list = rules[s] \/ (s \in Special /\ rules[s] = << >>)
  /\ subscriptions' = Append(subscriptions, s)
  /\ known' = known \cup {s}
  /\ rules' = [rules EXCEPT ![s] = list]
  /\ links' = Linked(links, s, list)
  /\ UNCHANGED flags
  /\ NotifyAdded(s)

\* Mutant: the links stay.
RemoveSubscriptionOnly(s) ==
  /\ s \in known
  /\ subscriptions' = RemoveAt(subscriptions, Position(subscriptions, s))
  /\ known' = known \ {s}
  /\ UNCHANGED <<rules, links, flags>>
  /\ NotifyRemoved(s)

RemoveSubscription(s) ==
  /\ s \in known
  /\ links' = Unlinked(links, s, rules[s])
  /\ subscriptions' = RemoveAt(subscriptions, Position(subscriptions, s))
  /\ known' = known \ {s}
  /\ UNCHANGED <<rules, flags>>
  /\ NotifyRemoved(s)

\* moveSubscription(): before another one, or to the end.
MoveSubscription(s, before) ==
  /\ s \in known
  /\ LET from == Position(subscriptions, s)
         at   == IF before \in known THEN Position(subscriptions, before)
                 ELSE Len(subscriptions) + 1
         to   == IF from < at THEN at - 1 ELSE at
     IN /\ from # to
        /\ subscriptions' = InsertAt(RemoveAt(subscriptions, from), to, s)
  /\ UNCHANGED <<known, rules, links, flags, matchers>>

\* updateSubscriptionRules(): nothing is linked when the subscription is gone by
\* the time it is downloaded; an empty group does not stay disabled.
UpdateSubscriptionRules(s, list) ==
  /\ s \in known \/ s \notin Special
  /\ rules' = [rules EXCEPT ![s] = list]
  /\ links' = IF s \in known THEN Linked(Unlinked(links, s, rules[s]), s, list) ELSE links
  /\ subDisabled' = IF s \in Special /\ list = << >> THEN subDisabled \ {s} ELSE subDisabled
  /\ UNCHANGED <<subscriptions, known, ruleDisabled>>
  /\ IF s \in known THEN NotifyUpdated(s) ELSE UNCHANGED matchers
-----------------------------------------------------------------------------
\* addRule() into a given group at a given position.
InsertRule(r, s, position) ==
  /\ Len(rules[s]) < MaxRules
  /\ Duplicates \/ r \notin ToSet(rules[s])
  /\ rules' = [rules EXCEPT ![s] = InsertAt(@, position, r)]
  /\ links' = [links EXCEPT ![r][s] = IF @ = 0 THEN 1 ELSE @]
  /\ UNCHANGED <<subscriptions, known, flags>>
  /\ NotifyRuleAdded(r)

AddRuleTo(r, s, position) == s \in known \cap Special /\ InsertRule(r, s, position)

\* getGroupForRule() is s: the first group that takes such rules by default, else
\* the first of the groups for everything.
GroupForRule(r, s) ==
  LET groups  == {i \in DOMAIN subscriptions : subscriptions[i] \in Special}
      fitting == {i \in groups : r \in DefaultFor[subscriptions[i]]}
      general == {i \in groups : DefaultFor[subscriptions[i]] = {}}
  IN \/ fitting # {} /\ s = subscriptions[Min(fitting)]
     \/ fitting = {} /\ general # {} /\ s = subscriptions[Min(general)]

\* addRule() with no group given: nothing is added when some group has the rule;
\* a group is made when there is none for it.
AddRule(r, s) ==
  /\ \A t \in Special : links[r][t] = 0
  /\ \/ GroupForRule(r, s) /\ InsertRule(r, s, Len(rules[s]) + 1)
     \/ /\ \A t \in Special : ~GroupForRule(r, t)
        /\ s \in Special \ (known \cup subDisabled)
        /\ r \in DefaultFor[s] /\ rules[s] = << >>
        /\ AddSubscription(s, <<r>>)

\* removeRule() at a position: with the last one, the link goes.
RemoveRule(r, s, position) ==
  /\ s \in known \cap Special /\ position \in DOMAIN rules[s] /\ rules[s][position] = r
  /\ rules' = [rules EXCEPT ![s] = RemoveAt(@, position)]
  /\ links' = IF r \in ToSet(rules'[s]) THEN links
              ELSE [links EXCEPT ![r][s] = IF @ > 0 THEN @ - 1 ELSE @]
  /\ UNCHANGED <<subscriptions, known, flags>>
  /\ NotifyRuleRemoved(r)

\* All the positions of the rule, from the last to the first.
AllButRule(list, r) ==
  LET Keep(kept, q) == IF q = r THEN kept ELSE Append(kept, q)
  IN FoldLeft(Keep, << >>, list)

\* removeRule() with nothing given: from every group the rule is linked to.
RemoveRuleEverywhere(r) ==
  LET groups == {s \in Special : links[r][s] > 0 /\ r \in ToSet(rules[s])}
  IN /\ groups # {}
     /\ rules' = [s \in Subs |-> IF s \in groups THEN AllButRule(rules[s], r) ELSE rules[s]]
     /\ links' = [links EXCEPT ![r] = [s \in Subs |-> IF s \in groups THEN @[s] - 1 ELSE @[s]]]
     /\ UNCHANGED <<subscriptions, known, flags>>
     /\ NotifyRuleRemoved(r)

\* moveRule(): within its group.
MoveRule(r, s, from, to) ==
  /\ s \in known \cap Special /\ {from, to} \subseteq DOMAIN rules[s] /\ from # to
  /\ rules[s][from] = r
  /\ rules' = [rules EXCEPT ![s] = InsertAt(RemoveAt(@, from), to, r)]
  /\ UNCHANGED <<subscriptions, known, links, flags, matchers>>

\* Rule.disabled is set or reset.
SetRuleDisabled(r, value) ==
  /\ r \in Active /\ value # (r \in ruleDisabled)
  /\ ruleDisabled' = IF value THEN ruleDisabled \cup {r} ELSE ruleDisabled \ {r}
  /\ UNCHANGED <<lists, subDisabled>>
  /\ matchers' = IF value THEN RemoveAll(matchers, <<r>>) ELSE AddAll(matchers, <<r>>)

\* Subscription.disabled is set or reset; ignored unless it is in the list.
SetSubscriptionDisabled(s, value) ==
  /\ value # (s \in subDisabled)
  /\ subDisabled' = IF value THEN subDisabled \cup {s} ELSE subDisabled \ {s}
  /\ UNCHANGED <<lists, ruleDisabled>>
  /\ matchers' = IF s \notin known THEN matchers
                 ELSE IF value THEN RemoveAll(matchers, rules[s]) ELSE AddAll(matchers, rules[s])

\* A group of an older version is removed if it is empty.
WithoutEmpty(list, s) == IF s \in ToSet(list) /\ rules[s] = << >>
                           THEN RemoveAt(list, Position(list, s)) ELSE list

LoadSubscription(c, s) == IF s \in subDisabled THEN c ELSE AddAll(c, rules[s])

\* Firefox is restarted: what was saved is read back (loadFromDisk, parseIniFile),
\* with objects made anew, two old groups are removed, and the matchers come from cache.js if that is as new, else
\* from the rules (onGenericChange("load")).
Reload ==
  /\ subscriptions' = WithoutEmpty(WithoutEmpty(subscriptions, OldExceptional), OldCustom)
  /\ known' = ToSet(subscriptions')
  /\ rules' = [s \in Subs |-> IF s \in known THEN rules[s] ELSE << >>]
  /\ links' = [r \in Rules |-> [s \in Subs |-> Occurrences(r, rules'[s])]]
  /\ subDisabled' = subDisabled \cap known
  /\ ruleDisabled' = ruleDisabled \cap UNION {ToSet(rules[s]) : s \in known}
  /\ \/ matchers' = CombinedFromCache(matchers)
     \/ matchers' = FoldLeft(LoadSubscription, Empty, subscriptions')

StoreNext ==
  \/ Reload
  \/ \E s \in Subs, list \in Lists : AddSubscription(s, list) \/ UpdateSubscriptionRules(s, list)
  \/ \E s \in Subs : RemoveSubscription(s) \/ \E t \in Subs : MoveSubscription(s, t)
  \/ \E s \in Subs, v \in BOOLEAN : SetSubscriptionDisabled(s, v)
  \/ \E r \in Rules : RemoveRuleEverywhere(r) \/ \E v \in BOOLEAN : SetRuleDisabled(r, v)
  \/ \E r \in Rules, s \in Subs :
       \/ AddRule(r, s)
       \/ \E i \in 1..Len(rules[s]) + 1 : AddRuleTo(r, s, i)
       \/ \E i \in DOMAIN rules[s] : RemoveRule(r, s, i) \/ \E j \in DOMAIN rules[s] : MoveRule(r, s, i, j)

Next == \/ StoreNext /\ UNCHANGED exceptional
        \/ \E u \in Urls : MatchesAny(u) /\ UNCHANGED <<lists, flags>>

Spec == Init /\ [][Next]_storeVars
-----------------------------------------------------------------------------
\* The subscriptions of the list that hold r.
Holders(r) == {s \in known : r \in ToSet(rules[s])}

(* "Rule subscriptions the rule belongs to" (RuleClasses.jsm, Rule.subscriptions):
   a rule is linked to the subscriptions of the list that hold it.           *)
LinksExact == \A r \in Rules : {s \in Subs : links[r][s] > 0} = Holders(r)

InForce == {r \in Active \ ruleDisabled : Holders(r) \ subDisabled # {}}

(* What the notifications add up to: whatever has been added, removed, moved,
   updated or disabled before, and whatever was asked meanwhile, the matchers
   hold every enabled rule that some enabled subscription of the list holds and
   no other, and answer as a scan of these rules would.                      *)
RulesInForce ==
  /\ In(matchers) = InForce
  /\ \A u \in Urls :
       LET hits == {r \in InForce : u \in Hits[r]}
       IN Answer(matchers, u) = IF hits \cap exceptional # {} THEN "exception"
                                ELSE IF hits # {} THEN "rule" ELSE "none"
=============================================================================
