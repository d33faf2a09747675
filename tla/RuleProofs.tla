------------------------------ MODULE RuleProofs ------------------------------
(***************************************************************************)
(* Proofs about the rules in memory (RuleStore, RuleMatcher), on disk      *)
(* (RuleFiles) and from their subscriptions (Synchronizer).                *)
(*                                                                         *)
(* In memory, the links are exact and the matchers answer by the rules in  *)
(* force.  The invariant says what each link is, how a matcher's two       *)
(* indexes mirror each other, and that the matchers hold the rules in      *)
(* force.  Subscriptions must not hold a rule twice: with a rule twice in  *)
(* a group, a link counts two after a restart and stays when the rule is   *)
(* removed everywhere.                                                     *)
(*                                                                         *)
(* On disk, for any number of backups, and any number of changes, saves,   *)
(* failures and crashes: a start never takes a stale cache.js for true,    *)
(* nothing is lost that was not left to be saved, and what was saved last  *)
(* is in a file.                                                           *)
(*                                                                         *)
(* From subscriptions: the time between two downloads stays bounded.       *)
(***************************************************************************)
EXTENDS RuleStore, RuleFiles, Synchronizer, FiniteSetTheorems, SequenceTheorems, TLAPS

\* The two indexes of a matcher mirror each other.
WellFiled(m) ==
  LET keywordOf == m.keywordByRule
      rulesOf   == m.ruleByKeyword
  IN /\ m = [ruleByKeyword |-> rulesOf, keywordByRule |-> keywordOf]
     /\ keywordOf = [r \in DOMAIN keywordOf |-> keywordOf[r]]
     /\ rulesOf = [k \in DOMAIN rulesOf |-> rulesOf[k]]
     /\ \A r \in DOMAIN keywordOf :
          /\ r \in Rules
          /\ keywordOf[r] \in ToSet(Keywords[r]) \cup {NoWord}
          /\ keywordOf[r] \in DOMAIN rulesOf
          /\ r \in rulesOf[keywordOf[r]]
     /\ \A k \in DOMAIN rulesOf :
          /\ rulesOf[k] # {} /\ IsFiniteSet(rulesOf[k])
          /\ \A r \in rulesOf[k] : r \in DOMAIN keywordOf /\ keywordOf[r] = k

Filed(m) == DOMAIN m.keywordByRule

WellKept(c) ==
  /\ c = [rules |-> c.rules, exceptions |-> c.exceptions, cache |-> c.cache]
  /\ WellFiled(c.rules) /\ WellFiled(c.exceptions)
  /\ Filed(c.rules) \cap exceptional = {} /\ Filed(c.exceptions) \subseteq exceptional
  /\ \A u \in DOMAIN c.cache : c.cache[u] = MatchesAnyInternal(c, u)

\* What the loops over the first i rules of a list have done to the matchers.
FirstAdded(ctx, i, c) ==
  /\ WellKept(c)
  /\ In(c) = In(ctx.c) \cup {r \in Rules : Enters(r) /\ \E j \in 1..i : ctx.list[j] = r}

FirstRemoved(ctx, i, c) ==
  /\ WellKept(c)
  /\ In(c) = In(ctx.c) \ {r \in Rules : Leaves(r) /\ \E j \in 1..i : ctx.list[j] = r}

FirstKept(ctx, i, kept) ==
  /\ kept \in Seq(Rules) /\ Len(kept) <= i
  /\ ToSet(kept) = {ctx.list[j] : j \in 1..i} \ {ctx.rule}
  /\ IsInjective(ctx.list) => IsInjective(kept)

FirstLoaded(list, i, c) ==
  /\ WellKept(c)
  /\ In(c) = {r \in InForce' : \E j \in 1..i : list[j] \notin subDisabled /\ r \in ToSet(rules[list[j]])}

Keep(r, kept, q) == IF q = r THEN kept ELSE Append(kept, q)

KeepLoop   == INSTANCE FoldInduction WITH Op <- Keep, P <- FirstKept
LoadLoop   == INSTANCE FoldInduction WITH Op <- LAMBDA arg, c, s : LoadSubscription(c, s), P <- FirstLoaded
AddLoop    == INSTANCE FoldInduction WITH Op <- LAMBDA arg, c, r : AddRuleIn(c, r), P <- FirstAdded
RemoveLoop == INSTANCE FoldInduction WITH Op <- LAMBDA arg, c, r : RemoveRuleFrom(c, r), P <- FirstRemoved
-----------------------------------------------------------------------------
(* Matcher: the two indexes mirror each other.                             *)

LEMMA MinIsIn ==
  ASSUME NEW S \in SUBSET Nat, S # {}
  PROVE  Min(S) \in S
BY AddLoop!MinIsLeast DEF Min, AddLoop!Min

\* A rule is filed under a candidate of its own text, or under no word.
LEMMA FindKeywordIs ==
  ASSUME NEW m, NEW r \in Rules
  PROVE  FindKeyword(m, r) \in ToSet(Keywords[r]) \cup {NoWord}
<1>1. Keywords[r] \in Seq(STRING)
  BY MatcherAssumption
<1> DEFINE Count(i) == Cardinality(Listed(m, Keywords[r][i]))
           best == {i \in DOMAIN Keywords[r] : \A j \in DOMAIN Keywords[r] : Count(i) <= Count(j)}
<1>2. best \in SUBSET Nat
  BY <1>1
<1>3. FindKeyword(m, r) = IF best = {} THEN NoWord ELSE Keywords[r][Min(best)]
  BY DEF FindKeyword
<1>4. CASE best = {}
  BY <1>3, <1>4
<1>5. CASE best # {}
  <2>1. Min(best) \in best
    BY <1>2, <1>5, MinIsIn
  <2>2. Min(best) \in DOMAIN Keywords[r]
    BY <2>1
  <2> HIDE DEF best
  <2> QED
    BY <1>3, <1>5, <2>2 DEF ToSet
<1> QED
  BY <1>4, <1>5

LEMMA MatcherAddFiles ==
  ASSUME NEW m, WellFiled(m), NEW r \in Rules
  PROVE  WellFiled(MatcherAdd(m, r)) /\ Filed(MatcherAdd(m, r)) = Filed(m) \cup {r}
<1>1. CASE r \in DOMAIN m.keywordByRule
  BY <1>1 DEF MatcherAdd, Filed
<1>2. CASE r \notin DOMAIN m.keywordByRule
  <2> DEFINE k == FindKeyword(m, r)
             n == MatcherAdd(m, r)
  <2>1. k \in ToSet(Keywords[r]) \cup {NoWord}
    BY FindKeywordIs
  <2> HIDE DEF k
  <2>2. n = [ruleByKeyword |-> With(m.ruleByKeyword, k, Listed(m, k) \cup {r}),
             keywordByRule |-> With(m.keywordByRule, r, k)]
    BY <1>2 DEF MatcherAdd, k
  <2> HIDE DEF n
  <2>3. /\ DOMAIN n.keywordByRule = Filed(m) \cup {r}
        /\ n.keywordByRule[r] = k
        /\ \A q \in Filed(m) : n.keywordByRule[q] = m.keywordByRule[q]
    BY <2>2, <1>2 DEF Filed, With
  <2>4. /\ DOMAIN n.ruleByKeyword = DOMAIN m.ruleByKeyword \cup {k}
        /\ n.ruleByKeyword[k] = Listed(m, k) \cup {r}
        /\ \A j \in DOMAIN m.ruleByKeyword : j # k => n.ruleByKeyword[j] = m.ruleByKeyword[j]
    BY <2>2 DEF With
  <2>5. n.keywordByRule = [q \in DOMAIN n.keywordByRule |-> n.keywordByRule[q]]
    BY <2>2 DEF With
  <2>6. n.ruleByKeyword = [j \in DOMAIN n.ruleByKeyword |-> n.ruleByKeyword[j]]
    BY <2>2 DEF With
  <2>7. IsFiniteSet(Listed(m, k)) /\ \A q \in Listed(m, k) : q \in Filed(m) /\ m.keywordByRule[q] = k
    BY FS_EmptySet DEF WellFiled, Listed, Filed
  <2>8. IsFiniteSet(Listed(m, k) \cup {r})
    BY <2>7, FS_AddElement
  <2>9. ASSUME NEW q \in DOMAIN n.keywordByRule
        PROVE  /\ q \in Rules
               /\ n.keywordByRule[q] \in ToSet(Keywords[q]) \cup {NoWord}
               /\ n.keywordByRule[q] \in DOMAIN n.ruleByKeyword
               /\ q \in n.ruleByKeyword[n.keywordByRule[q]]
    <3>1. CASE q = r
      BY <3>1, <2>1, <2>3, <2>4
    <3>2. CASE q # r
      <4>1. q \in Filed(m)
        BY <3>2, <2>3
      <4> QED
        BY <4>1, <2>3, <2>4 DEF WellFiled, Listed, Filed
    <3> QED
      BY <3>1, <3>2
  <2>10. ASSUME NEW j \in DOMAIN n.ruleByKeyword
         PROVE  /\ n.ruleByKeyword[j] # {} /\ IsFiniteSet(n.ruleByKeyword[j])
                /\ \A q \in n.ruleByKeyword[j] : q \in DOMAIN n.keywordByRule /\ n.keywordByRule[q] = j
    <3>1. CASE j = k
      BY <3>1, <2>3, <2>4, <2>7, <2>8
    <3>2. CASE j # k
      BY <3>2, <2>3, <2>4 DEF WellFiled, Filed
    <3> QED
      BY <3>1, <3>2
  <2>11. n = [ruleByKeyword |-> n.ruleByKeyword, keywordByRule |-> n.keywordByRule]
    BY <2>2
  <2>12. WellFiled(n)
    BY <2>5, <2>6, <2>9, <2>10, <2>11 DEF WellFiled
  <2> QED
    BY <2>3, <2>12 DEF Filed, n
<1> QED
  BY <1>1, <1>2

LEMMA MatcherRemoveFiles ==
  ASSUME NEW m, WellFiled(m), NEW r
  PROVE  WellFiled(MatcherRemove(m, r)) /\ Filed(MatcherRemove(m, r)) = Filed(m) \ {r}
<1>1. CASE r \notin DOMAIN m.keywordByRule
  BY <1>1 DEF MatcherRemove, Filed
<1>2. CASE r \in DOMAIN m.keywordByRule
  <2> DEFINE k == m.keywordByRule[r]
             n == MatcherRemove(m, r)
  <2>1. /\ k \in DOMAIN m.ruleByKeyword /\ r \in m.ruleByKeyword[k]
        /\ IsFiniteSet(m.ruleByKeyword[k])
    BY <1>2 DEF WellFiled
  <2>2. n = [ruleByKeyword |-> IF Cardinality(m.ruleByKeyword[k]) = 1 THEN Without(m.ruleByKeyword, k)
                               ELSE [m.ruleByKeyword EXCEPT ![k] = @ \ {r}],
             keywordByRule |-> Without(m.keywordByRule, r)]
    BY <1>2, <2>1 DEF MatcherRemove, Listed
  <2> HIDE DEF n
  <2>3. /\ DOMAIN n.keywordByRule = Filed(m) \ {r}
        /\ \A q \in Filed(m) \ {r} : n.keywordByRule[q] = m.keywordByRule[q]
        /\ n.keywordByRule = [q \in DOMAIN n.keywordByRule |-> n.keywordByRule[q]]
    BY <2>2 DEF Filed, Without
  <2>4. n = [ruleByKeyword |-> n.ruleByKeyword, keywordByRule |-> n.keywordByRule]
    BY <2>2
  <2>5. CASE Cardinality(m.ruleByKeyword[k]) = 1
    <3>1. m.ruleByKeyword[k] = {r}
      <4>1. PICK x : m.ruleByKeyword[k] = {x}
        BY <2>1, <2>5, FS_Singleton
      <4> QED
        BY <4>1, <2>1
    <3>2. n.ruleByKeyword = Without(m.ruleByKeyword, k)
      BY <2>2, <2>5
    <3>3. /\ DOMAIN n.ruleByKeyword = DOMAIN m.ruleByKeyword \ {k}
          /\ \A j \in DOMAIN n.ruleByKeyword : n.ruleByKeyword[j] = m.ruleByKeyword[j]
          /\ n.ruleByKeyword = [j \in DOMAIN n.ruleByKeyword |-> n.ruleByKeyword[j]]
      BY <3>2 DEF Without
    <3>4. \A q \in Filed(m) \ {r} : m.keywordByRule[q] # k
      BY <3>1 DEF WellFiled, Filed
    <3>5. \A j \in DOMAIN m.ruleByKeyword \ {k} : r \notin m.ruleByKeyword[j]
      BY DEF WellFiled
    <3>6. WellFiled(n)
      BY <2>3, <2>4, <3>3, <3>4, <3>5 DEF WellFiled, Filed
    <3> QED
      BY <3>6, <2>3 DEF Filed, n
  <2>6. CASE Cardinality(m.ruleByKeyword[k]) # 1
    <3>1. m.ruleByKeyword[k] \ {r} # {}
      <4>1. m.ruleByKeyword[k] # {r}
        BY <2>6, FS_Singleton
      <4> QED
        BY <4>1, <2>1
    <3>2. n.ruleByKeyword = [m.ruleByKeyword EXCEPT ![k] = @ \ {r}]
      BY <2>2, <2>6
    <3>3. /\ DOMAIN n.ruleByKeyword = DOMAIN m.ruleByKeyword
          /\ \A j \in DOMAIN m.ruleByKeyword : n.ruleByKeyword[j] = m.ruleByKeyword[j] \ {r}
          /\ n.ruleByKeyword = [j \in DOMAIN n.ruleByKeyword |-> n.ruleByKeyword[j]]
      <4>1. \A j \in DOMAIN m.ruleByKeyword \ {k} : m.ruleByKeyword[j] \ {r} = m.ruleByKeyword[j]
        BY DEF WellFiled
      <4>2. DOMAIN n.ruleByKeyword = DOMAIN m.ruleByKeyword
        BY <3>2
      <4>3. n.ruleByKeyword = [j \in DOMAIN n.ruleByKeyword |-> n.ruleByKeyword[j]]
        BY <3>2
      <4>4. ASSUME NEW j \in DOMAIN m.ruleByKeyword
            PROVE  n.ruleByKeyword[j] = m.ruleByKeyword[j] \ {r}
        <5>1. CASE j = k
          BY <5>1, <3>2, <2>1
        <5>2. CASE j # k
          BY <5>2, <3>2, <4>1
        <5> QED
          BY <5>1, <5>2
      <4> QED
        BY <4>2, <4>3, <4>4
    <3>4. \A j \in DOMAIN m.ruleByKeyword : m.ruleByKeyword[j] \ {r} # {}
      <4>1. \A j \in DOMAIN m.ruleByKeyword \ {k} : r \notin m.ruleByKeyword[j] /\ m.ruleByKeyword[j] # {}
        BY DEF WellFiled
      <4> QED
        BY <3>1, <4>1
    <3>5. \A j \in DOMAIN m.ruleByKeyword : IsFiniteSet(m.ruleByKeyword[j] \ {r})
      BY FS_RemoveElement DEF WellFiled
    <3>6. ASSUME NEW j \in DOMAIN n.ruleByKeyword
          PROVE  /\ n.ruleByKeyword[j] # {} /\ IsFiniteSet(n.ruleByKeyword[j])
                 /\ \A q \in n.ruleByKeyword[j] : q \in DOMAIN n.keywordByRule /\ n.keywordByRule[q] = j
      <4>1. n.ruleByKeyword[j] = m.ruleByKeyword[j] \ {r} /\ j \in DOMAIN m.ruleByKeyword
        BY <3>3
      <4> QED
        BY <4>1, <3>4, <3>5, <2>3 DEF WellFiled, Filed
    <3>7. ASSUME NEW q \in DOMAIN n.keywordByRule
          PROVE  /\ q \in Rules
                 /\ n.keywordByRule[q] \in ToSet(Keywords[q]) \cup {NoWord}
                 /\ n.keywordByRule[q] \in DOMAIN n.ruleByKeyword
                 /\ q \in n.ruleByKeyword[n.keywordByRule[q]]
      BY <2>3, <3>3 DEF WellFiled, Filed
    <3>8. WellFiled(n)
      BY <2>3, <2>4, <3>3, <3>6, <3>7 DEF WellFiled
    <3> QED
      BY <3>8, <2>3 DEF Filed, n
  <2> QED
    BY <2>5, <2>6
<1> QED
  BY <1>1, <1>2

\* What is read back from cache.js is the matcher as it was.
LEMMA FromCacheIsSame ==
  ASSUME NEW m, WellFiled(m)
  PROVE  FromCache(m) = m
<1> DEFINE n == [r \in UNION Range(m.ruleByKeyword) |->
                   CHOOSE k \in DOMAIN m.ruleByKeyword : r \in m.ruleByKeyword[k]]
<1>1. UNION Range(m.ruleByKeyword) = DOMAIN m.keywordByRule
  BY DEF WellFiled, Range
<1>2. ASSUME NEW r \in DOMAIN m.keywordByRule
      PROVE  (CHOOSE k \in DOMAIN m.ruleByKeyword : r \in m.ruleByKeyword[k]) = m.keywordByRule[r]
  <2>1. /\ m.keywordByRule[r] \in DOMAIN m.ruleByKeyword
        /\ r \in m.ruleByKeyword[m.keywordByRule[r]]
        /\ \A k \in DOMAIN m.ruleByKeyword : r \in m.ruleByKeyword[k] => k = m.keywordByRule[r]
    BY DEF WellFiled
  <2> QED
    BY <2>1
<1>3. n = [r \in DOMAIN m.keywordByRule |-> m.keywordByRule[r]]
  BY <1>1, <1>2
<1>4. n = m.keywordByRule
  BY <1>3 DEF WellFiled
<1> HIDE DEF n
<1>5. FromCache(m) = [m EXCEPT !.keywordByRule = n]
  BY DEF FromCache, n
<1> QED
  BY <1>4, <1>5 DEF WellFiled

\* A URL finds a rule exactly if some rule of the matcher matches it.
LEMMA FoundIsHit ==
  ASSUME NEW m, WellFiled(m), NEW u \in Urls
  PROVE  Found(m, u) <=> \E r \in Filed(m) : u \in Hits[r]
<1>1. ASSUME Found(m, u)
      PROVE  \E r \in Filed(m) : u \in Hits[r]
  BY <1>1 DEF Found, Listed, WellFiled, Filed
<1>2. ASSUME NEW r \in Filed(m), u \in Hits[r]
      PROVE  Found(m, u)
  <2> DEFINE k == m.keywordByRule[r]
  <2>1. r \in Rules /\ k \in ToSet(Keywords[r]) \cup {NoWord} /\ r \in Listed(m, k)
    BY DEF WellFiled, Filed, Listed
  <2>2. k \in Words[u] \cup {NoWord}
    BY <2>1, <1>2, MatcherAssumption
  <2> QED
    BY <2>1, <2>2, <1>2 DEF Found
<1> QED
  BY <1>1, <1>2
-----------------------------------------------------------------------------
(* CombinedMatcher.                                                        *)

LEMMA EmptyIsKept ==
  WellKept(Empty) /\ In(Empty) = {}
<1>1. WellFiled(EmptyMatcher) /\ Filed(EmptyMatcher) = {}
  BY DEF WellFiled, EmptyMatcher, Nothing, Filed
<1>2. In(Empty) = {}
  BY <1>1 DEF In, Empty, Filed
<1>3. DOMAIN Empty.cache = {}
  BY DEF Empty, Nothing
<1> QED
  BY <1>1, <1>2, <1>3 DEF WellKept, Empty

LEMMA CombinedAddKeeps ==
  ASSUME NEW c, WellKept(c), NEW r \in Rules
  PROVE  WellKept(CombinedAdd(c, r)) /\ In(CombinedAdd(c, r)) = In(c) \cup {r}
<1> DEFINE d == CombinedAdd(c, r)
<1>1. DOMAIN Nothing = {}
  BY DEF Nothing
<1>2. CASE r \in exceptional
  <2>1. d = [rules |-> c.rules, exceptions |-> MatcherAdd(c.exceptions, r), cache |-> Nothing]
    BY <1>2 DEF CombinedAdd, WellKept
  <2>2. WellFiled(d.exceptions) /\ Filed(d.exceptions) = Filed(c.exceptions) \cup {r}
    BY <2>1, MatcherAddFiles DEF WellKept
  <2> HIDE DEF d
  <2>3. WellKept(d) /\ In(d) = In(c) \cup {r}
    BY <1>1, <1>2, <2>1, <2>2 DEF WellKept, In, Filed
  <2> QED
    BY <2>3 DEF d
<1>3. CASE r \notin exceptional
  <2>1. d = [rules |-> MatcherAdd(c.rules, r), exceptions |-> c.exceptions, cache |-> Nothing]
    BY <1>3 DEF CombinedAdd, WellKept
  <2>2. WellFiled(d.rules) /\ Filed(d.rules) = Filed(c.rules) \cup {r}
    BY <2>1, MatcherAddFiles DEF WellKept
  <2> HIDE DEF d
  <2>3. WellKept(d) /\ In(d) = In(c) \cup {r}
    BY <1>1, <1>3, <2>1, <2>2 DEF WellKept, In, Filed
  <2> QED
    BY <2>3 DEF d
<1> QED
  BY <1>2, <1>3

LEMMA CombinedRemoveKeeps ==
  ASSUME NEW c, WellKept(c), NEW r
  PROVE  WellKept(CombinedRemove(c, r)) /\ In(CombinedRemove(c, r)) = In(c) \ {r}
<1> DEFINE d == CombinedRemove(c, r)
<1>1. DOMAIN Nothing = {}
  BY DEF Nothing
<1>2. CASE r \in exceptional
  <2>1. d = [rules |-> c.rules, exceptions |-> MatcherRemove(c.exceptions, r), cache |-> Nothing]
    BY <1>2 DEF CombinedRemove, WellKept
  <2>2. WellFiled(d.exceptions) /\ Filed(d.exceptions) = Filed(c.exceptions) \ {r}
    BY <2>1, MatcherRemoveFiles DEF WellKept
  <2> HIDE DEF d
  <2>3. WellKept(d) /\ In(d) = In(c) \ {r}
    BY <1>1, <1>2, <2>1, <2>2 DEF WellKept, In, Filed
  <2> QED
    BY <2>3 DEF d
<1>3. CASE r \notin exceptional
  <2>1. d = [rules |-> MatcherRemove(c.rules, r), exceptions |-> c.exceptions, cache |-> Nothing]
    BY <1>3 DEF CombinedRemove, WellKept
  <2>2. WellFiled(d.rules) /\ Filed(d.rules) = Filed(c.rules) \ {r}
    BY <2>1, MatcherRemoveFiles DEF WellKept
  <2> HIDE DEF d
  <2>3. WellKept(d) /\ In(d) = In(c) \ {r}
    BY <1>1, <1>3, <2>1, <2>2 DEF WellKept, In, Filed
  <2> QED
    BY <2>3 DEF d
<1> QED
  BY <1>2, <1>3

LEMMA AddAllKeeps ==
  ASSUME NEW c, WellKept(c), NEW list \in Seq(Rules)
  PROVE  /\ WellKept(AddAll(c, list))
         /\ In(AddAll(c, list)) = In(c) \cup {r \in ToSet(list) : Enters(r)}
<1> DEFINE ctx == [c |-> c, list |-> list]
<1>1. FirstAdded(ctx, 0, c)
  BY DEF FirstAdded
<1>2. ASSUME NEW i \in 1..Len(list), NEW d, FirstAdded(ctx, i - 1, d)
      PROVE  FirstAdded(ctx, i, AddRuleIn(d, list[i]))
  <2> DEFINE r == list[i]
  <2>1. r \in Rules
    OBVIOUS
  <2>2. 1..i = 1..(i - 1) \cup {i}
    OBVIOUS
  <2>3. CASE Enters(r)
    <3>1. WellKept(CombinedAdd(d, r)) /\ In(CombinedAdd(d, r)) = In(d) \cup {r}
      BY <1>2, <2>1, CombinedAddKeeps DEF FirstAdded
    <3>2. {q \in Rules : Enters(q) /\ \E j \in 1..i : ctx.list[j] = q}
            = {q \in Rules : Enters(q) /\ \E j \in 1..(i - 1) : ctx.list[j] = q} \cup {r}
      BY <2>1, <2>2, <2>3
    <3> QED
      BY <1>2, <2>3, <3>1, <3>2 DEF FirstAdded, AddRuleIn
  <2>4. CASE ~Enters(r)
    <3>1. {q \in Rules : Enters(q) /\ \E j \in 1..i : ctx.list[j] = q}
            = {q \in Rules : Enters(q) /\ \E j \in 1..(i - 1) : ctx.list[j] = q}
      BY <2>2, <2>4
    <3> QED
      BY <1>2, <2>4, <3>1 DEF FirstAdded, AddRuleIn
  <2> QED
    BY <2>3, <2>4
<1>3. FirstAdded(ctx, Len(list), AddAll(c, list))
  <2>1. DOMAIN list = 1..Len(list) /\ Len(list) \in Nat
    OBVIOUS
  <2> HIDE DEF ctx
  <2> QED
    BY <1>1, <1>2, <2>1, AddLoop!FoldLeftInduction
       DEF AddAll, FoldLeft, MapThenFoldSet, Max, AddLoop!Fold, AddLoop!FoldLeft, AddLoop!MapThenFoldSet, AddLoop!Max
<1>4. {r \in Rules : Enters(r) /\ \E j \in 1..Len(list) : list[j] = r} = {r \in ToSet(list) : Enters(r)}
  BY DEF ToSet
<1> QED
  BY <1>3, <1>4 DEF FirstAdded

LEMMA RemoveAllKeeps ==
  ASSUME NEW c, WellKept(c), NEW list \in Seq(Rules)
  PROVE  /\ WellKept(RemoveAll(c, list))
         /\ In(RemoveAll(c, list)) = In(c) \ {r \in ToSet(list) : Leaves(r)}
<1> DEFINE ctx == [c |-> c, list |-> list]
<1>1. FirstRemoved(ctx, 0, c)
  BY DEF FirstRemoved
<1>2. ASSUME NEW i \in 1..Len(list), NEW d, FirstRemoved(ctx, i - 1, d)
      PROVE  FirstRemoved(ctx, i, RemoveRuleFrom(d, list[i]))
  <2> DEFINE r == list[i]
  <2>1. r \in Rules
    OBVIOUS
  <2>2. 1..i = 1..(i - 1) \cup {i}
    OBVIOUS
  <2>3. CASE Leaves(r)
    <3>1. WellKept(CombinedRemove(d, r)) /\ In(CombinedRemove(d, r)) = In(d) \ {r}
      BY <1>2, CombinedRemoveKeeps DEF FirstRemoved
    <3>2. {q \in Rules : Leaves(q) /\ \E j \in 1..i : ctx.list[j] = q}
            = {q \in Rules : Leaves(q) /\ \E j \in 1..(i - 1) : ctx.list[j] = q} \cup {r}
      BY <2>1, <2>2, <2>3
    <3> QED
      BY <1>2, <2>3, <3>1, <3>2 DEF FirstRemoved, RemoveRuleFrom
  <2>4. CASE ~Leaves(r)
    <3>1. {q \in Rules : Leaves(q) /\ \E j \in 1..i : ctx.list[j] = q}
            = {q \in Rules : Leaves(q) /\ \E j \in 1..(i - 1) : ctx.list[j] = q}
      BY <2>2, <2>4
    <3> QED
      BY <1>2, <2>4, <3>1 DEF FirstRemoved, RemoveRuleFrom
  <2> QED
    BY <2>3, <2>4
<1>3. FirstRemoved(ctx, Len(list), RemoveAll(c, list))
  <2>1. DOMAIN list = 1..Len(list) /\ Len(list) \in Nat
    OBVIOUS
  <2> HIDE DEF ctx
  <2> QED
    BY <1>1, <1>2, <2>1, RemoveLoop!FoldLeftInduction
       DEF RemoveAll, FoldLeft, MapThenFoldSet, Max, RemoveLoop!Fold, RemoveLoop!FoldLeft, RemoveLoop!MapThenFoldSet, RemoveLoop!Max
<1>4. {r \in Rules : Leaves(r) /\ \E j \in 1..Len(list) : list[j] = r} = {r \in ToSet(list) : Leaves(r)}
  BY DEF ToSet
<1> QED
  BY <1>3, <1>4 DEF FirstRemoved
-----------------------------------------------------------------------------
(* Arrays: splice(), indexOf().                                            *)

LEMMA RemoveAtIs ==
  ASSUME NEW S, NEW list \in Seq(S), NEW p \in DOMAIN list
  PROVE  /\ RemoveAt(list, p) \in Seq(S) /\ Len(RemoveAt(list, p)) = Len(list) - 1
         /\ \A i \in 1..Len(list) - 1 :
              RemoveAt(list, p)[i] = IF i < p THEN list[i] ELSE list[i + 1]
<1>1. DOMAIN list = 1..Len(list) /\ Len(list) \in Nat /\ p \in 1..Len(list)
  OBVIOUS
<1> DEFINE head == SubSeq(list, 1, p - 1)
           tail == SubSeq(list, p + 1, Len(list))
<1>2. /\ head \in Seq(S) /\ Len(head) = p - 1
      /\ \A i \in 1..(p - 1) : head[i] = list[i]
  BY <1>1
<1>3. /\ tail \in Seq(S) /\ Len(tail) = Len(list) - p
      /\ \A i \in 1..(Len(list) - p) : tail[i] = list[p + i]
  BY <1>1
<1> HIDE DEF head, tail
<1>4. /\ head \o tail \in Seq(S) /\ Len(head \o tail) = Len(list) - 1
      /\ \A i \in 1..Len(list) - 1 :
           (head \o tail)[i] = IF i < p THEN list[i] ELSE list[i + 1]
  <2>1. head \o tail \in Seq(S) /\ Len(head \o tail) = Len(list) - 1
    <3>1. head \o tail \in Seq(S) /\ Len(head \o tail) = Len(head) + Len(tail)
      BY <1>2, <1>3, ConcatProperties
    <3> QED
      BY <3>1, <1>1, <1>2, <1>3
  <2>2. ASSUME NEW i \in 1..Len(list) - 1, i < p
        PROVE  (head \o tail)[i] = list[i]
    BY <1>1, <1>2, <1>3, <2>2
  <2>3. ASSUME NEW i \in 1..Len(list) - 1, ~(i < p)
        PROVE  (head \o tail)[i] = list[i + 1]
    <3>1. (head \o tail)[i] = tail[i - (p - 1)]
      BY <1>1, <1>2, <1>3, <2>3
    <3>2. i - (p - 1) \in 1..(Len(list) - p) /\ p + (i - (p - 1)) = i + 1
      BY <1>1, <2>3
    <3> QED
      BY <3>1, <3>2, <1>3
  <2> QED
    BY <2>1, <2>2, <2>3
<1> QED
  BY <1>4 DEF RemoveAt, head, tail

LEMMA InsertAtIs ==
  ASSUME NEW S, NEW list \in Seq(S), NEW p \in 1..Len(list) + 1, NEW e \in S
  PROVE  /\ InsertAt(list, p, e) \in Seq(S) /\ Len(InsertAt(list, p, e)) = Len(list) + 1
         /\ \A i \in 1..Len(list) + 1 :
              InsertAt(list, p, e)[i] = IF i < p THEN list[i] ELSE IF i = p THEN e ELSE list[i - 1]
<1>1. DOMAIN list = 1..Len(list) /\ Len(list) \in Nat /\ p \in Nat
  OBVIOUS
<1> DEFINE head == SubSeq(list, 1, p - 1)
           tail == SubSeq(list, p, Len(list))
<1>2. /\ head \in Seq(S) /\ Len(head) = p - 1
      /\ \A i \in 1..(p - 1) : head[i] = list[i]
  BY <1>1
<1>3. /\ tail \in Seq(S) /\ Len(tail) = Len(list) - p + 1
      /\ \A i \in 1..(Len(list) - p + 1) : tail[i] = list[p + i - 1]
  BY <1>1
<1> HIDE DEF head, tail
<1> DEFINE front == Append(head, e)
<1>4. /\ front \in Seq(S) /\ Len(front) = p
      /\ \A i \in 1..p : front[i] = IF i < p THEN list[i] ELSE e
  BY <1>1, <1>2
<1>5. head \o <<e>> = front
  BY <1>2
<1> HIDE DEF front
<1>6. front \o tail \in Seq(S) /\ Len(front \o tail) = Len(list) + 1
  <2>1. front \o tail \in Seq(S) /\ Len(front \o tail) = Len(front) + Len(tail)
    BY <1>3, <1>4, ConcatProperties
  <2> QED
    BY <2>1, <1>1, <1>3, <1>4
<1>7. ASSUME NEW i \in 1..Len(list) + 1
      PROVE  (front \o tail)[i] = IF i < p THEN list[i] ELSE IF i = p THEN e ELSE list[i - 1]
  <2>1. CASE i <= p
    <3>1. (front \o tail)[i] = front[i] /\ i \in 1..p
      BY <2>1, <1>3, <1>4, <1>1, ConcatProperties
    <3> QED
      BY <2>1, <3>1, <1>4, <1>1
  <2>2. CASE ~(i <= p)
    <3>1. (front \o tail)[i] = tail[i - p]
      BY <2>2, <1>3, <1>4, <1>1, ConcatProperties
    <3>2. i - p \in 1..(Len(list) - p + 1) /\ p + (i - p) - 1 = i - 1
      BY <2>2, <1>1
    <3> QED
      BY <2>2, <3>1, <3>2, <1>3, <1>1
  <2> QED
    BY <2>1, <2>2
<1>8. InsertAt(list, p, e) = front \o tail
  BY <1>5 DEF InsertAt, head, tail
<1> QED
  BY <1>6, <1>7, <1>8

LEMMA RemoveAtLeaves ==
  ASSUME NEW S, NEW list \in Seq(S), IsInjective(list), NEW p \in DOMAIN list
  PROVE  IsInjective(RemoveAt(list, p)) /\ ToSet(RemoveAt(list, p)) = ToSet(list) \ {list[p]}
<1> DEFINE rest == RemoveAt(list, p)
<1>1. /\ rest \in Seq(S) /\ Len(rest) = Len(list) - 1
      /\ \A i \in 1..Len(list) - 1 : rest[i] = IF i < p THEN list[i] ELSE list[i + 1]
  BY RemoveAtIs
<1>2. DOMAIN list = 1..Len(list) /\ Len(list) \in Nat /\ p \in 1..Len(list)
  OBVIOUS
<1> HIDE DEF rest
<1>3. DOMAIN rest = 1..Len(list) - 1
  BY <1>1
<1>4. IsInjective(rest)
  <2>1. ASSUME NEW i \in 1..Len(list) - 1
        PROVE  \E k \in DOMAIN list : /\ k = IF i < p THEN i ELSE i + 1
                                     /\ rest[i] = list[k]
    BY <1>1, <1>2
  <2>2. ASSUME NEW i \in DOMAIN rest, NEW j \in DOMAIN rest, rest[i] = rest[j]
        PROVE  i = j
    <3>1. i \in 1..Len(list) - 1 /\ j \in 1..Len(list) - 1
      BY <1>3
    <3>2. PICK k \in DOMAIN list : (k = IF i < p THEN i ELSE i + 1) /\ rest[i] = list[k]
      BY <2>1, <3>1
    <3>3. PICK l \in DOMAIN list : (l = IF j < p THEN j ELSE j + 1) /\ rest[j] = list[l]
      BY <2>1, <3>1
    <3>4. k = l
      BY <2>2, <3>2, <3>3 DEF IsInjective
    <3> QED
      BY <1>2, <3>1, <3>2, <3>3, <3>4
  <2> QED
    BY <2>2 DEF IsInjective
<1>5. ASSUME NEW i \in DOMAIN rest PROVE rest[i] \in ToSet(list) \ {list[p]}
  <2>1. PICK j \in DOMAIN list : rest[i] = list[j] /\ j # p
    BY <1>1, <1>2, <1>3
  <2> QED
    BY <2>1 DEF IsInjective, ToSet
<1>6. ASSUME NEW j \in DOMAIN list, j # p PROVE list[j] \in ToSet(rest)
  <2>1. CASE j < p
    <3>1. j \in DOMAIN rest /\ rest[j] = list[j]
      BY <2>1, <1>1, <1>2, <1>3
    <3> QED
      BY <3>1 DEF ToSet
  <2>2. CASE j > p
    <3>1. j - 1 \in DOMAIN rest /\ rest[j - 1] = list[j]
      BY <2>2, <1>1, <1>2, <1>3
    <3> QED
      BY <3>1 DEF ToSet
  <2> QED
    BY <2>1, <2>2, <1>2, <1>6
<1>7. ToSet(rest) = ToSet(list) \ {list[p]}
  BY <1>5, <1>6 DEF ToSet
<1> QED
  BY <1>4, <1>7 DEF rest

LEMMA InsertAtTakes ==
  ASSUME NEW S, NEW list \in Seq(S), IsInjective(list),
         NEW p \in 1..Len(list) + 1, NEW e \in S, e \notin ToSet(list)
  PROVE  IsInjective(InsertAt(list, p, e)) /\ ToSet(InsertAt(list, p, e)) = ToSet(list) \cup {e}
<1> DEFINE more == InsertAt(list, p, e)
<1>1. /\ more \in Seq(S) /\ Len(more) = Len(list) + 1
      /\ \A i \in 1..Len(list) + 1 :
           more[i] = IF i < p THEN list[i] ELSE IF i = p THEN e ELSE list[i - 1]
  BY InsertAtIs
<1>2. DOMAIN list = 1..Len(list) /\ Len(list) \in Nat
  OBVIOUS
<1> HIDE DEF more
<1>3. DOMAIN more = 1..Len(list) + 1
  BY <1>1
<1>4. \A i \in DOMAIN list : list[i] # e
  BY DEF ToSet
<1>5. IsInjective(more)
  <2>1. ASSUME NEW i \in DOMAIN more, i # p
        PROVE  \E k \in DOMAIN list : /\ k = IF i < p THEN i ELSE i - 1
                                     /\ more[i] = list[k]
    BY <1>1, <1>2, <1>3, <2>1
  <2>2. more[p] = e
    BY <1>1, <1>2
  <2>3. ASSUME NEW i \in DOMAIN more, i # p, more[i] = e
        PROVE  FALSE
    BY <2>1, <2>3, <1>4
  <2>4. ASSUME NEW i \in DOMAIN more, NEW j \in DOMAIN more, more[i] = more[j], i # p, j # p
        PROVE  i = j
    <3>1. i \in Nat /\ j \in Nat /\ p \in Nat
      BY <1>2, <1>3
    <3>2. PICK k \in DOMAIN list : (k = IF i < p THEN i ELSE i - 1) /\ more[i] = list[k]
      BY <2>1, <2>4
    <3>3. PICK l \in DOMAIN list : (l = IF j < p THEN j ELSE j - 1) /\ more[j] = list[l]
      BY <2>1, <2>4
    <3>4. k = l
      BY <2>4, <3>2, <3>3 DEF IsInjective
    <3> QED
      BY <2>4, <3>1, <3>2, <3>3, <3>4
  <2> QED
    BY <2>2, <2>3, <2>4 DEF IsInjective
<1>6. ASSUME NEW i \in DOMAIN more PROVE more[i] \in ToSet(list) \cup {e}
  BY <1>1, <1>2, <1>3 DEF ToSet
<1>7. more[p] = e /\ p \in DOMAIN more
  BY <1>1, <1>2, <1>3
<1>8. ASSUME NEW j \in DOMAIN list PROVE list[j] \in ToSet(more)
  <2>1. CASE j < p
    <3>1. j \in DOMAIN more /\ more[j] = list[j]
      BY <2>1, <1>1, <1>2, <1>3
    <3> QED
      BY <3>1 DEF ToSet
  <2>2. CASE j >= p
    <3>1. j + 1 \in DOMAIN more /\ more[j + 1] = list[j]
      BY <2>2, <1>1, <1>2, <1>3
    <3> QED
      BY <3>1 DEF ToSet
  <2> QED
    BY <2>1, <2>2, <1>2
<1>9. ToSet(more) = ToSet(list) \cup {e}
  BY <1>6, <1>7, <1>8 DEF ToSet
<1> QED
  BY <1>5, <1>9 DEF more

LEMMA AppendTakes ==
  ASSUME NEW S, NEW list \in Seq(S), NEW e \in S
  PROVE  /\ Append(list, e) \in Seq(S) /\ Len(Append(list, e)) = Len(list) + 1
         /\ ToSet(Append(list, e)) = ToSet(list) \cup {e}
         /\ IsInjective(list) /\ e \notin ToSet(list) => IsInjective(Append(list, e))
<1> DEFINE more == Append(list, e)
<1>1. more \in Seq(S) /\ Len(more) = Len(list) + 1
  OBVIOUS
<1>2. /\ DOMAIN more = DOMAIN list \cup {Len(list) + 1} /\ more[Len(list) + 1] = e
      /\ \A i \in DOMAIN list : more[i] = list[i]
  OBVIOUS
<1> HIDE DEF more
<1>3. ToSet(more) = ToSet(list) \cup {e}
  BY <1>2 DEF ToSet
<1>4. ASSUME IsInjective(list), e \notin ToSet(list)
      PROVE  IsInjective(more)
  <2>1. \A i \in DOMAIN list : list[i] # e
    BY <1>4 DEF ToSet
  <2> QED
    BY <1>2, <1>4, <2>1 DEF IsInjective
<1> QED
  BY <1>1, <1>3, <1>4 DEF more

LEMMA PositionIs ==
  ASSUME NEW S, NEW list \in Seq(S), NEW x \in ToSet(list)
  PROVE  Position(list, x) \in DOMAIN list /\ list[Position(list, x)] = x
<1> DEFINE I == {i \in 1..Len(list) : list[i] = x}
<1>1. I \in SUBSET Nat /\ I # {} /\ DOMAIN list = 1..Len(list)
  BY DEF ToSet
<1>2. Min(I) \in I
  BY <1>1, MinIsIn
<1>3. Position(list, x) = Min(I)
  BY <1>1 DEF Position, SelectInSeq
<1> QED
  BY <1>1, <1>2, <1>3

LEMMA AllButRuleIs ==
  ASSUME NEW r, NEW list \in Seq(Rules)
  PROVE  /\ AllButRule(list, r) \in Seq(Rules) /\ Len(AllButRule(list, r)) <= Len(list)
         /\ ToSet(AllButRule(list, r)) = ToSet(list) \ {r}
         /\ IsInjective(list) => IsInjective(AllButRule(list, r))
<1> DEFINE ctx == [list |-> list, rule |-> r]
<1>1. FirstKept(ctx, 0, << >>)
  BY DEF FirstKept, ToSet, IsInjective
<1>2. ASSUME NEW i \in 1..Len(list), NEW kept, FirstKept(ctx, i - 1, kept)
      PROVE  FirstKept(ctx, i, Keep(r, kept, list[i]))
  <2>1. /\ kept \in Seq(Rules) /\ Len(kept) <= i - 1
        /\ ToSet(kept) = {list[j] : j \in 1..(i - 1)} \ {r}
        /\ IsInjective(list) => IsInjective(kept)
    BY <1>2 DEF FirstKept
  <2>2. {list[j] : j \in 1..i} = {list[j] : j \in 1..(i - 1)} \cup {list[i]}
    <3>1. 1..i = 1..(i - 1) \cup {i}
      OBVIOUS
    <3> QED
      BY <3>1
  <2>3. CASE list[i] = r
    BY <2>1, <2>2, <2>3 DEF FirstKept, Keep
  <2>4. CASE list[i] # r
    <3> DEFINE next == Append(kept, list[i])
    <3>1. /\ next \in Seq(Rules) /\ Len(next) = Len(kept) + 1
          /\ ToSet(next) = ToSet(kept) \cup {list[i]}
          /\ IsInjective(kept) /\ list[i] \notin ToSet(kept) => IsInjective(next)
      BY <2>1, AppendTakes
    <3> HIDE DEF next
    <3>2. IsInjective(list) => list[i] \notin ToSet(kept)
      BY <2>1 DEF IsInjective
    <3>3. Len(next) <= i
      BY <3>1, <2>1
    <3>4. FirstKept(ctx, i, next)
      BY <2>1, <2>2, <2>4, <3>1, <3>2, <3>3 DEF FirstKept
    <3> QED
      BY <3>4, <2>4 DEF next, Keep
  <2> QED
    BY <2>3, <2>4
<1>3. FirstKept(ctx, Len(list), AllButRule(list, r))
  <2>1. DOMAIN list = 1..Len(list) /\ Len(list) \in Nat
    OBVIOUS
  <2>2. KeepLoop!Fold(r, << >>, list) = AllButRule(list, r)
    BY DEF AllButRule, Keep, FoldLeft, MapThenFoldSet, Max, KeepLoop!Fold, KeepLoop!FoldLeft,
           KeepLoop!MapThenFoldSet, KeepLoop!Max
  <2> HIDE DEF ctx
  <2>3. FirstKept(ctx, Len(list), KeepLoop!Fold(r, << >>, list))
    BY <1>1, <1>2, <2>1, KeepLoop!FoldLeftInduction
  <2> QED
    BY <2>2, <2>3
<1>4. {list[j] : j \in 1..Len(list)} = ToSet(list)
  BY DEF ToSet
<1> QED
  BY <1>3, <1>4 DEF FirstKept
-----------------------------------------------------------------------------
(* The invariant.                                                          *)

Distinct(S) == {list \in Seq(S) : IsInjective(list)}

TypeOK ==
  /\ subscriptions \in Distinct(Subs) /\ known = ToSet(subscriptions)
  /\ rules \in [Subs -> Distinct(Rules)]
  /\ subDisabled \subseteq Subs /\ ruleDisabled \subseteq Rules /\ exceptional \subseteq Rules

\* One link for each rule of each subscription of the list.
LinksAre ==
  links = [r \in Rules |-> [s \in Subs |-> IF s \in known /\ r \in ToSet(rules[s]) THEN 1 ELSE 0]]

MatchersHold == WellKept(matchers) /\ In(matchers) = InForce

Inv == TypeOK /\ LinksAre /\ MatchersHold

LEMMA ListsAre ==
  ASSUME ~Duplicates, NEW list \in Lists
  PROVE  list \in Distinct(Rules)
<1>1. PICK n \in 0..MaxRules : list \in [1..n -> Rules]
  BY DEF Lists
<1>2. n \in Nat
  BY StoreAssumption
<1> QED
  BY <1>1, <1>2 DEF Lists, Distinct

LEMMA OccurrencesIs ==
  ASSUME NEW list, IsInjective(list), NEW r
  PROVE  Occurrences(r, list) = IF r \in ToSet(list) THEN 1 ELSE 0
<1> DEFINE at == {i \in DOMAIN list : list[i] = r}
<1>1. CASE r \in ToSet(list)
  <2>1. PICK i \in DOMAIN list : list[i] = r
    BY <1>1 DEF ToSet
  <2>2. at = {i}
    BY <2>1 DEF IsInjective
  <2>3. Cardinality(at) = 1
    BY <2>2, FS_Singleton
  <2> QED
    BY <1>1, <2>3 DEF Occurrences
<1>2. CASE r \notin ToSet(list)
  <2>1. at = {}
    BY <1>2 DEF ToSet
  <2>2. Cardinality(at) = 0
    BY <2>1, FS_EmptySet
  <2> QED
    BY <1>2, <2>2 DEF Occurrences
<1> QED
  BY <1>1, <1>2

LEMMA InitInv ==
  Init => Inv
<1> SUFFICES ASSUME Init PROVE Inv
  OBVIOUS
<1>1. ToSet(<< >>) = {} /\ << >> \in Distinct(Subs) /\ << >> \in Distinct(Rules)
  BY DEF ToSet, IsInjective, Distinct
<1>2. TypeOK
  BY <1>1, MatcherAssumption DEF Init, TypeOK
<1>3. LinksAre
  BY DEF Init, LinksAre
<1>4. InForce = {}
  BY DEF Init, InForce, Holders
<1> QED
  BY <1>2, <1>3, <1>4, EmptyIsKept DEF Init, Inv, MatchersHold
-----------------------------------------------------------------------------
(* The lists and the links, operation by operation.                        *)

LEMMA AddSubscriptionLinks ==
  ASSUME Inv, UNCHANGED exceptional,
         NEW s \in Subs, NEW list \in Distinct(Rules), AddSubscription(s, list)
  PROVE  TypeOK' /\ LinksAre'
<1>1. TypeOK /\ LinksAre
  BY DEF Inv
<1>2. /\ s \notin known /\ subscriptions' = Append(subscriptions, s) /\ known' = known \cup {s}
      /\ rules' = [rules EXCEPT ![s] = list] /\ links' = Linked(links, s, list)
      /\ UNCHANGED flags
  BY DEF AddSubscription
<1>3. subscriptions' \in Distinct(Subs) /\ ToSet(subscriptions') = known'
  BY <1>1, <1>2, AppendTakes DEF TypeOK, Distinct
<1>4. TypeOK'
  BY <1>1, <1>2, <1>3 DEF TypeOK, flags
<1>5. \A r \in Rules : Occurrences(r, list) = IF r \in ToSet(list) THEN 1 ELSE 0
  BY OccurrencesIs DEF Distinct
<1>6. LinksAre'
  <2>1. links' = [r \in Rules |-> [links[r] EXCEPT ![s] = links[r][s] + Occurrences(r, list)]]
    BY <1>2 DEF Linked
  <2>2. ASSUME NEW r \in Rules
        PROVE  links'[r] = [t \in Subs |-> IF t \in known' /\ r \in ToSet(rules'[t]) THEN 1 ELSE 0]
    <3>1. links[r] = [t \in Subs |-> IF t \in known /\ r \in ToSet(rules[t]) THEN 1 ELSE 0]
      BY <1>1 DEF LinksAre
    <3>2. links[r][s] = 0
      BY <3>1, <1>2
    <3>3. links'[r] = [links[r] EXCEPT ![s] = Occurrences(r, list)]
      BY <2>1, <3>2, <1>5
    <3> QED
      BY <3>1, <3>3, <1>1, <1>2, <1>5 DEF TypeOK
  <2> QED
    BY <2>1, <2>2 DEF LinksAre
<1> QED
  BY <1>4, <1>6

LEMMA RemoveSubscriptionLinks ==
  ASSUME Inv, UNCHANGED exceptional, NEW s \in Subs, RemoveSubscription(s)
  PROVE  TypeOK' /\ LinksAre'
<1>1. TypeOK /\ LinksAre
  BY DEF Inv
<1>2. /\ s \in known /\ known' = known \ {s} /\ UNCHANGED <<rules, flags>>
      /\ subscriptions' = RemoveAt(subscriptions, Position(subscriptions, s))
      /\ links' = Unlinked(links, s, rules[s])
  BY DEF RemoveSubscription
<1>3. subscriptions' \in Distinct(Subs) /\ ToSet(subscriptions') = known'
  <2>1. Position(subscriptions, s) \in DOMAIN subscriptions
        /\ subscriptions[Position(subscriptions, s)] = s
    BY <1>1, <1>2, PositionIs DEF TypeOK, Distinct
  <2> QED
    BY <1>1, <1>2, <2>1, RemoveAtIs, RemoveAtLeaves DEF TypeOK, Distinct
<1>4. TypeOK'
  BY <1>1, <1>2, <1>3 DEF TypeOK, flags
<1>5. \A r \in Rules : Occurrences(r, rules[s]) = IF r \in ToSet(rules[s]) THEN 1 ELSE 0
  BY <1>1, OccurrencesIs DEF TypeOK, Distinct
<1>6. LinksAre'
  <2>1. links' = [r \in Rules |-> [links[r] EXCEPT ![s] =
                    IF links[r][s] <= Occurrences(r, rules[s]) THEN 0
                    ELSE links[r][s] - Occurrences(r, rules[s])]]
    BY <1>2 DEF Unlinked
  <2>2. ASSUME NEW r \in Rules
        PROVE  links'[r] = [t \in Subs |-> IF t \in known' /\ r \in ToSet(rules'[t]) THEN 1 ELSE 0]
    <3>1. links[r] = [t \in Subs |-> IF t \in known /\ r \in ToSet(rules[t]) THEN 1 ELSE 0]
      BY <1>1 DEF LinksAre
    <3>2. links[r][s] <= Occurrences(r, rules[s])
      BY <3>1, <1>2, <1>5
    <3>3. links'[r] = [links[r] EXCEPT ![s] = 0]
      BY <2>1, <3>2
    <3> QED
      BY <3>1, <3>3, <1>2
  <2> QED
    BY <2>1, <2>2 DEF LinksAre
<1> QED
  BY <1>4, <1>6

LEMMA MoveSubscriptionLinks ==
  ASSUME Inv, UNCHANGED exceptional, NEW s \in Subs, NEW before, MoveSubscription(s, before)
  PROVE  TypeOK' /\ LinksAre'
<1>1. TypeOK /\ LinksAre
  BY DEF Inv
<1> DEFINE from == Position(subscriptions, s)
           at   == IF before \in known THEN Position(subscriptions, before)
                   ELSE Len(subscriptions) + 1
           to   == IF from < at THEN at - 1 ELSE at
<1>2. /\ s \in known /\ UNCHANGED <<known, rules, links, flags>>
      /\ subscriptions' = InsertAt(RemoveAt(subscriptions, from), to, s)
  BY DEF MoveSubscription
<1>3. from \in DOMAIN subscriptions /\ subscriptions[from] = s
  BY <1>1, <1>2, PositionIs DEF TypeOK, Distinct
<1>4. at \in 1..Len(subscriptions) + 1
  <2>1. CASE before \in known
    <3>1. Position(subscriptions, before) \in DOMAIN subscriptions
      BY <2>1, <1>1, PositionIs DEF TypeOK, Distinct
    <3> QED
      BY <2>1, <3>1, <1>1 DEF TypeOK, Distinct
  <2>2. CASE before \notin known
    BY <2>2, <1>1 DEF TypeOK, Distinct
  <2> QED
    BY <2>1, <2>2
<1> DEFINE rest == RemoveAt(subscriptions, from)
<1>5. /\ rest \in Distinct(Subs) /\ Len(rest) = Len(subscriptions) - 1
      /\ ToSet(rest) = known \ {s}
  BY <1>1, <1>3, RemoveAtIs, RemoveAtLeaves DEF TypeOK, Distinct
<1> HIDE DEF from, at
<1>6. to \in 1..Len(rest) + 1
  <2>1. from \in 1..Len(subscriptions) /\ Len(subscriptions) \in Nat
    BY <1>1, <1>3 DEF TypeOK, Distinct
  <2> QED
    BY <2>1, <1>4, <1>5
<1> HIDE DEF rest, to
<1>7. subscriptions' \in Distinct(Subs) /\ ToSet(subscriptions') = known
  <2>1. subscriptions' = InsertAt(rest, to, s)
    BY <1>2 DEF rest
  <2>2. InsertAt(rest, to, s) \in Seq(Subs)
    BY <1>5, <1>6, InsertAtIs DEF Distinct
  <2>3. s \notin ToSet(rest) /\ rest \in Seq(Subs) /\ IsInjective(rest)
    BY <1>5 DEF Distinct
  <2>4. IsInjective(InsertAt(rest, to, s)) /\ ToSet(InsertAt(rest, to, s)) = ToSet(rest) \cup {s}
    BY <1>6, <2>3, InsertAtTakes
  <2> QED
    BY <2>1, <2>2, <2>4, <1>2, <1>5 DEF Distinct
<1> QED
  BY <1>1, <1>2, <1>7 DEF TypeOK, LinksAre, flags

LEMMA UpdateSubscriptionRulesLinks ==
  ASSUME Inv, UNCHANGED exceptional,
         NEW s \in Subs, NEW list \in Distinct(Rules), UpdateSubscriptionRules(s, list)
  PROVE  TypeOK' /\ LinksAre'
<1>1. TypeOK /\ LinksAre
  BY DEF Inv
<1>2. /\ rules' = [rules EXCEPT ![s] = list]
      /\ links' = IF s \in known THEN Linked(Unlinked(links, s, rules[s]), s, list) ELSE links
      /\ subDisabled' = IF s \in Special /\ list = << >> THEN subDisabled \ {s} ELSE subDisabled
      /\ UNCHANGED <<subscriptions, known, ruleDisabled>>
  BY DEF UpdateSubscriptionRules
<1>3. TypeOK'
  BY <1>1, <1>2 DEF TypeOK
<1>4. CASE s \in known
  <2>1. \A r \in Rules : Occurrences(r, rules[s]) = IF r \in ToSet(rules[s]) THEN 1 ELSE 0
    BY <1>1, OccurrencesIs DEF TypeOK, Distinct
  <2>2. \A r \in Rules : Occurrences(r, list) = IF r \in ToSet(list) THEN 1 ELSE 0
    BY OccurrencesIs DEF Distinct
  <2> DEFINE un == Unlinked(links, s, rules[s])
  <2>3. \A r \in Rules : un[r] = [links[r] EXCEPT ![s] =
                    IF links[r][s] <= Occurrences(r, rules[s]) THEN 0
                    ELSE links[r][s] - Occurrences(r, rules[s])]
    BY DEF Unlinked
  <2> HIDE DEF un
  <2>4. links' = [r \in Rules |-> [un[r] EXCEPT ![s] = un[r][s] + Occurrences(r, list)]]
    BY <1>2, <1>4 DEF Linked, un
  <2>5. ASSUME NEW r \in Rules
        PROVE  links'[r] = [t \in Subs |-> IF t \in known' /\ r \in ToSet(rules'[t]) THEN 1 ELSE 0]
    <3>1. links[r] = [t \in Subs |-> IF t \in known /\ r \in ToSet(rules[t]) THEN 1 ELSE 0]
      BY <1>1 DEF LinksAre
    <3>2. links[r][s] <= Occurrences(r, rules[s])
      BY <3>1, <1>4, <2>1
    <3>3. un[r] = [links[r] EXCEPT ![s] = 0]
      BY <2>3, <3>2
    <3>4. un[r][s] = 0
      BY <3>1, <3>3
    <3>5. links'[r] = [links[r] EXCEPT ![s] = IF r \in ToSet(list) THEN 1 ELSE 0]
      BY <2>2, <2>4, <3>3, <3>4
    <3> QED
      BY <3>1, <3>5, <1>1, <1>2, <1>4 DEF TypeOK
  <2>6. LinksAre'
    BY <2>4, <2>5 DEF LinksAre
  <2> QED
    BY <1>3, <2>6
<1>5. CASE s \notin known
  <2>1. LinksAre'
    BY <1>1, <1>2, <1>5 DEF TypeOK, LinksAre
  <2> QED
    BY <1>3, <2>1
<1> QED
  BY <1>4, <1>5

LEMMA InsertRuleLinks ==
  ASSUME ~Duplicates, Inv, UNCHANGED exceptional,
         NEW r \in Rules, NEW s \in known, NEW position \in 1..Len(rules[s]) + 1,
         InsertRule(r, s, position)
  PROVE  TypeOK' /\ LinksAre' /\ r \in ToSet(rules'[s]) /\ ToSet(rules'[s]) = ToSet(rules[s]) \cup {r}
<1>1. TypeOK /\ LinksAre /\ s \in Subs
  BY DEF Inv, TypeOK, Distinct, ToSet
<1>2. /\ r \notin ToSet(rules[s])
      /\ rules' = [rules EXCEPT ![s] = InsertAt(@, position, r)]
      /\ links' = [links EXCEPT ![r][s] = IF @ = 0 THEN 1 ELSE @]
      /\ UNCHANGED <<subscriptions, known, flags>>
  BY DEF InsertRule
<1>3. /\ InsertAt(rules[s], position, r) \in Distinct(Rules)
      /\ ToSet(InsertAt(rules[s], position, r)) = ToSet(rules[s]) \cup {r}
  BY <1>1, <1>2, InsertAtIs, InsertAtTakes DEF TypeOK, Distinct
<1>4. TypeOK'
  BY <1>1, <1>2, <1>3 DEF TypeOK, flags
<1>5. /\ \A t \in Subs : rules'[t] = IF t = s THEN InsertAt(rules[s], position, r) ELSE rules[t]
  BY <1>1, <1>2 DEF TypeOK
<1>6. LinksAre'
  <2>1. links[r][s] = 0
    BY <1>1, <1>2 DEF LinksAre
  <2>2. links' = [links EXCEPT ![r][s] = 1]
    BY <1>2, <2>1
  <2>3. ASSUME NEW q \in Rules
        PROVE  links'[q] = [t \in Subs |-> IF t \in known' /\ q \in ToSet(rules'[t]) THEN 1 ELSE 0]
    <3>1. links[q] = [t \in Subs |-> IF t \in known /\ q \in ToSet(rules[t]) THEN 1 ELSE 0]
      BY <1>1 DEF LinksAre
    <3>2. CASE q = r
      <4>1. links'[q] = [links[q] EXCEPT ![s] = 1]
        BY <3>2, <2>2, <1>1 DEF LinksAre
      <4> QED
        BY <3>1, <3>2, <4>1, <1>1, <1>2, <1>3, <1>5
    <3>3. CASE q # r
      <4>1. links'[q] = links[q]
        BY <3>3, <2>2, <1>1 DEF LinksAre
      <4> QED
        BY <3>1, <3>3, <4>1, <1>1, <1>2, <1>3, <1>5
    <3> QED
      BY <3>2, <3>3
  <2>4. links' = [q \in Rules |-> links'[q]]
    BY <2>2, <1>1 DEF LinksAre
  <2> QED
    BY <2>3, <2>4 DEF LinksAre
<1> QED
  BY <1>1, <1>3, <1>4, <1>5, <1>6

LEMMA RemoveRuleLinks ==
  ASSUME Inv, UNCHANGED exceptional,
         NEW r \in Rules, NEW s \in Subs, NEW position \in DOMAIN rules[s], RemoveRule(r, s, position)
  PROVE  TypeOK' /\ LinksAre' /\ ToSet(rules'[s]) = ToSet(rules[s]) \ {r}
<1>1. TypeOK /\ LinksAre
  BY DEF Inv
<1>2. /\ s \in known /\ rules[s][position] = r
      /\ rules' = [rules EXCEPT ![s] = RemoveAt(@, position)]
      /\ links' = IF r \in ToSet(rules'[s]) THEN links
                  ELSE [links EXCEPT ![r][s] = IF @ > 0 THEN @ - 1 ELSE @]
      /\ UNCHANGED <<subscriptions, known, flags>>
  BY DEF RemoveRule
<1>3. /\ RemoveAt(rules[s], position) \in Distinct(Rules)
      /\ ToSet(RemoveAt(rules[s], position)) = ToSet(rules[s]) \ {r}
  BY <1>1, <1>2, RemoveAtIs, RemoveAtLeaves DEF TypeOK, Distinct
<1>4. TypeOK'
  BY <1>1, <1>2, <1>3 DEF TypeOK, flags
<1>5. \A t \in Subs : rules'[t] = IF t = s THEN RemoveAt(rules[s], position) ELSE rules[t]
  BY <1>1, <1>2 DEF TypeOK
<1>6. LinksAre'
  <2>1. r \in ToSet(rules[s])
    BY <1>2 DEF ToSet
  <2>2. links[r][s] = 1
    BY <1>1, <1>2, <2>1 DEF LinksAre
  <2>3. links' = [links EXCEPT ![r][s] = 0]
    BY <1>2, <1>3, <1>5, <2>2
  <2>4. ASSUME NEW q \in Rules
        PROVE  links'[q] = [t \in Subs |-> IF t \in known' /\ q \in ToSet(rules'[t]) THEN 1 ELSE 0]
    <3>1. links[q] = [t \in Subs |-> IF t \in known /\ q \in ToSet(rules[t]) THEN 1 ELSE 0]
      BY <1>1 DEF LinksAre
    <3>2. CASE q = r
      <4>1. links'[q] = [links[q] EXCEPT ![s] = 0]
        BY <3>2, <2>3, <1>1 DEF LinksAre
      <4> QED
        BY <3>1, <3>2, <4>1, <1>1, <1>2, <1>3, <1>5
    <3>3. CASE q # r
      <4>1. links'[q] = links[q]
        BY <3>3, <2>3, <1>1 DEF LinksAre
      <4> QED
        BY <3>1, <3>3, <4>1, <1>1, <1>2, <1>3, <1>5
    <3> QED
      BY <3>2, <3>3
  <2>5. links' = [q \in Rules |-> links'[q]]
    BY <2>3, <1>1 DEF LinksAre
  <2> QED
    BY <2>4, <2>5 DEF LinksAre
<1> QED
  BY <1>3, <1>4, <1>5, <1>6

LEMMA RemoveRuleEverywhereLinks ==
  ASSUME Inv, UNCHANGED exceptional, NEW r \in Rules, RemoveRuleEverywhere(r)
  PROVE  /\ TypeOK' /\ LinksAre'
         /\ \A s \in Subs : \/ rules'[s] = rules[s]
                            \/ ToSet(rules'[s]) = ToSet(rules[s]) \ {r}
<1>1. TypeOK /\ LinksAre
  BY DEF Inv
<1> DEFINE groups == {s \in Special : links[r][s] > 0 /\ r \in ToSet(rules[s])}
<1>2. /\ rules' = [s \in Subs |-> IF s \in groups THEN AllButRule(rules[s], r) ELSE rules[s]]
      /\ links' = [links EXCEPT ![r] = [s \in Subs |-> IF s \in groups THEN @[s] - 1 ELSE @[s]]]
      /\ UNCHANGED <<subscriptions, known, flags>>
  BY DEF RemoveRuleEverywhere
<1>3. \A s \in Subs : /\ AllButRule(rules[s], r) \in Distinct(Rules)
                      /\ ToSet(AllButRule(rules[s], r)) = ToSet(rules[s]) \ {r}
  BY <1>1, AllButRuleIs DEF TypeOK, Distinct
<1>4. \A s \in groups : s \in known /\ links[r][s] = 1
  BY <1>1, StoreAssumption DEF LinksAre
<1> HIDE DEF groups
<1>5. TypeOK'
  BY <1>1, <1>2, <1>3 DEF TypeOK, flags
<1>6. LinksAre'
  <2>1. ASSUME NEW q \in Rules
        PROVE  links'[q] = [t \in Subs |-> IF t \in known' /\ q \in ToSet(rules'[t]) THEN 1 ELSE 0]
    <3>1. links[q] = [t \in Subs |-> IF t \in known /\ q \in ToSet(rules[t]) THEN 1 ELSE 0]
      BY <1>1 DEF LinksAre
    <3>2. CASE q = r
      <4>1. links'[q] = [t \in Subs |-> IF t \in groups THEN 0 ELSE links[q][t]]
        <5>1. links'[q] = [t \in Subs |-> IF t \in groups THEN links[q][t] - 1 ELSE links[q][t]]
          BY <3>2, <1>1, <1>2 DEF LinksAre
        <5>2. \A t \in groups : links[q][t] - 1 = 0
          BY <3>2, <1>4
        <5> QED
          BY <5>1, <5>2
      <4> QED
        BY <3>1, <3>2, <4>1, <1>2, <1>3
    <3>3. CASE q # r
      <4>1. links'[q] = links[q]
        BY <3>3, <1>1, <1>2 DEF LinksAre
      <4> QED
        BY <3>1, <3>3, <4>1, <1>2, <1>3
    <3> QED
      BY <3>2, <3>3
  <2>2. links' = [q \in Rules |-> links'[q]]
    BY <1>1, <1>2 DEF LinksAre
  <2> QED
    BY <2>1, <2>2 DEF LinksAre
<1> QED
  BY <1>2, <1>3, <1>5, <1>6

LEMMA MoveRuleLinks ==
  ASSUME Inv, UNCHANGED exceptional, NEW r \in Rules, NEW s \in Subs,
         NEW from \in DOMAIN rules[s], NEW to \in DOMAIN rules[s], MoveRule(r, s, from, to)
  PROVE  TypeOK' /\ LinksAre' /\ \A t \in Subs : ToSet(rules'[t]) = ToSet(rules[t])
<1>1. TypeOK /\ LinksAre
  BY DEF Inv
<1>2. /\ rules[s][from] = r
      /\ rules' = [rules EXCEPT ![s] = InsertAt(RemoveAt(@, from), to, r)]
      /\ UNCHANGED <<subscriptions, known, links, flags>>
  BY DEF MoveRule
<1> DEFINE rest == RemoveAt(rules[s], from)
<1>3. rules[s] \in Seq(Rules) /\ IsInjective(rules[s])
  BY <1>1 DEF TypeOK, Distinct
<1>4. /\ rest \in Seq(Rules) /\ IsInjective(rest) /\ Len(rest) = Len(rules[s]) - 1
      /\ ToSet(rest) = ToSet(rules[s]) \ {r}
  BY <1>2, <1>3, RemoveAtIs, RemoveAtLeaves
<1>5. to \in 1..Len(rest) + 1
  BY <1>3, <1>4
<1> HIDE DEF rest
<1>6. /\ InsertAt(rest, to, r) \in Seq(Rules) /\ IsInjective(InsertAt(rest, to, r))
      /\ ToSet(InsertAt(rest, to, r)) = ToSet(rest) \cup {r}
  BY <1>4, <1>5, InsertAtIs, InsertAtTakes
<1>7. r \in ToSet(rules[s])
  BY <1>2 DEF ToSet
<1>8. rules' = [rules EXCEPT ![s] = InsertAt(rest, to, r)]
  BY <1>2 DEF rest
<1>9. \A t \in Subs : ToSet(rules'[t]) = ToSet(rules[t])
  BY <1>1, <1>4, <1>6, <1>7, <1>8 DEF TypeOK
<1>10. TypeOK'
  BY <1>1, <1>2, <1>6, <1>8 DEF TypeOK, flags, Distinct
<1> QED
  BY <1>1, <1>2, <1>9, <1>10 DEF LinksAre

\* Of the list, only a subscription without rules is left out.
LEMMA WithoutEmptyIs ==
  ASSUME NEW list \in Distinct(Subs), NEW s
  PROVE  /\ WithoutEmpty(list, s) \in Distinct(Subs)
         /\ ToSet(WithoutEmpty(list, s)) \subseteq ToSet(list)
         /\ \A t \in ToSet(list) : rules[t] = << >> \/ t \in ToSet(WithoutEmpty(list, s))
<1>1. list \in Seq(Subs) /\ IsInjective(list)
  BY DEF Distinct
<1>2. CASE s \in ToSet(list) /\ rules[s] = << >>
  <2> DEFINE at == Position(list, s)
  <2>1. at \in DOMAIN list /\ list[at] = s
    BY <1>1, <1>2, PositionIs
  <2> HIDE DEF at
  <2>2. RemoveAt(list, at) \in Distinct(Subs) /\ ToSet(RemoveAt(list, at)) = ToSet(list) \ {s}
    BY <1>1, <2>1, RemoveAtIs, RemoveAtLeaves DEF Distinct
  <2>3. WithoutEmpty(list, s) = RemoveAt(list, at)
    BY <1>2 DEF WithoutEmpty, at
  <2> QED
    BY <1>2, <2>2, <2>3
<1>3. CASE ~(s \in ToSet(list) /\ rules[s] = << >>)
  BY <1>3 DEF WithoutEmpty
<1> QED
  BY <1>2, <1>3

LEMMA ReloadList ==
  ASSUME TypeOK, Reload
  PROVE  /\ subscriptions' \in Distinct(Subs) /\ known' = ToSet(subscriptions')
         /\ known' \subseteq known
         /\ \A s \in known : rules[s] = << >> \/ s \in known'
<1> DEFINE first == WithoutEmpty(subscriptions, OldExceptional)
<1>1. subscriptions \in Distinct(Subs) /\ known = ToSet(subscriptions)
  BY DEF TypeOK
<1>2. /\ first \in Distinct(Subs) /\ ToSet(first) \subseteq known
      /\ \A t \in known : rules[t] = << >> \/ t \in ToSet(first)
  BY <1>1, WithoutEmptyIs
<1>3. subscriptions' = WithoutEmpty(first, OldCustom) /\ known' = ToSet(subscriptions')
  BY DEF Reload
<1> HIDE DEF first
<1> QED
  BY <1>2, <1>3, WithoutEmptyIs

LEMMA ReloadLinks ==
  ASSUME Inv, UNCHANGED exceptional, Reload
  PROVE  TypeOK' /\ LinksAre'
<1>1. TypeOK /\ LinksAre
  BY DEF Inv
<1>2. /\ rules' = [s \in Subs |-> IF s \in known THEN rules[s] ELSE << >>]
      /\ links' = [r \in Rules |-> [s \in Subs |-> Occurrences(r, rules'[s])]]
      /\ subDisabled' = subDisabled \cap known
      /\ ruleDisabled' \subseteq ruleDisabled
  BY DEF Reload
<1>8. /\ subscriptions' \in Distinct(Subs) /\ known' = ToSet(subscriptions')
      /\ known' \subseteq known
      /\ \A s \in known : rules[s] = << >> \/ s \in known'
  BY <1>1, ReloadList
<1>3. << >> \in Distinct(Rules) /\ ToSet(<< >>) = {}
  BY DEF Distinct, IsInjective, ToSet
<1>4. TypeOK'
  BY <1>1, <1>2, <1>3, <1>8 DEF TypeOK
<1>5. \A s \in Subs, r \in Rules : Occurrences(r, rules'[s]) = IF r \in ToSet(rules'[s]) THEN 1 ELSE 0
  BY <1>4, OccurrencesIs DEF TypeOK, Distinct
<1>6. ASSUME NEW r \in Rules, NEW s \in Subs
      PROVE  Occurrences(r, rules'[s]) = IF s \in known' /\ r \in ToSet(rules'[s]) THEN 1 ELSE 0
  BY <1>2, <1>3, <1>5, <1>8
<1>7. LinksAre'
  BY <1>2, <1>6 DEF LinksAre
<1> QED
  BY <1>4, <1>7

\* The group that a rule goes to is one of the list.
LEMMA GroupForRuleIs ==
  ASSUME TypeOK, NEW r, NEW s, GroupForRule(r, s)
  PROVE  s \in known \cap Special
<1> DEFINE groups  == {i \in DOMAIN subscriptions : subscriptions[i] \in Special}
           fitting == {i \in groups : r \in DefaultFor[subscriptions[i]]}
           general == {i \in groups : DefaultFor[subscriptions[i]] = {}}
<1>1. groups \in SUBSET Nat
  BY DEF TypeOK, Distinct
<1>2. \/ fitting # {} /\ s = subscriptions[Min(fitting)]
      \/ general # {} /\ s = subscriptions[Min(general)]
  BY DEF GroupForRule
<1>3. \E i \in groups : s = subscriptions[i]
  BY <1>1, <1>2, MinIsIn
<1> QED
  BY <1>3 DEF TypeOK, ToSet
-----------------------------------------------------------------------------
(* The matchers: what the notifications make of them.                      *)

\* By the links, the listener finds the rules that are in force after the change.
LEMMA EntersIs ==
  ASSUME TypeOK', LinksAre', NEW r \in Rules
  PROVE  /\ Enters(r) <=> r \in InForce'
         /\ Leaves(r) <=> r \in Active /\ r \notin InForce'
<1>1. known' \subseteq Subs
  BY DEF TypeOK, Distinct, ToSet
<1>2. HasEnabled(r) <=> Holders(r)' \ subDisabled' # {}
  BY <1>1 DEF HasEnabled, LinksAre, Holders
<1> QED
  BY <1>2, StoreAssumption DEF Enters, Leaves, InForce

LEMMA KeptAfter ==
  ASSUME NEW c, WellKept(c), UNCHANGED exceptional, matchers' = c
  PROVE  WellKept(matchers)' /\ In(matchers)' = In(c)
BY DEF WellKept, WellFiled, Filed, MatchesAnyInternal, Found, Listed, In

LEMMA Added ==
  ASSUME TypeOK', LinksAre', UNCHANGED exceptional,
         NEW c, WellKept(c), NEW list \in Seq(Rules), matchers' = AddAll(c, list)
  PROVE  WellKept(matchers)' /\ In(matchers)' = In(c) \cup (ToSet(list) \cap InForce')
<1>1. ToSet(list) \subseteq Rules
  BY DEF ToSet
<1>2. WellKept(AddAll(c, list)) /\ In(AddAll(c, list)) = In(c) \cup {r \in ToSet(list) : Enters(r)}
  BY AddAllKeeps
<1>3. {r \in ToSet(list) : Enters(r)} = ToSet(list) \cap InForce'
  BY <1>1, EntersIs
<1> QED
  BY <1>2, <1>3, KeptAfter

LEMMA Removed ==
  ASSUME TypeOK', LinksAre', NEW c, WellKept(c), In(c) \subseteq Active, NEW list \in Seq(Rules)
  PROVE  /\ WellKept(RemoveAll(c, list))
         /\ In(RemoveAll(c, list)) = In(c) \ (ToSet(list) \ InForce')
<1>1. ToSet(list) \subseteq Rules
  BY DEF ToSet
<1>2. /\ WellKept(RemoveAll(c, list))
      /\ In(RemoveAll(c, list)) = In(c) \ {r \in ToSet(list) : Leaves(r)}
  BY RemoveAllKeeps
<1>3. \A r \in In(c) : r \in {q \in ToSet(list) : Leaves(q)} <=> r \in ToSet(list) \ InForce'
  BY <1>1, EntersIs
<1> QED
  BY <1>2, <1>3

LEMMA AddSubscriptionMatchers ==
  ASSUME Inv, TypeOK', LinksAre', UNCHANGED exceptional,
         NEW s \in Subs, NEW list \in Distinct(Rules), AddSubscription(s, list)
  PROVE  MatchersHold'
<1>1. TypeOK /\ WellKept(matchers) /\ In(matchers) = InForce
  BY DEF Inv, MatchersHold
<1>2. /\ s \notin known /\ known' = known \cup {s} /\ rules' = [rules EXCEPT ![s] = list]
      /\ UNCHANGED flags /\ NotifyAdded(s)
  BY DEF AddSubscription
<1>3. rules'[s] = list /\ \A t \in known : rules'[t] = rules[t]
  BY <1>1, <1>2 DEF TypeOK, Distinct, ToSet
<1>4. CASE s \in subDisabled
  <2>1. InForce' = InForce
    BY <1>2, <1>3, <1>4 DEF InForce, Holders, flags
  <2>2. matchers' = matchers
    BY <1>2, <1>4 DEF NotifyAdded
  <2> QED
    BY <2>1, <2>2, <1>1, KeptAfter DEF MatchersHold
<1>5. CASE s \notin subDisabled
  <2>1. InForce' = InForce \cup (ToSet(list) \cap InForce')
    BY <1>2, <1>3, <1>5 DEF InForce, Holders, flags
  <2>2. matchers' = AddAll(matchers, list)
    BY <1>2, <1>3, <1>5 DEF NotifyAdded
  <2>3. WellKept(matchers)' /\ In(matchers)' = In(matchers) \cup (ToSet(list) \cap InForce')
    BY <2>2, <1>1, Added DEF Distinct
  <2> QED
    BY <2>1, <2>3, <1>1 DEF MatchersHold
<1> QED
  BY <1>4, <1>5

LEMMA RemoveSubscriptionMatchers ==
  ASSUME Inv, TypeOK', LinksAre', UNCHANGED exceptional, NEW s \in Subs, RemoveSubscription(s)
  PROVE  MatchersHold'
<1>1. TypeOK /\ WellKept(matchers) /\ In(matchers) = InForce /\ InForce \subseteq Active
  BY DEF Inv, MatchersHold, InForce
<1>2. /\ s \in known /\ known' = known \ {s} /\ UNCHANGED <<rules, flags>> /\ NotifyRemoved(s)
  BY DEF RemoveSubscription
<1>3. rules[s] \in Seq(Rules)
  BY <1>1 DEF TypeOK, Distinct
<1>4. CASE s \in subDisabled
  <2>1. InForce' = InForce
    BY <1>2, <1>4 DEF InForce, Holders, flags
  <2>2. matchers' = matchers
    BY <1>2, <1>4 DEF NotifyRemoved
  <2> QED
    BY <2>1, <2>2, <1>1, KeptAfter DEF MatchersHold
<1>5. CASE s \notin subDisabled
  <2>1. InForce' = InForce \ (ToSet(rules[s]) \ InForce')
    BY <1>2, <1>5 DEF InForce, Holders, flags
  <2>2. matchers' = RemoveAll(matchers, rules[s])
    BY <1>2, <1>5 DEF NotifyRemoved
  <2>3. /\ WellKept(RemoveAll(matchers, rules[s]))
        /\ In(RemoveAll(matchers, rules[s])) = InForce \ (ToSet(rules[s]) \ InForce')
    BY <1>1, <1>3, Removed
  <2> QED
    BY <2>1, <2>2, <2>3, KeptAfter DEF MatchersHold
<1> QED
  BY <1>4, <1>5

LEMMA UpdateSubscriptionRulesMatchers ==
  ASSUME Inv, TypeOK', LinksAre', UNCHANGED exceptional,
         NEW s \in Subs, NEW list \in Distinct(Rules), UpdateSubscriptionRules(s, list)
  PROVE  MatchersHold'
<1>1. TypeOK /\ WellKept(matchers) /\ In(matchers) = InForce /\ InForce \subseteq Active
  BY DEF Inv, MatchersHold, InForce
<1>2. /\ rules' = [rules EXCEPT ![s] = list]
      /\ subDisabled' = IF s \in Special /\ list = << >> THEN subDisabled \ {s} ELSE subDisabled
      /\ UNCHANGED <<known, ruleDisabled>>
      /\ IF s \in known THEN NotifyUpdated(s) ELSE UNCHANGED matchers
  BY DEF UpdateSubscriptionRules
<1>3. rules[s] \in Seq(Rules) /\ list \in Seq(Rules)
  BY <1>1 DEF TypeOK, Distinct
<1>4. \A t \in Subs : rules'[t] = IF t = s THEN list ELSE rules[t]
  BY <1>1, <1>2 DEF TypeOK
<1>5. known \subseteq Subs
  BY <1>1 DEF TypeOK, Distinct, ToSet
<1>6. ToSet(<< >>) = {}
  BY DEF ToSet
<1>7. CASE s \notin known \/ s \in subDisabled
  <2>1. InForce' = InForce
    BY <1>2, <1>4, <1>5, <1>6, <1>7 DEF InForce, Holders
  <2>2. matchers' = matchers
    BY <1>2, <1>7 DEF NotifyUpdated
  <2> QED
    BY <2>1, <2>2, <1>1, KeptAfter DEF MatchersHold
<1>8. CASE s \in known /\ s \notin subDisabled
  <2>1. subDisabled' = subDisabled
    BY <1>2, <1>8
  <2>2. InForce' = (InForce \ (ToSet(rules[s]) \ InForce')) \cup (ToSet(list) \cap InForce')
    BY <2>1, <1>2, <1>4, <1>5, <1>8 DEF InForce, Holders
  <2>3. matchers' = AddAll(RemoveAll(matchers, rules[s]), list)
    BY <1>2, <1>4, <1>8 DEF NotifyUpdated
  <2>4. /\ WellKept(RemoveAll(matchers, rules[s]))
        /\ In(RemoveAll(matchers, rules[s])) = InForce \ (ToSet(rules[s]) \ InForce')
    BY <1>1, <1>3, Removed
  <2>5. /\ WellKept(matchers)'
        /\ In(matchers)' = In(RemoveAll(matchers, rules[s])) \cup (ToSet(list) \cap InForce')
    BY <1>3, <2>3, <2>4, Added
  <2> QED
    BY <2>2, <2>4, <2>5 DEF MatchersHold
<1> QED
  BY <1>7, <1>8

\* A notification about one rule, after which no other is in force or out of it.
LEMMA OneAdded ==
  ASSUME Inv, TypeOK', LinksAre', UNCHANGED exceptional, NEW r \in Rules,
         matchers' = AddAll(matchers, <<r>>),
         InForce' \ {r} = InForce \ {r}, r \in InForce => r \in InForce'
  PROVE  MatchersHold'
<1>1. <<r>> \in Seq(Rules) /\ ToSet(<<r>>) = {r}
  BY DEF ToSet
<1>2. WellKept(matchers)' /\ In(matchers)' = In(matchers) \cup ({r} \cap InForce')
  BY <1>1, Added DEF Inv, MatchersHold
<1>3. In(matchers) = InForce
  BY DEF Inv, MatchersHold
<1> QED
  BY <1>2, <1>3 DEF MatchersHold

LEMMA OneRemoved ==
  ASSUME Inv, TypeOK', LinksAre', UNCHANGED exceptional, NEW r \in Rules,
         matchers' = RemoveAll(matchers, <<r>>),
         InForce' \ {r} = InForce \ {r}, r \in InForce' => r \in InForce
  PROVE  MatchersHold'
<1>1. <<r>> \in Seq(Rules) /\ ToSet(<<r>>) = {r}
  BY DEF ToSet
<1>2. WellKept(matchers) /\ In(matchers) = InForce /\ InForce \subseteq Active
  BY DEF Inv, MatchersHold, InForce
<1>3. /\ WellKept(RemoveAll(matchers, <<r>>))
      /\ In(RemoveAll(matchers, <<r>>)) = InForce \ ({r} \ InForce')
  BY <1>1, <1>2, Removed
<1>4. InForce' = InForce \ ({r} \ InForce')
  OBVIOUS
<1> QED
  BY <1>3, <1>4, KeptAfter DEF MatchersHold

LEMMA SameMatchers ==
  ASSUME Inv, UNCHANGED <<exceptional, matchers>>, InForce' = InForce
  PROVE  MatchersHold'
BY KeptAfter DEF Inv, MatchersHold

LEMMA InsertRuleMatchers ==
  ASSUME ~Duplicates, Inv, UNCHANGED exceptional,
         NEW r \in Rules, NEW s \in known, NEW position \in 1..Len(rules[s]) + 1,
         InsertRule(r, s, position)
  PROVE  TypeOK' /\ LinksAre' /\ MatchersHold'
<1>1. TypeOK' /\ LinksAre' /\ ToSet(rules'[s]) = ToSet(rules[s]) \cup {r}
  BY InsertRuleLinks
<1>2. /\ rules' = [rules EXCEPT ![s] = InsertAt(@, position, r)]
      /\ UNCHANGED <<known, flags>> /\ matchers' = AddAll(matchers, <<r>>)
  BY DEF InsertRule, NotifyRuleAdded
<1>3. \A t \in known : t # s => rules'[t] = rules[t]
  BY <1>2 DEF Inv, TypeOK, Distinct, ToSet
<1>4. InForce' \ {r} = InForce \ {r} /\ (r \in InForce => r \in InForce')
  BY <1>1, <1>2, <1>3 DEF InForce, Holders, flags
<1> QED
  BY <1>1, <1>2, <1>4, OneAdded

LEMMA RemoveRuleMatchers ==
  ASSUME Inv, UNCHANGED exceptional,
         NEW r \in Rules, NEW s \in Subs, NEW position \in DOMAIN rules[s], RemoveRule(r, s, position)
  PROVE  TypeOK' /\ LinksAre' /\ MatchersHold'
<1>1. TypeOK' /\ LinksAre' /\ ToSet(rules'[s]) = ToSet(rules[s]) \ {r}
  BY RemoveRuleLinks
<1>2. /\ rules' = [rules EXCEPT ![s] = RemoveAt(@, position)]
      /\ UNCHANGED <<known, flags>> /\ NotifyRuleRemoved(r)
  BY DEF RemoveRule
<1>3. \A t \in known : t # s => rules'[t] = rules[t]
  BY <1>2 DEF Inv, TypeOK, Distinct, ToSet
<1>4. InForce' \ {r} = InForce \ {r} /\ (r \in InForce' => r \in InForce)
  BY <1>1, <1>2, <1>3 DEF InForce, Holders, flags
<1>5. CASE r \in ruleDisabled
  <2>1. InForce' = InForce
    BY <1>2, <1>4, <1>5 DEF InForce, flags
  <2> QED
    BY <1>1, <1>2, <1>5, <2>1, SameMatchers DEF NotifyRuleRemoved
<1>6. CASE r \notin ruleDisabled
  BY <1>1, <1>2, <1>4, <1>6, OneRemoved DEF NotifyRuleRemoved
<1> QED
  BY <1>5, <1>6

LEMMA RemoveRuleEverywhereMatchers ==
  ASSUME Inv, UNCHANGED exceptional, NEW r \in Rules, RemoveRuleEverywhere(r)
  PROVE  TypeOK' /\ LinksAre' /\ MatchersHold'
<1>1. /\ TypeOK' /\ LinksAre'
      /\ \A s \in Subs : rules'[s] = rules[s] \/ ToSet(rules'[s]) = ToSet(rules[s]) \ {r}
  BY RemoveRuleEverywhereLinks
<1>2. UNCHANGED <<known, flags>> /\ NotifyRuleRemoved(r)
  BY DEF RemoveRuleEverywhere
<1>3. known \subseteq Subs
  BY DEF Inv, TypeOK, Distinct, ToSet
<1>4. InForce' \ {r} = InForce \ {r} /\ (r \in InForce' => r \in InForce)
  BY <1>1, <1>2, <1>3 DEF InForce, Holders, flags
<1>5. CASE r \in ruleDisabled
  <2>1. InForce' = InForce
    BY <1>2, <1>4, <1>5 DEF InForce, flags
  <2> QED
    BY <1>1, <1>2, <1>5, <2>1, SameMatchers DEF NotifyRuleRemoved
<1>6. CASE r \notin ruleDisabled
  BY <1>1, <1>2, <1>4, <1>6, OneRemoved DEF NotifyRuleRemoved
<1> QED
  BY <1>5, <1>6

LEMMA SetRuleDisabledMatchers ==
  ASSUME Inv, UNCHANGED exceptional, NEW r \in Rules, NEW value \in BOOLEAN, SetRuleDisabled(r, value)
  PROVE  TypeOK' /\ LinksAre' /\ MatchersHold'
<1>1. /\ ruleDisabled' = IF value THEN ruleDisabled \cup {r} ELSE ruleDisabled \ {r}
      /\ UNCHANGED <<lists, subDisabled>>
      /\ matchers' = IF value THEN RemoveAll(matchers, <<r>>) ELSE AddAll(matchers, <<r>>)
  BY DEF SetRuleDisabled
<1>2. TypeOK' /\ LinksAre'
  BY <1>1 DEF Inv, TypeOK, LinksAre, lists
<1>3. InForce' \ {r} = InForce \ {r}
  BY <1>1 DEF InForce, Holders, lists
<1>4. CASE value
  <2>1. r \in InForce' => r \in InForce
    BY <1>1, <1>4 DEF InForce
  <2> QED
    BY <1>1, <1>2, <1>3, <1>4, <2>1, OneRemoved
<1>5. CASE ~value
  <2>1. r \in InForce => r \in InForce'
    BY <1>1, <1>5 DEF InForce, Holders, lists
  <2> QED
    BY <1>1, <1>2, <1>3, <1>5, <2>1, OneAdded
<1> QED
  BY <1>4, <1>5

LEMMA SetSubscriptionDisabledMatchers ==
  ASSUME Inv, UNCHANGED exceptional, NEW s \in Subs, NEW value \in BOOLEAN,
         SetSubscriptionDisabled(s, value)
  PROVE  TypeOK' /\ LinksAre' /\ MatchersHold'
<1>1. /\ subDisabled' = IF value THEN subDisabled \cup {s} ELSE subDisabled \ {s}
      /\ UNCHANGED <<lists, ruleDisabled>>
      /\ matchers' = IF s \notin known THEN matchers
                     ELSE IF value THEN RemoveAll(matchers, rules[s]) ELSE AddAll(matchers, rules[s])
  BY DEF SetSubscriptionDisabled
<1>2. TypeOK' /\ LinksAre'
  BY <1>1 DEF Inv, TypeOK, LinksAre, lists
<1>3. WellKept(matchers) /\ In(matchers) = InForce /\ InForce \subseteq Active
  BY DEF Inv, MatchersHold, InForce
<1>4. rules[s] \in Seq(Rules)
  BY DEF Inv, TypeOK, Distinct
<1>5. CASE s \notin known
  <2>1. InForce' = InForce
    BY <1>1, <1>5 DEF InForce, Holders, lists
  <2> QED
    BY <1>1, <1>2, <1>5, <2>1, SameMatchers
<1>6. CASE s \in known /\ value
  <2>1. InForce' = InForce \ (ToSet(rules[s]) \ InForce')
    BY <1>1, <1>6 DEF InForce, Holders, lists
  <2>2. /\ WellKept(RemoveAll(matchers, rules[s]))
        /\ In(RemoveAll(matchers, rules[s])) = InForce \ (ToSet(rules[s]) \ InForce')
    BY <1>2, <1>3, <1>4, Removed
  <2> QED
    BY <1>1, <1>2, <1>6, <2>1, <2>2, KeptAfter DEF MatchersHold
<1>7. CASE s \in known /\ ~value
  <2>1. InForce' = InForce \cup (ToSet(rules[s]) \cap InForce')
    BY <1>1, <1>7 DEF InForce, Holders, lists
  <2>2. WellKept(matchers)' /\ In(matchers)' = In(matchers) \cup (ToSet(rules[s]) \cap InForce')
    BY <1>1, <1>2, <1>3, <1>4, <1>7, Added
  <2> QED
    BY <1>2, <1>3, <2>1, <2>2 DEF MatchersHold
<1> QED
  BY <1>5, <1>6, <1>7

\* The matchers as they are made when the rules are loaded.
LEMMA LoadAllIs ==
  ASSUME Inv, TypeOK', LinksAre', InForce' = InForce, NEW list \in Seq(Subs),
         \A s \in known : rules[s] = << >> \/ s \in ToSet(list)
  PROVE  /\ WellKept(FoldLeft(LoadSubscription, Empty, list))
         /\ In(FoldLeft(LoadSubscription, Empty, list)) = InForce'
<1>1. \A s \in Subs : rules[s] \in Seq(Rules)
  BY DEF Inv, TypeOK, Distinct
<1>2. FirstLoaded(list, 0, Empty)
  BY EmptyIsKept DEF FirstLoaded
<1>3. ASSUME NEW i \in 1..Len(list), NEW c, FirstLoaded(list, i - 1, c)
      PROVE  FirstLoaded(list, i, LoadSubscription(c, list[i]))
  <2> DEFINE s == list[i]
  <2>1. s \in Subs /\ 1..i = 1..(i - 1) \cup {i}
    BY <1>1
  <2>2. CASE s \in subDisabled
    BY <1>3, <2>1, <2>2 DEF FirstLoaded, LoadSubscription
  <2>3. CASE s \notin subDisabled
    <3>1. LoadSubscription(c, s) = AddAll(c, rules[s])
      BY <2>3 DEF LoadSubscription
    <3>2. /\ WellKept(AddAll(c, rules[s]))
          /\ In(AddAll(c, rules[s])) = In(c) \cup {r \in ToSet(rules[s]) : Enters(r)}
      BY <1>1, <1>3, <2>1, AddAllKeeps DEF FirstLoaded
    <3>3. {r \in ToSet(rules[s]) : Enters(r)} = ToSet(rules[s]) \cap InForce'
      <4>1. ToSet(rules[s]) \subseteq Rules
        BY <1>1, <2>1 DEF ToSet
      <4> QED
        BY <4>1, EntersIs
    <3>4. {r \in InForce' : \E j \in 1..i : /\ list[j] \notin subDisabled
                                           /\ r \in ToSet(rules[list[j]])}
            = {r \in InForce' : \E j \in 1..(i - 1) : /\ list[j] \notin subDisabled
                                                     /\ r \in ToSet(rules[list[j]])}
              \cup (ToSet(rules[s]) \cap InForce')
      BY <2>1, <2>3
    <3> QED
      BY <1>3, <3>1, <3>2, <3>3, <3>4 DEF FirstLoaded
  <2> QED
    BY <2>2, <2>3
<1>4. FirstLoaded(list, Len(list), FoldLeft(LoadSubscription, Empty, list))
  <2>1. DOMAIN list = 1..Len(list) /\ Len(list) \in Nat
    BY <1>1
  <2> QED
    BY <1>2, <1>3, <2>1, LoadLoop!FoldLeftInduction
       DEF FoldLeft, MapThenFoldSet, Max, LoadLoop!Fold, LoadLoop!FoldLeft, LoadLoop!MapThenFoldSet, LoadLoop!Max
<1>5. ASSUME NEW r \in InForce
      PROVE  \E j \in 1..Len(list) : /\ list[j] \notin subDisabled
                                               /\ r \in ToSet(rules[list[j]])
  <2>1. PICK s \in known : r \in ToSet(rules[s]) /\ s \notin subDisabled
    BY DEF InForce, Holders
  <2>2. s \in ToSet(list)
    BY <2>1 DEF ToSet
  <2>3. PICK j \in 1..Len(list) : list[j] = s
    BY <2>2 DEF ToSet
  <2> QED
    BY <2>1, <2>3
<1> QED
  BY <1>4, <1>5 DEF FirstLoaded

LEMMA ReloadMatchers ==
  ASSUME Inv, UNCHANGED exceptional, Reload
  PROVE  TypeOK' /\ LinksAre' /\ MatchersHold'
<1>1. TypeOK' /\ LinksAre'
  BY ReloadLinks
<1>2. WellKept(matchers) /\ In(matchers) = InForce
  BY DEF Inv, MatchersHold
<1>3. /\ rules' = [s \in Subs |-> IF s \in known THEN rules[s] ELSE << >>]
      /\ subDisabled' = subDisabled \cap known
      /\ ruleDisabled' = ruleDisabled \cap UNION {ToSet(rules[s]) : s \in known}
      /\ \/ matchers' = CombinedFromCache(matchers)
         \/ matchers' = FoldLeft(LoadSubscription, Empty, subscriptions')
  BY DEF Reload
<1>10. /\ subscriptions' \in Distinct(Subs) /\ known' = ToSet(subscriptions')
       /\ known' \subseteq known
       /\ \A s \in known : rules[s] = << >> \/ s \in known'
  BY ReloadList DEF Inv
<1>4. known \subseteq Subs
  BY DEF Inv, TypeOK, Distinct, ToSet
<1>5. \A r : Holders(r)' = Holders(r) /\ Holders(r)' \ subDisabled' = Holders(r) \ subDisabled
  <2>1. ToSet(<< >>) = {}
    BY DEF ToSet
  <2> QED
    BY <1>3, <1>4, <1>10, <2>1 DEF Holders
<1>6. \A r : Holders(r) # {} => (r \in ruleDisabled' <=> r \in ruleDisabled)
  BY <1>3 DEF Holders
<1>7. InForce' = InForce
  BY <1>5, <1>6 DEF InForce
<1>8. CASE matchers' = CombinedFromCache(matchers)
  <2>1. CombinedFromCache(matchers) = [rules |-> matchers.rules, exceptions |-> matchers.exceptions,
                                       cache |-> Nothing]
    BY <1>2, FromCacheIsSame DEF CombinedFromCache, WellKept
  <2>2. WellKept(CombinedFromCache(matchers)) /\ In(CombinedFromCache(matchers)) = In(matchers)
    BY <1>2, <2>1 DEF WellKept, In, Nothing
  <2> QED
    BY <1>1, <1>2, <1>7, <1>8, <2>2, KeptAfter DEF MatchersHold
<1>9. CASE matchers' = FoldLeft(LoadSubscription, Empty, subscriptions')
  <2>1. subscriptions' \in Seq(Subs)
    BY <1>10 DEF Distinct
  <2> DEFINE list == subscriptions'
  <2>2. WellKept(FoldLeft(LoadSubscription, Empty, list)) /\ In(FoldLeft(LoadSubscription, Empty, list)) = InForce'
    <3>1. list \in Seq(Subs) /\ \A s \in known : rules[s] = << >> \/ s \in ToSet(list)
      BY <1>10, <2>1
    <3> HIDE DEF list
    <3> QED
      BY <1>1, <1>7, <3>1, LoadAllIs
  <2> QED
    BY <1>1, <1>9, <2>2, KeptAfter DEF MatchersHold
<1> QED
  BY <1>3, <1>8, <1>9

\* A lookup adds its answer to the cache.
LEMMA MatchesAnyMatchers ==
  ASSUME Inv, NEW u \in Urls, MatchesAny(u), UNCHANGED <<lists, flags>>
  PROVE  TypeOK' /\ LinksAre' /\ MatchersHold'
<1>1. TypeOK' /\ LinksAre'
  BY DEF Inv, TypeOK, LinksAre, lists, flags, MatchesAny
<1>2. InForce' = InForce
  BY DEF InForce, Holders, lists, flags
<1> DEFINE old  == IF Cardinality(DOMAIN matchers.cache) >= MaxCacheEntries THEN Nothing ELSE matchers.cache
           next == [matchers EXCEPT !.cache = With(old, u, Answer(matchers, u))]
<1>3. matchers' = next /\ UNCHANGED exceptional /\ u \notin DOMAIN matchers.cache
  BY DEF MatchesAny
<1>4. WellKept(matchers) /\ In(matchers) = InForce
  BY DEF Inv, MatchersHold
<1>5. /\ next.rules = matchers.rules /\ next.exceptions = matchers.exceptions
      /\ next = [rules |-> next.rules, exceptions |-> next.exceptions, cache |-> next.cache]
      /\ next.cache = With(old, u, Answer(matchers, u))
  BY <1>4 DEF WellKept
<1>6. Answer(matchers, u) = MatchesAnyInternal(matchers, u)
  BY <1>3 DEF Answer
<1>7. \A v \in DOMAIN old : old[v] = MatchesAnyInternal(matchers, v)
  BY <1>4 DEF WellKept, Nothing
<1> HIDE DEF old, next
<1>8. \A v \in DOMAIN next.cache : next.cache[v] = MatchesAnyInternal(matchers, v)
  BY <1>5, <1>6, <1>7 DEF With
<1>9. \A v : MatchesAnyInternal(next, v) = MatchesAnyInternal(matchers, v)
  BY <1>5 DEF MatchesAnyInternal
<1>10. WellKept(next) /\ In(next) = In(matchers)
  BY <1>4, <1>5, <1>8, <1>9 DEF WellKept, In
<1> QED
  BY <1>1, <1>2, <1>3, <1>4, <1>10, KeptAfter DEF MatchersHold
-----------------------------------------------------------------------------
(* The theorems.                                                           *)

LEMMA NextInv ==
  ASSUME ~Duplicates, Inv, [Next]_storeVars
  PROVE  Inv'
<1>1. CASE StoreNext /\ UNCHANGED exceptional
  <2>1. CASE Reload
    BY <1>1, <2>1, ReloadMatchers DEF Inv
  <2>2. ASSUME NEW s \in Subs, NEW list \in Lists, AddSubscription(s, list)
        PROVE  Inv'
    BY <1>1, <2>2, ListsAre, AddSubscriptionLinks, AddSubscriptionMatchers DEF Inv
  <2>3. ASSUME NEW s \in Subs, NEW list \in Lists, UpdateSubscriptionRules(s, list)
        PROVE  Inv'
    BY <1>1, <2>3, ListsAre, UpdateSubscriptionRulesLinks, UpdateSubscriptionRulesMatchers DEF Inv
  <2>4. ASSUME NEW s \in Subs, RemoveSubscription(s)
        PROVE  Inv'
    BY <1>1, <2>4, RemoveSubscriptionLinks, RemoveSubscriptionMatchers DEF Inv
  <2>5. ASSUME NEW s \in Subs, NEW t \in Subs, MoveSubscription(s, t)
        PROVE  Inv'
    <3>1. TypeOK' /\ LinksAre'
      BY <1>1, <2>5, MoveSubscriptionLinks
    <3>2. InForce' = InForce /\ UNCHANGED matchers
      BY <2>5 DEF MoveSubscription, InForce, Holders, flags
    <3> QED
      BY <1>1, <3>1, <3>2, SameMatchers DEF Inv
  <2>6. ASSUME NEW s \in Subs, NEW v \in BOOLEAN, SetSubscriptionDisabled(s, v)
        PROVE  Inv'
    BY <1>1, <2>6, SetSubscriptionDisabledMatchers DEF Inv
  <2>7. ASSUME NEW r \in Rules, RemoveRuleEverywhere(r)
        PROVE  Inv'
    BY <1>1, <2>7, RemoveRuleEverywhereMatchers DEF Inv
  <2>8. ASSUME NEW r \in Rules, NEW v \in BOOLEAN, SetRuleDisabled(r, v)
        PROVE  Inv'
    BY <1>1, <2>8, SetRuleDisabledMatchers DEF Inv
  <2>9. ASSUME NEW r \in Rules, NEW s \in Subs, AddRule(r, s)
        PROVE  Inv'
    <3>1. CASE GroupForRule(r, s) /\ InsertRule(r, s, Len(rules[s]) + 1)
      <4>1. s \in known
        BY <3>1, GroupForRuleIs DEF Inv
      <4>2. Len(rules[s]) + 1 \in 1..Len(rules[s]) + 1
        BY DEF Inv, TypeOK, Distinct
      <4> QED
        BY <1>1, <3>1, <4>1, <4>2, InsertRuleMatchers DEF Inv
    <3>2. CASE AddSubscription(s, <<r>>)
      <4>1. <<r>> \in Distinct(Rules)
        BY DEF Distinct, IsInjective
      <4> QED
        BY <1>1, <3>2, <4>1, AddSubscriptionLinks, AddSubscriptionMatchers DEF Inv
    <3> QED
      BY <2>9, <3>1, <3>2 DEF AddRule
  <2>10. ASSUME NEW r \in Rules, NEW s \in Subs, NEW i \in 1..Len(rules[s]) + 1, AddRuleTo(r, s, i)
         PROVE  Inv'
    BY <1>1, <2>10, InsertRuleMatchers DEF Inv, AddRuleTo
  <2>11. ASSUME NEW r \in Rules, NEW s \in Subs, NEW i \in DOMAIN rules[s], RemoveRule(r, s, i)
         PROVE  Inv'
    BY <1>1, <2>11, RemoveRuleMatchers DEF Inv
  <2>12. ASSUME NEW r \in Rules, NEW s \in Subs, NEW i \in DOMAIN rules[s],
                NEW j \in DOMAIN rules[s], MoveRule(r, s, i, j)
         PROVE  Inv'
    <3>1. TypeOK' /\ LinksAre' /\ \A t \in Subs : ToSet(rules'[t]) = ToSet(rules[t])
      BY <1>1, <2>12, MoveRuleLinks
    <3>2. UNCHANGED <<known, flags, matchers>> /\ known \subseteq Subs
      BY <2>12 DEF MoveRule, Inv, TypeOK, Distinct, ToSet
    <3>3. InForce' = InForce
      BY <3>1, <3>2 DEF InForce, Holders, flags
    <3> QED
      BY <1>1, <3>1, <3>2, <3>3, SameMatchers DEF Inv
  <2> QED
    BY <1>1, <2>1, <2>2, <2>3, <2>4, <2>5, <2>6, <2>7, <2>8, <2>9, <2>10, <2>11, <2>12 DEF StoreNext
<1>2. ASSUME NEW u \in Urls, MatchesAny(u), UNCHANGED <<lists, flags>>
      PROVE  Inv'
  BY <1>2, MatchesAnyMatchers DEF Inv
<1>3. CASE UNCHANGED storeVars
  <2>1. TypeOK' /\ LinksAre'
    BY <1>3 DEF Inv, TypeOK, LinksAre, storeVars, lists, flags
  <2>2. InForce' = InForce /\ UNCHANGED <<exceptional, matchers>>
    BY <1>3 DEF InForce, Holders, storeVars, lists, flags
  <2> QED
    BY <2>1, <2>2, SameMatchers DEF Inv
<1> QED
  BY <1>1, <1>2, <1>3 DEF Next

(* RuleStorage and RuleListener: the lists, the links and the matchers are as
   the invariant says in every state.                                       *)
THEOREM StoreInvariant ==
  ASSUME ~Duplicates
  PROVE  Spec => []Inv
<1>1. Inv /\ [Next]_storeVars => Inv'
  BY NextInv
<1> QED
  BY <1>1, InitInv, PTL DEF Spec

(* RuleStorage: a rule is linked to the subscriptions of the list that hold it
   (Rule.subscriptions).                                                    *)
THEOREM LinksAreExact ==
  ASSUME ~Duplicates
  PROVE  Spec => []LinksExact
<1>1. Inv => LinksExact
  <2> SUFFICES ASSUME Inv PROVE LinksExact
    OBVIOUS
  <2>1. known \subseteq Subs
    BY DEF Inv, TypeOK, Distinct, ToSet
  <2> QED
    BY <2>1 DEF Inv, LinksAre, LinksExact, Holders
<1> QED
  BY <1>1, StoreInvariant, PTL

(* RuleListener and CombinedMatcher: after any sequence of changes the matchers
   hold the enabled rules of the enabled subscriptions of the list, and answer
   as a scan of these rules would, whatever has been cached.                 *)
THEOREM RulesAreInForce ==
  ASSUME ~Duplicates
  PROVE  Spec => []RulesInForce
<1>1. Inv => RulesInForce
  <2> SUFFICES ASSUME Inv PROVE RulesInForce
    OBVIOUS
  <2>1. WellKept(matchers) /\ In(matchers) = InForce
    BY DEF Inv, MatchersHold
  <2>2. ASSUME NEW u \in Urls
        PROVE  LET hits == {r \in InForce : u \in Hits[r]}
               IN Answer(matchers, u) = IF hits \cap exceptional # {} THEN "exception"
                                        ELSE IF hits # {} THEN "rule" ELSE "none"
    <3>1. Answer(matchers, u) = MatchesAnyInternal(matchers, u)
      BY <2>1 DEF Answer, WellKept
    <3>2. Found(matchers.exceptions, u) <=> \E r \in InForce \cap exceptional : u \in Hits[r]
      BY <2>1, FoundIsHit DEF WellKept, In, Filed
    <3>3. Found(matchers.rules, u) <=> \E r \in InForce \ exceptional : u \in Hits[r]
      BY <2>1, FoundIsHit DEF WellKept, In, Filed
    <3> QED
      BY <3>1, <3>2, <3>3 DEF MatchesAnyInternal
  <2> QED
    BY <2>1, <2>2 DEF RulesInForce
<1> QED
  BY <1>1, StoreInvariant, PTL
-----------------------------------------------------------------------------
(* The rules on disk (RuleFiles).                                          *)

Contents == Versions \cup {Bad, None}

FlagsOK == /\ mode \in {"up", "closing", "down"}
           /\ scheduled \in BOOLEAN /\ restored \in BOOLEAN
           /\ pc \in {"idle", "write", "remove", "rename", "move", "notify"}
           /\ damaged \in BOOLEAN /\ failed \in BOOLEAN

DataOK == /\ mem \in Versions /\ matched \in Versions /\ changes \in 0..MaxChanges
          /\ dirty \in Nat /\ turn \in 0..Backups
          /\ patterns \in Contents /\ temp \in Versions \cup {None} /\ last \in Versions \cup {None}
          /\ backup \in [1..Backups -> Contents]
          /\ stamp \in Nat /\ saves \in Nat
          /\ cache \in [stamp : Int, rules : Versions]

FilesTypeOK == FlagsOK /\ DataOK

\* Where a save has got to.
SaveOK == /\ pc # "idle" => mode # "down"
          /\ mode = "closing" => pc # "idle"
          /\ pc \in {"remove", "rename"} => turn > 0 /\ patterns # None
          /\ pc \in {"remove", "rename", "move"} => temp = mem
          /\ pc = "notify" => patterns = mem

\* Times of modification are not used twice.
StampsOK == cache.stamp <= stamp /\ stamp <= saves

\* Between the renaming of patterns.ini and the next save that ends well there is none,
\* and cache.js is as old as the file that is gone.
CacheOK == cache.stamp = stamp => patterns \in {None, cache.rules}

LastOK == last # None /\ ~damaged =>
            patterns = last \/ (patterns = None /\ Backups > 0 /\ backup[1] = last)

Known == /\ mode # "down" => matched = mem
         /\ mode = "up" /\ dirty = 0 /\ ~restored /\ patterns \in Versions => patterns = mem

FilesInv == FilesTypeOK /\ SaveOK /\ StampsOK /\ CacheOK /\ LastOK /\ Known
-----------------------------------------------------------------------------
\* A set of numbers that is not empty has a least one.
LEMMA LeastReadable ==
  ASSUME Readable # {}
  PROVE  Min(Readable) \in Readable /\ \A i \in Readable : Min(Readable) <= i
<1> DEFINE R == {p \in Nat \X Nat : p[1] < p[2]}
<1>1. IsWellFoundedOn(R, Nat)
  BY NatLessThanWellFounded, Zenon DEF OpToRel
<1>2. Readable \subseteq Nat
  BY FilesAssumption DEF Readable
<1> HIDE DEF R
<1>3. PICK x \in Readable : \A y \in Readable : <<y, x>> \notin R
  BY <1>1, <1>2, WFMin
<1>4. ASSUME NEW y \in Readable
      PROVE  x <= y
  <2>1. x \in Nat /\ y \in Nat /\ <<y, x>> \notin R
    BY <1>2, <1>3
  <2> QED  BY <2>1 DEF R
<1> QED  BY <1>3, <1>4 DEF Min

\* Whatever the files hold, rules are read, and those of patterns.ini when it has any.
LEMMA LoadsFacts ==
  ASSUME FilesTypeOK
  PROVE  /\ Loads \in Versions
         /\ patterns \in Versions => Loads = patterns
<1>1. Versions \subseteq Int /\ Bad \notin Versions /\ None \notin Versions /\ Default \in Versions /\ NoRules \in Versions
  BY FilesAssumption DEF Versions, Bad, None, NoRules, Default
<1>2. \A i \in 0..Backups : File(i) \in Contents
  BY FilesAssumption DEF FilesTypeOK, DataOK, File
<1>3. CASE Readable = {}
  BY <1>1, <1>3, FilesAssumption DEF Loads, Readable, File
<1>4. CASE Readable # {}
  <2>1. File(Min(Readable)) \in Versions \cup {None}
    BY <1>2, <1>4, LeastReadable DEF Readable, Contents
  <2>2. patterns \in Versions => File(Min(Readable)) = patterns
    <3> SUFFICES ASSUME patterns \in Versions PROVE File(Min(Readable)) = patterns
      OBVIOUS
    <3>1. 0 \in Readable
      BY <1>1, FilesAssumption DEF Readable, File
    <3>2. Min(Readable) = 0
      BY <1>4, <3>1, LeastReadable, FilesAssumption DEF Readable
    <3> QED  BY <3>2 DEF File
  <2> QED  BY <1>1, <1>4, <2>1, <2>2 DEF Loads
<1> QED  BY <1>3, <1>4

LEMMA FilesInitInv == FilesInit => FilesInv
<1> SUFFICES ASSUME FilesInit PROVE FilesInv
  OBVIOUS
<1>1. FlagsOK
  BY DEF FilesInit, FlagsOK
<1>2. NoRules \in Versions /\ NoCache \in [stamp : Int, rules : Versions]
  BY FilesAssumption DEF Versions, NoCache, NoRules
<1>3. DataOK
  BY <1>2, FilesAssumption DEF FilesInit, DataOK, Contents
<1>4. SaveOK /\ StampsOK /\ CacheOK /\ LastOK /\ Known
  BY DEF FilesInit, SaveOK, StampsOK, CacheOK, LastOK, Known, NoCache, Versions, NoRules, None
<1> QED  BY <1>1, <1>3, <1>4 DEF FilesInv, FilesTypeOK

\* A save that ends here.
LEMMA LeaveFacts ==
  ASSUME Leave, mode # "down"
  PROVE  pc' = "idle" /\ mode' # "closing" /\ (mode' = "up" => mode = "up")
  BY DEF Leave

LEMMA FilesTypeStep == ASSUME FilesInv, FilesNext PROVE FilesTypeOK'
<1>0. /\ Versions \subseteq Int /\ Default \in Versions /\ Loads \in Versions /\ Backups \in Nat /\ MaxChanges \in Nat
      /\ mem \in Versions /\ matched \in Versions /\ Versions \subseteq Contents /\ None \in Contents /\ Bad \in Contents
      /\ backup \in [1..Backups -> Contents] /\ patterns \in Contents
  BY LoadsFacts, FilesAssumption DEF FilesInv, FilesTypeOK, DataOK, Contents, Versions, NoRules, Default
<1>1. FlagsOK'
  BY ZenonT(30) DEF FilesInv, FilesTypeOK, FlagsOK, FilesNext, Startup, PurgeHistory, Flush, Shutdown, Refresh, Change,
         Restore, Save, WriteTemp, RemoveOldest, Rename, MoveTemp, Notify, WriteFails, MoveFails, Crash, Damage,
         SetDirty, Leave, memVars, fileVars, pastVars
<1>2. mem' \in Versions /\ matched' \in Versions /\ changes' \in 0..MaxChanges /\ dirty' \in Nat
  <2>1. ASSUME NEW factor \in {1, Whole}, Change(factor)
        PROVE  mem' \in Versions /\ matched' \in Versions /\ changes' \in 0..MaxChanges /\ dirty' \in Nat
    BY <1>0, <2>1 DEF FilesInv, FilesTypeOK, DataOK, Change, SetDirty, Whole, Versions, NoRules
  <2>2. ASSUME NEW i \in 1..Backups, Restore(i)
        PROVE  mem' \in Versions /\ matched' \in Versions /\ changes' \in 0..MaxChanges /\ dirty' \in Nat
    BY <1>0, <2>2 DEF FilesInv, FilesTypeOK, DataOK, Restore
  <2>3. CASE PurgeHistory
    BY <1>0, <2>3 DEF FilesInv, FilesTypeOK, DataOK, PurgeHistory, SetDirty, Whole
  <2>4. CASE \/ Startup \/ Flush \/ Shutdown \/ Refresh
             \/ Save \/ WriteFails \/ MoveFails \/ Crash \/ Damage
    <3>1. /\ mem' = mem \/ mem' = Loads
          /\ matched' = matched \/ matched' = Loads \/ matched' = cache.rules
          /\ changes' = changes
          /\ dirty' = dirty \/ dirty' = 0
      <4>1. CASE Startup
        BY <4>1 DEF Startup
      <4>2. CASE Refresh
        BY <4>2 DEF Refresh
      <4>3. CASE ~Startup /\ ~Refresh
        BY <2>4, <4>3 DEF Flush, Shutdown, Save, WriteTemp, RemoveOldest, Rename, MoveTemp, Notify, WriteFails,
                          MoveFails, Crash, Damage, memVars
      <4> QED  BY <4>1, <4>2, <4>3
    <3>2. cache.rules \in Versions /\ changes \in 0..MaxChanges /\ dirty \in Nat
      BY DEF FilesInv, FilesTypeOK, DataOK
    <3> QED  BY <1>0, <3>1, <3>2
  <2> QED  BY <2>1, <2>2, <2>3, <2>4 DEF FilesNext
<1>3. backup' \in [1..Backups -> Contents] /\ patterns' \in Contents
  <2>1. CASE Rename
    BY <1>0, <2>1 DEF Rename
  <2>2. CASE MoveTemp
    BY <1>0, <2>2 DEF MoveTemp, Saving, FilesInv, SaveOK
  <2>3. CASE RemoveOldest
    BY <1>0, <2>3 DEF RemoveOldest
  <2> QED
    BY <1>0, <2>1, <2>2, <2>3
    DEF FilesNext, Startup, PurgeHistory, Flush, Shutdown, Refresh, Change, Restore, Save, WriteTemp,
        Notify, WriteFails, MoveFails, Crash, Damage, SetDirty, Leave, memVars, fileVars, pastVars
<1>4. temp' \in Versions \cup {None} /\ last' \in Versions \cup {None} /\ turn' \in 0..Backups
  <2>1. CASE Rename
    BY <1>0, <2>1 DEF Rename, Saving, FilesInv, SaveOK, FilesTypeOK, DataOK, pastVars
  <2> QED
    BY SMTT(30), <1>0, <2>1
    DEF FilesInv, FilesTypeOK, DataOK, FilesNext, Startup, PurgeHistory, Flush, Shutdown, Refresh, Change, Restore,
        Save, WriteTemp, RemoveOldest, MoveTemp, Notify, WriteFails, MoveFails, Crash, Damage, SetDirty, Leave,
        memVars, fileVars, pastVars
<1>5. stamp' \in Nat /\ saves' \in Nat /\ cache' \in [stamp : Int, rules : Versions]
  <2>1. NoCache \in [stamp : Int, rules : Versions]
    BY FilesAssumption DEF NoCache, Versions, NoRules
  <2>2. /\ stamp' = stamp \/ stamp' = saves + 1
        /\ saves' = saves \/ saves' = saves + 1
        /\ cache' = cache \/ cache' = NoCache \/ cache' = [stamp |-> stamp, rules |-> matched]
    BY DEF FilesNext, Startup, PurgeHistory, Flush, Shutdown, Refresh, Change, Restore, Save, WriteTemp,
           RemoveOldest, Rename, MoveTemp, Notify, WriteFails, MoveFails, Crash, Damage, fileVars
  <2>3. stamp \in Nat /\ saves \in Nat /\ cache \in [stamp : Int, rules : Versions]
    BY DEF FilesInv, FilesTypeOK, DataOK
  <2> QED  BY SMTT(30), <1>0, <2>1, <2>2, <2>3
<1> QED  BY <1>1, <1>2, <1>3, <1>4, <1>5 DEF FilesTypeOK, DataOK

LEMMA SaveStep == ASSUME FilesInv, FilesNext PROVE SaveOK' /\ StampsOK'
<1>1. SaveOK'
  <2>1. CASE WriteTemp
    BY <2>1, FilesAssumption DEF WriteTemp, Saving, memVars, pastVars, FilesInv, SaveOK, FilesTypeOK, FlagsOK, DataOK
  <2>9. CASE RemoveOldest
    BY <2>9 DEF RemoveOldest, Saving, memVars, pastVars, FilesInv, SaveOK, FilesTypeOK, FlagsOK, DataOK
  <2>2. CASE Rename
    BY <2>2 DEF Rename, Saving, memVars, pastVars, FilesInv, SaveOK, FilesTypeOK, FlagsOK, DataOK
  <2>3. CASE MoveTemp
    BY <2>3 DEF MoveTemp, Saving, memVars, pastVars, FilesInv, SaveOK, FilesTypeOK, FlagsOK, DataOK
  <2>4. CASE Notify \/ WriteFails \/ MoveFails
    BY <2>4 DEF Notify, WriteFails, MoveFails, Saving, Leave, FilesInv, SaveOK, FilesTypeOK, FlagsOK
  <2>5. CASE Damage \/ Crash
    BY <2>5 DEF Damage, Crash, memVars, fileVars, pastVars, FilesInv, SaveOK, FilesTypeOK, FlagsOK
  <2>6. ASSUME NEW factor \in {1, Whole}, Change(factor)
        PROVE  SaveOK'
    BY <2>6 DEF Change, Running, SaveOK
  <2>7. ASSUME NEW i \in 1..Backups, Restore(i)
        PROVE  SaveOK'
    BY <2>7 DEF Restore, Running, SaveOK
  <2>8. CASE Startup \/ PurgeHistory \/ Flush \/ Shutdown \/ Refresh
    BY <2>8 DEF Startup, PurgeHistory, Flush, Shutdown, Refresh, Running, FilesInv, SaveOK, FilesTypeOK, FlagsOK
  <2> QED  BY <2>1, <2>2, <2>3, <2>4, <2>5, <2>6, <2>7, <2>8, <2>9 DEF FilesNext, Save
<1>2. StampsOK'
  <2>1. CASE MoveTemp \/ Damage
    BY <2>1 DEF MoveTemp, Damage, FilesInv, StampsOK, FilesTypeOK, DataOK
  <2>2. CASE Notify
    BY <2>2 DEF Notify, NoCache, FilesInv, StampsOK, FilesTypeOK, DataOK
  <2> QED
    BY <2>1, <2>2
    DEF FilesInv, StampsOK, FilesNext, Startup, PurgeHistory, Flush, Shutdown, Refresh, Change, Restore,
        Save, WriteTemp, RemoveOldest, Rename, WriteFails, MoveFails, Crash, fileVars
<1> QED  BY <1>1, <1>2

\* cache.js is written when the matchers are those of patterns.ini, and is out of date
\* as soon as patterns.ini is another.
LEMMA CacheStep == ASSUME FilesInv, FilesNext PROVE CacheOK'
<1>0. /\ CacheOK /\ cache.stamp <= saves /\ stamp \in Nat /\ saves \in Nat /\ cache.stamp \in Int
  BY DEF FilesInv, StampsOK, FilesTypeOK, DataOK
<1>1. CASE MoveTemp \/ Damage
  BY <1>0, <1>1 DEF MoveTemp, Damage, CacheOK
<1>2. CASE Notify
  <2>1. patterns = mem /\ matched = mem /\ patterns' = patterns /\ stamp' = stamp
    BY <1>2 DEF Notify, Saving, FilesInv, SaveOK, Known
  <2>2. cache' = [stamp |-> stamp, rules |-> matched] \/ cache' = NoCache
    BY <1>2 DEF Notify
  <2> QED  BY <1>0, <2>1, <2>2 DEF CacheOK, NoCache
<1>3. CASE RemoveOldest \/ Rename
  BY <1>0, <1>3 DEF RemoveOldest, Rename, CacheOK
<1> QED
  BY <1>0, <1>1, <1>2, <1>3
  DEF CacheOK, FilesNext, Startup, PurgeHistory, Flush, Shutdown, Refresh, Change, Restore, Save,
      WriteTemp, WriteFails, MoveFails, Crash, fileVars

\* Until the temporary file has taken patterns.ini's place, that or the first backup is
\* what was saved before.
LEMMA LastStep == ASSUME FilesInv, FilesNext PROVE LastOK'
<1>1. CASE MoveTemp
  BY <1>1 DEF MoveTemp, LastOK
<1>2. CASE Damage
  BY <1>2 DEF Damage, LastOK
<1>3. CASE Rename
  <2>1. /\ turn \in 1..Backups /\ patterns # None /\ backup \in [1..Backups -> Contents] /\ Backups \in Nat
        /\ UNCHANGED <<last, damaged>>
    BY <1>3, FilesAssumption DEF Rename, Saving, FilesInv, SaveOK, FilesTypeOK, DataOK, pastVars
  <2>2. \/ patterns' = patterns
        \/ backup'[1] = patterns /\ patterns' = None
    BY <1>3, <2>1 DEF Rename
  <2> QED  BY <2>1, <2>2 DEF FilesInv, LastOK
<1>4. CASE RemoveOldest
  BY <1>4 DEF RemoveOldest, Saving, FilesInv, SaveOK, LastOK, pastVars
<1> QED
  BY <1>1, <1>2, <1>3, <1>4
  DEF FilesInv, LastOK, FilesNext, Startup, PurgeHistory, Flush, Shutdown, Refresh, Change, Restore, Save,
      WriteTemp, Notify, WriteFails, MoveFails, Crash, fileVars, pastVars

\* What the matchers and the files have, against what is in memory.
LEMMA KnownStep == ASSUME FilesInv, FilesNext PROVE Known'
<1>0. Known /\ SaveOK /\ FlagsOK /\ dirty \in Nat
  BY DEF FilesInv, FilesTypeOK, DataOK
<1>1. CASE Startup
  <2>1. cache.stamp = stamp /\ patterns # None => cache.rules = Loads
    BY LoadsFacts DEF FilesInv, CacheOK, FilesTypeOK, DataOK
  <2> QED  BY <1>1, <2>1, LoadsFacts DEF FilesInv, Startup, Known, fileVars
<1>2. CASE Refresh
  BY <1>2, LoadsFacts DEF FilesInv, Refresh, Known, Running, fileVars
<1>3. ASSUME NEW factor \in {1, Whole}, Change(factor)
      PROVE  Known'
  <2>1. dirty' > 0 /\ matched' = mem'
    BY <1>0, <1>3 DEF Change, SetDirty, Whole
  <2> QED  BY <2>1 DEF Known
<1>4. ASSUME NEW i \in 1..Backups, Restore(i)
      PROVE  Known'
  BY <1>4 DEF Restore, Known
<1>5. CASE PurgeHistory
  <2>1. dirty' > 0
    BY <1>5 DEF PurgeHistory, SetDirty, Whole
  <2> QED  BY <1>0, <1>5, <2>1 DEF PurgeHistory, Known, Running
<1>6. CASE Flush \/ Shutdown
  BY <1>0, <1>6 DEF Flush, Shutdown, Running, Known, fileVars
<1>7. CASE WriteTemp
  BY <1>0, <1>7 DEF WriteTemp, Known, memVars
<1>8. CASE RemoveOldest \/ Rename
  BY <1>0, <1>8 DEF RemoveOldest, Rename, Known, memVars, Versions, NoRules, None
<1>9. CASE MoveTemp
  BY <1>0, <1>9 DEF MoveTemp, Saving, SaveOK, Known, memVars
<1>10. CASE Notify
  BY <1>0, <1>10 DEF Notify, Saving, SaveOK, Known, Leave
<1>11. CASE WriteFails \/ MoveFails
  BY <1>0, <1>11 DEF WriteFails, MoveFails, Saving, Known, Leave, memVars, fileVars, FlagsOK
<1>12. CASE Crash \/ Damage
  BY <1>0, <1>12 DEF Crash, Damage, Known
<1> QED
  BY <1>1, <1>2, <1>3, <1>4, <1>5, <1>6, <1>7, <1>8, <1>9, <1>10, <1>11, <1>12 DEF FilesNext, Save
-----------------------------------------------------------------------------
\* The inductive invariant.
THEOREM FilesInductive == FilesSpec => []FilesInv
<1>1. FilesInv /\ [FilesNext]_filesVars => FilesInv'
  <2> SUFFICES ASSUME FilesInv, [FilesNext]_filesVars PROVE FilesInv'
    OBVIOUS
  <2>1. CASE FilesNext
    BY <2>1, FilesTypeStep, SaveStep, CacheStep, LastStep, KnownStep DEF FilesInv
  <2>2. CASE UNCHANGED filesVars
    BY <2>2 DEF filesVars, memVars, fileVars, pastVars, FilesInv, FilesTypeOK, FlagsOK, DataOK, SaveOK, StampsOK,
                CacheOK, LastOK, Known
  <2> QED  BY <2>1, <2>2
<1> QED  BY <1>1, FilesInitInv, PTL DEF FilesSpec

(* cache.js is believed only when its matchers are those of the rules read, whatever
   was saved, failed, was damaged or left half done before. *)
THEOREM CacheNeverStale == FilesSpec => []CacheTruthful
<1>1. FilesInv => CacheTruthful
  BY DEF FilesInv, Known, CacheTruthful
<1> QED  BY <1>1, FilesInductive, PTL

(* When nothing is left to save, patterns.ini has the rules in memory, unless they
   were restored or patterns.ini is missing or damaged. *)
THEOREM SavedWhenClean == FilesSpec => []NothingLost
<1>1. FilesInv => NothingLost
  BY DEF FilesInv, Known, NothingLost, Running
<1> QED  BY <1>1, FilesInductive, PTL

(* A crash or failure between any two steps of a save leaves what was saved before
   in patterns.ini or in the first backup. *)
THEOREM LastSaveSurvives == FilesSpec => []LastSaveKept
<1>1. ASSUME FilesInv, last # None, ~damaged
      PROVE  IF patterns = None THEN backup[1] = last ELSE Loads = last
  <2>1. last \in Versions /\ None \notin Versions
    BY <1>1 DEF FilesInv, FilesTypeOK, DataOK, Versions, NoRules, None
  <2> QED  BY <1>1, <2>1, LoadsFacts DEF FilesInv, LastOK
<1>2. FilesInv => LastSaveKept
  BY <1>1 DEF LastSaveKept
<1> QED  BY <1>2, FilesInductive, PTL
-----------------------------------------------------------------------------
(* Synchronizer: no subscription is stuck.  While Http is listed and not being
   downloaded, the time it has waited and the time it has still to wait are bounded
   together; setting the clock back moves the bound once, up to MaxIdle.           *)

Requests == [sub : Sources, manual : BOOLEAN]

SyncTypeOK == /\ listed \subseteq Sources /\ executing \subseteq Sources
              /\ queue \in Seq(Requests) /\ requests \subseteq Requests
              /\ left \in Nat /\ since \in Int /\ since <= Long /\ idle \in Nat
              /\ checkDue \in BOOLEAN /\ setBack \in BOOLEAN

\* Nobody has asked for Http yet.
Waiting == Http \in listed \ executing /\ \A i \in DOMAIN queue : queue[i].sub # Http

\* `since' keeps up with `idle', but for the time by which the clock was set back.
ClockOK == IF setBack THEN since >= idle - SetBack \/ since >= MinExpiration
                      ELSE since >= idle \/ since >= Long

\* After a check, Http is waiting for a reason.
NotDue == Waiting /\ ~checkDue /\ idle >= 1 => left >= 1 \/ since < MinExpiration

InTime == Http \in listed /\ idle >= 1 =>
            /\ Expires + idle <= IF setBack THEN MaxIdle ELSE MaxExpiration + 1
            /\ ~checkDue /\ left > MaxExpiration => setBack /\ idle <= MaxExpiration + 1

\* With the automatic updates off, no time counts.
OffIsIdle == autoupdate \/ idle = 0

SyncInv == SyncTypeOK /\ ClockOK /\ NotDue /\ InTime /\ OffIsIdle /\ NotStuck

LEMMA SumBounds ==
  ASSUME NEW a \in Nat, NEW b \in Nat, NEW m \in Nat
  PROVE  /\ a + b <= m => b <= m
         /\ a <= m /\ b <= m + 1 => a + b <= 2 * (m + 1)
OBVIOUS

LEMMA MinMaxOfTwo ==
  ASSUME NEW a \in Int, NEW b \in Int
  PROVE  /\ Min({a, b}) = IF a <= b THEN a ELSE b
         /\ Max({a, b}) = IF a <= b THEN b ELSE a
<1>1. \E x \in {a, b} : \A y \in {a, b} : x <= y
  OBVIOUS
<1>2. \E x \in {a, b} : \A y \in {a, b} : x >= y
  OBVIOUS
<1>3. Min({a, b}) \in {a, b} /\ \A y \in {a, b} : Min({a, b}) <= y
  BY <1>1 DEF Min
<1>4. Max({a, b}) \in {a, b} /\ \A y \in {a, b} : Max({a, b}) >= y
  BY <1>2 DEF Max
<1> QED  BY <1>3, <1>4

LEMMA SetToSeqIs ==
  ASSUME NEW S, IsFiniteSet(S)
  PROVE  SetToSeq(S) \in Seq(S) /\ ToSet(SetToSeq(S)) = S
<1> DEFINE n == Cardinality(S)
<1>1. n \in Nat /\ ExistsBijection(1..n, S)
  BY FS_CardinalityType
<1>2. \E f \in [1..n -> S] : IsInjective(f)
  BY <1>1 DEF ExistsBijection, Bijection, Injection
<1> DEFINE seq == SetToSeq(S)
<1>3. seq \in [1..n -> S] /\ IsInjective(seq)
  BY <1>2 DEF SetToSeq
<1>4. seq \in Injection(1..n, S)
  BY <1>3 DEF Injection
<1>5. Cardinality(1..n) = n
  BY <1>1, FS_Interval
<1> HIDE DEF seq, n
<1>6. seq \in Surjection(1..n, S)
  BY <1>4, <1>5, FS_Injection DEF n
<1> QED  BY <1>1, <1>3, <1>6 DEF Surjection, ToSet, seq

LEMMA ExpiresIs ==
  ASSUME left \in Nat
  PROVE  Expires = IF left <= MaxExpiration THEN left ELSE MaxExpiration
BY SynchronizerAssumption, MinMaxOfTwo DEF Expires

LEMMA SyncInitInv == SyncInit => SyncInv
<1> SUFFICES ASSUME SyncInit PROVE SyncInv
  OBVIOUS
<1>1. SyncTypeOK
  <2>1. queue \in Seq(Requests)
    BY DEF SyncInit
  <2>2. left \in Nat /\ since \in Int /\ since <= Long /\ idle \in Nat
    BY SynchronizerAssumption DEF SyncInit, Long
  <2> QED  BY <2>1, <2>2 DEF SyncInit, SyncTypeOK, Sources
<1>2. ClockOK /\ NotDue /\ InTime /\ OffIsIdle /\ NotStuck
  BY SynchronizerAssumption DEF SyncInit, OffIsIdle, ClockOK, NotDue, InTime, NotStuck, Long, MaxIdle
<1> QED  BY <1>1, <1>2 DEF SyncInv

\* The end of a download, and adding Http, start anew.
LEMMA AnewIsFine ==
  ASSUME SyncInv, SyncTypeOK', idle' = 0, setBack' = setBack, since' \in {0, since}
  PROVE  SyncInv'
<1>1. ClockOK'
  BY SynchronizerAssumption DEF SyncInv, SyncTypeOK, ClockOK, Long
<1>2. NotDue' /\ InTime' /\ OffIsIdle' /\ NotStuck'
  BY SynchronizerAssumption DEF OffIsIdle, NotDue, InTime, NotStuck, MaxIdle
<1> QED  BY <1>1, <1>2 DEF SyncInv

\* What leaves the times alone, and gives Http nothing to wait for.
LEMMA SameIsFine ==
  ASSUME SyncInv, SyncTypeOK', UNCHANGED <<left, since, idle, checkDue, autoupdate, setBack>>,
         Waiting' => Waiting, Http \in listed' => Http \in listed
  PROVE  SyncInv'
<1>1. Expires' = Expires
  BY DEF Expires
<1> QED  BY <1>1 DEF SyncInv, ClockOK, NotDue, InTime, OffIsIdle, NotStuck

LEMMA CheckAllInv ==
  ASSUME SyncInv, CheckSubscriptions, autoupdate
  PROVE  SyncInv'
<1>0. PICK due \in SUBSET listed :
         /\ Http \in due <=> Http \in listed /\ Due
         /\ queue' = SetToSeq({[sub |-> s, manual |-> FALSE] : s \in due})
  BY DEF CheckSubscriptions, CheckAll
<1> DEFINE asked == {[sub |-> s, manual |-> FALSE] : s \in due}
<1>1. left \in Nat /\ since \in Int /\ idle \in Nat
  BY DEF SyncInv, SyncTypeOK
<1>2. Expires = IF left <= MaxExpiration THEN left ELSE MaxExpiration
  BY <1>1, ExpiresIs
<1>3. asked \subseteq {[sub |-> Http, manual |-> FALSE], [sub |-> Data, manual |-> FALSE]}
  BY DEF SyncInv, SyncTypeOK, Sources
<1>4. IsFiniteSet(asked)
  <2>1. IsFiniteSet({[sub |-> Http, manual |-> FALSE]})
    BY FS_Singleton
  <2>2. IsFiniteSet({[sub |-> Http, manual |-> FALSE]} \cup {[sub |-> Data, manual |-> FALSE]})
    BY <2>1, FS_AddElement
  <2>3. asked \subseteq {[sub |-> Http, manual |-> FALSE]} \cup {[sub |-> Data, manual |-> FALSE]}
    BY <1>3
  <2> HIDE DEF asked
  <2> QED  BY <2>2, <2>3, FS_Subset
<1>5. queue' \in Seq(asked) /\ ToSet(queue') = asked
  BY <1>0, <1>4, SetToSeqIs
<1>6. SyncTypeOK'
  <2>1. asked \subseteq Requests
    <3>1. \A s \in due : [sub |-> s, manual |-> FALSE] \in Requests
      BY DEF Requests, SyncInv, SyncTypeOK
    <3> QED  BY <3>1
  <2>2. queue' \in Seq(Requests)
    BY <1>5, <2>1
  <2>3. left' \in Nat
    BY <1>1, <1>2, SynchronizerAssumption DEF CheckSubscriptions, CheckAll
  <2> QED  BY <2>2, <2>3 DEF SyncInv, SyncTypeOK, CheckSubscriptions, CheckAll
<1>7. Waiting' => Http \in listed /\ ~Due
  <2> SUFFICES ASSUME Waiting', Due PROVE FALSE
    BY DEF CheckSubscriptions, CheckAll, Waiting
  <2>1. [sub |-> Http, manual |-> FALSE] \in asked
    BY <1>0 DEF CheckSubscriptions, CheckAll, Waiting
  <2>2. PICK i \in DOMAIN queue' : queue'[i] = [sub |-> Http, manual |-> FALSE]
    BY <1>5, <2>1 DEF ToSet
  <2> QED  BY <2>2 DEF Waiting
<1>8. NotDue'
  BY <1>1, <1>2, <1>7, SynchronizerAssumption DEF CheckSubscriptions, CheckAll, NotDue, Due
<1>9. InTime'
  <2> SUFFICES ASSUME Http \in listed', idle' >= 1 PROVE InTime'
    BY DEF InTime
  <2>1. left' = Expires /\ left' \in Nat /\ left' <= MaxExpiration
    BY <1>1, <1>2, SynchronizerAssumption DEF CheckSubscriptions, CheckAll
  <2>2. Expires' = left'
    <3>1. MaxExpiration \in Int
      BY SynchronizerAssumption
    <3>2. Min({left', MaxExpiration}) = left'
      BY <2>1, <3>1, MinMaxOfTwo
    <3> QED  BY <3>2 DEF Expires
  <2> QED  BY <2>1, <2>2, SynchronizerAssumption DEF InTime, SyncInv, CheckSubscriptions, CheckAll
<1> QED  BY <1>6, <1>8, <1>9 DEF SyncInv, CheckSubscriptions, ClockOK, OffIsIdle, NotStuck

LEMMA CheckSubscriptionsInv ==
  ASSUME SyncInv, CheckSubscriptions
  PROVE  SyncInv'
<1>1. CASE autoupdate
  BY <1>1, CheckAllInv
<1>2. CASE ~autoupdate
  <2>1. UNCHANGED <<listed, executing, requests, queue, left, since, idle, autoupdate, setBack>>
    BY <1>2 DEF CheckSubscriptions
  <2>2. SyncTypeOK' /\ idle' = 0
    BY <1>2, <2>1 DEF CheckSubscriptions, SyncInv, SyncTypeOK, OffIsIdle
  <2> QED  BY <2>1, <2>2, AnewIsFine
<1> QED  BY <1>1, <1>2

LEMMA TickInv ==
  ASSUME SyncInv, Tick, MinExpiration + SetBack <= MaxIdle
  PROVE  SyncInv'
<1>1. /\ left \in Nat /\ since \in Int /\ idle \in Nat /\ since <= Long
      /\ MinExpiration \in Nat /\ MaxExpiration \in Nat /\ MinExpiration <= MaxExpiration
      /\ SetBack \in Nat /\ MaxIdle \in Nat /\ MaxIdle = MaxExpiration + 1 + MaxExpiration + 1
      /\ Long \in Nat /\ Long = MinExpiration + SetBack
  BY SynchronizerAssumption DEF SyncInv, SyncTypeOK, MaxIdle, Long
<1>2. left' \in Nat /\ left' = IF left >= 1 THEN left - 1 ELSE 0
  <2>1. 0 \in Int /\ left - 1 \in Int
    BY <1>1
  <2>2. Max({0, left - 1}) = IF 0 <= left - 1 THEN left - 1 ELSE 0
    BY <2>1, MinMaxOfTwo
  <2> QED  BY <1>1, <2>2 DEF Tick
<1>3. since' \in Int /\ since' = IF since < Long THEN since + 1 ELSE Long
  BY <1>1, MinMaxOfTwo DEF Tick
<1>4. /\ idle' \in Nat
      /\ idle' = IF autoupdate /\ Http \in listed \ executing
                THEN IF idle <= MaxIdle THEN idle + 1 ELSE MaxIdle + 1 ELSE 0
  <2>1. Min({idle + 1, MaxIdle + 1}) = IF idle <= MaxIdle THEN idle + 1 ELSE MaxIdle + 1
    <3>1. idle + 1 \in Int /\ MaxIdle + 1 \in Int
      BY <1>1
    <3> QED  BY <1>1, <3>1, MinMaxOfTwo
  <2> QED  BY <1>1, <2>1 DEF Tick
<1>5. SyncTypeOK'
  <2>1. since' <= Long
    BY <1>1, <1>3
  <2> QED  BY <1>2, <1>3, <1>4, <2>1 DEF SyncInv, SyncTypeOK, Tick, downloadVars, Long
<1>6. ClockOK'
  BY <1>1, <1>3, <1>4 DEF SyncInv, ClockOK, Tick
<1>7. NotDue'
  BY DEF NotDue, Tick
<1>8. /\ Expires \in Nat /\ Expires = IF left <= MaxExpiration THEN left ELSE MaxExpiration
      /\ Expires' \in Nat /\ Expires' = IF left' <= MaxExpiration THEN left' ELSE MaxExpiration
  BY <1>1, <1>2, MinMaxOfTwo DEF Expires
<1>9. ASSUME Http \in listed', idle' >= 1
      PROVE  /\ setBack => Expires' + idle' <= MaxIdle
             /\ ~setBack => Expires' + idle' <= MaxExpiration + 1
  <2>1. Http \in listed \ executing /\ idle' <= idle + 1
    BY <1>1, <1>4, <1>9
  <2>2. CASE idle = 0
    BY <1>1, <1>2, <1>4, <1>8, <2>1, <2>2
  <2>3. CASE idle >= 1 /\ left >= 1
    <3>1. /\ setBack => Expires + idle <= MaxIdle
          /\ ~setBack => Expires + idle <= MaxExpiration + 1
      BY <2>1, <2>3 DEF SyncInv, InTime
    <3>2. left > MaxExpiration => setBack /\ idle <= MaxExpiration + 1
      BY <2>1, <2>3 DEF SyncInv, InTime, Tick
    <3>3. left' = left - 1
      BY <1>2, <2>3
    <3>4. CASE left <= MaxExpiration
      BY <1>1, <1>4, <1>8, <2>1, <3>1, <3>3, <3>4
    <3>5. CASE left > MaxExpiration
      BY <1>1, <1>4, <1>8, <2>1, <3>2, <3>3, <3>5
    <3> QED  BY <1>1, <3>4, <3>5
  <2>4. CASE idle >= 1 /\ left = 0
    <3>1. since < MinExpiration
      BY <2>1, <2>4 DEF SyncInv, NotDue, Tick, Waiting
    <3>2. Expires' = 0
      BY <1>1, <1>2, <1>8, <2>4
    <3>3. /\ setBack => since >= idle - SetBack
          /\ ~setBack => since >= idle
      BY <1>1, <3>1 DEF SyncInv, ClockOK
    <3> QED  BY <1>1, <1>4, <2>1, <3>1, <3>2, <3>3
  <2> QED  BY <1>1, <2>2, <2>3, <2>4
<1>10. InTime'
  BY <1>9 DEF InTime, Tick
<1>11. NotStuck'
  <2>1. CASE idle' = 0
    BY <1>1, <2>1 DEF NotStuck
  <2>2. CASE idle' >= 1
    <3>1. /\ setBack => Expires' + idle' <= MaxIdle
          /\ ~setBack => Expires' + idle' <= MaxExpiration + 1
      BY <1>4, <1>9, <2>2 DEF Tick
    <3>2. /\ Expires' + idle' <= MaxIdle => idle' <= MaxIdle
          /\ Expires' + idle' <= MaxExpiration + 1 => idle' <= MaxExpiration + 1
      <4>1. MaxExpiration + 1 \in Nat /\ Expires' \in Nat /\ idle' \in Nat /\ MaxIdle \in Nat
        BY <1>1, <1>4, <1>8
      <4> QED  BY <4>1, SumBounds, Zenon
    <3>3. idle' <= MaxIdle
      <4>1. idle' <= MaxIdle \/ idle' <= MaxExpiration + 1
        BY <3>1, <3>2, Zenon
      <4> QED  BY <1>1, <1>4, <4>1
    <3> QED  BY <1>1, <3>3 DEF NotStuck, MaxIdle
  <2> QED  BY <1>4, <2>1, <2>2
<1>12. OffIsIdle'
  BY <1>4 DEF OffIsIdle, Tick
<1> QED  BY <1>5, <1>6, <1>7, <1>10, <1>11, <1>12 DEF SyncInv

LEMMA SetClockInv ==
  ASSUME SyncInv, SetClock
  PROVE  SyncInv'
<1>1. /\ left \in Nat /\ since \in Int /\ idle \in Nat /\ since <= Long
      /\ left' = left + SetBack /\ since' = since - SetBack /\ idle' = idle
      /\ setBack' = TRUE /\ setBack = FALSE /\ SetBack >= 1 /\ checkDue' = checkDue
  BY SynchronizerAssumption DEF SyncInv, SyncTypeOK, SetClock
<1>2. SyncTypeOK'
  BY <1>1, SynchronizerAssumption DEF SyncInv, SyncTypeOK, SetClock, downloadVars, Long
<1>3. ClockOK'
  BY <1>1, SynchronizerAssumption DEF SyncInv, ClockOK, Long
<1>4. NotDue'
  BY <1>1, SynchronizerAssumption DEF NotDue
<1>5. InTime'
  <2> SUFFICES ASSUME Http \in listed', idle' >= 1 PROVE InTime'
    BY DEF InTime
  <2>0. idle \in Nat
    BY <1>1
  <2>1. Expires + idle <= MaxExpiration + 1
    BY <1>1 DEF SyncInv, InTime, SetClock
  <2>2. Expires >= 0 /\ Expires \in Int
    BY <1>1, ExpiresIs, SynchronizerAssumption
  <2>3. Expires' \in Nat /\ Expires' <= MaxExpiration
    BY <1>1, SynchronizerAssumption, MinMaxOfTwo DEF Expires
  <2>4. MaxExpiration \in Nat /\ MaxIdle = MaxExpiration + 1 + MaxExpiration + 1
    BY SynchronizerAssumption DEF MaxIdle
  <2>5. idle <= MaxExpiration + 1
    BY <2>0, <2>1, <2>2, <2>4
  <2>6. Expires' + idle <= MaxIdle
    BY <2>0, <2>3, <2>4, <2>5, SumBounds, Zenon DEF MaxIdle
  <2>7. setBack' /\ idle' <= MaxExpiration + 1 /\ Expires' + idle' <= MaxIdle
    BY <1>1, <2>5, <2>6
  <2> QED  BY <2>7 DEF InTime
<1>6. NotStuck'
  BY <1>1 DEF SyncInv, NotStuck
<1>7. OffIsIdle'
  BY DEF SyncInv, OffIsIdle, SetClock
<1> QED  BY <1>2, <1>3, <1>4, <1>5, <1>6, <1>7 DEF SyncInv

LEMMA ExecuteInternalInv ==
  ASSUME SyncInv, ExecuteInternal
  PROVE  SyncInv'
<1> DEFINE d == Head(queue)
<1>1. d \in Requests /\ queue' \in Seq(Requests)
  BY DEF ExecuteInternal, SyncInv, SyncTypeOK
<1>2. \A i \in DOMAIN queue : queue[i] = d \/ \E j \in DOMAIN queue' : queue'[j] = queue[i]
  <2> SUFFICES ASSUME NEW i \in DOMAIN queue
               PROVE  queue[i] = d \/ \E j \in DOMAIN queue' : queue'[j] = queue[i]
    OBVIOUS
  <2>0. queue \in Seq(Requests) /\ queue # << >>
    BY DEF ExecuteInternal, SyncInv, SyncTypeOK
  <2>1. CASE i = 1
    BY <2>0, <2>1
  <2>2. CASE i # 1
    <3>1. i - 1 \in DOMAIN queue' /\ queue'[i - 1] = queue[i]
      BY <2>0, <2>2 DEF ExecuteInternal
    <3> QED  BY <3>1
  <2> QED  BY <2>1, <2>2
<1>3. d.sub # Http => \A i \in DOMAIN queue :
         (\A j \in DOMAIN queue' : queue'[j].sub # Http) => queue[i].sub # Http
  BY <1>2
<1> HIDE DEF d
<1>4. CASE d.sub \in executing
  <2>1. SyncTypeOK'
    BY <1>1, <1>4 DEF ExecuteInternal, SyncInv, SyncTypeOK, stateVars, d
  <2>2. Waiting' => Waiting
    BY <1>3, <1>4 DEF ExecuteInternal, Waiting, d
  <2> QED  BY <1>4, <2>1, <2>2, SameIsFine DEF ExecuteInternal, stateVars, d
<1>5. CASE d.sub \notin executing /\ executing' = executing \cup {d.sub}
           /\ requests' = requests \cup {d} /\ UNCHANGED stateVars
  <2>1. SyncTypeOK'
    BY <1>1, <1>5 DEF ExecuteInternal, SyncInv, SyncTypeOK, stateVars, Requests
  <2>2. Waiting' => Waiting
    BY <1>3, <1>5 DEF ExecuteInternal, Waiting
  <2> QED  BY <1>5, <2>1, <2>2, SameIsFine DEF ExecuteInternal, stateVars
<1>6. CASE UNCHANGED <<executing, requests>> /\ SetError("connectionError", d.manual)
  <2>1. SyncTypeOK'
    BY <1>1, <1>6, SynchronizerAssumption DEF ExecuteInternal, SyncInv, SyncTypeOK, SetError, Long
  <2> QED  BY <1>6, <2>1, AnewIsFine DEF ExecuteInternal, SetError
<1> QED  BY <1>4, <1>5, <1>6 DEF ExecuteInternal, Send, d

LEMMA EndsInv ==
  ASSUME SyncInv, NEW d \in requests, Downloaded(d) \/ Fails(d)
  PROVE  SyncInv'
<1>1. d \in Requests
  BY DEF SyncInv, SyncTypeOK
<1>2. CASE d.sub = Http
  <2>1. since' = 0 /\ idle' = 0 /\ setBack' = setBack /\ left' \in Nat
    BY <1>2, SynchronizerAssumption DEF Downloaded, Fails, Ends, SetError, SyncInv, SyncTypeOK
  <2>2. SyncTypeOK'
    BY <2>1, SynchronizerAssumption DEF Downloaded, Fails, Ends, SyncInv, SyncTypeOK, Long
  <2> QED  BY <2>1, <2>2, AnewIsFine
<1>3. CASE d.sub # Http
  <2>1. Ends(d) /\ UNCHANGED stateVars
    BY <1>3 DEF Downloaded, Fails
  <2>2. SyncTypeOK'
    BY <2>1 DEF Ends, SyncInv, SyncTypeOK, stateVars
  <2>3. Waiting' => Waiting
    BY <1>3, <2>1 DEF Ends, Waiting
  <2> QED  BY <2>1, <2>2, <2>3, SameIsFine DEF Ends, stateVars
<1> QED  BY <1>2, <1>3

LEMMA ExecuteWaits ==
  ASSUME SyncTypeOK, NEW s \in Sources, NEW manual \in BOOLEAN, Execute(s, manual)
  PROVE  /\ queue' \in Seq(Requests)
         /\ (\A i \in DOMAIN queue' : queue'[i].sub # Http) => \A i \in DOMAIN queue : queue[i].sub # Http
<1>1. queue \in Seq(Requests) /\ [sub |-> s, manual |-> manual] \in Requests
  BY DEF SyncTypeOK, Requests
<1>2. queue' \in Seq(Requests)
  BY <1>1 DEF Execute
<1>3. \A i \in DOMAIN queue : i \in DOMAIN queue' /\ queue'[i] = queue[i]
  BY <1>1 DEF Execute
<1> QED  BY <1>2, <1>3

LEMMA OthersInv ==
  ASSUME SyncInv,
         \/ Fallback \/ UserAdds \/ SetAutoupdate
         \/ \E s \in Sources : ExecuteManually(s) \/ UserRemoves(s)
  PROVE  SyncInv'
<1>1. CASE Fallback
  <2>1. UNCHANGED <<executing, requests, stateVars, checkDue, setBack>>
    BY <1>1 DEF Fallback
  <2>4. autoupdate' = autoupdate
    BY <1>1 DEF Fallback
  <2>2. CASE Gone
    <3>1. SyncTypeOK'
      BY <2>1, <2>2, ExecuteWaits DEF Gone, SyncInv, SyncTypeOK, stateVars, Sources
    <3>2. Http \notin listed'
      BY <2>2, SynchronizerAssumption DEF Gone
    <3> QED  BY <2>1, <2>4, <3>1, <3>2, SameIsFine DEF stateVars, Waiting
  <2>3. CASE UNCHANGED <<listed, queue>>
    <3>1. SyncTypeOK'
      BY <2>1, <2>3 DEF SyncInv, SyncTypeOK, stateVars
    <3> QED  BY <2>1, <2>3, <2>4, <3>1, SameIsFine DEF stateVars, Waiting
  <2> QED  BY <1>1, <2>2, <2>3 DEF Fallback
<1>2. CASE UserAdds
  <2>1. SyncTypeOK'
    BY <1>2 DEF UserAdds, SyncInv, SyncTypeOK, Sources, downloadVars
  <2> QED  BY <1>2, <2>1, AnewIsFine DEF UserAdds
<1>3. ASSUME NEW s \in Sources, ExecuteManually(s) PROVE SyncInv'
  <2>1. SyncTypeOK'
    BY <1>3, ExecuteWaits DEF ExecuteManually, SyncInv, SyncTypeOK, stateVars
  <2>2. Waiting' => Waiting
    BY <1>3, ExecuteWaits DEF ExecuteManually, SyncInv, Waiting
  <2> QED  BY <1>3, <2>1, <2>2, SameIsFine DEF ExecuteManually, stateVars
<1>4. ASSUME NEW s \in Sources, UserRemoves(s) PROVE SyncInv'
  <2>1. SyncTypeOK'
    BY <1>4 DEF UserRemoves, SyncInv, SyncTypeOK, stateVars, downloadVars
  <2>2. Waiting' => Waiting
    BY <1>4 DEF UserRemoves, Waiting, downloadVars
  <2> QED  BY <1>4, <2>1, <2>2, SameIsFine DEF UserRemoves, stateVars
<1>5. CASE SetAutoupdate
  <2>1. SyncTypeOK'
    BY <1>5 DEF SetAutoupdate, SyncInv, SyncTypeOK, downloadVars
  <2> QED  BY <1>5, <2>1, AnewIsFine DEF SetAutoupdate
<1> QED  BY <1>1, <1>2, <1>3, <1>4, <1>5

(* Http never waits longer than MaxIdle, if the clock is not set back by more than
   that allows: lastDownload would then hold off the retry of a failed download for
   longer.                                                                         *)
THEOREM NeverStuck ==
  ASSUME MinExpiration + SetBack <= MaxIdle
  PROVE  SyncSpec => []NotStuck
<1>1. SyncInv /\ [SyncNext]_syncVars => SyncInv'
  <2> SUFFICES ASSUME SyncInv, [SyncNext]_syncVars PROVE SyncInv'
    OBVIOUS
  <2>1. CASE SyncNext
    BY <2>1, CheckSubscriptionsInv, ExecuteInternalInv, EndsInv, OthersInv, TickInv, SetClockInv
       DEF SyncNext
  <2>2. CASE UNCHANGED syncVars
    <3>1. SyncTypeOK'
      BY <2>2 DEF syncVars, stateVars, downloadVars, SyncInv, SyncTypeOK
    <3> QED  BY <2>2, <3>1, SameIsFine DEF syncVars, stateVars, downloadVars, Waiting
  <2> QED  BY <2>1, <2>2
<1>2. SyncInv => NotStuck
  BY DEF SyncInv
<1> QED  BY <1>1, <1>2, SyncInitInv, PTL DEF SyncSpec
=============================================================================
