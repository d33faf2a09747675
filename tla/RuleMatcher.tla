----------------------------- MODULE RuleMatcher -----------------------------
(***************************************************************************)
(* modules/Matcher.jsm: the matchers of the extension.  A Matcher files    *)
(* each rule under one keyword of its text; a CombinedMatcher has one for  *)
(* the rules and one for the exceptions, and caches what it has answered.  *)
(*                                                                         *)
(* This is EngineMatcher; UserAgentMatcher is another like it.  A URL      *)
(* stands for a location with the domain of its document; which URLs a     *)
(* rule matches and which words they hold are constants.  RuleStorage      *)
(* forgets no rule, so that _checkEntryMatch always knows what it finds.   *)
(***************************************************************************)
EXTENDS Naturals, Sequences, FiniteSets, SequencesExt

CONSTANTS Rules,     \* rule texts
          Exceptional, \* which of them may be exceptions: sets of rules
          Keywords,  \* per rule: the candidates in its text, the longest first
          Urls,
          Words,     \* per URL: the words in it
          Hits,      \* per rule: the URLs it matches
          MaxCacheEntries  \* CombinedMatcher.maxCacheEntries (1000 in the code)

ASSUME MatcherAssumption ==
  /\ Exceptional \subseteq SUBSET Rules
  /\ Keywords \in [Rules -> Seq(STRING)] /\ Words \in [Urls -> SUBSET STRING]
  /\ Hits \in [Rules -> SUBSET Urls] /\ MaxCacheEntries \in Nat
  \* A candidate stands between two characters that no word holds.
  /\ \A r \in Rules : \A u \in Hits[r] : ToSet(Keywords[r]) \subseteq Words[u]

VARIABLES
  exceptional, \* the rules that are exceptions; their texts say so
  matchers     \* the matcher for rules, the one for exceptions, resultCache

NoWord  == ""
Nothing == [x \in {} |-> x]
With(f, x, y) == [z \in DOMAIN f \cup {x} |-> IF z = x THEN y ELSE f[z]]
Without(f, x) == [y \in DOMAIN f \ {x} |-> f[y]]
-----------------------------------------------------------------------------
\* Matcher: ruleByKeyword has no empty lists.
EmptyMatcher == [ruleByKeyword |-> Nothing, keywordByRule |-> Nothing]

Listed(m, k) == IF k \in DOMAIN m.ruleByKeyword THEN m.ruleByKeyword[k] ELSE {}

\* The candidate with the fewest rules so far, and of these the longest.
FindKeyword(m, r) ==
  LET Count(i) == Cardinality(Listed(m, Keywords[r][i]))
      best == {i \in DOMAIN Keywords[r] : \A j \in DOMAIN Keywords[r] : Count(i) <= Count(j)}
  IN IF best = {} THEN NoWord ELSE Keywords[r][Min(best)]

MatcherAdd(m, r) ==
  LET k == FindKeyword(m, r)
  IN IF r \in DOMAIN m.keywordByRule THEN m
     ELSE [ruleByKeyword |-> With(m.ruleByKeyword, k, Listed(m, k) \cup {r}),
           keywordByRule |-> With(m.keywordByRule, r, k)]

\* A keyword with one rule goes with it, whichever rule that is.
MatcherRemove(m, r) ==
  IF r \notin DOMAIN m.keywordByRule THEN m
  ELSE LET k == m.keywordByRule[r]
       IN [ruleByKeyword |-> IF Cardinality(Listed(m, k)) = 1 THEN Without(m.ruleByKeyword, k)
                             ELSE [m.ruleByKeyword EXCEPT ![k] = @ \ {r}],
           keywordByRule |-> Without(m.keywordByRule, r)]

\* cache.js holds ruleByKeyword; keywordByRule is worked out from it.
FromCache(m) ==
  [m EXCEPT !.keywordByRule =
     [r \in UNION Range(m.ruleByKeyword) |-> CHOOSE k \in DOMAIN m.ruleByKeyword :
                                               r \in m.ruleByKeyword[k]]]

Found(m, u) == \E k \in Words[u] \cup {NoWord} : \E r \in Listed(m, k) : u \in Hits[r]
-----------------------------------------------------------------------------
\* CombinedMatcher.  An exception under any of the words wins.
Empty == [rules |-> EmptyMatcher, exceptions |-> EmptyMatcher, cache |-> Nothing]

In(c) == DOMAIN c.rules.keywordByRule \cup DOMAIN c.exceptions.keywordByRule

CombinedAdd(c, r) ==
  IF r \in exceptional THEN [c EXCEPT !.exceptions = MatcherAdd(@, r), !.cache = Nothing]
                       ELSE [c EXCEPT !.rules = MatcherAdd(@, r), !.cache = Nothing]
CombinedRemove(c, r) ==
  IF r \in exceptional THEN [c EXCEPT !.exceptions = MatcherRemove(@, r), !.cache = Nothing]
                       ELSE [c EXCEPT !.rules = MatcherRemove(@, r), !.cache = Nothing]
CombinedFromCache(c) ==
  [rules |-> FromCache(c.rules), exceptions |-> FromCache(c.exceptions), cache |-> Nothing]

MatchesAnyInternal(c, u) == IF Found(c.exceptions, u) THEN "exception"
                            ELSE IF Found(c.rules, u) THEN "rule" ELSE "none"

Answer(c, u) == IF u \in DOMAIN c.cache THEN c.cache[u] ELSE MatchesAnyInternal(c, u)

MatchesAny(u) ==
  /\ u \notin DOMAIN matchers.cache
  /\ matchers' =
       [matchers EXCEPT !.cache =
          With(IF Cardinality(DOMAIN @) >= MaxCacheEntries THEN Nothing ELSE @,
               u, Answer(matchers, u))]
  /\ UNCHANGED exceptional
=============================================================================
