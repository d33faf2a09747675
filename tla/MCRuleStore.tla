----------------------------- MODULE MCRuleStore -----------------------------
(***************************************************************************)
(* RuleStore with two rules and three subscriptions: one downloaded, one   *)
(* group that takes every rule by default and one that takes none.  Both   *)
(* rules match one URL, one of them another; where they are filed depends  *)
(* on which comes first.  The second may be an exception.                  *)
(***************************************************************************)
EXTENDS RuleStore

CONSTANTS r1, r2
CONSTANTS download, group, other

MCExceptional == {{}, {r2}}
MCKeywords == [r \in Rules |-> IF r = r1 THEN <<"long", "word">> ELSE <<"long">>]
MCUrls  == {"both", "one"}
MCWords == [both |-> {"long", "word"}, one |-> {"long"}]
MCHits  == [r \in Rules |-> IF r = r1 THEN {"both"} ELSE MCUrls]
MCDefaultFor == [s \in Special |-> IF s = group THEN {r1, r2} ELSE {}]
=============================================================================
