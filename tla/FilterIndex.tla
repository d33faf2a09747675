---------------------------- MODULE FilterIndex ----------------------------
(***************************************************************************)
(* plugin/abp: from a filter file to a verdict.  INIParser (AdBlockPlus    *)
(* .cpp) reads the sections of the file and of the additional filters;     *)
(* asyncLoader adds the filters that are left to CombinedMatcher           *)
(* (Matcher.cpp), which files each under one keyword, or to                *)
(* ElemHideMatcher, which files each under its domains; shouldLoad,        *)
(* shouldSendDNTHeader and getElemHideStyles ask them.  The filter objects *)
(* outlive a reload, and so do their disabled flags.                       *)
(*                                                                         *)
(* The loader holds the WriterLock from the first section to the general   *)
(* styles (AbpEngine is about that lock and the result cache).  Whether a  *)
(* URL matches a pattern, and which words the two hold, are constants: the *)
(* regular expressions are not modelled.                                   *)
(***************************************************************************)
EXTENDS Naturals, Sequences, FiniteSets, SequencesExt

CONSTANTS Filter,   \* the texts of the filters
          Text,     \* what each text says, see FilterText
          Url, Tokens, DomainOf,  \* locations, the words in each, the domain of each
          Word,     \* words of 3 letters or more; some may be DNTWord
          Files,    \* filter files: sequences of sections
          Extra     \* the additional filters: lists

NoWord  == ""
DNTWord == "donottrack"

Types   == {"SCRIPT", "SUBDOCUMENT", "DOCUMENT", "DONOTTRACK", "ELEMHIDE"}
Default == Types \ {"DONOTTRACK", "ELEMHIDE"}

\* A domain is the sequence of its labels; << >> is no domain.
Domain == Seq(STRING)

\* kind, exception marker, type options in order, whether the pattern starts
\* with a protocol, party, domain options in order; for a regexp filter its
\* site keys, matching URLs and keyword candidates; for an element hiding
\* filter its selector.
FilterText ==
  [kind : {"regexp", "elemhide"}, white : BOOLEAN, protocol : BOOLEAN,
   options : Seq([type : Types, plus : BOOLEAN]), party : {"any", "third", "first"},
   domains : Seq([name : Domain, include : BOOLEAN]),
   sitekeys : BOOLEAN, hits : SUBSET Url, words : SUBSET Word, selector : STRING]

\* [Filter] sections, [Subscription] sections (excluded: the title matches
\* excludedSubscriptionsRegex), and the lists.  A section without an entry has
\* no effect and is left out.  The additional filters (abpAdditionalFilters of
\* ABPObserver.jsm) say nothing of a filter or of a subscription.
ListSection == [kind : {"list"}, filters : SUBSET Filter]
Section ==
       [kind : {"filter"}, filter : Filter, disabled : BOOLEAN]
  \cup [kind : {"subscription"}, disabled : BOOLEAN, excluded : BOOLEAN]
  \cup ListSection

ASSUME FilterAssumption ==
  /\ Text \in [Filter -> FilterText]
  /\ Tokens \in [Url -> SUBSET Word]
  /\ DomainOf \in [Url -> Domain]
  /\ Files \subseteq Seq(Section) /\ Extra \in Seq(ListSection)
  \* An entry that names no domain is a "~" alone.
  /\ \A f \in Filter : \A i \in DOMAIN Text[f].domains :
       Text[f].domains[i].name = << >> => ~Text[f].domains[i].include
  \* A keyword stands between two characters that no keyword holds, so a URL
  \* that matches the pattern has it among its words.
  /\ \A f \in Filter : \A u \in Text[f].hits : Text[f].words \subseteq Tokens[u]

VARIABLES
  phase,      \* "empty", "parsing", "extra" (the additional filters), "adding", "loaded"
  file,       \* the file being read, or read
  rest,       \* its sections not read yet
  subscription, \* subscriptionDisabled, subscriptionExcluded
  persisted,  \* INIParser::persistedFilters
  parsed,     \* INIParser::filters
  disabled,   \* ActiveFilter::disabled of every known filter
  active,     \* the filters asyncLoader adds, and
  todo,       \*   those it has not added yet
  matcher,    \* regexpMatcher: <<keyword, filter>>
  byDomain,   \* elemhideMatcher.filtersByDomain: <<domain, filter>>
  exceptions, \* elemhideMatcher.exceptionFiltersBySelector
  general     \* elemhideMatcher.generalFilters

parserVars  == <<file, rest, subscription, persisted, parsed>>
elemhideVars == <<byDomain, exceptions, general>>
matcherVars == <<matcher, elemhideVars>>
vars == <<phase, parserVars, disabled, active, todo, matcherVars>>
-----------------------------------------------------------------------------
\* RegExpFilter::fromText: the types the options leave.  An exception applies to
\* documents only if it says so or starts with a protocol.
AddType(types, o) == IF o.plus THEN types \cup {o.type} ELSE types \ {o.type}
TypesOf(f) ==
  LET opts  == Text[f].options
      types == IF opts = << >> THEN Default
               ELSE FoldLeft(AddType, IF opts[1].plus THEN {} ELSE Default, opts)
  IN IF Text[f].white /\ Text[f].sitekeys THEN {"DOCUMENT"}
     ELSE IF /\ Text[f].white /\ ~Text[f].protocol
             /\ [type |-> "DOCUMENT", plus |-> TRUE] \notin Range(opts)
          THEN types \ {"DOCUMENT"} ELSE types

\* ActiveFilter::generateDomains: a later entry for a domain replaces an earlier
\* one, and << >>, added last, stands for every domain not named.
AddDomain(m, d) == [s \in DOMAIN m \cup {d.name} |-> IF s = d.name THEN d.include ELSE m[s]]
Domains(f) ==
  LET list == Text[f].domains
      others == [name |-> << >>, include |-> ~\E i \in DOMAIN list : list[i].include]
  IN IF list = << >> THEN << >> ELSE AddDomain(FoldLeft(AddDomain, << >>, list), others)

Enclosing(d) == {SubSeq(d, i, Len(d)) : i \in 1..Len(d) + 1}

\* ActiveFilter::isActiveOnDomain: the longest suffix named decides.
IsActiveOnDomain(f, d) ==
  LET map   == Domains(f)
      named == {s \in Enclosing(d) : s \in DOMAIN map}
  IN map = << >> \/ map[CHOOSE s \in named : \A t \in named : Len(t) <= Len(s)]

\* RegExpFilter::matches.
Matches(f, q) ==
  /\ q.type \in TypesOf(f)
  /\ Text[f].party = "any" \/ (Text[f].party = "third" <=> q.third)
  /\ q.url \in Text[f].hits
  /\ IsActiveOnDomain(f, q.domain)
-----------------------------------------------------------------------------
Entries(k, white) == {f \in Filter : <<k, f>> \in matcher /\ Text[f].white = white}

\* Matcher::findKeyword: a candidate with the fewest filters so far (between
\* such candidates the longest; lengths are left out).
Keywords(f) == IF Text[f].words # {} THEN Text[f].words
               ELSE {IF "DONOTTRACK" \in TypesOf(f) THEN DNTWord ELSE NoWord}

\* Mutant: "donottrack" is preferred to the words of the filter.
FindKeywordDNT(f) == IF "DONOTTRACK" \in TypesOf(f) THEN {DNTWord} ELSE Keywords(f)

FindKeyword(f) ==
  LET Count(k) == Cardinality(Entries(k, Text[f].white))
  IN {k \in Keywords(f) : \A other \in Keywords(f) : Count(k) <= Count(other)}

\* CombinedMatcher::matchesAnyInternal: an exception under any of the keywords
\* wins.  Its verdict is all the callers look at.
Looked(q) == Tokens[q.url] \cup {IF q.type = "DONOTTRACK" THEN DNTWord ELSE NoWord}
CheckEntryMatch(white, q) ==
  \E k \in Looked(q) : \E f \in Entries(k, white) : Matches(f, q)
MatchesAny(q) == IF CheckEntryMatch(TRUE, q) THEN "white"
                 ELSE IF CheckEntryMatch(FALSE, q) THEN "black" ELSE "none"

Query(u, t, d, third) == [url |-> u, type |-> t, domain |-> d, third |-> third]
OfDocument(doc, type) == Query(doc, type, DomainOf[doc], FALSE)

\* AdBlockPlus::shouldLoad, shouldSendDNTHeader and the two exceptions that keep
\* getElemHideStyles off a page, as functions of the matcher's verdicts; dnt says
\* whether Firefox's own preference asks for the header (PrefManager).
Loads(document, resource) == document = "white" \/ resource # "black"
SendsDNT(verdict)         == verdict = "black"
MayHide(document, hiding) == document # "white" /\ hiding # "white"

DNTQuery(u) == Query(u, "DONOTTRACK", << >>, FALSE)

ShouldLoad(u, type, doc, third) ==
  Loads(MatchesAny(OfDocument(doc, "DOCUMENT")), MatchesAny(Query(u, type, DomainOf[doc], third)))
ShouldSendDNTHeader(u, dnt) == dnt \/ SendsDNT(MatchesAny(DNTQuery(u)))
HidingAllowed(doc)     == MayHide(MatchesAny(OfDocument(doc, "DOCUMENT")),
                                  MatchesAny(OfDocument(doc, "ELEMHIDE")))

\* ElemHideMatcher::getFilterSetForDomain: the lists of the domain and of all its
\* suffixes, without what is not active or has an exception that is.
FiltersForDomain(d) ==
  {f \in Filter : /\ \E s \in Enclosing(d) : <<s, f>> \in byDomain
                  /\ IsActiveOnDomain(f, d)
                  /\ ~\E e \in exceptions : /\ Text[e].selector = Text[f].selector
                                            /\ IsActiveOnDomain(e, d)}

\* getElemHideStyles with the general styles, which ProcessElemHideStylesForDoc
\* applies when getElemHideStyles says so: the selectors hidden in a document.
GetElemHideStyles(doc) ==
  IF HidingAllowed(doc)
  THEN {Text[f].selector : f \in FiltersForDomain(DomainOf[doc]) \cup general} ELSE {}
-----------------------------------------------------------------------------
\* INIParser leaves subscriptionExcluded uninitialised.
Init == /\ phase = "empty"
        /\ file = << >> /\ rest = << >>
        /\ subscription = [disabled |-> FALSE, excluded |-> FALSE]
        /\ persisted = {} /\ parsed = {}
        /\ disabled = [f \in Filter |-> FALSE]
        /\ active = {} /\ todo = {}
        /\ matcher = {} /\ byDomain = {} /\ exceptions = {} /\ general = {}

ClearMatchers == matcher' = {} /\ byDomain' = {} /\ exceptions' = {} /\ general' = {}

\* loadFilterFile and reloadFilterFile, once the loader has the lock:
\* clearFiltersInternal(true) and a new INIParser.
LoadFilterFile(f) == /\ phase \in {"empty", "loaded"}
                     /\ phase' = "parsing"
                     /\ ClearMatchers
                     /\ file' = f /\ rest' = f
                     /\ \E b \in BOOLEAN :
                          subscription' = [disabled |-> FALSE, excluded |-> b]
                     /\ persisted' = {} /\ parsed' = {}
                     /\ active' = {} /\ todo' = {}
                     /\ UNCHANGED disabled

\* clearFilters: the known filters are forgotten as well.
ClearFilters == /\ phase = "loaded"
                /\ phase' = "empty"
                /\ ClearMatchers
                /\ disabled' = [f \in Filter |-> FALSE]
                /\ active' = {} /\ todo' = {}
                /\ file' = << >>
                /\ UNCHANGED <<rest, subscription, persisted, parsed>>

\* INIParser::process at the end of a section that has entries.
EndFilter(s) == /\ s.kind = "filter"
                /\ disabled' = [disabled EXCEPT ![s.filter] = s.disabled]
                /\ persisted' = persisted \cup {s.filter}
                /\ UNCHANGED <<subscription, parsed>>

EndSubscription(s) == /\ s.kind = "subscription"
                      /\ subscription' = [disabled |-> s.disabled, excluded |-> s.excluded]
                      /\ UNCHANGED <<disabled, persisted, parsed>>

\* The lines of a list that is not wanted are not even kept, so the flags are
\* still set when the next list begins.
SkipList(s) == /\ s.kind = "list"
               /\ subscription.disabled \/ subscription.excluded
               /\ UNCHANGED <<disabled, persisted, parsed, subscription>>

\* Mutant: the disabled flags of the last load are left.
EndListKeep(s) ==
  /\ s.kind = "list"
  /\ ~subscription.disabled /\ ~subscription.excluded
  /\ parsed' = parsed \cup s.filters
  /\ subscription' = [disabled |-> FALSE, excluded |-> FALSE]
  /\ UNCHANGED <<disabled, persisted>>

EndList(s) ==
  /\ s.kind = "list"
  /\ ~subscription.disabled /\ ~subscription.excluded
  /\ disabled' = [f \in Filter |-> disabled[f] /\ (f \in s.filters => f \in persisted)]
  /\ parsed' = parsed \cup s.filters
  /\ subscription' = [disabled |-> FALSE, excluded |-> FALSE]
  /\ UNCHANGED persisted

ReadSection == /\ phase \in {"parsing", "extra"} /\ rest # << >>
               /\ LET s == Head(rest)
                  IN EndFilter(s) \/ EndSubscription(s) \/ SkipList(s) \/ EndList(s)
               /\ rest' = Tail(rest)
               /\ UNCHANGED <<phase, file, active, todo, matcherVars>>

\* loadContent: the end of the file, then the additional filters.
EndOfContent ==
  /\ phase = "parsing" /\ rest = << >>
  /\ phase' = "extra" /\ rest' = Extra
  /\ subscription' = [disabled |-> FALSE, excluded |-> FALSE]
  /\ UNCHANGED <<file, persisted, parsed, disabled, active, todo, matcherVars>>

EndOfExtra ==
  /\ phase = "extra" /\ rest = << >>
  /\ phase' = "adding"
  /\ active' = {f \in parsed : ~disabled[f]} /\ todo' = active'
  /\ subscription' = [disabled |-> FALSE, excluded |-> FALSE]
  /\ UNCHANGED <<file, rest, persisted, parsed, disabled, matcherVars>>

\* asyncLoader adds the filters in the order of a hash set.  An exception with
\* site keys is not matched against URLs.
AddRegExp(f) == /\ Text[f].kind = "regexp"
                /\ IF Text[f].white /\ Text[f].sitekeys THEN UNCHANGED matcher
                   ELSE \E k \in FindKeyword(f) : matcher' = matcher \cup {<<k, f>>}
                /\ UNCHANGED elemhideVars

\* The lists a filter goes to: the domains it includes.
DomainLists(f) == IF Domains(f) = << >> THEN {<< >>}
                  ELSE {s \in DOMAIN Domains(f) : Domains(f)[s]}

AddElemHide(f) == /\ Text[f].kind = "elemhide"
                  /\ IF Text[f].white
                     THEN exceptions' = exceptions \cup {f} /\ UNCHANGED byDomain
                     ELSE byDomain' = byDomain \cup (DomainLists(f) \X {f})
                          /\ UNCHANGED exceptions
                  /\ UNCHANGED <<matcher, general>>

Add(f) == /\ phase = "adding" /\ f \in todo
          /\ AddRegExp(f) \/ AddElemHide(f)
          /\ todo' = todo \ {f}
          /\ UNCHANGED <<phase, parserVars, disabled, active>>

\* Mutant: a filter with an exception on some domain becomes general, too.
GenerateGeneralAll ==
  /\ phase = "adding" /\ todo = {}
  /\ phase' = "loaded"
  /\ general' = {f \in Filter : <<<< >>, f>> \in byDomain /\ Domains(f) = << >>}
  /\ byDomain' = byDomain \ ({<< >>} \X general')
  /\ UNCHANGED <<parserVars, disabled, active, todo, matcher, exceptions>>

\* generateGeneralFilters: what is active on all domains leaves the "" list.
GenerateGeneralFilters ==
  /\ phase = "adding" /\ todo = {}
  /\ phase' = "loaded"
  /\ general' = {f \in Filter : /\ <<<< >>, f>> \in byDomain /\ Domains(f) = << >>
                                /\ \A e \in exceptions : Text[e].selector # Text[f].selector}
  /\ byDomain' = byDomain \ ({<< >>} \X general')
  /\ UNCHANGED <<parserVars, disabled, active, todo, matcher, exceptions>>

Next == \/ \E f \in Files : LoadFilterFile(f)
        \/ ClearFilters
        \/ ReadSection \/ EndOfContent \/ EndOfExtra
        \/ \E f \in Filter : Add(f)
        \/ GenerateGeneralFilters

Spec == Init /\ [][Next]_vars
-----------------------------------------------------------------------------
\* A filter for DONOTTRACK and other types whose pattern has no keyword is filed
\* under "donottrack", where only questions about the header look: for the other
\* types it is never found.
OnlyForDNT(f, q) == /\ Text[f].words = {} /\ "DONOTTRACK" \in TypesOf(f)
                    /\ q.type # "DONOTTRACK" /\ DNTWord \notin Tokens[q.url]

\* The verdict of a scan over every filter of a set.
Scan(filters, q, Hit(_, _)) ==
  LET hits == {f \in filters : /\ Text[f].kind = "regexp"
                               /\ ~(Text[f].white /\ Text[f].sitekeys)
                               /\ ~OnlyForDNT(f, q) /\ Hit(f, q)}
  IN IF \E f \in hits : Text[f].white THEN "white" ELSE IF hits # {} THEN "black" ELSE "none"

ActiveVerdict(q) == Scan(active, q, Matches)

\* Looking a URL up under the keywords it holds misses no filter: every question
\* is answered as a scan over all the filters added would answer it, in whatever
\* order they were added and under whichever candidates they were filed
\* (Matcher::findKeyword against CombinedMatcher::matchesAnyInternal).
VerdictsExact ==
  phase = "loaded" =>
    /\ \A u, doc \in Url, type \in Types, third \in BOOLEAN :
         ShouldLoad(u, type, doc, third) =
           Loads(ActiveVerdict(OfDocument(doc, "DOCUMENT")),
                 ActiveVerdict(Query(u, type, DomainOf[doc], third)))
    /\ \A u \in Url, dnt \in BOOLEAN :
         ShouldSendDNTHeader(u, dnt) = (dnt \/ SendsDNT(ActiveVerdict(DNTQuery(u))))
    /\ \A doc \in Url : HidingAllowed(doc) = MayHide(ActiveVerdict(OfDocument(doc, "DOCUMENT")),
                                                    ActiveVerdict(OfDocument(doc, "ELEMHIDE")))

\* What the texts and the file say, without the parser.  The last option about a
\* type decides it; the last entry about the closest enclosing domain decides.
SaysType(f, t) ==
  LET opts == Text[f].options
      about == {i \in DOMAIN opts : opts[i].type = t}
  IN IF about = {} THEN t \in Default /\ (opts # << >> => ~opts[1].plus)
     ELSE \E i \in about : opts[i].plus /\ \A j \in about : j <= i
AsksForType(f, t) ==
  IF Text[f].white /\ Text[f].sitekeys THEN t = "DOCUMENT"
  ELSE /\ SaysType(f, t)
       /\ t = "DOCUMENT" /\ Text[f].white =>
            \/ Text[f].protocol
            \/ \E i \in DOMAIN Text[f].options :
                 Text[f].options[i] = [type |-> t, plus |-> TRUE]
AsksForDomain(f, d) ==
  LET list  == Text[f].domains
      about == {i \in DOMAIN list : list[i].name \in Enclosing(d) \ {<< >>}}
  IN IF about = {} THEN \A i \in DOMAIN list : ~list[i].include
     ELSE \E i \in about : /\ list[i].include
                           /\ \A j \in about : LET a == Len(list[i].name) b == Len(list[j].name)
                                               IN b < a \/ (b = a /\ j <= i)
AsWritten(f, q) == /\ AsksForType(f, q.type)
                   /\ Text[f].party = "any" \/ (Text[f].party = "third" <=> q.third)
                   /\ q.url \in Text[f].hits
                   /\ AsksForDomain(f, q.domain)

\* The filters of the lists whose own [Subscription] is neither disabled nor
\* excluded, and of the additional filters, without those a [Filter] section
\* disables.
Listed(f) ==
  \/ \E i \in 2..Len(file) : /\ file[i].kind = "list" /\ f \in file[i].filters
                             /\ ~file[i - 1].disabled /\ ~file[i - 1].excluded
  \/ \E i \in DOMAIN Extra : f \in Extra[i].filters
SaysDisabled(f) ==
  LET about == {i \in DOMAIN file : file[i].kind = "filter" /\ file[i].filter = f}
  IN \E i \in about : file[i].disabled /\ \A j \in about : j <= i
InForce == {f \in Filter : Listed(f) /\ ~SaysDisabled(f)}

\* Every list follows a [Subscription] of its own, as in the files Adblock Plus
\* saves.  Without one, a list loses its filters when the list before it was
\* disabled, or for no reason when it is the first.
WellFormed == \A i \in DOMAIN file : file[i].kind = "list" =>
                i > 1 /\ file[i - 1].kind = "subscription"

\* What is blocked is what the file says, and says now: which filters are in
\* force, for which types, parties and domains, does not depend on what was
\* loaded before (the filter objects and their disabled flags stay), on the
\* order of the sections or on how the texts were parsed.
BlocksAsWritten ==
  LET V(q) == Scan(InForce, q, AsWritten)
  IN phase = "loaded" /\ WellFormed =>
       /\ \A u, doc \in Url, type \in Types \ {"DONOTTRACK", "ELEMHIDE"}, third \in BOOLEAN :
            ShouldLoad(u, type, doc, third) =
              Loads(V(OfDocument(doc, "DOCUMENT")), V(Query(u, type, DomainOf[doc], third)))
       /\ \A u \in Url, dnt \in BOOLEAN :
            ShouldSendDNTHeader(u, dnt) = (dnt \/ SendsDNT(V(DNTQuery(u))))

\* The elements hidden in a document are those of the filters the file puts in
\* force on its domain, without those an exception covers there: splitting them
\* into general and per-domain styles, and filing them by domain, changes nothing.
HidesAsWritten ==
  LET V(q) == Scan(InForce, q, AsWritten)
      On(doc) == {f \in InForce : /\ Text[f].kind = "elemhide"
                                  /\ AsksForDomain(f, DomainOf[doc])}
      Covered(f, doc) == \E e \in On(doc) : /\ Text[e].white
                                            /\ Text[e].selector = Text[f].selector
  IN phase = "loaded" /\ WellFormed => \A doc \in Url :
       GetElemHideStyles(doc) =
         IF MayHide(V(OfDocument(doc, "DOCUMENT")), V(OfDocument(doc, "ELEMHIDE")))
         THEN {Text[f].selector : f \in {g \in On(doc) : ~Text[g].white /\ ~Covered(g, doc)}}
         ELSE {}
=============================================================================
