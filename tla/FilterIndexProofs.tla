------------------------- MODULE FilterIndexProofs -------------------------
(***************************************************************************)
(* FilterIndex, for every set of filters, URLs and files.  Finding a       *)
(* filter again rests on what the matcher holds: exactly the filters added *)
(* so far, each under a keyword that findKeyword may have chosen for it.   *)
(* What is blocked and hidden rests on what the loops of the parser leave: *)
(* over the options and the domains of a text (FoldInduction), and over    *)
(* the sections of a file, of which the parser's state says what the first *)
(* n of them say.                                                          *)
(***************************************************************************)
EXTENDS FilterIndex, SequenceTheorems, TLAPS

\* The filters that regexpMatcher takes.
Matched(f) == Text[f].kind = "regexp" /\ ~(Text[f].white /\ Text[f].sitekeys)

\* What the matcher holds at each moment of a load.
IndexInv ==
  /\ rest \in Seq(Section) /\ parsed \subseteq Filter
  /\ active \subseteq Filter /\ todo \subseteq active
  /\ phase \in {"parsing", "extra"} => matcher = {}
  /\ phase = "loaded" => todo = {}
  /\ \A k, f : <<k, f>> \in matcher => f \in active /\ Matched(f) /\ k \in Keywords(f)
  /\ \A f \in active \ todo : Matched(f) => \E k : <<k, f>> \in matcher
-----------------------------------------------------------------------------
\* A filter the matcher holds under the keyword chosen for it is looked at for
\* every URL it matches, but for the filters OnlyForDNT names.
LEMMA LookedAt ==
  ASSUME NEW q, q.url \in Url, NEW f \in Filter, NEW k \in Keywords(f), Matches(f, q)
  PROVE  k \in Looked(q) <=> ~OnlyForDNT(f, q)
<1>1. q.url \in Text[f].hits /\ q.type \in TypesOf(f)
  BY DEF Matches
<1>2. Text[f].words \subseteq Tokens[q.url]
  BY <1>1, FilterAssumption
<1>3. CASE Text[f].words # {}
  BY <1>2, <1>3 DEF Keywords, Looked, OnlyForDNT
<1>4. CASE Text[f].words = {} /\ "DONOTTRACK" \in TypesOf(f)
  <2>1. k = DNTWord
    BY <1>4 DEF Keywords
  <2>2. DNTWord # NoWord
    BY DEF DNTWord, NoWord
  <2> QED
    BY <1>4, <2>1, <2>2 DEF Looked, OnlyForDNT
<1>5. CASE Text[f].words = {} /\ "DONOTTRACK" \notin TypesOf(f)
  <2>1. k = NoWord /\ q.type # "DONOTTRACK"
    BY <1>1, <1>5 DEF Keywords
  <2> QED
    BY <1>5, <2>1 DEF Looked, OnlyForDNT
<1> QED
  BY <1>3, <1>4, <1>5

\* Looking under the keywords of a URL is scanning the filters that were added.
LEMMA LookupIsScan ==
  ASSUME IndexInv, todo = {}, NEW q, q.url \in Url
  PROVE  MatchesAny(q) = ActiveVerdict(q)
<1> DEFINE hits == {f \in active : Matched(f) /\ ~OnlyForDNT(f, q) /\ Matches(f, q)}
<1>1. ASSUME NEW w \in BOOLEAN
      PROVE  CheckEntryMatch(w, q) <=> \E f \in hits : Text[f].white = w
  <2>1. ASSUME NEW k \in Looked(q), NEW f \in Filter, <<k, f>> \in matcher,
               Text[f].white = w, Matches(f, q)
        PROVE  \E g \in hits : Text[g].white = w
    <3>1. f \in active /\ Matched(f) /\ k \in Keywords(f)
      BY <2>1 DEF IndexInv
    <3>2. ~OnlyForDNT(f, q)
      BY <2>1, <3>1, LookedAt
    <3> QED
      BY <2>1, <3>1, <3>2
  <2>2. ASSUME NEW f \in hits, Text[f].white = w
        PROVE  CheckEntryMatch(w, q)
    <3>1. f \in Filter /\ Matched(f) /\ ~OnlyForDNT(f, q) /\ Matches(f, q)
      BY DEF IndexInv
    <3>2. PICK k : <<k, f>> \in matcher
      BY <3>1 DEF IndexInv
    <3>3. k \in Keywords(f)
      BY <3>2 DEF IndexInv
    <3>4. k \in Looked(q)
      BY <3>1, <3>3, LookedAt
    <3>5. f \in Entries(k, w)
      BY <2>2, <3>1, <3>2 DEF Entries
    <3> QED
      BY <3>1, <3>4, <3>5 DEF CheckEntryMatch
  <2> QED
    BY <2>1, <2>2 DEF CheckEntryMatch, Entries
<1>2. \A f \in hits : Text[f].white \in BOOLEAN
  BY FilterAssumption DEF IndexInv, FilterText
<1>3. ActiveVerdict(q) = IF \E f \in hits : Text[f].white THEN "white"
                                 ELSE IF hits # {} THEN "black" ELSE "none"
  BY DEF ActiveVerdict, Scan, Matched
<1>4. MatchesAny(q) = IF \E f \in hits : Text[f].white = TRUE THEN "white"
                      ELSE IF \E f \in hits : Text[f].white = FALSE THEN "black" ELSE "none"
  BY <1>1 DEF MatchesAny
<1>5. CASE \E f \in hits : Text[f].white
  BY <1>2, <1>3, <1>4, <1>5
<1>6. CASE ~\E f \in hits : Text[f].white
  BY <1>2, <1>3, <1>4, <1>6
<1> QED
  BY <1>5, <1>6
-----------------------------------------------------------------------------
LEMMA ExtraIsFile == Extra \in Seq(Section)
<1>1. ListSection \subseteq Section
  BY DEF Section
<1>2. Extra \in Seq(ListSection)
  BY FilterAssumption
<1> HIDE DEF ListSection
<1>3. \A i \in 1..Len(Extra) : Extra[i] \in Section
  BY <1>1, <1>2
<1> QED
  BY <1>2, <1>3

LEMMA IndexInit ==
  ASSUME Init PROVE IndexInv
<1>1. rest \in Seq(Section)
  BY DEF Init
<1> QED
  BY <1>1 DEF Init, IndexInv

LEMMA SectionRead ==
  ASSUME IndexInv, ReadSection PROVE IndexInv'
<1>1. Head(rest) \in Section /\ rest' \in Seq(Section)
  BY DEF IndexInv, ReadSection
<1>2. parsed' \subseteq Filter
  BY <1>1 DEF IndexInv, ReadSection, EndFilter, EndSubscription, SkipList, EndList, Section, ListSection
<1> QED
  BY <1>1, <1>2 DEF IndexInv, ReadSection, matcherVars

LEMMA FilterAdded ==
  ASSUME IndexInv, NEW g \in Filter, Add(g) PROVE IndexInv'
<1>1. /\ g \in todo /\ todo' = todo \ {g} /\ phase = "adding"
      /\ UNCHANGED <<phase, rest, parsed, active>>
  BY DEF Add, parserVars
<1>2. CASE AddRegExp(g) /\ Matched(g)
  <2>1. PICK k \in FindKeyword(g) : matcher' = matcher \cup {<<k, g>>}
    BY <1>2 DEF AddRegExp, Matched
  <2>2. k \in Keywords(g)
    BY DEF FindKeyword
  <2>3. ASSUME NEW j, NEW f, <<j, f>> \in matcher'
        PROVE  f \in active' /\ Matched(f) /\ j \in Keywords(f)
    <3>1. CASE <<j, f>> \in matcher
      BY <1>1, <3>1 DEF IndexInv
    <3>2. CASE <<j, f>> = <<k, g>>
      BY <1>1, <1>2, <2>2, <3>2 DEF IndexInv
    <3> QED
      BY <2>1, <2>3, <3>1, <3>2
  <2>4. ASSUME NEW f \in active' \ todo', Matched(f)
        PROVE  \E j : <<j, f>> \in matcher'
    BY <1>1, <2>1, <2>4 DEF IndexInv
  <2> QED
    BY <1>1, <2>3, <2>4 DEF IndexInv
<1>3. CASE UNCHANGED matcher /\ ~Matched(g)
  BY <1>1, <1>3 DEF IndexInv
<1> QED
  BY <1>2, <1>3 DEF Add, AddRegExp, AddElemHide, Matched

LEMMA IndexStep ==
  ASSUME IndexInv, [Next]_vars PROVE IndexInv'
<1>1. ASSUME NEW f \in Files, LoadFilterFile(f) PROVE IndexInv'
  <2>1. f \in Seq(Section)
    BY FilterAssumption
  <2> QED
    BY <1>1, <2>1 DEF IndexInv, LoadFilterFile, ClearMatchers
<1>2. CASE ClearFilters
  BY <1>2 DEF IndexInv, ClearFilters, ClearMatchers
<1>3. CASE ReadSection
  BY <1>3, SectionRead
<1>4. CASE EndOfContent
  BY <1>4, ExtraIsFile DEF IndexInv, EndOfContent, matcherVars
<1>5. CASE EndOfExtra
  BY <1>5 DEF IndexInv, EndOfExtra, matcherVars
<1>6. ASSUME NEW f \in Filter, Add(f) PROVE IndexInv'
  BY <1>6, FilterAdded
<1>7. CASE GenerateGeneralFilters
  BY <1>7 DEF IndexInv, GenerateGeneralFilters, parserVars
<1>8. CASE UNCHANGED vars
  BY <1>8 DEF IndexInv, vars, parserVars, matcherVars
<1> QED
  BY <1>1, <1>2, <1>3, <1>4, <1>5, <1>6, <1>7, <1>8 DEF Next

LEMMA IndexInvariant == Spec => []IndexInv
<1> QED
  BY IndexInit, IndexStep, PTL DEF Spec
-----------------------------------------------------------------------------
LEMMA VerdictsFollow ==
  ASSUME IndexInv PROVE VerdictsExact
<1> SUFFICES ASSUME phase = "loaded" PROVE VerdictsExact
  BY DEF VerdictsExact
<1>1. ASSUME NEW u \in Url, NEW type, NEW d, NEW third
      PROVE  MatchesAny(Query(u, type, d, third)) = ActiveVerdict(Query(u, type, d, third))
  <2>1. Query(u, type, d, third).url \in Url
    BY DEF Query
  <2> QED
    BY <2>1, LookupIsScan DEF IndexInv
<1>2. ASSUME NEW u \in Url, NEW type
      PROVE  MatchesAny(OfDocument(u, type)) = ActiveVerdict(OfDocument(u, type))
  BY <1>1 DEF OfDocument
<1>3. ASSUME NEW u \in Url
      PROVE  MatchesAny(DNTQuery(u)) = ActiveVerdict(DNTQuery(u))
  BY <1>1 DEF DNTQuery
<1>4. ASSUME NEW u \in Url, NEW doc \in Url, NEW type \in Types, NEW third \in BOOLEAN
      PROVE  ShouldLoad(u, type, doc, third) =
               Loads(ActiveVerdict(OfDocument(doc, "DOCUMENT")),
                     ActiveVerdict(Query(u, type, DomainOf[doc], third)))
  BY <1>1, <1>2 DEF ShouldLoad
<1>5. ASSUME NEW u \in Url
      PROVE  \A dnt \in BOOLEAN :
               ShouldSendDNTHeader(u, dnt) = (dnt \/ SendsDNT(ActiveVerdict(DNTQuery(u))))
  BY <1>3 DEF ShouldSendDNTHeader
<1>6. ASSUME NEW doc \in Url
      PROVE  HidingAllowed(doc) = MayHide(ActiveVerdict(OfDocument(doc, "DOCUMENT")),
                                          ActiveVerdict(OfDocument(doc, "ELEMHIDE")))
  BY <1>2 DEF HidingAllowed
<1> QED
  BY <1>4, <1>5, <1>6 DEF VerdictsExact

\* Every question is answered as a scan over all the filters added would answer
\* it (Matcher::findKeyword and CombinedMatcher::matchesAnyInternal agree), for
\* all filters, URLs and files.
THEOREM LookupExact == Spec => []VerdictsExact
<1> QED
  BY IndexInvariant, VerdictsFollow, PTL
-----------------------------------------------------------------------------
(* The parser: what the loops over the options of a text compute is what   *)
(* the text says, option by option.                                        *)

\* The types the first i options of a text leave.
TypesSo(opts, i, types) ==
  \A t \in Types :
    LET about == {j \in 1..i : opts[j].type = t}
    IN t \in types <=> IF about = {} THEN t \in Default /\ ~opts[1].plus
                      ELSE \E j \in about : opts[j].plus /\ \A k \in about : k <= j

\* The table of domains after the first i entries of a text.
DomainsSo(list, i, m) ==
  /\ DOMAIN m = {list[j].name : j \in 1..i}
  /\ \A j \in 1..i : (\A k \in (j + 1)..i : list[k].name # list[j].name)
                         => m[list[j].name] = list[j].include

TypeLoop   == INSTANCE FoldInduction WITH Op <- LAMBDA arg, types, o : AddType(types, o), P <- TypesSo
DomainLoop == INSTANCE FoldInduction WITH Op <- LAMBDA arg, m, d : AddDomain(m, d), P <- DomainsSo

LEMMA LastElement ==
  ASSUME NEW n \in Nat, NEW S \in SUBSET (1..n), S # {}
  PROVE  \E i \in S : \A j \in S : j <= i
<1> DEFINE back == {n - i : i \in S}
<1>1. back \in SUBSET Nat /\ back # {}
  <2>1. \A i \in S : n - i \in Nat
    OBVIOUS
  <2> QED
    BY <2>1
<1>2. PICK b \in back : \A c \in back : b <= c
  BY <1>1, TypeLoop!LeastElement
<1>3. PICK i \in S : b = n - i
  OBVIOUS
<1>4. \A j \in S : n - i <= n - j
  BY <1>2, <1>3
<1> QED
  BY <1>4

LEMMA TextIs ==
  ASSUME NEW f \in Filter
  PROVE  /\ Text[f].white \in BOOLEAN /\ Text[f].sitekeys \in BOOLEAN
         /\ Text[f].options \in Seq([type : Types, plus : BOOLEAN])
         /\ Text[f].domains \in Seq([name : Domain, include : BOOLEAN])
BY FilterAssumption DEF FilterText

LEMMA OptionAdded ==
  ASSUME NEW opts \in Seq([type : Types, plus : BOOLEAN]), NEW i \in 1..Len(opts),
         NEW types, TypesSo(opts, i - 1, types)
  PROVE  TypesSo(opts, i, AddType(types, opts[i]))
<1> SUFFICES ASSUME NEW t \in Types
             PROVE  LET about == {j \in 1..i : opts[j].type = t}
                    IN t \in AddType(types, opts[i])
                         <=> IF about = {} THEN t \in Default /\ ~opts[1].plus
                             ELSE \E j \in about : opts[j].plus /\ \A k \in about : k <= j
  BY DEF TypesSo
<1> DEFINE before == {j \in 1..(i - 1) : opts[j].type = t}
           about  == {j \in 1..i : opts[j].type = t}
<1>1. t \in types <=> IF before = {} THEN t \in Default /\ ~opts[1].plus
                     ELSE \E j \in before : opts[j].plus /\ \A k \in before : k <= j
  BY DEF TypesSo
<1>2. opts[i].plus \in BOOLEAN /\ i \in Nat
  <2>1. opts[i] \in [type : Types, plus : BOOLEAN]
    BY ElementOfSeq
  <2> QED
    BY <2>1
<1>3. CASE opts[i].type = t
  <2>1. i \in about /\ \A j \in about : j <= i /\ ((\A k \in about : k <= j) => j = i)
    BY <1>2, <1>3
  <2>2. (\E j \in about : opts[j].plus /\ \A k \in about : k <= j) <=> opts[i].plus
    BY <2>1
  <2>3. t \in AddType(types, opts[i]) <=> opts[i].plus
    BY <1>2, <1>3 DEF AddType
  <2> QED
    BY <2>1, <2>2, <2>3
<1>4. CASE opts[i].type # t
  <2>1. about = before
    BY <1>2, <1>4
  <2>2. t \in AddType(types, opts[i]) <=> t \in types
    BY <1>4 DEF AddType
  <2> QED
    BY <1>1, <2>1, <2>2
<1> QED
  BY <1>3, <1>4

\* The types a filter keeps are those its text asks for (RegExpFilter::fromText).
LEMMA TypesAreAsked ==
  ASSUME NEW f \in Filter, NEW t \in Types
  PROVE  t \in TypesOf(f) <=> AsksForType(f, t)
<1> DEFINE opts  == Text[f].options
           base  == IF opts[1].plus THEN {} ELSE Default
           types == IF opts = << >> THEN Default ELSE FoldLeft(AddType, base, opts)
<1>1. opts \in Seq([type : Types, plus : BOOLEAN])
  BY TextIs
<1>2. Len(opts) \in Nat /\ DOMAIN opts = 1..Len(opts)
  BY <1>1
<1>3. t \in types <=> SaysType(f, t)
  <2>1. CASE opts = << >>
    BY <2>1 DEF SaysType
  <2>2. CASE opts # << >>
    <3>1. TypesSo(opts, 0, base)
      BY DEF TypesSo
    <3>2. \A i \in 1..Len(opts) : \A x : TypesSo(opts, i - 1, x) => TypesSo(opts, i, AddType(x, opts[i]))
      BY <1>1, <1>2, OptionAdded
    <3> HIDE DEF opts, base
    <3>3. TypesSo(opts, Len(opts), FoldLeft(AddType, base, opts))
      BY <1>1, <1>2, <3>1, <3>2, TypeLoop!FoldLeftInduction, ZenonT(40)
         DEF FoldLeft, MapThenFoldSet, Max, TypeLoop!Fold, TypeLoop!FoldLeft,
             TypeLoop!MapThenFoldSet, TypeLoop!Max
    <3>4. types = FoldLeft(AddType, base, opts)
      BY <2>2
    <3> QED
      BY <1>1, <1>2, <2>2, <3>3, <3>4 DEF TypesSo, SaysType, opts
  <2> QED
    BY <2>1, <2>2
<1>4. [type |-> "DOCUMENT", plus |-> TRUE] \in Range(opts)
        <=> \E i \in DOMAIN opts : opts[i] = [type |-> "DOCUMENT", plus |-> TRUE]
  BY DEF Range
<1>5. TypesOf(f) = IF Text[f].white /\ Text[f].sitekeys THEN {"DOCUMENT"}
                   ELSE IF /\ Text[f].white /\ ~Text[f].protocol
                           /\ [type |-> "DOCUMENT", plus |-> TRUE] \notin Range(opts)
                        THEN types \ {"DOCUMENT"} ELSE types
  BY DEF TypesOf
<1> HIDE DEF types
<1> QED
  BY <1>3, <1>4, <1>5 DEF AsksForType

LEMMA EntryAdded ==
  ASSUME NEW list \in Seq([name : Domain, include : BOOLEAN]), NEW i \in 1..Len(list),
         NEW m, DomainsSo(list, i - 1, m)
  PROVE  DomainsSo(list, i, AddDomain(m, list[i]))
<1> DEFINE n == AddDomain(m, list[i])
<1>1. i \in Nat /\ 1..i = 1..(i - 1) \cup {i}
  OBVIOUS
<1>2. /\ DOMAIN n = DOMAIN m \cup {list[i].name}
      /\ n[list[i].name] = list[i].include
      /\ \A s \in DOMAIN m : s # list[i].name => n[s] = m[s]
  BY DEF AddDomain
<1> HIDE DEF n
<1>3. DOMAIN n = {list[j].name : j \in 1..i}
  BY <1>1, <1>2 DEF DomainsSo
<1>4. ASSUME NEW j \in 1..i, \A k \in (j + 1)..i : list[k].name # list[j].name
      PROVE  n[list[j].name] = list[j].include
  <2>1. CASE j = i
    BY <1>2, <2>1
  <2>2. CASE j # i
    <3>1. j \in 1..(i - 1) /\ i \in (j + 1)..i /\ (j + 1)..(i - 1) \subseteq (j + 1)..i
      BY <2>2
    <3>2. m[list[j].name] = list[j].include
      BY <1>4, <3>1 DEF DomainsSo
    <3>3. list[j].name \in DOMAIN m /\ list[j].name # list[i].name
      BY <1>4, <3>1 DEF DomainsSo
    <3> QED
      BY <1>2, <3>2, <3>3
  <2> QED
    BY <2>1, <2>2
<1> QED
  BY <1>3, <1>4 DEF DomainsSo, n

\* What generateDomains makes of a text: the entries, and << >> for all others.
LEMMA DomainsAre ==
  ASSUME NEW f \in Filter, Text[f].domains # << >>
  PROVE  LET list == Text[f].domains
             map  == Domains(f)
         IN /\ DOMAIN map = {<< >>} \cup {list[j].name : j \in 1..Len(list)}
            /\ map[<< >>] = ~\E j \in DOMAIN list : list[j].include
            /\ \A j \in 1..Len(list) :
                 /\ list[j].name # << >>
                 /\ \A k \in (j + 1)..Len(list) : list[k].name # list[j].name
                 => map[list[j].name] = list[j].include
            /\ map # << >>
<1> DEFINE list   == Text[f].domains
           others == [name |-> << >>, include |-> ~\E i \in DOMAIN list : list[i].include]
           own    == FoldLeft(AddDomain, << >>, list)
<1>1. list \in Seq([name : Domain, include : BOOLEAN])
  BY TextIs
<1>2. Len(list) \in Nat /\ DOMAIN list = 1..Len(list)
  BY <1>1
<1>3. DomainsSo(list, 0, << >>)
  <2>1. DOMAIN << >> = {} /\ 1..0 = {}
    OBVIOUS
  <2> QED
    BY <2>1 DEF DomainsSo
<1>4. \A i \in 1..Len(list) : \A x : DomainsSo(list, i - 1, x) => DomainsSo(list, i, AddDomain(x, list[i]))
  BY <1>1, EntryAdded
<1>5. Domains(f) = AddDomain(own, others)
  BY DEF Domains
<1>9. others.name = << >> /\ others.include = ~\E i \in DOMAIN list : list[i].include
  OBVIOUS
<1> HIDE DEF list, others
<1>6. DomainsSo(list, Len(list), own)
  BY <1>2, <1>3, <1>4, DomainLoop!FoldLeftInduction, ZenonT(40)
     DEF FoldLeft, MapThenFoldSet, Max, DomainLoop!Fold, DomainLoop!FoldLeft,
         DomainLoop!MapThenFoldSet, DomainLoop!Max
<1> HIDE DEF own
<1>7. /\ DOMAIN Domains(f) = DOMAIN own \cup {<< >>}
      /\ Domains(f)[<< >>] = others.include
      /\ \A s \in DOMAIN own : s # << >> => Domains(f)[s] = own[s]
  BY <1>5, <1>9 DEF AddDomain
<1>8. DOMAIN << >> = {}
  OBVIOUS
<1>10. DOMAIN Domains(f) = {<< >>} \cup {list[j].name : j \in 1..Len(list)}
  BY <1>6, <1>7 DEF DomainsSo
<1>11. ASSUME NEW j \in 1..Len(list), list[j].name # << >>,
              \A k \in (j + 1)..Len(list) : list[k].name # list[j].name
       PROVE  Domains(f)[list[j].name] = list[j].include
  BY <1>6, <1>7, <1>11 DEF DomainsSo
<1>12. Domains(f) # << >>
  BY <1>8, <1>10
<1> QED
  BY <1>7, <1>9, <1>10, <1>11, <1>12 DEF list

LEMMA SuffixIs ==
  ASSUME NEW d \in Domain
  PROVE  /\ \A s \in Enclosing(d) : s \in Domain /\ Len(s) \in Nat
         /\ << >> \in Enclosing(d)
         /\ \A s, t \in Enclosing(d) : Len(s) = Len(t) => s = t
<1>1. d \in Seq(STRING) /\ Len(d) \in Nat
  BY DEF Domain
<1>2. \A i \in 1..Len(d) + 1 : SubSeq(d, i, Len(d)) \in Seq(STRING) /\ Len(SubSeq(d, i, Len(d))) = Len(d) - i + 1
  BY <1>1
<1>3. Len(d) + 1 \in 1..Len(d) + 1 /\ SubSeq(d, Len(d) + 1, Len(d)) = << >>
  BY <1>1
<1>4. ASSUME NEW s \in Enclosing(d), NEW t \in Enclosing(d), Len(s) = Len(t)
      PROVE  s = t
  <2>1. PICK i \in 1..Len(d) + 1 : s = SubSeq(d, i, Len(d))
    BY DEF Enclosing
  <2>2. PICK j \in 1..Len(d) + 1 : t = SubSeq(d, j, Len(d))
    BY DEF Enclosing
  <2>3. Len(d) - i + 1 = Len(d) - j + 1
    BY <1>2, <1>4, <2>1, <2>2
  <2>4. i = j
    BY <1>1, <2>3
  <2> QED
    BY <2>1, <2>2, <2>4
<1>5. ASSUME NEW s \in Enclosing(d)
      PROVE  s \in Domain /\ Len(s) \in Nat
  <2>1. PICK i \in 1..Len(d) + 1 : s = SubSeq(d, i, Len(d))
    BY DEF Enclosing
  <2>2. s \in Seq(STRING)
    BY <1>2, <2>1
  <2> QED
    BY <2>2 DEF Domain
<1>6. << >> \in Enclosing(d)
  BY <1>3 DEF Enclosing
<1> QED
  BY <1>4, <1>5, <1>6

\* Of the suffixes of a domain that a table names there is one that is longest.
LEMMA ClosestIs ==
  ASSUME NEW d \in Domain, NEW named \in SUBSET Enclosing(d), << >> \in named
  PROVE  LET s == CHOOSE s \in named : \A t \in named : Len(t) <= Len(s)
         IN s \in named /\ \A t \in named : Len(t) <= Len(s) /\ (Len(t) = Len(s) => t = s)
<1> DEFINE at == {i \in 1..Len(d) + 1 : SubSeq(d, i, Len(d)) \in named}
<1>1. d \in Seq(STRING) /\ Len(d) \in Nat
  BY DEF Domain
<1>2. \A i \in 1..Len(d) + 1 : Len(SubSeq(d, i, Len(d))) = Len(d) - i + 1
  BY <1>1
<1>3. at \in SUBSET Nat /\ at # {}
  <2>1. Len(d) + 1 \in 1..Len(d) + 1 /\ SubSeq(d, Len(d) + 1, Len(d)) = << >>
    BY <1>1
  <2>2. Len(d) + 1 \in at
    BY <2>1
  <2> QED
    BY <1>1, <2>2
<1>4. PICK i \in at : \A j \in at : i <= j
  BY <1>3, TypeLoop!LeastElement
<1>5. \A t \in named : \E j \in at : t = SubSeq(d, j, Len(d))
  BY DEF Enclosing
<1>6. \A t \in named : Len(t) <= Len(SubSeq(d, i, Len(d)))
  <2> SUFFICES ASSUME NEW t \in named PROVE Len(t) <= Len(SubSeq(d, i, Len(d)))
    OBVIOUS
  <2>1. PICK j \in at : t = SubSeq(d, j, Len(d))
    BY <1>5
  <2>2. i <= j /\ j \in 1..Len(d) + 1 /\ i \in 1..Len(d) + 1
    BY <1>4
  <2> QED
    BY <1>1, <1>2, <2>1, <2>2
<1>7. \E s \in named : \A t \in named : Len(t) <= Len(s)
  BY <1>4, <1>6
<1> QED
  BY <1>7, SuffixIs

\* The domains a filter is active on are those its text asks for
\* (ActiveFilter::isActiveOnDomain against generateDomains).
LEMMA DomainsAreAsked ==
  ASSUME NEW f \in Filter, NEW d \in Domain
  PROVE  IsActiveOnDomain(f, d) <=> AsksForDomain(f, d)
<1> DEFINE list  == Text[f].domains
           map   == Domains(f)
           named == {s \in Enclosing(d) : s \in DOMAIN map}
           s     == CHOOSE s \in named : \A t \in named : Len(t) <= Len(s)
           about == {i \in 1..Len(list) : list[i].name \in Enclosing(d) \ {<< >>}}
<1>1. list \in Seq([name : Domain, include : BOOLEAN])
  BY TextIs
<1>2. Len(list) \in Nat /\ DOMAIN list = 1..Len(list)
  BY <1>1
<1>3. CASE list = << >>
  BY <1>3 DEF Domains, IsActiveOnDomain, AsksForDomain
<1>4. CASE list # << >>
  <2>1. /\ DOMAIN map = {<< >>} \cup {list[j].name : j \in 1..Len(list)}
        /\ map[<< >>] = ~\E j \in DOMAIN list : list[j].include
        /\ \A j \in 1..Len(list) :
             /\ list[j].name # << >>
             /\ \A k \in (j + 1)..Len(list) : list[k].name # list[j].name
             => map[list[j].name] = list[j].include
        /\ map # << >>
    BY <1>4, DomainsAre
  <2>2. IsActiveOnDomain(f, d) <=> map[s]
    BY <2>1, Zenon DEF IsActiveOnDomain
  <2> HIDE DEF list, map
  <2>3. << >> \in named /\ named \in SUBSET Enclosing(d)
    BY <2>1, SuffixIs
  <2> HIDE DEF named
  <2>4. s \in named /\ \A t \in named : Len(t) <= Len(s) /\ (Len(t) = Len(s) => t = s)
    BY <2>3, ClosestIs
  <2> HIDE DEF s
  <2>5. \A i \in about : list[i].name \in named
    BY <2>1 DEF named
  <2>6. \A t \in named : t = << >> \/ \E i \in about : list[i].name = t
    BY <2>1 DEF named
  <2>7. \A i \in about : list[i].include \in BOOLEAN /\ Len(list[i].name) \in Nat
    <3> SUFFICES ASSUME NEW i \in about
                 PROVE  list[i].include \in BOOLEAN /\ Len(list[i].name) \in Nat
      OBVIOUS
    <3>1. i \in 1..Len(list) /\ list[i].name \in Enclosing(d)
      OBVIOUS
    <3>2. list[i] \in [name : Domain, include : BOOLEAN]
      BY <1>1, <3>1, ElementOfSeq DEF list
    <3> QED
      BY <3>1, <3>2, SuffixIs
  <2>8. CASE about = {}
    <3>1. s = << >>
      BY <2>4, <2>6, <2>8
    <3>3. map[s] = ~\E j \in DOMAIN list : list[j].include
      BY <2>1, <3>1
    <3> QED
      BY <1>2, <2>2, <2>8, <3>3 DEF AsksForDomain, list
  <2>9. CASE about # {}
    <3>1. \E i \in about : list[i].name = s
      <4>1. CASE s = << >>
        <5>1. PICK i \in about : TRUE
          BY <2>9
        <5>2. Len(list[i].name) <= Len(s) /\ Len(s) = 0
          BY <2>4, <2>5, <4>1
        <5>3. list[i].name = s
          BY <2>4, <2>5, <2>7, <5>2
        <5> QED
          BY <5>3
      <4> QED
        BY <2>4, <2>6, <4>1
    <3> DEFINE last == {i \in about : list[i].name = s}
    <3>2. PICK i \in last : \A j \in last : j <= i
      BY <1>2, <3>1, LastElement
    <3>3. \A k \in (i + 1)..Len(list) : list[k].name # list[i].name
      BY <1>2, <3>2
    <3>4. map[s] = list[i].include
      BY <2>1, <3>2, <3>3
    <3> DEFINE Closest(j) == \A k \in about : LET a == Len(list[j].name) b == Len(list[k].name)
                                              IN b < a \/ (b = a /\ k <= j)
    <3>5. Closest(i)
      <4> SUFFICES ASSUME NEW k \in about
                   PROVE  \/ Len(list[k].name) < Len(list[i].name)
                          \/ Len(list[k].name) = Len(list[i].name) /\ k <= i
        OBVIOUS
      <4>1. list[i].name = s /\ i \in about
        BY <3>2
      <4>2. Len(list[k].name) <= Len(s) /\ (Len(list[k].name) = Len(s) => list[k].name = s)
        BY <2>4, <2>5
      <4>3. list[k].name = s => k <= i
        BY <3>2
      <4> QED
        BY <2>7, <4>1, <4>2, <4>3
    <3>6. ASSUME NEW j \in about, Closest(j) PROVE j = i
      <4>1. list[i].name = s /\ i \in about /\ i \in Nat /\ j \in Nat
        BY <1>2, <3>2
      <4>2. Len(list[i].name) = Len(list[j].name) /\ i <= j /\ j <= i
        BY <2>7, <3>5, <3>6, <4>1
      <4> QED
        BY <4>1, <4>2
    <3>7. AsksForDomain(f, d) <=> \E j \in about : list[j].include /\ Closest(j)
      BY <1>2, <2>9 DEF AsksForDomain, list
    <3>8. AsksForDomain(f, d) <=> list[i].include
      BY <3>2, <3>5, <3>6, <3>7
    <3> QED
      BY <2>2, <3>4, <3>8
  <2> QED
    BY <2>8, <2>9
<1> QED
  BY <1>3, <1>4
-----------------------------------------------------------------------------
(* The file: what the parser has kept after the first n sections of a      *)
(* file and the first m of the additional filters.                         *)

About(n, f) == {i \in 1..n : file[i].kind = "filter" /\ file[i].filter = f}

DisabledBy(n, f) == \E i \in About(n, f) : file[i].disabled /\ \A j \in About(n, f) : j <= i

ListedBy(n, m, f) ==
  \/ \E i \in 2..n : /\ file[i].kind = "list" /\ f \in file[i].filters
                     /\ ~file[i - 1].disabled /\ ~file[i - 1].excluded
  \/ \E i \in 1..m : f \in Extra[i].filters

ReadTo(n, m) ==
  /\ persisted = {f \in Filter : About(n, f) # {}}
  /\ parsed = {f \in Filter : ListedBy(n, m, f)}
  /\ \A f \in parsed \cup persisted : disabled[f] = DisabledBy(n, f)

Reading(n) ==
  /\ rest = SubSeq(file, n + 1, Len(file)) /\ ReadTo(n, 0)
  /\ n > 0 /\ file[n].kind = "subscription" =>
       subscription = [disabled |-> file[n].disabled, excluded |-> file[n].excluded]

ReadingExtra(m) ==
  /\ rest = SubSeq(Extra, m + 1, Len(Extra)) /\ ReadTo(Len(file), m)
  /\ subscription = [disabled |-> FALSE, excluded |-> FALSE]

ParserInv ==
  /\ file \in Seq(Section) /\ disabled \in [Filter -> BOOLEAN]
  /\ WellFormed =>
       /\ phase = "parsing" => \E n \in 0..Len(file) : Reading(n)
       /\ phase = "extra" => \E m \in 0..Len(Extra) : ReadingExtra(m)
       /\ phase \in {"adding", "loaded"} => active = InForce

LEMMA SameFile ==
  ASSUME UNCHANGED file
  PROVE  /\ \A n, f : About(n, f)' = About(n, f) /\ DisabledBy(n, f)' = DisabledBy(n, f)
         /\ \A n, m, f : ListedBy(n, m, f)' = ListedBy(n, m, f)
         /\ InForce' = InForce /\ (WellFormed' <=> WellFormed)
<1>1. \A n, f : About(n, f)' = About(n, f)
  BY DEF About
<1>2. \A n, f : DisabledBy(n, f)' = DisabledBy(n, f)
  BY <1>1 DEF DisabledBy
<1>3. \A n, m, f : ListedBy(n, m, f)' = ListedBy(n, m, f)
  BY DEF ListedBy
<1>4. \A f : Listed(f)' = Listed(f) /\ SaysDisabled(f)' = SaysDisabled(f)
  BY DEF Listed, SaysDisabled
<1>5. InForce' = InForce
  BY <1>4 DEF InForce
<1>6. WellFormed' <=> WellFormed
  BY DEF WellFormed
<1> QED
  BY <1>1, <1>2, <1>3, <1>5, <1>6

LEMMA SameReading ==
  ASSUME UNCHANGED <<file, persisted, parsed, disabled>>, NEW n, NEW m
  PROVE  ReadTo(n, m)' <=> ReadTo(n, m)
BY SameFile DEF ReadTo

LEMMA GoesOn ==
  ASSUME NEW S, NEW seq \in Seq(S), NEW n \in 0..Len(seq), SubSeq(seq, n + 1, Len(seq)) # << >>
  PROVE  /\ n + 1 \in 1..Len(seq)
         /\ Head(SubSeq(seq, n + 1, Len(seq))) = seq[n + 1]
         /\ Tail(SubSeq(seq, n + 1, Len(seq))) = SubSeq(seq, n + 2, Len(seq))
<1>1. Len(seq) \in Nat /\ n \in Nat
  OBVIOUS
<1>2. n < Len(seq)
  <2>1. CASE n = Len(seq)
    <3>1. SubSeq(seq, Len(seq) + 1, Len(seq)) = << >>
      OBVIOUS
    <3> QED
      BY <2>1, <3>1
  <2> QED
    BY <1>1, <2>1
<1> DEFINE rst == SubSeq(seq, n + 1, Len(seq))
           nxt == SubSeq(seq, n + 2, Len(seq))
<1>3. rst \in Seq(S) /\ Len(rst) = Len(seq) - n /\ \A i \in 1..Len(rst) : rst[i] = seq[n + i]
  BY <1>1, <1>2
<1>4. nxt \in Seq(S) /\ Len(nxt) = Len(seq) - n - 1 /\ \A i \in 1..Len(nxt) : nxt[i] = seq[n + 1 + i]
  BY <1>1, <1>2
<1>5. Head(rst) = seq[n + 1]
  BY <1>1, <1>2, <1>3
<1>6. Tail(rst) \in Seq(S) /\ Len(Tail(rst)) = Len(rst) - 1
        /\ \A i \in 1..Len(Tail(rst)) : Tail(rst)[i] = rst[i + 1]
  BY <1>1, <1>2, <1>3
<1> HIDE DEF rst, nxt
<1>7. \A i \in 1..Len(nxt) : Tail(rst)[i] = nxt[i]
  <2> SUFFICES ASSUME NEW i \in 1..Len(nxt) PROVE Tail(rst)[i] = nxt[i]
    OBVIOUS
  <2>1. i \in 1..Len(Tail(rst)) /\ i + 1 \in 1..Len(rst) /\ n + (i + 1) = n + 1 + i
    BY <1>1, <1>2, <1>3, <1>4, <1>6
  <2> QED
    BY <1>3, <1>4, <1>6, <2>1
<1>8. Tail(rst) = nxt
  BY <1>1, <1>3, <1>4, <1>6, <1>7, SeqEqual
<1> QED
  BY <1>1, <1>2, <1>5, <1>8 DEF rst, nxt

LEMMA ReadAll ==
  ASSUME NEW S, NEW seq \in Seq(S), NEW n \in 0..Len(seq), SubSeq(seq, n + 1, Len(seq)) = << >>
  PROVE  n = Len(seq)
<1>1. Len(SubSeq(seq, n + 1, Len(seq))) = IF n + 1 <= Len(seq) THEN Len(seq) - n ELSE 0
  OBVIOUS
<1>2. Len(seq) \in Nat /\ Len(<< >>) = 0
  OBVIOUS
<1> QED
  BY <1>1, <1>2

\* One section more of the file, of each kind.
LEMMA SectionSays ==
  ASSUME NEW n \in Nat, NEW f \in Filter
  PROVE  /\ file[n + 1].kind # "filter" \/ file[n + 1].filter # f =>
              About(n + 1, f) = About(n, f) /\ DisabledBy(n + 1, f) = DisabledBy(n, f)
         /\ file[n + 1].kind = "filter" /\ file[n + 1].filter = f =>
              About(n + 1, f) # {} /\ (file[n + 1].disabled \in BOOLEAN =>
                                         DisabledBy(n + 1, f) = file[n + 1].disabled)
<1>1. 1..(n + 1) = 1..n \cup {n + 1}
  OBVIOUS
<1>2. CASE file[n + 1].kind # "filter" \/ file[n + 1].filter # f
  <2>1. About(n + 1, f) = About(n, f)
    BY <1>1, <1>2 DEF About
  <2> QED
    BY <1>2, <2>1 DEF DisabledBy
<1>3. CASE file[n + 1].kind = "filter" /\ file[n + 1].filter = f
  <2>1. n + 1 \in About(n + 1, f) /\ \A j \in About(n + 1, f) : j <= n + 1 /\ j \in Nat
    BY <1>3 DEF About
  <2>2. \A i \in About(n + 1, f) : (\A j \in About(n + 1, f) : j <= i) => i = n + 1
    BY <2>1
  <2>3. file[n + 1].disabled \in BOOLEAN => DisabledBy(n + 1, f) = file[n + 1].disabled
    BY <2>1, <2>2 DEF DisabledBy
  <2> QED
    BY <1>3, <2>1, <2>3
<1> QED
  BY <1>2, <1>3

LEMMA SectionLists ==
  ASSUME NEW n \in Nat, NEW f
  PROVE  ListedBy(n + 1, 0, f) <=>
           \/ ListedBy(n, 0, f)
           \/ /\ n > 0 /\ file[n + 1].kind = "list" /\ f \in file[n + 1].filters
              /\ ~file[n].disabled /\ ~file[n].excluded
<1>1. \A i : i \in 2..(n + 1) <=> i \in 2..n \/ (i = n + 1 /\ n > 0)
  OBVIOUS
<1>2. (n + 1) - 1 = n /\ 1..0 = {}
  OBVIOUS
<1> QED
  BY <1>1, <1>2 DEF ListedBy

LEMMA SectionOfFile ==
  ASSUME ParserInv, NEW i \in 1..Len(file)
  PROVE  /\ file[i] \in Section
         /\ file[i].kind \in {"filter", "subscription", "list"}
         /\ file[i].kind = "filter" => file[i].filter \in Filter /\ file[i].disabled \in BOOLEAN
         /\ file[i].kind = "subscription" => file[i].disabled \in BOOLEAN /\ file[i].excluded \in BOOLEAN
         /\ file[i].kind = "list" => file[i].filters \subseteq Filter
<1>1. file[i] \in Section
  BY ElementOfSeq DEF ParserInv
<1> QED
  BY <1>1 DEF Section, ListSection

\* A section of the file is read: what the parser keeps is what the file says
\* up to there.
LEMMA FileSectionRead ==
  ASSUME ParserInv, WellFormed, NEW n \in 0..Len(file), Reading(n),
         phase = "parsing", ReadSection
  PROVE  n + 1 \in 0..Len(file) /\ Reading(n + 1)'
<1> DEFINE s == file[n + 1]
<1>1. /\ n \in Nat /\ n + 1 \in 1..Len(file) /\ Len(file) \in Nat
      /\ Head(rest) = s /\ Tail(rest) = SubSeq(file, (n + 1) + 1, Len(file))
  <2>1. file \in Seq(Section) /\ Len(file) \in Nat
    BY DEF ParserInv
  <2>2. rest = SubSeq(file, n + 1, Len(file)) /\ rest # << >>
    BY DEF Reading, ReadSection
  <2>3. (n + 1) + 1 = n + 2
    BY <2>1
  <2> QED
    BY <2>1, <2>2, <2>3, GoesOn
<1>2. rest' = SubSeq(file, (n + 1) + 1, Len(file)) /\ file' = file
  BY <1>1 DEF ReadSection
<1>3. s \in Section /\ s.kind \in {"filter", "subscription", "list"}
  BY <1>1, SectionOfFile
<1>4. \A f : /\ About(n, f)' = About(n, f) /\ About(n + 1, f)' = About(n + 1, f)
             /\ DisabledBy(n + 1, f)' = DisabledBy(n + 1, f)
             /\ ListedBy(n + 1, 0, f)' = ListedBy(n + 1, 0, f)
  BY <1>2, SameFile
<1>5. \A f : ListedBy(n + 1, 0, f) <=>
               \/ ListedBy(n, 0, f)
               \/ /\ n > 0 /\ s.kind = "list" /\ f \in s.filters
                  /\ ~file[n].disabled /\ ~file[n].excluded
  BY <1>1, SectionLists
<1> SUFFICES /\ persisted' = {f \in Filter : About(n + 1, f) # {}}
             /\ parsed' = {f \in Filter : ListedBy(n + 1, 0, f)}
             /\ \A f \in parsed' \cup persisted' : disabled'[f] = DisabledBy(n + 1, f)
             /\ s.kind = "subscription" => subscription' = [disabled |-> s.disabled, excluded |-> s.excluded]
  BY <1>1, <1>2, <1>4 DEF Reading, ReadTo
<1> HIDE DEF s
<1>6. CASE EndFilter(s)
  <2>1. s.kind = "filter" /\ s.filter \in Filter /\ s.disabled \in BOOLEAN
    BY <1>1, <1>6, SectionOfFile DEF EndFilter, s
  <2>2. \A f \in Filter : f # s.filter => About(n + 1, f) = About(n, f) /\ DisabledBy(n + 1, f) = DisabledBy(n, f)
    BY <1>1, <2>1, SectionSays DEF s
  <2>3. About(n + 1, s.filter) # {} /\ DisabledBy(n + 1, s.filter) = s.disabled
    BY <1>1, <2>1, SectionSays DEF s
  <2>4. persisted' = persisted \cup {s.filter} /\ parsed' = parsed
        /\ disabled' = [disabled EXCEPT ![s.filter] = s.disabled]
    BY <1>6 DEF EndFilter
  <2>5. persisted' = {f \in Filter : About(n + 1, f) # {}}
    BY <2>1, <2>2, <2>3, <2>4 DEF Reading, ReadTo
  <2>6. parsed' = {f \in Filter : ListedBy(n + 1, 0, f)}
    BY <1>5, <2>1, <2>4 DEF Reading, ReadTo
  <2>7. ASSUME NEW f \in parsed' \cup persisted'
        PROVE  disabled'[f] = DisabledBy(n + 1, f)
    <3>1. f \in Filter
      BY <2>5, <2>6
    <3>2. CASE f = s.filter
      BY <2>1, <2>3, <2>4, <3>1, <3>2 DEF ParserInv
    <3>3. CASE f # s.filter
      <4>1. disabled'[f] = disabled[f] /\ f \in parsed \cup persisted
        BY <2>4, <2>7, <3>1, <3>3 DEF ParserInv
      <4> QED
        BY <2>2, <3>1, <3>3, <4>1 DEF Reading, ReadTo
    <3> QED
      BY <3>2, <3>3
  <2> QED
    BY <2>1, <2>5, <2>6, <2>7
<1>7. CASE s.kind # "filter"
  <2>1. \A f \in Filter : About(n + 1, f) = About(n, f) /\ DisabledBy(n + 1, f) = DisabledBy(n, f)
    BY <1>1, <1>7, SectionSays DEF s
  <2>2. persisted = {f \in Filter : About(n + 1, f) # {}}
    BY <2>1 DEF Reading, ReadTo
  <2>3. CASE EndSubscription(s)
    <3>1. s.kind = "subscription" /\ UNCHANGED <<disabled, persisted, parsed>>
          /\ subscription' = [disabled |-> s.disabled, excluded |-> s.excluded]
      BY <2>3 DEF EndSubscription
    <3>2. parsed = {f \in Filter : ListedBy(n + 1, 0, f)}
      BY <1>5, <3>1 DEF Reading, ReadTo
    <3> QED
      BY <2>1, <2>2, <3>1, <3>2 DEF Reading, ReadTo
  <2>4. CASE s.kind = "list"
    <3>1. n > 0 /\ subscription = [disabled |-> file[n].disabled, excluded |-> file[n].excluded]
      <4>1. n + 1 > 1 /\ file[(n + 1) - 1].kind = "subscription"
        BY <1>1, <2>4 DEF WellFormed, ParserInv, s
      <4> QED
        BY <1>1, <4>1 DEF Reading
    <3>2. CASE SkipList(s)
      <4>1. UNCHANGED <<disabled, persisted, parsed, subscription>>
            /\ (file[n].disabled \/ file[n].excluded)
        BY <3>1, <3>2 DEF SkipList
      <4>2. parsed = {f \in Filter : ListedBy(n + 1, 0, f)}
        BY <1>5, <4>1 DEF Reading, ReadTo
      <4> QED
        BY <2>1, <2>2, <2>4, <4>1, <4>2 DEF Reading, ReadTo
    <3>3. CASE EndList(s)
      <4>1. /\ persisted' = persisted /\ parsed' = parsed \cup s.filters
            /\ ~file[n].disabled /\ ~file[n].excluded
            /\ disabled' = [f \in Filter |-> disabled[f] /\ (f \in s.filters => f \in persisted)]
        BY <3>1, <3>3 DEF EndList
      <4>2. s.filters \subseteq Filter
        BY <1>1, <2>4, SectionOfFile DEF s
      <4>3. parsed' = {f \in Filter : ListedBy(n + 1, 0, f)}
        BY <1>5, <2>4, <3>1, <4>1, <4>2 DEF Reading, ReadTo
      <4>4. ASSUME NEW f \in parsed' \cup persisted'
            PROVE  disabled'[f] = DisabledBy(n + 1, f)
        <5>1. f \in Filter /\ DisabledBy(n + 1, f) = DisabledBy(n, f)
          BY <2>1, <2>2, <4>1, <4>3
        <5>2. disabled[f] \in BOOLEAN
          BY <5>1 DEF ParserInv
        <5>3. CASE f \in persisted
          BY <4>1, <5>1, <5>2, <5>3 DEF Reading, ReadTo
        <5>4. CASE f \notin persisted
          <6>1. About(n, f) = {}
            BY <5>1, <5>4 DEF Reading, ReadTo
          <6>2. DisabledBy(n, f) = FALSE
            BY <6>1 DEF DisabledBy
          <6>3. CASE f \in s.filters
            BY <4>1, <5>1, <5>4, <6>2, <6>3
          <6>4. CASE f \notin s.filters
            <7>1. f \in parsed
              BY <4>1, <4>4, <5>4, <6>4
            <7> QED
              BY <4>1, <5>1, <5>2, <6>4, <7>1 DEF Reading, ReadTo
          <6> QED
            BY <6>3, <6>4
        <5> QED
          BY <5>3, <5>4
      <4> QED
        BY <2>2, <2>4, <4>1, <4>3, <4>4
    <3> QED
      BY <1>1, <2>4, <3>2, <3>3 DEF ReadSection, EndFilter, EndSubscription
  <2> QED
    BY <1>1, <1>3, <1>7, <2>3, <2>4 DEF ReadSection, EndFilter, SkipList, EndList
<1> QED
  BY <1>1, <1>6, <1>7 DEF ReadSection, EndSubscription, SkipList, EndList

\* A list of the additional filters is read.
LEMMA ExtraListRead ==
  ASSUME ParserInv, NEW m \in 0..Len(Extra), ReadingExtra(m), phase = "extra", ReadSection
  PROVE  m + 1 \in 0..Len(Extra) /\ ReadingExtra(m + 1)'
<1> DEFINE s == Extra[m + 1]
<1>0. PICK n : n = Len(file)
  OBVIOUS
<1>1. /\ m + 1 \in 1..Len(Extra) /\ Len(Extra) \in Nat
      /\ Head(rest) = s /\ Tail(rest) = SubSeq(Extra, (m + 1) + 1, Len(Extra))
      /\ s \in ListSection
  <2>1. Extra \in Seq(ListSection) /\ Len(Extra) \in Nat
    BY FilterAssumption
  <2>2. rest = SubSeq(Extra, m + 1, Len(Extra)) /\ rest # << >>
    BY DEF ReadingExtra, ReadSection
  <2>3. (m + 1) + 1 = m + 2
    BY <2>1
  <2>4. m + 1 \in 1..Len(Extra) /\ Head(rest) = s /\ Tail(rest) = SubSeq(Extra, m + 2, Len(Extra))
    BY <2>1, <2>2, GoesOn
  <2>5. s \in ListSection
    BY <2>1, <2>4, ElementOfSeq
  <2> QED
    BY <2>1, <2>3, <2>4, <2>5
<1>2. rest' = SubSeq(Extra, (m + 1) + 1, Len(Extra)) /\ file' = file
  BY <1>1 DEF ReadSection
<1>3. s.kind = "list" /\ s.filters \subseteq Filter
  BY <1>1 DEF ListSection
<1>4. /\ persisted' = persisted /\ parsed' = parsed \cup s.filters
      /\ subscription' = [disabled |-> FALSE, excluded |-> FALSE]
      /\ disabled' = [f \in Filter |-> disabled[f] /\ (f \in s.filters => f \in persisted)]
  BY <1>1, <1>3 DEF ReadingExtra, ReadSection, EndFilter, EndSubscription, SkipList, EndList
<1>5. \A f : /\ About(n, f)' = About(n, f) /\ DisabledBy(n, f)' = DisabledBy(n, f)
             /\ ListedBy(n, m + 1, f)' = ListedBy(n, m + 1, f)
  BY <1>2, SameFile
<1>6. \A f : ListedBy(n, m + 1, f) <=> ListedBy(n, m, f) \/ f \in s.filters
  <2>1. 1..(m + 1) = 1..m \cup {m + 1}
    OBVIOUS
  <2> QED
    BY <2>1 DEF ListedBy
<1> HIDE DEF s
<1>7. ReadTo(n, m)
  BY <1>0 DEF ReadingExtra
<1>8. parsed' = {f \in Filter : ListedBy(n, m + 1, f)}
  BY <1>3, <1>4, <1>6, <1>7 DEF ReadTo
<1>9. ASSUME NEW f \in parsed' \cup persisted'
      PROVE  disabled'[f] = DisabledBy(n, f)
  <2>1. f \in Filter /\ disabled[f] \in BOOLEAN
    BY <1>4, <1>7, <1>8 DEF ReadTo, ParserInv
  <2>2. CASE f \in persisted
    BY <1>4, <1>7, <2>1, <2>2 DEF ReadTo
  <2>3. CASE f \notin persisted
    <3>1. About(n, f) = {}
      BY <1>7, <2>1, <2>3 DEF ReadTo
    <3>2. DisabledBy(n, f) = FALSE
      BY <3>1 DEF DisabledBy
    <3>3. CASE f \in s.filters
      BY <1>4, <2>1, <2>3, <3>2, <3>3
    <3>4. CASE f \notin s.filters
      <4>1. f \in parsed
        BY <1>4, <1>9, <2>3, <3>4
      <4> QED
        BY <1>4, <1>7, <2>1, <3>4, <4>1 DEF ReadTo
    <3> QED
      BY <3>3, <3>4
  <2> QED
    BY <2>2, <2>3
<1>10. ReadTo(n, m + 1)'
  <2>1. persisted' = {f \in Filter : About(n, f) # {}}
    BY <1>4, <1>7 DEF ReadTo
  <2> QED
    BY <1>5, <1>8, <1>9, <2>1 DEF ReadTo
<1>11. ReadTo(Len(file), m + 1)'
  BY <1>0, <1>2, <1>10
<1> QED
  BY <1>1, <1>2, <1>4, <1>11 DEF ReadingExtra

\* What a section does to the flags keeps their types.
LEMMA FlagsKept ==
  ASSUME ParserInv, rest \in Seq(Section), ReadSection
  PROVE  disabled' \in [Filter -> BOOLEAN] /\ file' = file
<1>1. Head(rest) \in Section
  BY DEF ReadSection
<1>2. disabled \in [Filter -> BOOLEAN]
  BY DEF ParserInv
<1>3. CASE EndFilter(Head(rest))
  <2>1. Head(rest).disabled \in BOOLEAN
    BY <1>1, <1>3 DEF EndFilter, Section, ListSection
  <2> QED
    BY <1>2, <1>3, <2>1 DEF EndFilter, ReadSection
<1>4. CASE EndList(Head(rest))
  BY <1>2, <1>4 DEF EndList, ReadSection
<1> QED
  BY <1>2, <1>3, <1>4 DEF ReadSection, EndSubscription, SkipList

\* At the end of the additional filters, what is left is what is in force.
LEMMA InForceAtEnd ==
  ASSUME ParserInv, ReadTo(Len(file), Len(Extra))
  PROVE  {f \in parsed : ~disabled[f]} = InForce
<1>1. DOMAIN file = 1..Len(file) /\ DOMAIN Extra = 1..Len(Extra)
  BY FilterAssumption DEF ParserInv
<1>2. \A f \in Filter : Listed(f) <=> ListedBy(Len(file), Len(Extra), f)
  BY <1>1 DEF Listed, ListedBy
<1>3. \A f \in Filter : SaysDisabled(f) <=> DisabledBy(Len(file), f)
  BY <1>1 DEF SaysDisabled, DisabledBy, About
<1> QED
  BY <1>2, <1>3 DEF InForce, ReadTo

LEMMA ParserInit ==
  ASSUME Init PROVE ParserInv
<1>1. file \in Seq(Section)
  BY DEF Init
<1> QED
  BY <1>1 DEF Init, ParserInv

LEMMA ParserStep ==
  ASSUME ParserInv, IndexInv, [Next]_vars PROVE ParserInv'
<1>1. ASSUME NEW f \in Files, LoadFilterFile(f) PROVE ParserInv'
  <2>1. file' \in Seq(Section) /\ Len(file') \in Nat
    BY <1>1, FilterAssumption DEF LoadFilterFile
  <2>2. disabled' \in [Filter -> BOOLEAN]
    BY <1>1 DEF LoadFilterFile, ParserInv
  <2>3. rest' = SubSeq(file', 0 + 1, Len(file'))
    BY <1>1, <2>1 DEF LoadFilterFile
  <2>4. persisted' = {} /\ parsed' = {} /\ phase' = "parsing"
    BY <1>1 DEF LoadFilterFile
  <2>5. Reading(0)'
    BY <2>3, <2>4 DEF Reading, ReadTo, About, ListedBy
  <2> QED
    BY <2>1, <2>2, <2>4, <2>5 DEF ParserInv
<1>2. CASE ClearFilters
  BY <1>2 DEF ParserInv, ClearFilters
<1>3. CASE ReadSection
  <2>1. /\ file' \in Seq(Section) /\ disabled' \in [Filter -> BOOLEAN]
        /\ (WellFormed' => WellFormed) /\ phase' = phase /\ phase \in {"parsing", "extra"} /\ file' = file
    BY <1>3, FlagsKept DEF ParserInv, IndexInv, ReadSection, WellFormed
  <2>2. ASSUME WellFormed, phase = "parsing" PROVE \E n \in 0..Len(file) : Reading(n)'
    <3>1. PICK n \in 0..Len(file) : Reading(n)
      BY <2>2 DEF ParserInv
    <3>2. n + 1 \in 0..Len(file) /\ Reading(n + 1)'
      BY <1>3, <2>2, <3>1, FileSectionRead
    <3> QED
      BY <3>2
  <2>3. ASSUME WellFormed, phase = "extra" PROVE \E m \in 0..Len(Extra) : ReadingExtra(m)'
    <3>1. PICK m \in 0..Len(Extra) : ReadingExtra(m)
      BY <2>3 DEF ParserInv
    <3>2. m + 1 \in 0..Len(Extra) /\ ReadingExtra(m + 1)'
      BY <1>3, <2>3, <3>1, ExtraListRead
    <3> QED
      BY <3>2
  <2> QED
    BY <2>1, <2>2, <2>3 DEF ParserInv
<1>4. CASE EndOfContent
  <2>1. /\ phase = "parsing" /\ rest = << >> /\ phase' = "extra" /\ rest' = Extra
        /\ subscription' = [disabled |-> FALSE, excluded |-> FALSE]
        /\ UNCHANGED <<file, persisted, parsed, disabled>>
    BY <1>4 DEF EndOfContent
  <2>2. ASSUME WellFormed PROVE ReadingExtra(0)'
    <3>1. PICK n \in 0..Len(file) : Reading(n)
      BY <2>1, <2>2 DEF ParserInv
    <3>2. n = Len(file)
      BY <2>1, <3>1, ReadAll DEF Reading, ParserInv
    <3>3. ReadTo(Len(file), 0)'
      <4>1. PICK k : k = Len(file)
        OBVIOUS
      <4>2. ReadTo(k, 0)
        BY <3>1, <3>2, <4>1 DEF Reading
      <4>3. ReadTo(k, 0)'
        BY <2>1, <4>2, SameReading
      <4> QED
        BY <2>1, <4>1, <4>3
    <3>4. Extra = SubSeq(Extra, 0 + 1, Len(Extra))
      BY FilterAssumption
    <3> QED
      BY <2>1, <3>3, <3>4 DEF ReadingExtra
  <2>3. 0 \in 0..Len(Extra)
    BY FilterAssumption
  <2>4. WellFormed' => WellFormed
    BY <2>1, SameFile
  <2> QED
    BY <2>1, <2>2, <2>3, <2>4 DEF ParserInv
<1>5. CASE EndOfExtra
  <2>1. /\ phase = "extra" /\ rest = << >> /\ phase' = "adding"
        /\ active' = {f \in parsed : ~disabled[f]}
        /\ UNCHANGED <<file, disabled>>
    BY <1>5 DEF EndOfExtra
  <2>2. ASSUME WellFormed PROVE active' = InForce
    <3>1. PICK m \in 0..Len(Extra) : ReadingExtra(m)
      BY <2>1, <2>2 DEF ParserInv
    <3>2. m = Len(Extra)
      BY <2>1, <3>1, ReadAll, FilterAssumption DEF ReadingExtra
    <3>3. ReadTo(Len(file), Len(Extra))
      BY <3>1, <3>2 DEF ReadingExtra
    <3> QED
      BY <2>1, <3>3, InForceAtEnd
  <2>3. InForce' = InForce /\ (WellFormed' => WellFormed)
    BY <2>1, SameFile
  <2> QED
    BY <2>1, <2>2, <2>3 DEF ParserInv
<1>6. CASE UNCHANGED <<file, disabled, active>> /\ phase' \in {"adding", "loaded"} /\ phase = "adding"
  <2>1. InForce' = InForce /\ (WellFormed' => WellFormed)
    BY <1>6, SameFile
  <2> QED
    BY <1>6, <2>1 DEF ParserInv
<1>7. ASSUME NEW f \in Filter, Add(f) PROVE ParserInv'
  BY <1>6, <1>7 DEF Add, parserVars
<1>8. CASE GenerateGeneralFilters
  BY <1>6, <1>8 DEF GenerateGeneralFilters, parserVars
<1>9. CASE UNCHANGED vars
  <2>1. UNCHANGED <<phase, file, rest, subscription, persisted, parsed, disabled, active>>
    BY <1>9 DEF vars, parserVars
  <2>2. InForce' = InForce /\ (WellFormed' <=> WellFormed)
    BY <2>1, SameFile
  <2>3. \A n : Reading(n)' <=> Reading(n)
    BY <2>1, SameReading DEF Reading
  <2>4. \A m : ReadingExtra(m) => ReadingExtra(m)'
    <3> SUFFICES ASSUME NEW m, ReadingExtra(m) PROVE ReadingExtra(m)'
      OBVIOUS
    <3>1. PICK k : k = Len(file)
      OBVIOUS
    <3>2. ReadTo(k, m)
      BY <3>1 DEF ReadingExtra
    <3>3. ReadTo(k, m)'
      BY <2>1, <3>2, SameReading
    <3>4. ReadTo(Len(file), m)'
      BY <2>1, <3>1, <3>3
    <3> QED
      BY <2>1, <3>4 DEF ReadingExtra
  <2> QED
    BY <2>1, <2>2, <2>3, <2>4 DEF ParserInv
<1> QED
  BY <1>1, <1>2, <1>3, <1>4, <1>5, <1>7, <1>8, <1>9 DEF Next

LEMMA ParserInvariant == Spec => [](IndexInv /\ ParserInv)
<1>1. Init => IndexInv /\ ParserInv
  BY IndexInit, ParserInit
<1>2. IndexInv /\ ParserInv /\ [Next]_vars => (IndexInv /\ ParserInv)'
  BY IndexStep, ParserStep
<1> QED
  BY <1>1, <1>2, PTL DEF Spec

\* A question whose domain and type are in range is answered from the texts as
\* from what the parser made of them.
LEMMA ScanAsWritten ==
  ASSUME NEW q, q.type \in Types, q.domain \in Domain, active \subseteq Filter, active = InForce
  PROVE  ActiveVerdict(q) = Scan(InForce, q, AsWritten)
<1>1. \A f \in Filter : Matches(f, q) <=> AsWritten(f, q)
  BY TypesAreAsked, DomainsAreAsked DEF Matches, AsWritten
<1> DEFINE hits == {f \in active : /\ Text[f].kind = "regexp"
                                  /\ ~(Text[f].white /\ Text[f].sitekeys)
                                  /\ ~OnlyForDNT(f, q) /\ Matches(f, q)}
           says == {f \in active : /\ Text[f].kind = "regexp"
                                  /\ ~(Text[f].white /\ Text[f].sitekeys)
                                  /\ ~OnlyForDNT(f, q) /\ AsWritten(f, q)}
<1>2. hits = says
  BY <1>1
<1>3. ActiveVerdict(q) = IF \E f \in hits : Text[f].white THEN "white"
                         ELSE IF hits # {} THEN "black" ELSE "none"
  BY DEF ActiveVerdict, Scan
<1>4. Scan(InForce, q, AsWritten) = IF \E f \in says : Text[f].white THEN "white"
                                    ELSE IF says # {} THEN "black" ELSE "none"
  BY DEF Scan
<1> QED
  BY <1>2, <1>3, <1>4

LEMMA VerdictsAsWritten ==
  ASSUME IndexInv, ParserInv, phase = "loaded", WellFormed
  PROVE  LET V(q) == Scan(InForce, q, AsWritten)
         IN /\ \A u, doc \in Url, type \in Types, third \in BOOLEAN :
                 MatchesAny(Query(u, type, DomainOf[doc], third)) = V(Query(u, type, DomainOf[doc], third))
            /\ \A u \in Url : MatchesAny(DNTQuery(u)) = V(DNTQuery(u))
            /\ \A doc \in Url, type \in Types :
                 MatchesAny(OfDocument(doc, type)) = V(OfDocument(doc, type))
<1>1. todo = {} /\ active \subseteq Filter /\ active = InForce
  BY DEF IndexInv, ParserInv
<1>2. ASSUME NEW u \in Url, NEW type \in Types, NEW d \in Domain, NEW third \in BOOLEAN
      PROVE  MatchesAny(Query(u, type, d, third)) = Scan(InForce, Query(u, type, d, third), AsWritten)
  <2> DEFINE q == Query(u, type, d, third)
  <2>1. q.url \in Url /\ q.type \in Types /\ q.domain \in Domain
    BY DEF Query
  <2> HIDE DEF q
  <2>2. MatchesAny(q) = ActiveVerdict(q)
    BY <1>1, <2>1, LookupIsScan
  <2>3. ActiveVerdict(q) = Scan(InForce, q, AsWritten)
    BY <1>1, <2>1, ScanAsWritten
  <2>4. MatchesAny(q) = Scan(InForce, q, AsWritten)
    BY <2>2, <2>3
  <2> QED
    BY <2>4 DEF q
<1>3. \A doc \in Url : DomainOf[doc] \in Domain
  BY FilterAssumption
<1>4. << >> \in Domain /\ "DONOTTRACK" \in Types
  BY DEF Domain, Types
<1>5. ASSUME NEW u \in Url PROVE MatchesAny(DNTQuery(u)) = Scan(InForce, DNTQuery(u), AsWritten)
  BY <1>2, <1>4 DEF DNTQuery
<1>6. ASSUME NEW doc \in Url, NEW type \in Types
      PROVE  MatchesAny(OfDocument(doc, type)) = Scan(InForce, OfDocument(doc, type), AsWritten)
  BY <1>2, <1>3 DEF OfDocument
<1> QED
  BY <1>2, <1>3, <1>5, <1>6

\* What is blocked is what the file says, whatever was loaded before, for all
\* filters, texts, URLs and files (INIParser, generateDomains, fromText and the
\* matchers together).
THEOREM BlocksWhatIsWritten == Spec => []BlocksAsWritten
<1>1. ASSUME IndexInv, ParserInv PROVE BlocksAsWritten
  <2> DEFINE V(q) == Scan(InForce, q, AsWritten)
  <2> SUFFICES ASSUME phase = "loaded", WellFormed PROVE BlocksAsWritten
    BY DEF BlocksAsWritten
  <2>1. /\ \A u, doc \in Url, type \in Types, third \in BOOLEAN :
              MatchesAny(Query(u, type, DomainOf[doc], third)) = V(Query(u, type, DomainOf[doc], third))
        /\ \A u \in Url : MatchesAny(DNTQuery(u)) = V(DNTQuery(u))
        /\ \A doc \in Url, type \in Types : MatchesAny(OfDocument(doc, type)) = V(OfDocument(doc, type))
    BY <1>1, VerdictsAsWritten
  <2>2. "DOCUMENT" \in Types
    BY DEF Types
  <2> HIDE DEF V
  <2>3. ASSUME NEW u \in Url, NEW doc \in Url, NEW type \in Types \ {"DONOTTRACK", "ELEMHIDE"},
               NEW third \in BOOLEAN
        PROVE  ShouldLoad(u, type, doc, third) =
                 Loads(V(OfDocument(doc, "DOCUMENT")), V(Query(u, type, DomainOf[doc], third)))
    BY <2>1, <2>2 DEF ShouldLoad
  <2>4. ASSUME NEW u \in Url
        PROVE  \A dnt \in BOOLEAN :
                 ShouldSendDNTHeader(u, dnt) = (dnt \/ SendsDNT(V(DNTQuery(u))))
    BY <2>1 DEF ShouldSendDNTHeader
  <2> QED
    BY <2>3, <2>4 DEF BlocksAsWritten, V
<1> QED
  BY <1>1, ParserInvariant, PTL
-----------------------------------------------------------------------------
(* Element hiding: what ElemHideMatcher holds at each moment of a load.    *)

Hides(f)   == Text[f].kind = "elemhide" /\ ~Text[f].white
Excepts(f) == Text[f].kind = "elemhide" /\ Text[f].white

ForAllPages(f) == Domains(f) = << >> /\ \A e \in exceptions : Text[e].selector # Text[f].selector

HideInv ==
  /\ phase \in {"parsing", "extra"} => byDomain = {} /\ exceptions = {} /\ general = {}
  /\ phase = "adding" =>
       /\ exceptions = {f \in active \ todo : Excepts(f)}
       /\ general = {}
       /\ \A s, f : <<s, f>> \in byDomain <=> f \in active \ todo /\ Hides(f) /\ s \in DomainLists(f)
  /\ phase = "loaded" =>
       /\ exceptions = {f \in active : Excepts(f)}
       /\ general = {f \in active : Hides(f) /\ ForAllPages(f)}
       /\ \A s, f : <<s, f>> \in byDomain <=>
                      f \in active /\ Hides(f) /\ s \in DomainLists(f) /\ ~(s = << >> /\ f \in general)

LEMMA HidingAdded ==
  ASSUME IndexInv, HideInv, NEW g \in Filter, Add(g) PROVE HideInv'
<1>1. /\ g \in todo /\ todo' = todo \ {g} /\ phase = "adding"
      /\ UNCHANGED <<phase, active>>
  BY DEF Add, parserVars
<1>2. active' \ todo' = (active \ todo) \cup {g}
  BY <1>1 DEF IndexInv
<1>3. Text[g].white \in BOOLEAN
  BY TextIs
<1>4. CASE Excepts(g)
  <2>1. exceptions' = exceptions \cup {g} /\ UNCHANGED <<byDomain, general>> /\ ~Hides(g)
    BY <1>4 DEF Add, AddRegExp, AddElemHide, Excepts, Hides
  <2> QED
    BY <1>1, <1>2, <1>4, <2>1 DEF HideInv
<1>5. CASE Hides(g)
  <2>1. byDomain' = byDomain \cup (DomainLists(g) \X {g}) /\ UNCHANGED <<exceptions, general>> /\ ~Excepts(g)
    BY <1>5 DEF Add, AddRegExp, AddElemHide, Excepts, Hides
  <2>2. ASSUME NEW s, NEW f
        PROVE  <<s, f>> \in byDomain' <=> f \in active' \ todo' /\ Hides(f) /\ s \in DomainLists(f)
    <3>1. <<s, f>> \in byDomain' <=> <<s, f>> \in byDomain \/ (f = g /\ s \in DomainLists(g))
      BY <2>1
    <3>2. <<s, f>> \in byDomain <=> f \in active \ todo /\ Hides(f) /\ s \in DomainLists(f)
      BY <1>1 DEF HideInv
    <3> QED
      BY <1>2, <1>5, <3>1, <3>2
  <2>3. exceptions' = {f \in active' \ todo' : Excepts(f)}
    BY <1>1, <1>2, <2>1 DEF HideInv
  <2> QED
    BY <1>1, <2>1, <2>2, <2>3 DEF HideInv
<1>6. CASE ~Excepts(g) /\ ~Hides(g)
  <2>1. UNCHANGED <<byDomain, exceptions, general>>
    BY <1>3, <1>6 DEF Add, AddRegExp, AddElemHide, Excepts, Hides, elemhideVars
  <2> QED
    BY <1>1, <1>2, <1>6, <2>1 DEF HideInv
<1> QED
  BY <1>4, <1>5, <1>6

LEMMA GeneralSplit ==
  ASSUME IndexInv, HideInv, GenerateGeneralFilters PROVE HideInv'
<1>1. /\ phase = "adding" /\ todo = {} /\ phase' = "loaded"
      /\ general' = {f \in Filter : <<<< >>, f>> \in byDomain /\ ForAllPages(f)}
      /\ byDomain' = byDomain \ ({<< >>} \X general')
      /\ UNCHANGED <<active, exceptions>>
  BY DEF GenerateGeneralFilters, ForAllPages
<1>2. \A s, f : <<s, f>> \in byDomain <=> f \in active /\ Hides(f) /\ s \in DomainLists(f)
  BY <1>1 DEF HideInv
<1>3. \A f : Domains(f) = << >> => << >> \in DomainLists(f)
  BY DEF DomainLists
<1>4. general' = {f \in active : Hides(f) /\ ForAllPages(f)}
  BY <1>1, <1>2, <1>3 DEF ForAllPages, IndexInv
<1>5. \A f : ForAllPages(f)' <=> ForAllPages(f)
  BY <1>1 DEF ForAllPages
<1>6. general' = {f \in active' : Hides(f) /\ ForAllPages(f)'}
  BY <1>1, <1>4, <1>5
<1>7. \A s, f : <<s, f>> \in byDomain' <=> <<s, f>> \in byDomain /\ ~(s = << >> /\ f \in general')
  BY <1>1
<1>8. exceptions' = {f \in active' : Excepts(f)}
  BY <1>1 DEF HideInv
<1> QED
  BY <1>1, <1>2, <1>6, <1>7, <1>8 DEF HideInv

LEMMA HideStep ==
  ASSUME IndexInv, HideInv, [Next]_vars PROVE HideInv'
<1>1. ASSUME NEW f \in Files, LoadFilterFile(f) PROVE HideInv'
  BY <1>1 DEF HideInv, LoadFilterFile, ClearMatchers
<1>2. CASE ClearFilters
  BY <1>2 DEF HideInv, ClearFilters
<1>3. CASE ReadSection
  BY <1>3 DEF HideInv, ReadSection, matcherVars, elemhideVars
<1>4. CASE EndOfContent
  BY <1>4 DEF HideInv, EndOfContent, matcherVars, elemhideVars
<1>5. CASE EndOfExtra
  BY <1>5 DEF HideInv, EndOfExtra, matcherVars, elemhideVars
<1>6. ASSUME NEW f \in Filter, Add(f) PROVE HideInv'
  BY <1>6, HidingAdded
<1>7. CASE GenerateGeneralFilters
  BY <1>7, GeneralSplit
<1>8. CASE UNCHANGED vars
  BY <1>8 DEF HideInv, ForAllPages, vars, parserVars, matcherVars, elemhideVars
<1> QED
  BY <1>1, <1>2, <1>3, <1>4, <1>5, <1>6, <1>7, <1>8 DEF Next

\* A filter that is active on a domain is in one of the lists looked at for it.
LEMMA ActiveIsListed ==
  ASSUME NEW f \in Filter, NEW d \in Domain, IsActiveOnDomain(f, d)
  PROVE  \E s \in Enclosing(d) : s \in DomainLists(f)
<1> DEFINE map   == Domains(f)
           named == {s \in Enclosing(d) : s \in DOMAIN map}
           s     == CHOOSE s \in named : \A t \in named : Len(t) <= Len(s)
<1>1. CASE map = << >>
  BY <1>1, SuffixIs DEF DomainLists
<1>2. CASE map # << >>
  <2>1. map[s]
    BY <1>2, Zenon DEF IsActiveOnDomain
  <2>2. Text[f].domains # << >>
    BY <1>2 DEF Domains
  <2>3. << >> \in DOMAIN map
    BY <2>2, DomainsAre DEF DomainsSo
  <2>4. DomainLists(f) = {t \in DOMAIN map : map[t]}
    BY <1>2 DEF DomainLists
  <2> HIDE DEF map
  <2>5. named \in SUBSET Enclosing(d) /\ << >> \in named
    BY <2>3, SuffixIs
  <2>6. s \in named
    BY <2>5, ClosestIs
  <2> HIDE DEF s
  <2> QED
    BY <2>1, <2>4, <2>6
<1> QED
  BY <1>1, <1>2

LEMMA HidesFollow ==
  ASSUME IndexInv, ParserInv, HideInv PROVE HidesAsWritten
<1> DEFINE V(q) == Scan(InForce, q, AsWritten)
           On(doc) == {f \in InForce : /\ Text[f].kind = "elemhide"
                                       /\ AsksForDomain(f, DomainOf[doc])}
           Covered(f, doc) == \E e \in On(doc) : /\ Text[e].white
                                                 /\ Text[e].selector = Text[f].selector
           Allowed(doc) == MayHide(V(OfDocument(doc, "DOCUMENT")), V(OfDocument(doc, "ELEMHIDE")))
           Left(doc) == {g \in On(doc) : ~Text[g].white /\ ~Covered(g, doc)}
<1> SUFFICES ASSUME phase = "loaded", WellFormed, NEW doc \in Url
             PROVE  GetElemHideStyles(doc) =
                      IF Allowed(doc) THEN {Text[f].selector : f \in Left(doc)} ELSE {}
  BY DEF HidesAsWritten
<1>1. HidingAllowed(doc) = Allowed(doc)
  <2>1. "DOCUMENT" \in Types /\ "ELEMHIDE" \in Types
    BY DEF Types
  <2>2. \A type \in Types : MatchesAny(OfDocument(doc, type)) = V(OfDocument(doc, type))
    BY VerdictsAsWritten
  <2> HIDE DEF V
  <2> QED
    BY <2>1, <2>2 DEF HidingAllowed
<1> DEFINE d == DomainOf[doc]
<1>2. d \in Domain /\ active = InForce /\ active \subseteq Filter
  BY FilterAssumption DEF IndexInv, ParserInv
<1>3. \A f \in active : IsActiveOnDomain(f, d) <=> AsksForDomain(f, d)
  BY <1>2, DomainsAreAsked
<1>4. /\ exceptions = {f \in active : Excepts(f)}
      /\ general = {f \in active : Hides(f) /\ ForAllPages(f)}
      /\ \A s, f : <<s, f>> \in byDomain <=>
                      f \in active /\ Hides(f) /\ s \in DomainLists(f) /\ ~(s = << >> /\ f \in general)
  BY DEF HideInv
<1>5. \A f \in active : Covered(f, doc) <=>
        \E e \in exceptions : Text[e].selector = Text[f].selector /\ IsActiveOnDomain(e, d)
  BY <1>2, <1>3, <1>4 DEF Excepts
<1>6. ASSUME NEW f \in Left(doc)
      PROVE  f \in FiltersForDomain(d) \cup general
  <2>1. f \in active /\ Hides(f) /\ IsActiveOnDomain(f, d) /\ ~Covered(f, doc) /\ f \in Filter
    BY <1>2, <1>3 DEF Hides
  <2>2. CASE f \in general
    BY <2>2
  <2>3. CASE f \notin general
    <3>1. \E s \in Enclosing(d) : <<s, f>> \in byDomain
      BY <1>2, <1>4, <2>1, <2>3, ActiveIsListed
    <3> QED
      BY <1>5, <2>1, <3>1 DEF FiltersForDomain
  <2> QED
    BY <2>2, <2>3
<1>7. ASSUME NEW f \in FiltersForDomain(d) \cup general
      PROVE  f \in Left(doc)
  <2>1. CASE f \in general
    <3>1. f \in active /\ Hides(f) /\ Domains(f) = << >>
      BY <1>4, <2>1 DEF ForAllPages
    <3>2. IsActiveOnDomain(f, d)
      BY <3>1 DEF IsActiveOnDomain
    <3>3. \A e \in exceptions : Text[e].selector # Text[f].selector
      BY <1>4, <2>1 DEF ForAllPages
    <3>4. ~Covered(f, doc)
      BY <1>5, <3>1, <3>3
    <3> QED
      BY <1>2, <1>3, <3>1, <3>2, <3>4 DEF Hides
  <2>2. CASE f \in FiltersForDomain(d)
    <3>1. f \in active /\ Hides(f) /\ IsActiveOnDomain(f, d)
      BY <1>4, <2>2 DEF FiltersForDomain
    <3>2. ~Covered(f, doc)
      BY <1>5, <2>2, <3>1 DEF FiltersForDomain
    <3> QED
      BY <1>2, <1>3, <3>1, <3>2 DEF Hides
  <2> QED
    BY <1>7, <2>1, <2>2
<1>8. FiltersForDomain(d) \cup general = Left(doc)
  BY <1>6, <1>7
<1>9. GetElemHideStyles(doc) =
        IF HidingAllowed(doc) THEN {Text[f].selector : f \in FiltersForDomain(d) \cup general} ELSE {}
  BY DEF GetElemHideStyles
<1> HIDE DEF Allowed, Left
<1> QED
  BY <1>1, <1>8, <1>9

\* The elements hidden are those the file says, for all filters, selectors, nested
\* domains and files: the lists per domain, the exceptions and the split into
\* general and per-domain styles lose and add nothing (ElemHideMatcher).
THEOREM HidesWhatIsWritten == Spec => []HidesAsWritten
<1>1. Init => HideInv
  BY DEF Init, HideInv
<1>2. (IndexInv /\ ParserInv) /\ HideInv /\ [Next]_vars => HideInv'
  BY HideStep
<1>3. (IndexInv /\ ParserInv) /\ HideInv => HidesAsWritten
  BY HidesFollow
<1>4. Spec => [](IndexInv /\ ParserInv)
  BY ParserInvariant
<1> QED
  BY <1>1, <1>2, <1>3, <1>4, PTL DEF Spec
=============================================================================
