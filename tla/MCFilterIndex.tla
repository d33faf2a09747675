--------------------------- MODULE MCFilterIndex ---------------------------
(* Filters, files and URLs for FilterIndex: filters that share keywords, have *)
(* none, or say what they apply to in several ways; element hiding filters    *)
(* with one selector on nested domains; one or two lists to a file.           *)
EXTENDS FilterIndex

RegExp(white, options, party, domains, hits, words) ==
  [kind |-> "regexp", white |-> white, protocol |-> FALSE, options |-> options,
   party |-> party, domains |-> domains, sitekeys |-> FALSE, hits |-> hits,
   words |-> words, selector |-> ""]
ElemHide(white, domains, selector) ==
  [RegExp(white, << >>, "any", domains, {}, {}) EXCEPT !.kind = "elemhide",
                                                       !.selector = selector]
Plus(t)  == [type |-> t, plus |-> TRUE]
Minus(t) == [type |-> t, plus |-> FALSE]
In(d)    == [name |-> d, include |-> TRUE]
Out(d)   == [name |-> d, include |-> FALSE]
A  == <<"a", "com">>
BA == <<"b", "a", "com">>

MCUrl == {"page", "ad", "safe"}
MCTokens == [page |-> {"page"}, ad |-> {"ads", "img"}, safe |-> {"ads", "donottrack"}]
MCDomainOf == [page |-> BA, ad |-> A, safe |-> << >>]
MCWord == {"ads", "img", "page", "donottrack"}

MCText ==
  [ads    |-> RegExp(FALSE, << >>, "third", <<In(A), Out(BA)>>, {"ad"}, {"ads", "img"}),
   ads2   |-> RegExp(FALSE, <<Minus("DOCUMENT"), Minus("SUBDOCUMENT")>>, "any", <<Out(A), In(BA)>>,
                     {"ad", "safe"}, {"ads"}),
   track  |-> RegExp(FALSE, <<Plus("DONOTTRACK"), Plus("SCRIPT")>>, "any", << >>, {"ad"}, {"img"}),
   track2 |-> RegExp(FALSE, <<Plus("DONOTTRACK"), Plus("SCRIPT")>>, "any", << >>, {"ad", "safe"}, {}),
   trust  |-> RegExp(TRUE, <<Plus("DOCUMENT")>>, "any", <<In(BA)>>, {"page"}, {"page"}),
   img    |-> RegExp(TRUE, << >>, "any", << >>, {"ad", "page"}, {}),
   signed |-> [RegExp(TRUE, << >>, "any", << >>, {"ad", "page"}, {}) EXCEPT !.sitekeys = TRUE],
   box    |-> ElemHide(FALSE, << >>, "box"),
   boxA   |-> ElemHide(FALSE, <<In(A), Out(BA)>>, "box"),
   pop    |-> ElemHide(FALSE, <<Out(BA), Out(<< >>)>>, "pop"),
   noBox  |-> ElemHide(TRUE, <<In(BA)>>, "box"),
   noLike |-> ElemHide(TRUE, << >>, "like"),
   like   |-> ElemHide(FALSE, << >>, "like")]
MCFilter == DOMAIN MCText

List(fs)  == [kind |-> "list", filters |-> fs]
Sub(d, x) == [kind |-> "subscription", disabled |-> d, excluded |-> x]
Say(f, d) == <<[kind |-> "filter", filter |-> f, disabled |-> d]>>

Lists == {{"ads", "ads2", "img"}, {"track2", "trust", "signed", "box"},
          {"track", "boxA", "noBox", "pop"}, {"pop", "like", "noBox", "trust"}}
Plain == Sub(FALSE, FALSE)
Subs  == {Plain, Sub(TRUE, FALSE), Sub(FALSE, TRUE)}
Said  == {<< >>, Say("ads", TRUE), Say("noBox", TRUE), Say("ads", TRUE) \o Say("ads", FALSE)}

\* A list, or one after another, with what the [Filter] sections say before the
\* subscription of the last; and files whose second list has no subscription.
MCFiles == {a \o <<s, List(l)>> : a \in Said, s \in Subs, l \in Lists}
      \cup {<<s, List(l)>> \o a \o <<Plain, List(k)>> : a \in Said, s \in Subs,
                                                         l \in Lists, k \in Lists}
      \cup {<<s, List({"ads"}), List(k)>> : s \in Subs, k \in Lists}
MCExtra == <<List({"noLike"})>>
=============================================================================
