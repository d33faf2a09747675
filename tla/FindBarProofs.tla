--------------------------- MODULE FindBarProofs ---------------------------
(***************************************************************************)
(* Proofs about FindBar, for pages of any documents and texts that match   *)
(* anywhere: a find selects the nearest visible match and reports it       *)
(* rightly, and the highlights are those of the present find.  The order   *)
(* of the module: what a find in progress keeps, the finds forwards and    *)
(* backwards, the loop of find previous, the highlights, and the steps.    *)
(***************************************************************************)
EXTENDS FindBar, WellFoundedInduction, TLAPS

(***************************************************************************)
(* What is known of the find bar whenever the window handles an event.     *)
(***************************************************************************)
Ranges == [a : Int, b : Int]

Bar == [inProgress : BOOLEAN, highlight : BOOLEAN, case : BOOLEAN, text : Texts,
        load : Nat, docs : Seq(Ranges), cur : Nat, changed : BOOLEAN, lastLen : {0, Size},
        found : BOOLEAN, head : BOOLEAN, tail : BOOLEAN]

\* Only the range of the current document has been moved, and that of the first one,
\* where a find starts, not before something has been found or looked for.
Ranged(f) ==
  /\ f.cur \in DOMAIN f.docs /\ f.docs[f.cur].a >= 0
  /\ \A d \in DOMAIN f.docs \ {f.cur} : f.docs[d] = Whole
  /\ ~f.changed => f.cur = 1 /\ f.docs[1].a = 0 /\ f.lastLen = 0
  /\ Len(f.docs) = Len(shown[f.load])

Placed(f) == f.load \in DOMAIN shown /\ (f.inProgress => Ranged(f))

\* A find, and one that searches the same documents for the same text.
SameFind(f, g) ==
  /\ g.inProgress = f.inProgress /\ g.highlight = f.highlight /\ g.case = f.case
  /\ g.text = f.text /\ g.load = f.load /\ Len(g.docs) = Len(f.docs)
-----------------------------------------------------------------------------
\* What the assumption says of the constants.
LEMMA Numbers == Size \in Nat /\ Size > 0 /\ L \in Nat /\ L >= Size /\ Whole \in Ranges
  BY FindAssumption DEF Whole, Ranges

\* The types of the members, one by one.
LEMMA BarIs ==
  ASSUME NEW f \in Bar
  PROVE  /\ f.docs \in Seq(Ranges) /\ f.cur \in Nat /\ f.load \in Nat /\ f.lastLen \in {0, Size}
         /\ f.inProgress \in BOOLEAN /\ f.highlight \in BOOLEAN /\ f.changed \in BOOLEAN
         /\ f.found \in BOOLEAN /\ f.head \in BOOLEAN /\ f.tail \in BOOLEAN
  BY Zenon DEF Bar

\* The current document is one of the page's.
LEMMA CurIs ==
  ASSUME NEW f \in Bar, f.cur \in DOMAIN f.docs
  PROVE  /\ Len(f.docs) \in Nat /\ DOMAIN f.docs = 1 .. Len(f.docs) /\ f.cur \in 1 .. Len(f.docs)
         /\ f.docs[f.cur] \in Ranges
  BY BarIs

\* Resetting the status leaves the find as it is, and nothing found.
LEMMA ClearIs ==
  ASSUME NEW f \in Bar
  PROVE  /\ Clear(f) \in Bar /\ SameFind(f, Clear(f)) /\ Clear(f).docs = f.docs
         /\ Clear(f).cur = f.cur /\ Clear(f).lastLen = f.lastLen /\ Clear(f).changed = f.changed
         /\ ~Clear(f).found /\ ~Clear(f).head /\ ~Clear(f).tail
  BY Zenon DEF Clear, Bar, SameFind

\* So does reporting success, and something found.
LEMMA GoodIs ==
  ASSUME NEW f \in Bar
  PROVE  /\ Good(f) \in Bar /\ SameFind(f, Good(f)) /\ Good(f).docs = f.docs
         /\ Good(f).cur = f.cur /\ Good(f).lastLen = f.lastLen /\ Good(f).changed = f.changed
         /\ Good(f).found /\ ~Good(f).head /\ ~Good(f).tail
  BY Zenon DEF Good, Bar, SameFind

\* ResetFindRange and FBCheckDocument: afterwards the find goes on with the documents
\* shown last, from the head of the first, or it is over.
LEMMA ResetIs ==
  ASSUME shown \in Seq(Seq(Document)), shown # << >>, NEW f \in Bar, NEW g, g = ResetFindRange(f)
  PROVE  /\ g \in Bar /\ g.highlight = f.highlight /\ g.case = f.case
         /\ g.inProgress => /\ f.inProgress /\ g.text = f.text /\ g.load = Len(shown)
                            /\ Len(g.docs) = Len(shown[Len(shown)])
                            /\ Ranged(g)
         /\ g.load \in {f.load, Len(shown)}
<1> DEFINE page == shown[Len(shown)]
           docs == [d \in DOMAIN page |-> Whole]
<1>1. page \in Seq(Document) /\ Len(shown) \in Nat
  OBVIOUS
<1>2. CASE page = << >>
  <2>1. g = EndFind(f)
    BY <1>2 DEF ResetFindRange
  <2>2. g \in Bar /\ ~g.inProgress /\ g.highlight = f.highlight /\ g.case = f.case /\ g.load = f.load
    <3>1. Clear(f) \in Bar /\ Clear(f).highlight = f.highlight /\ Clear(f).case = f.case
          /\ Clear(f).load = f.load
      BY ClearIs DEF SameFind
    <3>2. << >> \in Seq(Ranges) /\ "" \in Texts /\ 1 \in Nat
      BY DEF Texts
    <3> QED
      BY <2>1, <3>1, <3>2, Zenon DEF EndFind, Bar
  <2> QED
    BY <2>2
<1>3. CASE page # << >>
  <2>1. g = [Good(f) EXCEPT !.load = Len(shown), !.docs = docs,
                            !.cur = 1, !.changed = FALSE, !.lastLen = 0]
    BY <1>3 DEF ResetFindRange
  <2>2. docs \in Seq(Ranges) /\ Len(docs) = Len(page) /\ 1 \in DOMAIN docs
    <3>1. DOMAIN page = 1 .. Len(page) /\ Len(page) \in Nat /\ Len(page) > 0
      BY <1>1, <1>3
    <3>2. docs \in [1 .. Len(page) -> Ranges]
      BY <3>1, Numbers
    <3> QED
      BY <3>1, <3>2
  <2> HIDE DEF docs, page
  <2>3. /\ g \in Bar /\ g.inProgress = f.inProgress /\ g.highlight = f.highlight /\ g.case = f.case
        /\ g.text = f.text /\ g.load = Len(shown) /\ g.docs = docs /\ g.cur = 1 /\ g.lastLen = 0
    <3>1. Good(f) \in Bar /\ SameFind(f, Good(f)) /\ Len(shown) \in Nat /\ 1 \in Nat /\ 0 \in {0, Size}
      BY <1>1, GoodIs
    <3> QED
      BY <2>1, <2>2, <3>1, Zenon DEF Bar, SameFind
  <2>4. \A d \in DOMAIN docs : docs[d] = Whole
    BY DEF docs
  <2>5. Ranged(g)
    BY <2>2, <2>3, <2>4 DEF Ranged, Whole, page
  <2> QED
    BY <2>2, <2>3, <2>5 DEF page
<1> QED
  BY <1>2, <1>3

\* FBCheckDocument leaves the find as it is, or starts it again on the present page, which is
\* newer, as long as it is in progress.
LEMMA CheckIs ==
  ASSUME shown \in Seq(Seq(Document)), NEW f \in Bar, Placed(f), NEW g \in CheckDocument(f)
  PROVE  /\ g \in Bar /\ Placed(g) /\ g.highlight = f.highlight /\ g.case = f.case
         /\ g.inProgress => f.inProgress /\ g.text = f.text
         /\ f.load <= g.load
         /\ g = f \/ (g.inProgress => f.load < g.load)
<1>1. f.load \in 1 .. Len(shown) /\ Len(shown) \in Nat
  BY DEF Placed
<1>2. CASE g = f
  BY <1>1, <1>2
<1>3. CASE f.load # Len(shown) /\ g = ResetFindRange(f)
  <2>1. shown # << >> /\ f.load < Len(shown)
    BY <1>1, <1>3
  <2>2. /\ g \in Bar /\ g.highlight = f.highlight /\ g.case = f.case
        /\ g.inProgress => f.inProgress /\ g.text = f.text /\ g.load = Len(shown) /\ Ranged(g)
        /\ g.load \in {f.load, Len(shown)}
    BY <1>3, <2>1, ResetIs
  <2> QED
    BY <1>1, <2>1, <2>2 DEF Placed
<1> QED
  BY <1>2, <1>3 DEF CheckDocument

\* What a find of a text matches is the same as long as it searches the same documents.
LEMMA SameMatches ==
  ASSUME NEW f, NEW g, SameFind(f, g)
  PROVE  \A d : Matches(g, d) = Matches(f, d) /\ Seen(g, d) = Seen(f, d)
  BY DEF SameFind, Matches, Seen

\* A find of the same text in the same documents matches in the same places.
LEMMA SamePlaces ==
  ASSUME NEW f \in Bar, NEW g \in Bar, SameFind(f, g)
  PROVE  AllMatches(g) = AllMatches(f) /\ Places(g) = Places(f) /\ Visible(g) = Visible(f)
<1>1. DOMAIN g.docs = DOMAIN f.docs
  BY DEF SameFind, Bar
<1>2. \A d : Matches(g, d) = Matches(f, d) /\ Seen(g, d) = Seen(f, d)
  BY SameMatches
<1>3. g.load = f.load
  BY DEF SameFind
<1> QED
  <2>1. Places(g) = Places(f)
    BY <1>1 DEF Places
  <2>2. Visible(g) = Visible(f)
    BY <1>2, <2>1 DEF Visible
  <2>3. AllMatches(g) = AllMatches(f)
    BY <1>1, <1>2, <1>3 DEF AllMatches
  <2> QED
    BY <2>1, <2>2, <2>3
-----------------------------------------------------------------------------
(***************************************************************************)
(* FBFindAgainInternal.  First the order in which it goes through the      *)
(* documents, and what it may end at in each of them.                      *)
(***************************************************************************)
\* The range the find starts from, the last document it may go on to, and what it may
\* find in the document k steps on.
Start(f, back)     == Pass(Stretch(f.docs[f.cur], back), f.lastLen, back)
LastHop(f)         == IF f.changed THEN Len(f.docs) ELSE Len(f.docs) - 1
Sought(f, k, back) == Hits(f, Hop(f, k, back), Range0(f, Start(f, back), k, back), back)

\* A set of numbers that is not empty has a least one.
LEMMA LeastOf ==
  ASSUME NEW S \in SUBSET Nat, S # {}
  PROVE  Min(S) \in S /\ \A y \in S : Min(S) <= y
<1> DEFINE R == {p \in Nat \X Nat : p[1] < p[2]}
<1>1. IsWellFoundedOn(R, Nat)
  BY NatLessThanWellFounded, Zenon DEF OpToRel
<1> HIDE DEF R
<1>2. PICK x \in S : \A y \in S : <<y, x>> \notin R
  BY <1>1, WFMin
<1>3. ASSUME NEW y \in S
      PROVE  x <= y
  <2>1. x \in Nat /\ y \in Nat /\ <<y, x>> \notin R
    BY <1>2
  <2> QED
    BY <2>1 DEF R
<1> QED
  BY <1>2, <1>3 DEF Min

\* The remainder of what is at most one n off.
LEMMA Modulo ==
  ASSUME NEW n \in Nat, NEW a \in Int
  PROVE  /\ 0 <= a /\ a < n => a % n = a
         /\ n <= a /\ a < n + n => a % n = a - n
         /\ -n <= a /\ a < 0 => a % n = a + n
<1>1. CASE 0 <= a /\ a < n
  BY <1>1
<1>2. CASE n <= a /\ a < n + n
  BY <1>2
<1>3. CASE -n <= a /\ a < 0
  BY <1>3
<1> QED
  BY <1>1, <1>2, <1>3

\* k steps on from c, in a circle of n.
Turn(n, c, k) == ((c - 1 + k) % n) + 1
Back(n, c, k) == ((c - 1 + (-k)) % n) + 1

TurnsAt(n, c, k) ==
  /\ c + k <= n => Turn(n, c, k) = c + k
  /\ c + k > n => Turn(n, c, k) = (c + k) - n
  /\ k < c => Back(n, c, k) = c - k
  /\ k >= c => Back(n, c, k) = (c - k) + n
  /\ Turn(n, c, k) \in 1 .. n /\ Back(n, c, k) \in 1 .. n
  /\ k # 0 /\ k # n => Turn(n, c, k) # c /\ Back(n, c, k) # c

\* One round of the circle, in either direction, meets everyone.
LEMMA Circle ==
  ASSUME NEW n \in Nat, NEW c \in 1 .. n, NEW k \in 0 .. n
  PROVE  TurnsAt(n, c, k)
<1>1. c - 1 + k \in Int /\ c - 1 + (-k) \in Int
  OBVIOUS
<1>2. ASSUME c + k <= n PROVE Turn(n, c, k) = c + k
  <2>1. 0 <= c - 1 + k /\ c - 1 + k < n
    BY <1>2
  <2>2. (c - 1 + k) % n = c - 1 + k
    BY <1>1, <2>1, Modulo, Zenon
  <2> QED
    BY <2>2 DEF Turn
<1>3. ASSUME c + k > n PROVE Turn(n, c, k) = (c + k) - n
  <2>1. n <= c - 1 + k /\ c - 1 + k < n + n
    BY <1>3
  <2>2. (c - 1 + k) % n = (c - 1 + k) - n
    BY <1>1, <2>1, Modulo, Zenon
  <2> QED
    BY <2>2 DEF Turn
<1>4. ASSUME k < c PROVE Back(n, c, k) = c - k
  <2>1. 0 <= c - 1 + (-k) /\ c - 1 + (-k) < n
    BY <1>4
  <2>2. (c - 1 + (-k)) % n = c - 1 + (-k)
    BY <1>1, <2>1, Modulo, Zenon
  <2> QED
    BY <2>2 DEF Back
<1>5. ASSUME k >= c PROVE Back(n, c, k) = c - k + n
  <2>1. -n <= c - 1 + (-k) /\ c - 1 + (-k) < 0
    BY <1>5
  <2>2. (c - 1 + (-k)) % n = c - 1 + (-k) + n
    BY <1>1, <2>1, Modulo, Zenon
  <2> QED
    BY <2>2 DEF Back
<1> QED
  BY <1>2, <1>3, <1>4, <1>5 DEF TurnsAt

\* The k-th document from the current one, and when the way to it passes an end of the page.
LEMMA HopIs ==
  ASSUME NEW f \in Bar, f.cur \in DOMAIN f.docs, NEW k \in 0 .. Len(f.docs)
  PROVE  /\ Len(f.docs) \in Nat /\ f.cur \in 1 .. Len(f.docs)
         /\ f.cur + k <= Len(f.docs) => Hop(f, k, FALSE) = f.cur + k
         /\ f.cur + k > Len(f.docs) => Hop(f, k, FALSE) = (f.cur + k) - Len(f.docs)
         /\ k < f.cur => Hop(f, k, TRUE) = f.cur - k
         /\ k >= f.cur => Hop(f, k, TRUE) = (f.cur - k) + Len(f.docs)
         /\ Wraps(f, k, FALSE) <=> f.cur + k > Len(f.docs)
         /\ Wraps(f, k, TRUE) <=> k >= f.cur
         /\ \A back \in BOOLEAN :
              /\ Hop(f, k, back) \in 1 .. Len(f.docs) /\ Hop(f, k, back) \in DOMAIN f.docs
              /\ k # 0 /\ k # Len(f.docs) => Hop(f, k, back) # f.cur
<1>1. Len(f.docs) \in Nat /\ f.cur \in 1 .. Len(f.docs) /\ DOMAIN f.docs = 1 .. Len(f.docs)
  BY CurIs
<1>2. Hop(f, k, FALSE) = Turn(Len(f.docs), f.cur, k) /\ Hop(f, k, TRUE) = Back(Len(f.docs), f.cur, k)
  BY DEF Hop, Turn, Back
<1>3. /\ f.cur + k <= Len(f.docs) => Turn(Len(f.docs), f.cur, k) = f.cur + k
      /\ f.cur + k > Len(f.docs) => Turn(Len(f.docs), f.cur, k) = (f.cur + k) - Len(f.docs)
      /\ k < f.cur => Back(Len(f.docs), f.cur, k) = f.cur - k
      /\ k >= f.cur => Back(Len(f.docs), f.cur, k) = (f.cur - k) + Len(f.docs)
      /\ Turn(Len(f.docs), f.cur, k) \in 1 .. Len(f.docs)
      /\ Back(Len(f.docs), f.cur, k) \in 1 .. Len(f.docs)
      /\ k # 0 /\ k # Len(f.docs) =>
           Turn(Len(f.docs), f.cur, k) # f.cur /\ Back(Len(f.docs), f.cur, k) # f.cur
  <2>1. TurnsAt(Len(f.docs), f.cur, k)
    BY <1>1, Circle
  <2> QED
    BY <2>1, Zenon DEF TurnsAt
<1>4. (Wraps(f, k, FALSE) <=> f.cur + k > Len(f.docs)) /\ (Wraps(f, k, TRUE) <=> k >= f.cur)
  BY DEF Wraps
<1>5. ASSUME NEW back \in BOOLEAN
      PROVE  /\ Hop(f, k, back) \in 1 .. Len(f.docs)
             /\ k # 0 /\ k # Len(f.docs) => Hop(f, k, back) # f.cur
  <2>1. back = TRUE \/ back = FALSE
    OBVIOUS
  <2> QED
    BY <1>2, <1>3, <2>1, Zenon
<1> QED
  BY <1>1, <1>2, <1>3, <1>4, <1>5, Zenon

PassedTo(q, len) ==
  /\ Pass(q, len, FALSE) \in Ranges /\ Pass(q, len, FALSE).b = q.b
  /\ len = 0 => Pass(q, len, FALSE).a = q.a
  /\ len # 0 => Pass(q, len, FALSE).a = q.a + 1
  /\ Pass(q, len, TRUE) \in Ranges /\ Pass(q, len, TRUE).a = q.a
  /\ len = Size => Pass(q, len, TRUE).b = q.b - 1

\* A range is moved one position past the last match, if there was one.
LEMMA PassIs ==
  ASSUME NEW q \in Ranges, NEW len \in {0, Size}
  PROVE  PassedTo(q, len)
  BY Numbers DEF PassedTo, Pass, Ranges

\* Where the range of the document k steps on begins and ends.
Starts(f) ==
  /\ Cursor(f)[1] = f.cur /\ Cursor(f)[2] \in Nat
  /\ Start(f, FALSE) \in Ranges /\ Start(f, FALSE).a = Cursor(f)[2]
  /\ Start(f, TRUE) \in Ranges /\ Start(f, TRUE).a = 0
  /\ f.lastLen = Size => Start(f, TRUE).b = f.docs[f.cur].b - 1

RangesAt(f, k) ==
  /\ k = 0 => Range0(f, Start(f, FALSE), k, FALSE).a = Cursor(f)[2]
  /\ k # 0 => Range0(f, Start(f, FALSE), k, FALSE).a = 0
  /\ Range0(f, Start(f, FALSE), k, FALSE).b = L
  /\ k # 0 => Range0(f, Start(f, TRUE), k, TRUE) = Whole
  /\ k = 0 => Range0(f, Start(f, TRUE), k, TRUE) = Start(f, TRUE)

\* The first range starts at the cursor, those of the other documents are whole.
LEMMA RangesSought ==
  ASSUME NEW f \in Bar, Ranged(f), NEW k \in 0 .. Len(f.docs)
  PROVE  Starts(f) /\ RangesAt(f, k)
<1> DEFINE r == f.docs[f.cur]
<1>1. r \in Ranges /\ r.a >= 0 /\ L \in Int /\ Size > 0 /\ Size \in Nat /\ f.lastLen \in {0, Size}
  BY Numbers, BarIs, CurIs DEF Ranged
<1> HIDE DEF r
<1>2. /\ Stretch(r, FALSE) \in Ranges /\ Stretch(r, FALSE).a = r.a /\ Stretch(r, FALSE).b = L
      /\ Stretch(r, TRUE) \in Ranges /\ Stretch(r, TRUE).a = 0 /\ Stretch(r, TRUE).b = r.b
  BY <1>1 DEF Stretch, Ranges
<1>3. /\ Start(f, FALSE) \in Ranges /\ Start(f, FALSE).b = L
      /\ f.lastLen = 0 => Start(f, FALSE).a = r.a
      /\ f.lastLen # 0 => Start(f, FALSE).a = r.a + 1
      /\ Start(f, TRUE) \in Ranges /\ Start(f, TRUE).a = 0
      /\ f.lastLen = Size => Start(f, TRUE).b = r.b - 1
  <2>1. Start(f, FALSE) = Pass(Stretch(r, FALSE), f.lastLen, FALSE)
        /\ Start(f, TRUE) = Pass(Stretch(r, TRUE), f.lastLen, TRUE)
    BY DEF Start, r
  <2>2. f.lastLen \in {0, Size} /\ Stretch(r, FALSE) \in Ranges /\ Stretch(r, TRUE) \in Ranges
    BY <1>1, <1>2
  <2>3. /\ Start(f, FALSE) \in Ranges /\ Start(f, FALSE).b = Stretch(r, FALSE).b
        /\ f.lastLen = 0 => Start(f, FALSE).a = Stretch(r, FALSE).a
        /\ f.lastLen # 0 => Start(f, FALSE).a = Stretch(r, FALSE).a + 1
        /\ Start(f, TRUE) \in Ranges /\ Start(f, TRUE).a = Stretch(r, TRUE).a
        /\ f.lastLen = Size => Start(f, TRUE).b = Stretch(r, TRUE).b - 1
    <3>1. PassedTo(Stretch(r, FALSE), f.lastLen) /\ PassedTo(Stretch(r, TRUE), f.lastLen)
      BY <2>2, PassIs
    <3> QED
      BY <2>1, <3>1, Zenon DEF PassedTo
  <2> QED
    BY <1>2, <2>3, Zenon
<1>4. /\ Cursor(f)[1] = f.cur
      /\ f.lastLen = 0 => Cursor(f)[2] = r.a + 0
      /\ f.lastLen # 0 => Cursor(f)[2] = r.a + 1
  BY DEF Cursor, r
<1>5. Cursor(f)[2] \in Nat /\ Start(f, FALSE).a = Cursor(f)[2]
  <2>1. r.a + 0 = r.a /\ r.a \in Nat /\ r.a + 1 \in Nat
    BY <1>1 DEF Ranges
  <2> QED
    BY <1>3, <1>4, <2>1, Zenon
<1>6. Whole.a = 0 /\ Whole.b = L /\ Stretch(Whole, FALSE) = Whole /\ Stretch(Whole, TRUE) = Whole
  BY DEF Whole, Stretch
<1>7. Starts(f)
  BY <1>3, <1>4, <1>5 DEF Starts, r
<1>8. Start(f, FALSE).b = L
  BY <1>3
<1>9. CASE k = 0
  BY <1>5, <1>7, <1>8, <1>9 DEF Range0, RangesAt
<1>10. CASE k # 0 /\ k = Len(f.docs)
  BY <1>6, <1>7, <1>10 DEF Range0, RangesAt
<1>11. CASE k # 0 /\ k # Len(f.docs)
  <2>1. \A back \in BOOLEAN : Hop(f, k, back) \in DOMAIN f.docs \ {f.cur}
    BY <1>11, HopIs DEF Ranged
  <2>2. \A back \in BOOLEAN : f.docs[Hop(f, k, back)] = Whole
    BY <2>1 DEF Ranged
  <2> QED
    BY <1>6, <1>7, <1>11, <2>2 DEF Range0, RangesAt
<1> QED
  BY <1>9, <1>10, <1>11
-----------------------------------------------------------------------------
\* A match lies within its document, and what a user can see is a match.
LEMMA MatchesIn ==
  ASSUME NEW f, NEW d
  PROVE  /\ Matches(f, d) \in SUBSET Nat /\ Seen(f, d) \subseteq Matches(f, d)
         /\ \A p \in Matches(f, d) : p \in Pos /\ p >= 0 /\ p + Size <= L /\ p # None
<1>1. Matches(f, d) \subseteq Pos /\ Seen(f, d) \subseteq Matches(f, d)
  BY DEF Matches, Seen
<1>2. ASSUME NEW p \in Pos
      PROVE  p \in Nat /\ p >= 0 /\ p + Size <= L /\ p # None
  BY Numbers DEF Pos, None
<1> QED
  BY <1>1, <1>2

\* The range of a match.
LEMMA AtIs ==
  ASSUME NEW p \in Nat
  PROVE  At(p) \in Ranges /\ At(p).a = p /\ At(p).b = p + Size
<1>1. p + Size \in Int /\ p \in Int
  BY Numbers
<1> QED
  BY <1>1 DEF At, Ranges

\* Forwards: the first match in the range that can be seen.
LEMMA HitsForward ==
  ASSUME NEW f, NEW d, NEW r, r.a \in Nat, r.b = L, NEW q \in Hits(f, d, r, FALSE)
  PROVE  \/ q = None /\ \A p \in Seen(f, d) : p < r.a
         \/ /\ q \in Seen(f, d) /\ r.a <= q /\ q # None
            /\ \A p \in Seen(f, d) : r.a <= p => q <= p
<1> DEFINE in  == {p \in Matches(f, d) : p >= r.a /\ p + Size <= r.b}
           see == in \cap Seen(f, d)
<1>1. Hits(f, d, r, FALSE) = IF see = {} THEN {None} ELSE {Min(see)}
  BY DEF Hits
<1>2. see \in SUBSET Nat /\ \A p \in Seen(f, d) : p \in Nat /\ (p \in see <=> r.a <= p)
  BY MatchesIn
<1>3. CASE see = {}
  <2>1. q = None
    BY <1>1, <1>3
  <2> HIDE DEF see, in
  <2>2. \A p \in Seen(f, d) : p < r.a
    BY <1>2, <1>3
  <2> QED
    BY <2>1, <2>2
<1>4. CASE see # {}
  <2>1. q = Min(see)
    BY <1>1, <1>4
  <2> HIDE DEF see, in
  <2>2. q \in see /\ \A p \in see : q <= p
    BY <1>2, <1>4, <2>1, LeastOf
  <2>3. q \in Seen(f, d)
    BY <2>2 DEF see
  <2>4. q # None
    BY <2>3, MatchesIn
  <2> QED
    BY <1>2, <2>2, <2>3, <2>4
<1> QED
  BY <1>3, <1>4

\* Backwards: some match in the range that can be seen, if there is one and no hidden match.
LEMMA HitsBack ==
  ASSUME NEW f, NEW d, NEW r, r.a \in Int, r.b \in Int
  PROVE  /\ \A q \in Hits(f, d, r, TRUE) \ {None} : q \in Seen(f, d) /\ r.a <= q /\ q + Size <= r.b
         /\ None \in Hits(f, d, r, TRUE) /\ Matches(f, d) = Seen(f, d) =>
              \A p \in Seen(f, d) : ~(r.a <= p /\ p + Size <= r.b)
<1> DEFINE in  == {p \in Matches(f, d) : p >= r.a /\ p + Size <= r.b}
           see == in \cap Seen(f, d)
<1>1. Hits(f, d, r, TRUE) = see \cup (IF in = {} \/ Min(in) \notin see THEN {None} ELSE {})
  BY DEF Hits
<1>2. \A q \in Hits(f, d, r, TRUE) \ {None} : q \in see
  BY <1>1
<1>3. ASSUME None \in Hits(f, d, r, TRUE), Matches(f, d) = Seen(f, d), NEW p \in Seen(f, d)
      PROVE  ~(r.a <= p /\ p + Size <= r.b)
  <2>1. None \notin see
    BY MatchesIn
  <2>2. in = {} \/ Min(in) \notin see
    BY <1>1, <1>3, <2>1
  <2>3. in = see /\ in \in SUBSET Nat
    BY <1>3, MatchesIn
  <2>4. in = {}
    BY <2>2, <2>3, LeastOf
  <2>5. p \in Nat /\ p \in Matches(f, d)
    BY MatchesIn
  <2> QED
    BY <2>4, <2>5, Numbers
<1>4. \A q \in see : q \in Nat /\ q \in Seen(f, d) /\ r.a <= q /\ q + Size <= r.b
  BY MatchesIn
<1> QED
  BY <1>2, <1>3, <1>4
-----------------------------------------------------------------------------
\* Searched: the find is left in document d, the ranges of the others are whole.
Leaves(f, g, k, d, r, back) ==
  /\ g \in Bar /\ SameFind(f, g) /\ DOMAIN g.docs = DOMAIN f.docs
  /\ g.cur = d /\ g.docs[d] = r /\ g.changed /\ g.found = f.found /\ g.lastLen = f.lastLen
  /\ \A e \in DOMAIN f.docs \ {d} : g.docs[e] = Whole
  /\ g.head <=> f.head \/ (back /\ Wraps(f, k, back))
  /\ g.tail <=> f.tail \/ (~back /\ Wraps(f, k, back))

\* What Searched leaves.
LEMMA SearchedIs ==
  ASSUME NEW f \in Bar, Ranged(f), NEW k \in 0 .. Len(f.docs), NEW d \in DOMAIN f.docs,
         NEW r \in Ranges, NEW back \in BOOLEAN
  PROVE  Leaves(f, Searched(f, k, d, r, back), k, d, r, back)
<1> DEFINE docs == [e \in DOMAIN f.docs |->
                      IF e = d THEN r
                      ELSE IF e = f.cur THEN Whole
                      ELSE IF \E j \in 1 .. k : e = Hop(f, j, back) THEN Stretch(f.docs[e], back)
                      ELSE f.docs[e]]
           head == f.head \/ (back /\ Wraps(f, k, back))
           tail == f.tail \/ (~back /\ Wraps(f, k, back))
           g == Searched(f, k, d, r, back)
<1>1. Stretch(Whole, back) = Whole
  BY DEF Stretch, Whole
<1>2. \A e \in DOMAIN f.docs \ {d} : docs[e] = Whole
  BY <1>1 DEF Ranged
<1>3. docs[d] = r /\ DOMAIN docs = DOMAIN f.docs
  OBVIOUS
<1>4. docs \in Seq(Ranges) /\ Len(docs) = Len(f.docs)
  <2>1. f.docs \in Seq(Ranges)
    BY BarIs
  <2>2. docs = [e \in DOMAIN f.docs |-> docs[e]]
    BY <1>3
  <2>3. \A e \in DOMAIN f.docs : docs[e] \in Ranges
    BY <1>2, <1>3, Numbers
  <2> HIDE DEF docs
  <2>4. DOMAIN f.docs = 1 .. Len(f.docs) /\ Len(f.docs) \in Nat
    BY <2>1
  <2>5. docs \in [1 .. Len(f.docs) -> Ranges]
    BY <2>2, <2>3, <2>4
  <2> QED
    BY <2>4, <2>5
<1>5. head \in BOOLEAN /\ tail \in BOOLEAN /\ d \in Nat
  BY DEF Bar, Wraps
<1>6. g = [f EXCEPT !.cur = d, !.changed = TRUE, !.docs = docs, !.head = head, !.tail = tail]
  BY Zenon DEF Searched, Bar
<1> HIDE DEF docs, head, tail, g
<1>7. /\ g \in Bar /\ g.cur = d /\ g.changed = TRUE /\ g.docs = docs /\ g.head = head /\ g.tail = tail
      /\ g.inProgress = f.inProgress /\ g.highlight = f.highlight /\ g.case = f.case
      /\ g.text = f.text /\ g.load = f.load /\ g.found = f.found /\ g.lastLen = f.lastLen
  BY <1>4, <1>5, <1>6, Zenon DEF Bar
<1>8. SameFind(f, g)
  BY <1>4, <1>7 DEF SameFind
<1> QED
  BY <1>2, <1>3, <1>7, <1>8 DEF Leaves, head, tail, g
-----------------------------------------------------------------------------
Textual(f) == f.text # ""

\* A find that is left at the match x.
AtMatch(f, g, x) ==
  /\ g \in Bar /\ SameFind(f, g) /\ DOMAIN g.docs = DOMAIN f.docs
  /\ g.cur = x[1] /\ g.docs[x[1]] = At(x[2]) /\ g.changed /\ g.found /\ g.lastLen = Size
  /\ \A e \in DOMAIN f.docs \ {x[1]} : g.docs[e] = Whole

\* A find that has found nothing, and goes on where the range of the current one ends.
Nowhere(f, g, r) ==
  /\ g \in Bar /\ SameFind(f, g) /\ DOMAIN g.docs = DOMAIN f.docs
  /\ g.cur = f.cur /\ g.docs[f.cur] = r /\ g.changed /\ g.found = f.found /\ g.lastLen = 0
  /\ \A e \in DOMAIN f.docs \ {f.cur} : g.docs[e] = Whole

\* What may be found in the document k steps on.
LEMMA SoughtIs ==
  ASSUME NEW f \in Bar, Ranged(f), NEW k \in 0 .. Len(f.docs), NEW back \in BOOLEAN,
         NEW p \in Sought(f, k, back) \ {None}
  PROVE  p \in Seen(f, Hop(f, k, back))
<1>1. CASE back
  <2>1. Start(f, TRUE) \in Ranges /\ Whole \in Ranges
    BY RangesSought, Numbers DEF Starts
  <2>2. Range0(f, Start(f, TRUE), k, TRUE) \in Ranges
    BY <2>1, RangesSought DEF RangesAt
  <2> QED
    BY <1>1, <2>2, HitsBack DEF Sought, Ranges
<1>2. CASE ~back
  <2>1. /\ Range0(f, Start(f, FALSE), k, FALSE).a \in Nat
        /\ Range0(f, Start(f, FALSE), k, FALSE).b = L
    <3>1. Starts(f) /\ RangesAt(f, k)
      BY RangesSought
    <3>2. 0 \in Nat
      OBVIOUS
    <3> QED
      BY <3>1, <3>2, Zenon DEF RangesAt, Starts
  <2> QED
    BY <1>2, <2>1, HitsForward DEF Sought
<1> QED
  BY <1>1, <1>2

\* The documents a find goes through: all of them, and the current one again if its range has moved.
LEMMA LastIs ==
  ASSUME NEW f \in Bar, Ranged(f)
  PROVE  /\ Len(f.docs) \in Nat /\ f.cur \in 1 .. Len(f.docs) /\ f.cur \in DOMAIN f.docs
         /\ LastHop(f) \in Nat /\ LastHop(f) <= Len(f.docs)
         /\ f.changed => LastHop(f) = Len(f.docs)
         /\ ~f.changed => LastHop(f) = Len(f.docs) - 1
<1>1. Len(f.docs) \in Nat /\ f.cur \in 1 .. Len(f.docs) /\ f.cur \in DOMAIN f.docs
  BY CurIs DEF Ranged
<1>2. CASE f.changed
  BY <1>1, <1>2 DEF LastHop
<1>3. CASE ~f.changed
  BY <1>1, <1>3 DEF LastHop
<1> QED
  BY <1>2, <1>3

\* The find ends in the first document that it may find something in, or it has found
\* nothing in any.
LEMMA AgainIs ==
  ASSUME NEW f \in Bar, Ranged(f), Textual(f), NEW back \in BOOLEAN, Start(f, back) \in Ranges,
         NEW g \in FindAgainInternal(f, back)
  PROVE  \/ \E k \in 0 .. LastHop(f) : \E p \in Sought(f, k, back) \ {None} :
              /\ k \in 0 .. Len(f.docs)
              /\ \A j \in 0 .. (k - 1) : None \in Sought(f, j, back)
              /\ AtMatch(f, g, <<Hop(f, k, back), p>>)
              /\ g.head <=> f.head \/ (back /\ Wraps(f, k, back))
              /\ g.tail <=> f.tail \/ (~back /\ Wraps(f, k, back))
         \/ /\ \A k \in 0 .. LastHop(f) : None \in Sought(f, k, back)
            /\ Nowhere(f, g, Collapse(Start(f, back), back))
            /\ ~back => g.head = f.head
            /\ back => g.tail = f.tail
<1> DEFINE r == Start(f, back)
           hits == [k \in 0 .. LastHop(f) |-> Sought(f, k, back)]
           reached == {k \in 0 .. LastHop(f) : \A j \in 0 .. (k - 1) : None \in hits[j]}
           S(k, p) == Searched(f, k, Hop(f, k, back), At(p), back)
           T == Searched(f, Len(f.docs), f.cur, Collapse(r, back), back)
<1>1. /\ Len(f.docs) \in Nat /\ f.cur \in 1 .. Len(f.docs) /\ f.cur \in DOMAIN f.docs
      /\ LastHop(f) \in Nat /\ LastHop(f) <= Len(f.docs)
  BY LastIs
<1>2. FindAgainInternal(f, back) =
        (UNION {{[S(k, p) EXCEPT !.found = TRUE, !.lastLen = Size] : p \in hits[k] \ {None}} : k \in reached})
        \cup (IF \A k \in 0 .. LastHop(f) : None \in hits[k] THEN {[T EXCEPT !.lastLen = 0]} ELSE {})
  BY Zenon DEF FindAgainInternal, Textual, Start, Sought, LastHop
<1> HIDE DEF r, S, T, hits, reached
<1>3. CASE \E k \in reached : \E p \in hits[k] \ {None} : g = [S(k, p) EXCEPT !.found = TRUE, !.lastLen = Size]
  <2>0. PICK k \in reached : \E p \in hits[k] \ {None} : g = [S(k, p) EXCEPT !.found = TRUE, !.lastLen = Size]
    BY <1>3, Zenon
  <2>1. PICK p \in hits[k] \ {None} : g = [S(k, p) EXCEPT !.found = TRUE, !.lastLen = Size]
    BY <2>0, Zenon
  <2>2. k \in 0 .. LastHop(f) /\ \A j \in 0 .. (k - 1) : None \in hits[j]
    BY DEF reached
  <2>3. \A j \in 0 .. (k - 1) : j \in 0 .. LastHop(f)
    BY <1>1, <2>2
  <2>4. k \in 0 .. Len(f.docs)
    BY <1>1, <2>2
  <2>9. \A j \in 0 .. (k - 1) : None \in Sought(f, j, back)
    BY <2>2, <2>3 DEF hits
  <2>10. p \in Sought(f, k, back) \ {None}
    BY <2>2 DEF hits
  <2>5. Hop(f, k, back) \in DOMAIN f.docs
    BY <2>4, HopIs DEF Ranged
  <2>6. At(p) \in Ranges
    <3>1. p \in Seen(f, Hop(f, k, back))
      BY <2>10, <2>4, SoughtIs
    <3>2. p \in Nat
      BY <3>1, MatchesIn
    <3> QED
      BY <3>2, AtIs
  <2>7. Leaves(f, S(k, p), k, Hop(f, k, back), At(p), back)
    BY <2>4, <2>5, <2>6, SearchedIs DEF S
  <2>8. /\ AtMatch(f, g, <<Hop(f, k, back), p>>)
        /\ g.head <=> f.head \/ (back /\ Wraps(f, k, back))
        /\ g.tail <=> f.tail \/ (~back /\ Wraps(f, k, back))
    BY <2>1, <2>7, Zenon DEF Leaves, AtMatch, SameFind, Bar
  <2> QED
    BY <2>2, <2>4, <2>8, <2>9, <2>10
<1>4. CASE (\A k \in 0 .. LastHop(f) : None \in hits[k]) /\ g = [T EXCEPT !.lastLen = 0]
  <2>1. \A k \in 0 .. LastHop(f) : None \in Sought(f, k, back)
    BY <1>4 DEF hits
  <2>2. Collapse(r, back) \in Ranges
    BY DEF r, Collapse, Ranges
  <2>3. Len(f.docs) \in 0 .. Len(f.docs) /\ f.cur \in DOMAIN f.docs
    BY <1>1
  <2>5. Leaves(f, T, Len(f.docs), f.cur, Collapse(r, back), back)
    BY <2>2, <2>3, SearchedIs DEF T
  <2>4. Nowhere(f, g, Collapse(r, back)) /\ (~back => g.head = f.head) /\ (back => g.tail = f.tail)
    BY <1>4, <2>5, Zenon DEF Leaves, Nowhere, SameFind, Bar
  <2> QED
    BY <2>1, <2>4 DEF r
<1> QED
  BY <1>2, <1>3, <1>4
-----------------------------------------------------------------------------
(***************************************************************************)
(* Forwards, the find ends at the first visible match from its cursor on,  *)
(* or, having passed the tail, at the first of all.                        *)
(***************************************************************************)
NextOf(V, c, x) ==
  /\ x \in V
  /\ \/ ~(x \prec c) /\ \A y \in V : ~(y \prec c) => y = x \/ x \prec y
     \/ \A y \in V : (y \prec c) /\ (y = x \/ x \prec y)

AllBefore(V, c) == \A y \in V : y \prec c

\* The visible matches of the page are those of its documents.
LEMMA VisibleIs ==
  ASSUME NEW f \in Bar, f.cur \in DOMAIN f.docs
  PROVE  /\ \A x \in Visible(f) : /\ x = <<x[1], x[2]>> /\ x[1] \in 1 .. Len(f.docs)
                                  /\ x[2] \in Nat /\ x[2] \in Seen(f, x[1])
         /\ \A d \in 1 .. Len(f.docs) : \A p \in Seen(f, d) : <<d, p>> \in Visible(f)
<1>1. DOMAIN f.docs = 1 .. Len(f.docs)
  BY CurIs
<1>2. ASSUME NEW x \in Visible(f)
      PROVE  /\ x = <<x[1], x[2]>> /\ x[1] \in 1 .. Len(f.docs)
             /\ x[2] \in Nat /\ x[2] \in Seen(f, x[1])
  <2>1. x \in Places(f) /\ x[2] \in Seen(f, x[1])
    BY DEF Visible
  <2>2. PICK d \in DOMAIN f.docs, p \in Pos : x = <<d, p>>
    BY <2>1 DEF Places
  <2>3. x[2] \in Nat
    BY <2>1, MatchesIn
  <2> QED
    BY <1>1, <2>1, <2>2, <2>3
<1>3. ASSUME NEW d \in 1 .. Len(f.docs), NEW p \in Seen(f, d)
      PROVE  <<d, p>> \in Visible(f)
  <2>1. p \in Pos
    BY MatchesIn
  <2>2. <<d, p>> \in Places(f)
    BY <1>1, <2>1 DEF Places
  <2> QED
    BY <2>2 DEF Visible
<1> QED
  BY <1>2, <1>3

\* A document in which a find forwards finds nothing has no visible match ahead of the cursor.
LEMMA NoneThere ==
  ASSUME NEW f \in Bar, Ranged(f), NEW k \in 0 .. Len(f.docs), None \in Sought(f, k, FALSE),
         NEW p \in Seen(f, Hop(f, k, FALSE))
  PROVE  k = 0 /\ p < Cursor(f)[2]
<1> DEFINE r == Range0(f, Start(f, FALSE), k, FALSE)
<1>1. Starts(f) /\ RangesAt(f, k)
  BY RangesSought
<1>2. (k = 0 => r.a = Cursor(f)[2]) /\ (k # 0 => r.a = 0) /\ r.b = L /\ Cursor(f)[2] \in Nat
  BY <1>1, Zenon DEF Starts, RangesAt
<1>3. None \in Hits(f, Hop(f, k, FALSE), r, FALSE)
  BY DEF Sought
<1> HIDE DEF r
<1>4. r.a \in Nat
  BY <1>2
<1>5. p < r.a
  <2>1. \A q \in Seen(f, Hop(f, k, FALSE)) : q # None
    BY MatchesIn
  <2> QED
    BY <1>2, <1>3, <1>4, <2>1, HitsForward
<1>6. p \in Nat
  BY MatchesIn
<1> QED
  BY <1>2, <1>5, <1>6

\* What a find forwards finds in a document is the first match there.
LEMMA FirstThere ==
  ASSUME NEW f \in Bar, Ranged(f), NEW k \in 0 .. Len(f.docs), NEW p \in Sought(f, k, FALSE) \ {None}
  PROVE  /\ p \in Seen(f, Hop(f, k, FALSE)) /\ p \in Nat
         /\ k = 0 => Cursor(f)[2] <= p
         /\ \A q \in Seen(f, Hop(f, k, FALSE)) : p <= q \/ (k = 0 /\ q < Cursor(f)[2])
<1> DEFINE r == Range0(f, Start(f, FALSE), k, FALSE)
<1>1. Starts(f) /\ RangesAt(f, k)
  BY RangesSought
<1>2. (k = 0 => r.a = Cursor(f)[2]) /\ (k # 0 => r.a = 0) /\ r.b = L /\ Cursor(f)[2] \in Nat
  BY <1>1, Zenon DEF Starts, RangesAt
<1>3. p \in Hits(f, Hop(f, k, FALSE), r, FALSE) /\ p # None
  BY DEF Sought
<1> HIDE DEF r
<1>4. r.a \in Nat
  BY <1>2
<1>5. /\ p \in Seen(f, Hop(f, k, FALSE)) /\ r.a <= p
      /\ \A q \in Seen(f, Hop(f, k, FALSE)) : r.a <= q => p <= q
  BY <1>2, <1>3, <1>4, HitsForward
<1>6. ASSUME NEW q \in Seen(f, Hop(f, k, FALSE))
      PROVE  p <= q \/ (k = 0 /\ q < Cursor(f)[2])
  <2>1. q \in Nat /\ (r.a <= q => p <= q)
    BY <1>5, MatchesIn
  <2>2. r.a <= q \/ q < r.a
    BY <1>4, <2>1
  <2>3. r.a # 0 => k = 0 /\ r.a = Cursor(f)[2]
    BY <1>2
  <2>4. q < r.a => r.a # 0
    BY <1>4, <2>1
  <2> QED
    BY <2>1, <2>2, <2>3, <2>4, Zenon
<1>7. p \in Nat
  BY <1>5, MatchesIn
<1> QED
  BY <1>2, <1>5, <1>6, <1>7, Zenon

\* How far on from the cursor the document d is.
LEMMA HopTo ==
  ASSUME NEW f \in Bar, f.cur \in DOMAIN f.docs, NEW d \in 1 .. Len(f.docs)
  PROVE  /\ d > f.cur => /\ d - f.cur \in 1 .. Len(f.docs) - 1
                         /\ Hop(f, d - f.cur, FALSE) = d
         /\ d < f.cur => /\ (d - f.cur) + Len(f.docs) \in 1 .. Len(f.docs) - 1
                         /\ Hop(f, (d - f.cur) + Len(f.docs), FALSE) = d
         /\ Hop(f, 0, FALSE) = f.cur /\ Hop(f, Len(f.docs), FALSE) = f.cur
<1> DEFINE n == Len(f.docs)
           c == f.cur
<1>1. n \in Nat /\ c \in 1 .. n /\ d \in 1 .. n
  BY CurIs
<1>2. \A k \in 0 .. n : /\ c + k <= n => Hop(f, k, FALSE) = c + k
                        /\ c + k > n => Hop(f, k, FALSE) = (c + k) - n
  BY HopIs
<1> HIDE DEF n, c
<1>3. ASSUME d > c PROVE d - c \in 1 .. n - 1 /\ Hop(f, d - c, FALSE) = d
  <2>1. d - c \in 0 .. n /\ d - c \in 1 .. n - 1 /\ c + (d - c) <= n /\ c + (d - c) = d
    BY <1>1, <1>3
  <2> QED
    BY <1>2, <2>1, Zenon
<1>4. ASSUME d < c PROVE (d - c) + n \in 1 .. n - 1 /\ Hop(f, (d - c) + n, FALSE) = d
  <2>1. /\ (d - c) + n \in 0 .. n /\ (d - c) + n \in 1 .. n - 1
        /\ c + ((d - c) + n) > n /\ (c + ((d - c) + n)) - n = d
    BY <1>1, <1>4
  <2> QED
    BY <1>2, <2>1, Zenon
<1>5. Hop(f, 0, FALSE) = c /\ Hop(f, n, FALSE) = c
  <2>1. 0 \in 0 .. n /\ n \in 0 .. n /\ c + 0 <= n /\ c + n > n /\ c + 0 = c /\ (c + n) - n = c
    BY <1>1
  <2> QED
    BY <1>2, <2>1, Zenon
<1> QED
  BY <1>3, <1>4, <1>5 DEF n, c

\* What is visible in the documents the find has passed over lies before the cursor.
LEMMA PassedOver ==
  ASSUME NEW f \in Bar, Ranged(f), NEW k \in 0 .. Len(f.docs),
         \A j \in 0 .. (k - 1) : None \in Sought(f, j, FALSE),
         NEW d \in 1 .. Len(f.docs), NEW q \in Seen(f, d)
  PROVE  /\ d = f.cur => k = 0 \/ q < Cursor(f)[2]
         /\ d > f.cur => k <= d - f.cur
         /\ d < f.cur => k <= (d - f.cur) + Len(f.docs)
<1>1. Len(f.docs) \in Nat /\ f.cur \in DOMAIN f.docs /\ f.cur \in 1 .. Len(f.docs)
  BY CurIs DEF Ranged
<1>2. ASSUME NEW j \in 0 .. Len(f.docs), j < k, Hop(f, j, FALSE) = d
      PROVE  j = 0 /\ q < Cursor(f)[2]
  <2>1. j \in 0 .. (k - 1)
    BY <1>1, <1>2
  <2>2. None \in Sought(f, j, FALSE)
    BY <2>1, Zenon
  <2> QED
    BY <1>2, <2>2, NoneThere
<1>3. CASE d = f.cur
  <2>1. Hop(f, 0, FALSE) = d
    BY <1>1, <1>3, HopTo
  <2>2. 0 \in 0 .. Len(f.docs) /\ k \in Int /\ ~(0 < k) => k = 0
    BY <1>1
  <2>3. 0 \in 0 .. Len(f.docs) /\ k \in Int /\ ~(d > f.cur) /\ ~(d < f.cur)
    BY <1>1, <1>3
  <2> QED
    BY <1>2, <2>1, <2>2, <2>3, Zenon
<1>4. CASE d > f.cur
  <2>1. d - f.cur \in 1 .. Len(f.docs) - 1 /\ Hop(f, d - f.cur, FALSE) = d
    BY <1>1, <1>4, HopTo
  <2>2. d - f.cur \in 0 .. Len(f.docs) /\ d - f.cur # 0 /\ d - f.cur \in Int
    BY <1>1, <2>1
  <2>3. ~(d - f.cur < k)
    BY <1>2, <2>1, <2>2, Zenon
  <2> QED
    BY <1>1, <1>4, <2>2, <2>3
<1>5. CASE d < f.cur
  <2> DEFINE j == (d - f.cur) + Len(f.docs)
  <2>1. j \in 1 .. Len(f.docs) - 1 /\ Hop(f, j, FALSE) = d
    BY <1>1, <1>5, HopTo
  <2>2. j \in 0 .. Len(f.docs) /\ j # 0 /\ j \in Int
    BY <1>1, <2>1
  <2>3. ~(j < k)
    BY <1>2, <2>1, <2>2, Zenon
  <2> QED
    BY <1>1, <1>5, <2>2, <2>3
<1> QED
  BY <1>1, <1>3, <1>4, <1>5

\* The match found k documents on is the next one.
LEMMA FoundIsNext ==
  ASSUME NEW f \in Bar, Ranged(f), NEW k \in 0 .. Len(f.docs),
         \A j \in 0 .. (k - 1) : None \in Sought(f, j, FALSE),
         NEW p \in Sought(f, k, FALSE) \ {None}
  PROVE  /\ NextOf(Visible(f), Cursor(f), <<Hop(f, k, FALSE), p>>)
         /\ Wraps(f, k, FALSE) <=> AllBefore(Visible(f), Cursor(f))
<1> DEFINE n == Len(f.docs)
           c == f.cur
           a == Cursor(f)[2]
           x == <<Hop(f, k, FALSE), p>>
           V == Visible(f)
<1>1. f.cur \in DOMAIN f.docs /\ n \in Nat /\ c \in 1 .. n /\ k \in 0 .. n
  BY CurIs DEF Ranged
<1>2. Cursor(f)[1] = c /\ a \in Nat
  BY <1>1, RangesSought DEF Starts
<1>3. /\ p \in Seen(f, Hop(f, k, FALSE)) /\ p \in Nat /\ (k = 0 => a <= p)
      /\ \A q \in Seen(f, Hop(f, k, FALSE)) : p <= q \/ (k = 0 /\ q < a)
  BY FirstThere
<1>4. /\ Hop(f, k, FALSE) \in 1 .. n
      /\ Wraps(f, k, FALSE) <=> c + k > n
      /\ c + k <= n => Hop(f, k, FALSE) = c + k
      /\ c + k > n => Hop(f, k, FALSE) = (c + k) - n
  BY <1>1, HopIs
<1>5. x \in V
  <2>1. Hop(f, k, FALSE) \in 1 .. Len(f.docs) /\ p \in Seen(f, Hop(f, k, FALSE))
    BY <1>3, <1>4, Zenon
  <2>2. \A d \in 1 .. Len(f.docs) : \A q \in Seen(f, d) : <<d, q>> \in Visible(f)
    BY <1>1, VisibleIs
  <2> QED
    BY <2>1, <2>2, Zenon
<1>6. \A y \in V : /\ y = <<y[1], y[2]>> /\ y[1] \in 1 .. n /\ y[2] \in Nat
                   /\ y[1] = c => k = 0 \/ y[2] < a
                   /\ y[1] > c => k <= y[1] - c
                   /\ y[1] < c => k <= (y[1] - c) + n
                   /\ y[1] = Hop(f, k, FALSE) => p <= y[2] \/ (k = 0 /\ y[2] < a)
  <2> SUFFICES ASSUME NEW y \in V
               PROVE  /\ y = <<y[1], y[2]>> /\ y[1] \in 1 .. n /\ y[2] \in Nat
                      /\ y[1] = c => k = 0 \/ y[2] < a
                      /\ y[1] > c => k <= y[1] - c
                      /\ y[1] < c => k <= (y[1] - c) + n
                      /\ y[1] = Hop(f, k, FALSE) => p <= y[2] \/ (k = 0 /\ y[2] < a)
    OBVIOUS
  <2>1. y = <<y[1], y[2]>> /\ y[1] \in 1 .. n /\ y[2] \in Nat /\ y[2] \in Seen(f, y[1])
    BY <1>1, VisibleIs
  <2>2. /\ y[1] = c => k = 0 \/ y[2] < a
        /\ y[1] > c => k <= y[1] - c
        /\ y[1] < c => k <= (y[1] - c) + n
    BY <2>1, PassedOver
  <2> QED
    BY <1>3, <2>1, <2>2, Zenon
<1> DEFINE h == Hop(f, k, FALSE)
<1>7. x[1] = h /\ x[2] = p
  OBVIOUS
<1>10. /\ h \in 1 .. n /\ (c + k <= n => h = c + k) /\ (c + k > n => h = (c + k) - n)
       /\ Wraps(f, k, FALSE) <=> c + k > n
  BY <1>4, Zenon
<1> HIDE DEF n, c, a, x, V, h
<1>8. CASE c + k <= n
  <2>1. h = c + k /\ h \in Int /\ (k = 0 => h = c) /\ (k # 0 => h > c)
    BY <1>1, <1>8, <1>10
  <2>2. ~(x \prec Cursor(f))
    BY <1>1, <1>2, <1>3, <1>7, <2>1 DEF \prec, a
  <2>3. ASSUME NEW y \in V, ~(y \prec Cursor(f))
        PROVE  y = x \/ x \prec y
    <3>1. /\ y = <<y[1], y[2]>> /\ y[1] \in 1 .. n /\ y[2] \in Nat
          /\ y[1] = c => k = 0 \/ y[2] < a
          /\ y[1] > c => k <= y[1] - c
          /\ y[1] = h => p <= y[2] \/ (k = 0 /\ y[2] < a)
      BY <1>6 DEF h
    <3>2. y[1] >= c /\ (y[1] = c => y[2] >= a)
      BY <1>1, <1>2, <2>3, <3>1 DEF \prec, a
    <3>3. y[1] > h \/ (y[1] = h /\ p <= y[2])
      BY <1>1, <1>2, <2>1, <3>1, <3>2
    <3>4. x = <<h, p>>
      BY DEF x, h
    <3>5. y[1] > h \/ (y[1] = h /\ p < y[2]) \/ (y[1] = h /\ p = y[2])
      BY <1>3, <3>1, <3>3
    <3> QED
      BY <1>7, <3>1, <3>4, <3>5 DEF \prec
  <2>4. NextOf(V, Cursor(f), x)
    BY <1>5, <2>2, <2>3 DEF NextOf
  <2>5. ~AllBefore(V, Cursor(f))
    BY <1>5, <2>2 DEF AllBefore
  <2>6. ~(c + k > n)
    BY <1>1, <1>8
  <2> QED
    BY <1>10, <2>4, <2>5, <2>6, Zenon DEF V, x, h
<1>9. CASE c + k > n
  <2>1. h = (c + k) - n /\ h \in Int /\ h <= c /\ k # 0
    BY <1>1, <1>9, <1>10
  <2>2. ASSUME NEW y \in V
        PROVE  y \prec Cursor(f) /\ (y = x \/ x \prec y)
    <3>1. /\ y = <<y[1], y[2]>> /\ y[1] \in 1 .. n /\ y[2] \in Nat
          /\ y[1] = c => y[2] < a
          /\ y[1] > c => k <= y[1] - c
          /\ y[1] < c => k <= (y[1] - c) + n
          /\ y[1] = h => p <= y[2]
      BY <1>6, <2>1 DEF h
    <3>2. y[1] <= c
      BY <1>1, <1>9, <3>1
    <3>3. y \prec Cursor(f)
      BY <1>1, <1>2, <3>1, <3>2 DEF \prec, a
    <3>4. y[1] >= h
      BY <1>1, <2>1, <3>1, <3>2
    <3>5. y[1] > h \/ (y[1] = h /\ p < y[2]) \/ (y[1] = h /\ p = y[2])
      BY <1>3, <2>1, <3>1, <3>4
    <3>6. x = <<h, p>>
      BY DEF x, h
    <3> QED
      BY <1>7, <3>1, <3>3, <3>5, <3>6 DEF \prec
  <2>3. NextOf(V, Cursor(f), x) /\ AllBefore(V, Cursor(f))
    BY <1>5, <2>2 DEF NextOf, AllBefore
  <2> QED
    BY <1>9, <1>10, <2>3, Zenon DEF V, x, h
<1>11. c + k <= n \/ c + k > n
  BY <1>1
<1> QED
  BY <1>8, <1>9, <1>11

\* Nothing found: there is nothing to see.
LEMMA NothingAhead ==
  ASSUME NEW f \in Bar, Ranged(f), \A k \in 0 .. LastHop(f) : None \in Sought(f, k, FALSE)
  PROVE  Visible(f) = {}
<1>1. /\ Len(f.docs) \in Nat /\ f.cur \in 1 .. Len(f.docs) /\ f.cur \in DOMAIN f.docs
      /\ LastHop(f) \in Nat /\ LastHop(f) <= Len(f.docs) /\ LastHop(f) >= Len(f.docs) - 1
      /\ f.changed => LastHop(f) = Len(f.docs)
  BY LastIs
<1>2. SUFFICES ASSUME NEW y \in Visible(f) PROVE FALSE
  OBVIOUS
<1>3. y[1] \in 1 .. Len(f.docs) /\ y[2] \in Nat /\ y[2] \in Seen(f, y[1])
  BY <1>1, VisibleIs
<1>4. ASSUME NEW k \in 0 .. LastHop(f), Hop(f, k, FALSE) = y[1]
      PROVE  k = 0 /\ y[2] < Cursor(f)[2]
  <2>1. k \in 0 .. Len(f.docs)
    BY <1>1
  <2> QED
    BY <1>3, <1>4, <2>1, NoneThere
<1>5. CASE y[1] > f.cur
  <2>1. y[1] - f.cur \in 1 .. Len(f.docs) - 1 /\ Hop(f, y[1] - f.cur, FALSE) = y[1]
    BY <1>1, <1>3, <1>5, HopTo
  <2>2. y[1] - f.cur \in 0 .. LastHop(f) /\ y[1] - f.cur # 0
    BY <1>1, <2>1
  <2> QED
    BY <1>4, <2>1, <2>2, Zenon
<1>6. CASE y[1] < f.cur
  <2>1. (y[1] - f.cur) + Len(f.docs) \in 1 .. Len(f.docs) - 1
        /\ Hop(f, (y[1] - f.cur) + Len(f.docs), FALSE) = y[1]
    BY <1>1, <1>3, <1>6, HopTo
  <2>2. (y[1] - f.cur) + Len(f.docs) \in 0 .. LastHop(f) /\ (y[1] - f.cur) + Len(f.docs) # 0
    BY <1>1, <2>1
  <2> QED
    BY <1>4, <2>1, <2>2, Zenon
<1>7. CASE y[1] = f.cur
  <2>1. Hop(f, 0, FALSE) = y[1] /\ Hop(f, Len(f.docs), FALSE) = y[1]
    BY <1>1, <1>3, <1>7, HopTo
  <2>4. 0 \in 0 .. LastHop(f)
    BY <1>1
  <2>5. y[2] < Cursor(f)[2]
    BY <1>4, <2>1, <2>4, Zenon
  <2>2. CASE f.changed
    <3>1. Len(f.docs) \in 0 .. LastHop(f) /\ Len(f.docs) # 0
      BY <1>1, <2>2
    <3> QED
      BY <1>4, <2>1, <3>1
  <2>3. CASE ~f.changed
    <3>1. f.cur = 1 /\ f.docs[f.cur].a = 0 /\ f.lastLen = 0
      BY <2>3 DEF Ranged
    <3>2. Cursor(f)[2] = 0
      BY <3>1 DEF Cursor
    <3> QED
      BY <1>3, <2>5, <3>2
  <2> QED
    BY <2>2, <2>3
<1> QED
  BY <1>1, <1>3, <1>5, <1>6, <1>7

\* What FBFindAgainInternal does forwards.
Ahead(f, g) ==
  \/ /\ Visible(f) = {} /\ Nowhere(f, g, Collapse(Start(f, FALSE), FALSE)) /\ g.head = f.head
  \/ \E x \in Visible(f) : /\ NextOf(Visible(f), Cursor(f), x) /\ AtMatch(f, g, x)
                           /\ g.head = f.head
                           /\ g.tail <=> f.tail \/ AllBefore(Visible(f), Cursor(f))

\* A find forwards ends at the next visible match; if there is none, it has found nothing.
LEMMA FindsAhead ==
  ASSUME NEW f \in Bar, Ranged(f), Textual(f), NEW g \in FindAgainInternal(f, FALSE)
  PROVE  Ahead(f, g)
<1>1. Start(f, FALSE) \in Ranges /\ FALSE \in BOOLEAN
  <2>1. 0 \in 0 .. Len(f.docs)
    BY LastIs
  <2> QED
    BY <2>1, RangesSought DEF Starts
<1>2. CASE \E k \in 0 .. LastHop(f) : \E p \in Sought(f, k, FALSE) \ {None} :
             /\ k \in 0 .. Len(f.docs)
             /\ \A j \in 0 .. (k - 1) : None \in Sought(f, j, FALSE)
             /\ AtMatch(f, g, <<Hop(f, k, FALSE), p>>)
             /\ g.head <=> f.head \/ (FALSE /\ Wraps(f, k, FALSE))
             /\ g.tail <=> f.tail \/ (~FALSE /\ Wraps(f, k, FALSE))
  <2>1. PICK k \in 0 .. LastHop(f) : \E p \in Sought(f, k, FALSE) \ {None} :
             /\ k \in 0 .. Len(f.docs)
             /\ \A j \in 0 .. (k - 1) : None \in Sought(f, j, FALSE)
             /\ AtMatch(f, g, <<Hop(f, k, FALSE), p>>)
             /\ g.head <=> f.head
             /\ g.tail <=> f.tail \/ Wraps(f, k, FALSE)
    BY <1>2, Zenon
  <2>2. PICK p \in Sought(f, k, FALSE) \ {None} :
             /\ k \in 0 .. Len(f.docs)
             /\ \A j \in 0 .. (k - 1) : None \in Sought(f, j, FALSE)
             /\ AtMatch(f, g, <<Hop(f, k, FALSE), p>>)
             /\ g.head <=> f.head
             /\ g.tail <=> f.tail \/ Wraps(f, k, FALSE)
    BY <2>1, Zenon
  <2>3. /\ NextOf(Visible(f), Cursor(f), <<Hop(f, k, FALSE), p>>)
        /\ Wraps(f, k, FALSE) <=> AllBefore(Visible(f), Cursor(f))
    BY <2>2, FoundIsNext
  <2>4. g.head = f.head
    BY <2>2, BarIs DEF AtMatch
  <2> QED
    BY <2>2, <2>3, <2>4, Zenon DEF Ahead, NextOf
<1>3. CASE /\ \A k \in 0 .. LastHop(f) : None \in Sought(f, k, FALSE)
           /\ Nowhere(f, g, Collapse(Start(f, FALSE), FALSE)) /\ g.head = f.head
  BY <1>3, NothingAhead DEF Ahead
<1> QED
  BY <1>1, <1>2, <1>3, AgainIs

\* The same for every text, an empty one too, and where the find is left.
Forward(f, g) ==
  \/ Visible(f) = {} /\ g.found = f.found /\ g.head = f.head
  \/ \E x \in Visible(f) : /\ NextOf(Visible(f), Cursor(f), x) /\ AtMatch(f, g, x)
                           /\ g.head = f.head
                           /\ g.tail <=> f.tail \/ AllBefore(Visible(f), Cursor(f))

\* After a find, only the range of the document found in has moved.
LEMMA AtMatchRanged ==
  ASSUME NEW f \in Bar, Ranged(f), NEW g, NEW x \in Visible(f), AtMatch(f, g, x)
  PROVE  g \in Bar /\ SameFind(f, g) /\ Ranged(g)
<1>1. f.cur \in DOMAIN f.docs /\ DOMAIN f.docs = 1 .. Len(f.docs)
  BY CurIs DEF Ranged
<1>2. x[1] \in DOMAIN f.docs /\ x[2] \in Nat
  BY <1>1, VisibleIs
<1>3. At(x[2]).a >= 0
  BY <1>2, AtIs
<1>4. Len(g.docs) = Len(shown[g.load])
  BY DEF AtMatch, SameFind, Ranged
<1>5. /\ g.cur = x[1] /\ g.changed /\ DOMAIN g.docs = DOMAIN f.docs /\ g.docs[x[1]] = At(x[2])
      /\ \A e \in DOMAIN f.docs \ {x[1]} : g.docs[e] = Whole
      /\ g \in Bar /\ SameFind(f, g)
  BY Zenon DEF AtMatch
<1> QED
  BY <1>2, <1>3, <1>4, <1>5, Zenon DEF Ranged

\* The same when nothing was found.
LEMMA NowhereRanged ==
  ASSUME NEW f \in Bar, Ranged(f), NEW g, NEW r, r.a >= 0, Nowhere(f, g, r)
  PROVE  g \in Bar /\ SameFind(f, g) /\ Ranged(g)
<1>1. f.cur \in DOMAIN f.docs
  BY DEF Ranged
<1>4. Len(g.docs) = Len(shown[g.load])
  BY DEF Nowhere, SameFind, Ranged
<1>5. /\ g.cur = f.cur /\ g.changed /\ DOMAIN g.docs = DOMAIN f.docs /\ g.docs[f.cur] = r
      /\ \A e \in DOMAIN f.docs \ {f.cur} : g.docs[e] = Whole
      /\ g \in Bar /\ SameFind(f, g)
  BY Zenon DEF Nowhere
<1> QED
  BY <1>1, <1>4, <1>5, Zenon DEF Ranged

\* A range collapsed to its start.
LEMMA CollapseIs ==
  ASSUME NEW r \in Ranges
  PROVE  Collapse(r, FALSE) \in Ranges /\ Collapse(r, FALSE).a = r.a
  BY DEF Collapse, Ranges

\* Without a text there are no matches.
LEMMA NoText ==
  ASSUME NEW f \in Bar, ~Textual(f)
  PROVE  Visible(f) = {}
<1>1. f.text = ""
  BY DEF Textual
<1>2. \A d : Seen(f, d) = {}
  BY <1>1, Zenon DEF Seen, Matches
<1> QED
  BY <1>2 DEF Visible

\* FBFindAgainInternal forwards, for any text.
LEMMA FindsForward ==
  ASSUME NEW f \in Bar, Ranged(f), NEW g \in FindAgainInternal(f, FALSE)
  PROVE  g \in Bar /\ SameFind(f, g) /\ Ranged(g) /\ Forward(f, g)
<1>1. CASE Textual(f)
  <2>1. Ahead(f, g)
    BY <1>1, FindsAhead
  <2>2. CASE /\ Visible(f) = {} /\ Nowhere(f, g, Collapse(Start(f, FALSE), FALSE))
             /\ g.head = f.head
    <3>1. 0 \in 0 .. Len(f.docs)
      BY LastIs
    <3>2. Collapse(Start(f, FALSE), FALSE).a >= 0
      <4>1. Start(f, FALSE) \in Ranges /\ Start(f, FALSE).a \in Nat
        BY <3>1, RangesSought DEF Starts
      <4>2. Collapse(Start(f, FALSE), FALSE).a = Start(f, FALSE).a
        BY <4>1, CollapseIs, Zenon
      <4>3. \A i \in Nat : i >= 0
        OBVIOUS
      <4> QED
        BY <4>1, <4>2, <4>3, Zenon
    <3>3. g \in Bar /\ SameFind(f, g) /\ Ranged(g)
      BY <2>2, <3>2, NowhereRanged
    <3> QED
      BY <2>2, <3>3, Zenon DEF Forward, Nowhere
  <2>3. CASE \E x \in Visible(f) : /\ NextOf(Visible(f), Cursor(f), x) /\ AtMatch(f, g, x)
                                   /\ g.head = f.head
                                   /\ g.tail <=> f.tail \/ AllBefore(Visible(f), Cursor(f))
    BY <2>3, AtMatchRanged, Zenon DEF Forward
  <2> QED
    BY <2>1, <2>2, <2>3 DEF Ahead
<1>2. CASE ~Textual(f)
  <2> DEFINE r == Collapse(f.docs[f.cur], FALSE)
             docs == [f.docs EXCEPT ![f.cur] = r]
  <2>1. g = [f EXCEPT !.docs = docs]
    <3>1. g = [f EXCEPT !.docs[f.cur] = Collapse(@, FALSE)]
      BY <1>2, Zenon DEF Textual, FindAgainInternal
    <3> QED
      BY <3>1, Zenon DEF Bar
  <2>2. f.docs \in Seq(Ranges) /\ f.cur \in DOMAIN f.docs /\ f.docs[f.cur] \in Ranges
    BY BarIs, CurIs DEF Ranged
  <2>3. r \in Ranges /\ r.a = f.docs[f.cur].a
    BY <2>2, CollapseIs
  <2> HIDE DEF r
  <2>4. /\ docs \in Seq(Ranges) /\ Len(docs) = Len(f.docs) /\ DOMAIN docs = DOMAIN f.docs
        /\ docs[f.cur] = r /\ \A e \in DOMAIN f.docs \ {f.cur} : docs[e] = f.docs[e]
    BY <2>2, <2>3
  <2> HIDE DEF docs
  <2>5. /\ g \in Bar /\ g.docs = docs /\ g.cur = f.cur /\ g.changed = f.changed
        /\ g.lastLen = f.lastLen /\ g.found = f.found /\ g.head = f.head
        /\ g.inProgress = f.inProgress /\ g.highlight = f.highlight /\ g.case = f.case
        /\ g.text = f.text /\ g.load = f.load
    BY <2>1, <2>4, Zenon DEF Bar
  <2>6. SameFind(f, g)
    BY <2>4, <2>5 DEF SameFind
  <2>7. Ranged(g)
    <3>1. /\ f.docs[f.cur].a >= 0 /\ \A d \in DOMAIN f.docs \ {f.cur} : f.docs[d] = Whole
          /\ ~f.changed => f.cur = 1 /\ f.docs[1].a = 0 /\ f.lastLen = 0
          /\ Len(f.docs) = Len(shown[f.load])
      BY DEF Ranged
    <3>2. docs[f.cur].a >= 0 /\ \A d \in DOMAIN docs \ {f.cur} : docs[d] = Whole
      BY <2>3, <2>4, <3>1
    <3>3. ~f.changed => f.cur = 1 /\ docs[1].a = 0 /\ f.lastLen = 0
      BY <2>3, <2>4, <3>1
    <3> QED
      BY <2>2, <2>4, <2>5, <3>1, <3>2, <3>3, Zenon DEF Ranged
  <2> QED
    BY <1>2, <2>5, <2>6, <2>7, NoText DEF Forward
<1> QED
  BY <1>1, <1>2
-----------------------------------------------------------------------------
(***************************************************************************)
(* What is highlighted.                                                    *)
(***************************************************************************)
Marked(f, S) == f.inProgress => \A x \in S : x[1] = f.load => f.highlight /\ x \in AllMatches(f)
Old(f, S)    == \A x \in S : x[1] \in Nat /\ x[1] <= f.load

\* A find of the same text keeps the highlights right.
LEMMA MarkedSame ==
  ASSUME NEW f \in Bar, NEW g \in Bar, SameFind(f, g), NEW S, Marked(f, S), Old(f, S)
  PROVE  Marked(g, S) /\ Old(g, S)
<1>1. AllMatches(g) = AllMatches(f)
  BY SamePlaces
<1> QED
  BY <1>1, Zenon DEF SameFind, Marked, Old

\* On a newer page nothing is highlighted yet.
LEMMA MarkedOver ==
  ASSUME NEW f \in Bar, NEW g \in Bar, f.load <= g.load, NEW S, Old(f, S),
         g.inProgress => f.load < g.load
  PROVE  Marked(g, S) /\ Old(g, S)
<1>1. f.load \in Nat /\ g.load \in Nat
  BY BarIs
<1>2. \A x \in S : x[1] \in Nat /\ x[1] <= f.load
  BY DEF Old
<1>3. Old(g, S)
  BY <1>1, <1>2 DEF Old
<1>4. CASE f.load < g.load
  <2>1. \A x \in S : x[1] # g.load
    BY <1>1, <1>2, <1>4
  <2> QED
    BY <1>3, <2>1 DEF Marked
<1>5. CASE ~g.inProgress
  BY <1>3, <1>5 DEF Marked
<1> QED
  BY <1>4, <1>5

\* Highlighting all matches highlights them all.
LEMMA MarkedAll ==
  ASSUME NEW f \in Bar, f.highlight, NEW g \in Bar, SameFind(f, g)
  PROVE  Marked(g, AllMatches(f)) /\ Old(g, AllMatches(f))
<1>1. AllMatches(g) = AllMatches(f) /\ g.load = f.load /\ g.highlight /\ f.load \in Nat
  BY SamePlaces, BarIs DEF SameFind
<1>2. \A x \in AllMatches(f) : x[1] = f.load
  BY DEF AllMatches
<1>3. \A i \in Nat : i <= i
  OBVIOUS
<1> QED
  BY <1>1, <1>2, <1>3, Zenon DEF Marked, Old

\* FBCheckDocument keeps the highlights right.
LEMMA MarkedCheck ==
  ASSUME shown \in Seq(Seq(Document)), NEW f \in Bar, Placed(f), NEW g \in CheckDocument(f),
         NEW S, Marked(f, S), Old(f, S)
  PROVE  Marked(g, S) /\ Old(g, S)
<1>1. g \in Bar /\ f.load <= g.load /\ (g = f \/ (g.inProgress => f.load < g.load))
  BY CheckIs
<1> QED
  BY <1>1, MarkedOver

\* Highlighting leaves the find as it is.
LEMMA HighlightAllIs ==
  ASSUME NEW f \in Bar
  PROVE  /\ HighlightAll(f) \in Bar /\ SameFind(f, HighlightAll(f)) /\ HighlightAll(f).docs = f.docs
         /\ HighlightAll(f).cur = f.cur /\ HighlightAll(f).lastLen = f.lastLen
         /\ HighlightAll(f).changed = f.changed
<1>1. (AllMatches(f) # {}) \in BOOLEAN
  OBVIOUS
<1> QED
  BY <1>1, ClearIs, Zenon DEF HighlightAll, Bar, SameFind

\* A find that only the flags of have changed is where it was.
LEMMA PlacedSame ==
  ASSUME NEW f \in Bar, NEW g \in Bar, SameFind(f, g), Placed(f), g.docs = f.docs, g.cur = f.cur,
         g.lastLen = f.lastLen, g.changed = f.changed
  PROVE  Placed(g)
  BY Zenon DEF Placed, Ranged, SameFind

\* What must be known of the find bar after a step.
Kept(f, S) == f \in Bar /\ Placed(f) /\ Marked(f, S) /\ Old(f, S)

\* Turning the find's highlighting on or off, or another text or case, in a find whose
\* documents have been checked.
LEMMA KeptAll ==
  ASSUME NEW f \in Bar, Placed(f), f.highlight
  PROVE  Kept(HighlightAll(f), AllMatches(f))
<1>1. HighlightAll(f) \in Bar /\ SameFind(f, HighlightAll(f))
  BY HighlightAllIs
<1>2. Placed(HighlightAll(f))
  BY HighlightAllIs, PlacedSame
<1> QED
  BY <1>1, <1>2, MarkedAll DEF Kept

\* Without highlights they are right,
LEMMA KeptNone ==
  ASSUME NEW f \in Bar, Placed(f)
  PROVE  Kept(f, {})
  BY DEF Kept, Marked, Old

\* and so they are without a find in progress.
LEMMA KeptOver ==
  ASSUME NEW f \in Bar, Placed(f), ~f.inProgress, NEW S, Old(f, S)
  PROVE  Kept(f, S)
  BY DEF Kept, Marked

\* Old highlights stay old.
LEMMA OldGrows ==
  ASSUME NEW f \in Bar, NEW g \in Bar, f.load <= g.load, NEW S, Old(f, S)
  PROVE  Old(g, S)
<1>1. f.load \in Nat /\ g.load \in Nat
  BY BarIs
<1> QED
  BY <1>1 DEF Old

\* The page searched is one the window has shown.
LEMMA LoadIs ==
  ASSUME shown \in Seq(Seq(Document)), NEW f, Placed(f)
  PROVE  f.load \in 1 .. Len(shown) /\ Len(shown) \in Nat /\ shown # << >> /\ f.load <= f.load
<1>1. f.load \in 1 .. Len(shown) /\ Len(shown) \in Nat
  BY DEF Placed
<1> QED
  BY <1>1

\* FBSetFindText keeps the find and the highlights in order.
LEMMA SetTextKeeps ==
  ASSUME shown \in Seq(Seq(Document)), Kept(fb, segs), NEW text \in Texts, NEW r \in SetText(text)
  PROVE  Kept(r[1], r[2])
<1> DEFINE g == [fb EXCEPT !.text = text]
           i == [g EXCEPT !.inProgress = TRUE]
           h == IF fb.inProgress \/ text = "" THEN g ELSE ResetFindRange(i)
<1>1. fb \in Bar /\ Placed(fb) /\ Old(fb, segs) /\ Marked(fb, segs)
  BY DEF Kept
<1>2. CASE text = fb.text
  <2>1. r = <<fb, segs>>
    BY <1>2 DEF SetText
  <2> QED
    BY <2>1
<1>3. CASE text # fb.text
  <2>1. PICK f \in IF h.inProgress THEN CheckDocument(h) ELSE {h} :
               r = IF f.inProgress /\ f.highlight THEN <<HighlightAll(f), AllMatches(f)>>
                   ELSE <<f, IF f.inProgress = h.inProgress THEN {} ELSE segs>>
    BY <1>3, Zenon DEF SetText
  <2>2. /\ g \in Bar /\ g.load = fb.load /\ g.inProgress = fb.inProgress /\ g.docs = fb.docs
        /\ g.cur = fb.cur /\ g.changed = fb.changed /\ g.lastLen = fb.lastLen
    BY <1>1, Zenon DEF Bar
  <2>3. i \in Bar /\ i.load = fb.load
    BY <2>2, Zenon DEF Bar
  <2>4. h \in Bar /\ Placed(h) /\ fb.load <= h.load
    <3>1. /\ fb.load \in 1 .. Len(shown) /\ Len(shown) \in Nat /\ shown # << >>
          /\ fb.load <= fb.load
      BY <1>1, LoadIs
    <3>2. CASE fb.inProgress \/ text = ""
      <4>1. h = g
        BY <3>2
      <4>2. Placed(g)
        BY <1>1, <2>2, Zenon DEF Placed, Ranged
      <4> QED
        BY <2>2, <3>1, <4>1, <4>2, Zenon
    <3>3. CASE ~(fb.inProgress \/ text = "")
      <4>1. h = ResetFindRange(i)
        BY <3>3
      <4> HIDE DEF h, i
      <4>2. /\ h \in Bar /\ (h.inProgress => h.load = Len(shown) /\ Ranged(h))
            /\ h.load \in {i.load, Len(shown)}
        BY <2>3, <3>1, <4>1, ResetIs
      <4>3. fb.load <= h.load /\ h.load \in DOMAIN shown
        BY <2>3, <3>1, <4>2
      <4> QED
        BY <4>2, <4>3 DEF Placed
    <3> QED
      BY <3>2, <3>3
  <2> HIDE DEF g, i, h
  <2>5. f \in Bar /\ Placed(f) /\ h.load <= f.load /\ (f.inProgress => h.inProgress)
    <3>1. CASE h.inProgress
      BY <2>1, <2>4, <3>1, CheckIs
    <3>2. CASE ~h.inProgress
      <4>1. f = h /\ h.load \in Nat
        BY <2>1, <2>4, <3>2, BarIs
      <4> QED
        BY <2>4, <4>1
    <3> QED
      BY <3>1, <3>2
  <2>6. Old(f, segs)
    BY <1>1, <2>4, <2>5, OldGrows
  <2>7. CASE f.inProgress /\ f.highlight
    <3>1. r = <<HighlightAll(f), AllMatches(f)>>
      BY <2>1, <2>7
    <3> QED
      BY <2>5, <2>7, <3>1, KeptAll
  <2>8. CASE ~(f.inProgress /\ f.highlight) /\ f.inProgress = h.inProgress
    <3>1. r = <<f, {}>>
      BY <2>1, <2>8
    <3> QED
      BY <2>5, <3>1, KeptNone
  <2>9. CASE ~(f.inProgress /\ f.highlight) /\ f.inProgress # h.inProgress
    <3>1. r = <<f, segs>>
      BY <2>1, <2>9
    <3>2. ~f.inProgress
      BY <2>4, <2>5, <2>9, BarIs
    <3> QED
      BY <2>5, <2>6, <3>1, <3>2, KeptOver
  <2> QED
    BY <2>7, <2>8, <2>9
<1> QED
  BY <1>2, <1>3
-----------------------------------------------------------------------------
(***************************************************************************)
(* Backwards, from the match s of the current document: some match, and    *)
(* whether it has passed the head of the page.                             *)
(***************************************************************************)
Sure(f) == \A d \in DOMAIN f.docs : Matches(f, d) = Seen(f, d)

Backward(f, g, S) ==
  \/ \E x \in Visible(f) : /\ AtMatch(f, g, x)
                           /\ g.tail <=> f.tail
                           /\ g.head \/ x \prec S
                           /\ Sure(f) /\ g.head => ~(x \prec S)
  \/ Nowhere(f, g, Collapse(Start(f, TRUE), TRUE)) /\ g.tail = f.tail

\* The match a find backwards jumps to: it is before the match s, unless the head of the page
\* was passed on the way; if no match is hidden, only then is it not.
LEMMA JumpIs ==
  ASSUME NEW f \in Bar, Ranged(f), ~f.head, f.lastLen = Size, NEW s \in Nat,
         f.docs[f.cur] = At(s), NEW k \in 0 .. Len(f.docs), NEW p \in Sought(f, k, TRUE) \ {None},
         \A j \in 0 .. (k - 1) : None \in Sought(f, j, TRUE), s \in Seen(f, f.cur)
  PROVE  /\ Hop(f, k, TRUE) \in 1 .. Len(f.docs) /\ p \in Seen(f, Hop(f, k, TRUE))
         /\ Wraps(f, k, TRUE) \/ <<Hop(f, k, TRUE), p>> \prec <<f.cur, s>>
         /\ Sure(f) /\ Wraps(f, k, TRUE) => ~(<<Hop(f, k, TRUE), p>> \prec <<f.cur, s>>)
<1> DEFINE n == Len(f.docs)
           c == f.cur
           h == Hop(f, k, TRUE)
           r == Start(f, TRUE)
<1>1. f.cur \in DOMAIN f.docs /\ n \in Nat /\ c \in 1 .. n /\ k \in 0 .. n
  BY CurIs DEF Ranged
<1>2. /\ h \in 1 .. n /\ h \in DOMAIN f.docs
      /\ k < c => h = c - k
      /\ k >= c => h = (c - k) + n
      /\ Wraps(f, k, TRUE) <=> k >= c
  BY <1>1, HopIs, Zenon
<1>3. p \in Seen(f, h) /\ p \in Nat
  <2>1. p \in Seen(f, h)
    BY SoughtIs
  <2> QED
    BY <2>1, MatchesIn
<1> HIDE DEF r, h, c, n
<1>4. r.a = 0 /\ r.b = (s + Size) - 1 /\ r.b \in Int
  <2>1. Starts(f)
    BY RangesSought
  <2>2. r.a = 0 /\ r.b = At(s).b - 1
    BY <2>1, Zenon DEF Starts, r
  <2>3. At(s).b = s + Size /\ Size \in Nat
    BY AtIs, Numbers
  <2> QED
    BY <2>2, <2>3
<1>5. ASSUME k = 0
      PROVE  p + Size <= r.b
  <2>1. Range0(f, r, k, TRUE) = r
    BY <1>5 DEF Range0
  <2>2. p \in Hits(f, h, r, TRUE) \ {None}
    BY <2>1, Zenon DEF Sought, r, h
  <2>3. r.a \in Int /\ r.b \in Int
    BY <1>4
  <2> QED
    BY <2>2, <2>3, HitsBack, Zenon
<1>6. ASSUME k # 0, Sure(f), NEW q \in Seen(f, c)
      PROVE  ~(q + Size <= r.b)
  <2>1. 0 \in 0 .. (k - 1)
    BY <1>1, <1>6
  <2>2. None \in Sought(f, 0, TRUE)
    BY <2>1
  <2>3. Range0(f, r, 0, TRUE) = r
    BY DEF Range0
  <2>4. Hop(f, 0, TRUE) = c
    <3>1. 0 \in 0 .. Len(f.docs) /\ 0 < f.cur /\ f.cur - 0 = f.cur
      BY <1>1 DEF c, n
    <3> QED
      BY <1>1, <3>1, HopIs DEF c
  <2>5. None \in Hits(f, c, r, TRUE)
    BY <2>2, <2>3, <2>4, Zenon DEF Sought, r
  <2>6. Matches(f, c) = Seen(f, c)
    BY <1>1, <1>6 DEF Sure, c
  <2>7. q >= 0
    BY MatchesIn
  <2>8. r.a \in Int /\ r.b \in Int /\ (q >= 0 => r.a <= q)
    BY <1>4
  <2> QED
    BY <2>5, <2>6, <2>7, <2>8, HitsBack, Zenon
<1>7. Size \in Nat /\ Size > 0 /\ <<h, p>>[1] = h /\ <<h, p>>[2] = p /\ <<c, s>>[1] = c /\ <<c, s>>[2] = s
  BY Numbers
<1>8. CASE k < c
  <2>1. CASE k = 0
    <3>1. h = c /\ p < s
      BY <1>1, <1>2, <1>3, <1>4, <1>5, <1>7, <2>1, <1>8
    <3>2. <<h, p>> \prec <<c, s>>
      BY <1>7, <3>1 DEF \prec
    <3>3. ~(k >= c)
      BY <1>1, <1>8
    <3> QED
      BY <1>2, <1>3, <3>2, <3>3, Zenon DEF h, c, n
  <2>2. CASE k # 0
    <3>1. h < c
      BY <1>1, <1>2, <2>2, <1>8
    <3>2. <<h, p>> \prec <<c, s>>
      BY <1>7, <3>1 DEF \prec
    <3>3. ~(k >= c)
      BY <1>1, <1>8
    <3> QED
      BY <1>2, <1>3, <3>2, <3>3, Zenon DEF h, c, n
  <2> QED
    BY <2>1, <2>2
<1>9. CASE k >= c
  <2>1. k # 0 /\ h = (c - k) + n /\ h >= c /\ h \in Int /\ c \in Int
    BY <1>1, <1>2, <1>9
  <2>2. ASSUME Sure(f), <<h, p>> \prec <<c, s>>
        PROVE  FALSE
    <3>1. h = c /\ p < s
      BY <1>7, <2>1, <2>2 DEF \prec
    <3>2. ~(p + Size <= r.b)
      BY <1>3, <1>6, <2>1, <2>2, <3>1
    <3> QED
      BY <1>3, <1>4, <1>7, <3>1, <3>2
  <2> QED
    BY <1>2, <1>3, <1>9, <2>2, Zenon DEF h, c, n
<1>10. k < c \/ k >= c
  BY <1>1
<1> QED
  BY <1>8, <1>9, <1>10

\* FBFindAgainInternal backwards.
LEMMA FindsBackward ==
  ASSUME NEW f \in Bar, Ranged(f), ~f.head, f.lastLen = Size, NEW S \in Visible(f),
         f.cur = S[1], f.docs[f.cur] = At(S[2]), NEW g \in FindAgainInternal(f, TRUE)
  PROVE  Backward(f, g, S)
<1>1. f.cur \in DOMAIN f.docs
  BY DEF Ranged
<1>2. S = <<f.cur, S[2]>> /\ S[2] \in Nat /\ S[2] \in Seen(f, f.cur)
  BY <1>1, VisibleIs
<1>3. Textual(f)
  BY NoText
<1>4. Start(f, TRUE) \in Ranges /\ TRUE \in BOOLEAN
  <2>1. 0 \in 0 .. Len(f.docs)
    BY LastIs
  <2> QED
    BY <2>1, RangesSought DEF Starts
<1>5. CASE \E k \in 0 .. LastHop(f) : \E p \in Sought(f, k, TRUE) \ {None} :
             /\ k \in 0 .. Len(f.docs)
             /\ \A j \in 0 .. (k - 1) : None \in Sought(f, j, TRUE)
             /\ AtMatch(f, g, <<Hop(f, k, TRUE), p>>)
             /\ g.head <=> f.head \/ (TRUE /\ Wraps(f, k, TRUE))
             /\ g.tail <=> f.tail \/ (~TRUE /\ Wraps(f, k, TRUE))
  <2>1. PICK k \in 0 .. LastHop(f) : \E p \in Sought(f, k, TRUE) \ {None} :
             /\ k \in 0 .. Len(f.docs)
             /\ \A j \in 0 .. (k - 1) : None \in Sought(f, j, TRUE)
             /\ AtMatch(f, g, <<Hop(f, k, TRUE), p>>)
             /\ g.head <=> f.head \/ Wraps(f, k, TRUE)
             /\ g.tail <=> f.tail
    BY <1>5, Zenon
  <2>2. PICK p \in Sought(f, k, TRUE) \ {None} :
             /\ k \in 0 .. Len(f.docs)
             /\ \A j \in 0 .. (k - 1) : None \in Sought(f, j, TRUE)
             /\ AtMatch(f, g, <<Hop(f, k, TRUE), p>>)
             /\ g.head <=> f.head \/ Wraps(f, k, TRUE)
             /\ g.tail <=> f.tail
    BY <2>1, Zenon
  <2>3. /\ Hop(f, k, TRUE) \in 1 .. Len(f.docs) /\ p \in Seen(f, Hop(f, k, TRUE))
        /\ Wraps(f, k, TRUE) \/ <<Hop(f, k, TRUE), p>> \prec S
        /\ Sure(f) /\ Wraps(f, k, TRUE) => ~(<<Hop(f, k, TRUE), p>> \prec S)
    <3>1. /\ Hop(f, k, TRUE) \in 1 .. Len(f.docs) /\ p \in Seen(f, Hop(f, k, TRUE))
          /\ Wraps(f, k, TRUE) \/ <<Hop(f, k, TRUE), p>> \prec <<f.cur, S[2]>>
          /\ Sure(f) /\ Wraps(f, k, TRUE) => ~(<<Hop(f, k, TRUE), p>> \prec <<f.cur, S[2]>>)
      BY <1>2, <2>2, JumpIs
    <3> QED
      BY <1>2, <3>1, Zenon
  <2>4. <<Hop(f, k, TRUE), p>> \in Visible(f)
    <3>1. \A d \in 1 .. Len(f.docs) : \A q \in Seen(f, d) : <<d, q>> \in Visible(f)
      BY <1>1, VisibleIs
    <3> QED
      BY <2>3, <3>1, Zenon
  <2> QED
    BY <2>2, <2>3, <2>4, Zenon DEF Backward
<1>6. CASE Nowhere(f, g, Collapse(Start(f, TRUE), TRUE)) /\ g.tail = f.tail
  BY <1>6 DEF Backward
<1> QED
  BY <1>3, <1>4, <1>5, <1>6, AgainIs
-----------------------------------------------------------------------------
(***************************************************************************)
(* The order of the matches on a page, in which FBFindPrevious walks.      *)
(***************************************************************************)
Point(x)  == x = <<x[1], x[2]>> /\ x[1] \in Nat /\ x[2] \in Nat
Points(V) == \A x \in V : Point(x)
Beyond(w) == <<w[1], w[2] + 1>>

\* The order of the matches is total.
LEMMA Ordered ==
  ASSUME NEW x, NEW y, NEW z, Point(x), Point(y), Point(z)
  PROVE  /\ ~(x \prec x)
         /\ x \prec y => ~(y \prec x)
         /\ x \prec y /\ y \prec z => x \prec z
         /\ x = y \/ x \prec y \/ y \prec x
<1> DEFINE a == x[1] b == x[2] c == y[1] d == y[2] m == z[1] n == z[2]
<1>1. a \in Nat /\ b \in Nat /\ c \in Nat /\ d \in Nat /\ m \in Nat /\ n \in Nat
  BY DEF Point
<1>2. x = <<a, b>> /\ y = <<c, d>>
  BY DEF Point
<1>3. /\ x \prec x <=> a < a \/ (a = a /\ b < b)
      /\ x \prec y <=> a < c \/ (a = c /\ b < d)
      /\ y \prec x <=> c < a \/ (c = a /\ d < b)
      /\ y \prec z <=> c < m \/ (c = m /\ d < n)
      /\ x \prec z <=> a < m \/ (a = m /\ b < n)
  BY DEF \prec
<1> HIDE DEF a, b, c, d, m, n
<1>4. (a = c /\ b = d) \/ (a < c \/ (a = c /\ b < d)) \/ (c < a \/ (c = a /\ d < b))
  BY <1>1
<1>5. x = y \/ x \prec y \/ y \prec x
  BY <1>2, <1>3, <1>4, Zenon
<1>6. ~(a < a \/ (a = a /\ b < b))
  BY <1>1
<1>7. a < c \/ (a = c /\ b < d) => ~(c < a \/ (c = a /\ d < b))
  BY <1>1
<1>8. (a < c \/ (a = c /\ b < d)) /\ (c < m \/ (c = m /\ d < n)) => a < m \/ (a = m /\ b < n)
  BY <1>1
<1> QED
  BY <1>3, <1>5, <1>6, <1>7, <1>8, Zenon

\* Just beyond w lies what is after it.
LEMMA BeyondIs ==
  ASSUME NEW w, NEW y, Point(w), Point(y)
  PROVE  y \prec Beyond(w) <=> y = w \/ y \prec w
<1> DEFINE a == w[1] b == w[2] c == y[1] d == y[2]
<1>1. a \in Nat /\ b \in Nat /\ c \in Nat /\ d \in Nat /\ w = <<a, b>> /\ y = <<c, d>>
  BY DEF Point
<1>2. /\ y \prec Beyond(w) <=> c < a \/ (c = a /\ d < b + 1)
      /\ y \prec w <=> c < a \/ (c = a /\ d < b)
  BY DEF \prec, Beyond
<1>3. y = w <=> c = a /\ d = b
  BY <1>1
<1> HIDE DEF a, b, c, d
<1>4. c < a \/ (c = a /\ d < b + 1) <=> (c = a /\ d = b) \/ c < a \/ (c = a /\ d < b)
  BY <1>1
<1> QED
  BY <1>2, <1>3, <1>4, Zenon

\* The first of the matches is the one before all others,
LEMMA FirstIs ==
  ASSUME NEW S, Points(S), NEW x \in S, \A y \in S : y = x \/ x \prec y
  PROVE  First(S) = x
<1>1. \A y \in S : ~(y \prec x)
  BY Ordered, Zenon DEF Points
<1>2. \A z \in S : (\A y \in S : ~(y \prec z)) => z = x
  OBVIOUS
<1> QED
  BY <1>1, <1>2, Zenon DEF First

\* and the last of them the one after.
LEMMA FinalIs ==
  ASSUME NEW S, Points(S), NEW x \in S, \A y \in S : y = x \/ y \prec x
  PROVE  Final(S) = x
<1>1. \A y \in S : ~(x \prec y)
  BY Ordered, Zenon DEF Points
<1>2. \A z \in S : (\A y \in S : ~(z \prec y)) => z = x
  OBVIOUS
<1> QED
  BY <1>1, <1>2, Zenon DEF Final

\* The match to find next, as the property has it.
LEMMA NextIs ==
  ASSUME NEW V, Points(V), NEW c, NEW x, NextOf(V, c, x), NEW ahead, ahead = {y \in V : ~(y \prec c)}
  PROVE  /\ ahead # {} => First(ahead) = x /\ ~AllBefore(V, c)
         /\ ahead = {} => First(V) = x /\ AllBefore(V, c)
<1>1. Points(ahead)
  BY DEF Points
<1>2. CASE ~(x \prec c) /\ \A y \in V : ~(y \prec c) => y = x \/ x \prec y
  <2>1. x \in ahead /\ \A y \in ahead : y = x \/ x \prec y
    BY <1>2 DEF NextOf
  <2>2. First(ahead) = x
    BY <1>1, <2>1, FirstIs
  <2> QED
    BY <1>2, <2>1, <2>2 DEF AllBefore, NextOf
<1>3. CASE \A y \in V : (y \prec c) /\ (y = x \/ x \prec y)
  <2>1. x \in V /\ \A y \in V : y = x \/ x \prec y
    BY <1>3 DEF NextOf
  <2>2. First(V) = x
    BY <2>1, FirstIs
  <2> QED
    BY <1>3, <2>2 DEF AllBefore
<1> QED
  BY <1>2, <1>3 DEF NextOf

\* The walk to the match S, from where the cursor c was, is at the match w: whether the
\* tail of the page counts as passed.
OnWay(V, c, S, w, tail, sure) ==
  /\ AllBefore(V, c) => tail
  /\ ~AllBefore(V, c) /\ tail => w \prec S
  /\ ~AllBefore(V, c) /\ sure /\ ~tail => ~(w \prec S)

\* A find forwards that does not end the walk goes one match on.
LEMMA WalksOn ==
  ASSUME NEW V, Points(V), NEW c, NEW S \in V, NEW w \in V, NEW x \in V, x # S,
         NextOf(V, Beyond(w), x), NEW tail \in BOOLEAN, NEW sure \in BOOLEAN,
         OnWay(V, c, S, w, tail, sure), NEW tail2 \in BOOLEAN,
         tail2 <=> tail \/ AllBefore(V, Beyond(w))
  PROVE  OnWay(V, c, S, x, tail2, sure)
<1>1. Point(S) /\ Point(w) /\ Point(x)
  BY DEF Points
<1>2. \A y \in V : y \prec Beyond(w) <=> y = w \/ y \prec w
  BY <1>1, BeyondIs DEF Points
<1>3. ASSUME AllBefore(V, Beyond(w)) PROVE x \prec S
  <2>1. \A y \in V : y = x \/ x \prec y
    BY <1>3 DEF NextOf, AllBefore
  <2> QED
    BY <2>1
<1>4. ASSUME w \prec S PROVE x \prec S
  <2>1. ~(S \prec Beyond(w))
    BY <1>1, <1>2, <1>4, Ordered
  <2> QED
    BY <2>1 DEF NextOf
<1>5. ASSUME ~AllBefore(V, Beyond(w)) PROVE w \prec x
  <2>1. ~(x \prec Beyond(w))
    BY <1>5, Zenon DEF NextOf, AllBefore
  <2> QED
    BY <1>1, <1>2, <2>1, Ordered
<1>6. ASSUME ~AllBefore(V, c), sure, ~tail2 PROVE ~(x \prec S)
  <2>1. ~tail /\ ~AllBefore(V, Beyond(w)) /\ ~(w \prec S) /\ w \prec x
    BY <1>5, <1>6 DEF OnWay
  <2> QED
    BY <1>1, <2>1, Ordered
<1> QED
  BY <1>3, <1>4, <1>6 DEF OnWay

\* When the next match is S, the walk is at the match before S, and if it is sure of it, it has
\* passed the tail just when there are matches before the cursor.
LEMMA WalkEnds ==
  ASSUME NEW V, Points(V), NEW c, Point(c), NEW S \in V, NEW w \in V, NextOf(V, c, S),
         NextOf(V, Beyond(w), S), NEW tail \in BOOLEAN, NEW sure \in BOOLEAN,
         OnWay(V, c, S, w, tail, sure), NEW behind, behind = {x \in V : x \prec c}
  PROVE  /\ behind # {} => w = Final(behind) /\ (sure => tail)
         /\ behind = {} => w = Final(V) /\ (sure => ~tail)
<1>1. Point(S) /\ Point(w) /\ Points(behind)
  BY DEF Points
<1>2. \A y \in V : Point(y) /\ (y \prec Beyond(w) <=> y = w \/ y \prec w)
  BY <1>1, BeyondIs DEF Points
<1>3. ASSUME \A y \in V : y = S \/ S \prec y
      PROVE  (\A y \in V : y = w \/ y \prec w) /\ ~(w \prec S)
  <2>1. ~(w \prec S)
    BY <1>1, <1>3, Ordered
  <2>2. S \prec Beyond(w)
    BY <1>1, <1>2, <2>1, Ordered
  <2>3. \A y \in V : y \prec Beyond(w)
    BY <2>2 DEF NextOf
  <2> QED
    BY <1>2, <2>1, <2>3
<1>4. CASE AllBefore(V, c)
  <2>1. behind = V
    BY <1>4 DEF AllBefore
  <2>2. \A y \in V : y = S \/ S \prec y
    BY <1>4 DEF AllBefore, NextOf
  <2>3. w = Final(V) /\ tail
    BY <1>3, <1>4, <2>2, FinalIs DEF OnWay
  <2> QED
    BY <2>1, <2>3
<1>5. CASE ~AllBefore(V, c)
  <2>1. ~(S \prec c) /\ \A y \in V : ~(y \prec c) => y = S \/ S \prec y
    BY <1>5, Zenon DEF AllBefore, NextOf
  <2>2. \A y \in V : y \prec c => y \prec S
    BY <1>1, <1>2, <2>1, Ordered
  <2>3. CASE S \prec Beyond(w)
    <3>1. \A y \in V : y = S \/ S \prec y
      BY <2>3 DEF NextOf
    <3>2. (\A y \in V : y = w \/ y \prec w) /\ ~(w \prec S)
      BY <1>3, <3>1
    <3>3. behind = {}
      BY <1>1, <1>2, <2>2, <3>1, Ordered
    <3>4. w = Final(V)
      BY <3>2, FinalIs
    <3>5. sure => ~tail
      BY <1>5, <3>2 DEF OnWay
    <3> QED
      BY <3>3, <3>4, <3>5
  <2>4. CASE ~(S \prec Beyond(w))
    <3>1. w \prec S /\ \A y \in V : ~(y \prec Beyond(w)) => y = S \/ S \prec y
      BY <1>1, <1>2, <2>4, Ordered DEF NextOf
    <3>2. \A y \in V : y \prec S => y = w \/ y \prec w
      BY <1>1, <1>2, <3>1, Ordered
    <3>3. w \in behind
      BY <1>1, <2>1, <3>1, Ordered
    <3>4. \A y \in behind : y = w \/ y \prec w
      BY <2>2, <3>2
    <3>5. w = Final(behind)
      BY <1>1, <3>3, <3>4, FinalIs
    <3>6. sure => tail
      BY <1>5, <3>1 DEF OnWay
    <3> QED
      BY <3>3, <3>5, <3>6
  <2> QED
    BY <2>3, <2>4
<1> QED
  BY <1>4, <1>5
-----------------------------------------------------------------------------
(***************************************************************************)
(* The find bar between two steps.                                         *)
(***************************************************************************)
\* What a find leaves, counted from the cursor c, as FindsNearest has it.
Ending(f) == IF ~f.found THEN "notfound"
             ELSE IF f.head THEN "crosshead"
             ELSE IF f.tail THEN "crosstail" ELSE "found"
Stays(f, x) == f.cur = x[1] /\ f.docs[x[1]] = At(x[2])

NextGood(f, c) ==
  LET ahead == {x \in Visible(f) : ~(x \prec c)}
  IN /\ ahead # {} => Stays(f, First(ahead)) /\ Ending(f) = "found"
     /\ ahead = {} => Stays(f, First(Visible(f))) /\ Ending(f) = "crosstail"

PreviousGood(f, c) ==
  LET behind == {x \in Visible(f) : x \prec c}
  IN /\ behind # {} => Stays(f, Final(behind)) /\ (Sure(f) => Ending(f) = "found")
     /\ behind = {} => Stays(f, Final(Visible(f))) /\ (Sure(f) => Ending(f) = "crosshead")

\* What is so of the find f when the call p returns.
Nearest(f, p) ==
  p.pc = "idle" /\ p.find # "none" =>
    /\ Visible(f) = {} => Ending(f) = "notfound"
    /\ Visible(f) # {} /\ p.find = "next" => NextGood(f, p.from)
    /\ Visible(f) # {} /\ p.find # "next" => PreviousGood(f, p.from)

\* While FBFindPrevious is on its way: S is the match it started from, w where it is.
Walker(f, p, S, w) ==
  /\ p.doc = S[1] /\ p.range = At(S[2]) /\ NextOf(Visible(f), p.from, S) /\ Stays(f, w)
  /\ p.pc = "back" => w = S /\ ~f.found /\ (f.tail <=> AllBefore(Visible(f), p.from))
  /\ p.pc = "walk" => OnWay(Visible(f), p.from, S, w, f.tail, Sure(f))

Walking(f, p) ==
  \/ p.pc = "idle"
  \/ /\ p.pc \in {"back", "walk"} /\ p.find = "previous" /\ p.len = Size /\ Point(p.from)
     /\ f.inProgress /\ f.lastLen = Size /\ ~f.head
     /\ \E S \in Visible(f) : \E w \in Visible(f) : Walker(f, p, S, w)

\* The inductive invariant.
FindInv ==
  shown \in Seq(Seq(Document)) /\ Kept(fb, segs) /\ Walking(fb, call) /\ Nearest(fb, call)

\* FindsNearest in these words.
LEMMA NearestIs == FindsNearest <=> Nearest(fb, call)
<1>1. FBGetLastFindStatus = Ending(fb) /\ \A x : IsAt(x) <=> Stays(fb, x)
  BY Zenon DEF FBGetLastFindStatus, Ending, IsAt, Stays
<1>2. NextExact <=> NextGood(fb, call.from)
  BY <1>1, Zenon DEF NextExact, NextGood
<1>3. PreviousExact <=> PreviousGood(fb, call.from)
  BY <1>1, Zenon DEF PreviousExact, PreviousGood, Sure
<1> QED
  BY <1>1, <1>2, <1>3, Zenon DEF FindsNearest, Nearest

\* The visible matches are places on the page,
LEMMA VisiblePoints ==
  ASSUME NEW f \in Bar, Ranged(f)
  PROVE  Points(Visible(f))
<1>1. f.cur \in DOMAIN f.docs
  BY DEF Ranged
<1>2. Len(f.docs) \in Nat
  BY CurIs DEF Ranged
<1>3. \A i \in 1 .. Len(f.docs) : i \in Nat
  BY <1>2
<1> QED
  BY <1>1, <1>3, VisibleIs, Zenon DEF Points, Point

\* and so is the cursor.
LEMMA CursorPoint ==
  ASSUME NEW f \in Bar, Ranged(f)
  PROVE  Point(Cursor(f))
<1>1. f.cur \in Nat /\ 0 \in 0 .. Len(f.docs)
  BY BarIs, LastIs
<1>2. Cursor(f)[2] \in Nat
  BY <1>1, RangesSought DEF Starts
<1> QED
  BY <1>1, <1>2 DEF Point, Cursor

\* The find f, looking on from the match w where it is, begins just beyond it.
LEMMA CursorBeyond ==
  ASSUME NEW f \in Bar, NEW w, Point(w), Stays(f, w), f.lastLen = Size
  PROVE  Cursor(f) = Beyond(w)
<1>1. f.docs[f.cur].a = w[2]
  BY AtIs DEF Stays, Point
<1>2. f.lastLen # 0
  BY Numbers
<1> QED
  BY <1>1, <1>2 DEF Cursor, Beyond, Stays

\* The find f has been asked for the next match, and the find g is what it has ended as.
LEMMA ForwardNearest ==
  ASSUME NEW f \in Bar, Ranged(f), ~f.found, ~f.head, ~f.tail,
         NEW g \in Bar, SameFind(f, g), Forward(f, g)
  PROVE  Nearest(g, [pc |-> "idle", find |-> "next", from |-> Cursor(f)])
<1> DEFINE V == Visible(f)
           c == Cursor(f)
           p == [pc |-> "idle", find |-> "next", from |-> c]
<1>1. Visible(g) = V /\ Points(V)
  BY SamePlaces, VisiblePoints
<1>2. p.from = c /\ p.find = "next"
  OBVIOUS
<1> HIDE DEF V, c, p
<1>3. CASE V = {}
  <2>1. ~g.found
    BY <1>3 DEF Forward, V, NextOf
  <2> QED
    BY <1>1, <1>2, <1>3, <2>1, Zenon DEF Nearest, Ending, p, c
<1>4. CASE V # {}
  <2>1. PICK x \in V : /\ NextOf(V, c, x) /\ AtMatch(f, g, x) /\ g.head = f.head
                       /\ g.tail <=> f.tail \/ AllBefore(V, c)
    BY <1>4, Zenon DEF Forward, V, c
  <2>2. Stays(g, x) /\ g.found /\ ~g.head /\ (g.tail <=> AllBefore(V, c))
    BY <2>1, Zenon DEF AtMatch, Stays
  <2>3. /\ {y \in V : ~(y \prec c)} # {} =>
             First({y \in V : ~(y \prec c)}) = x /\ ~AllBefore(V, c)
        /\ {y \in V : ~(y \prec c)} = {} => First(V) = x /\ AllBefore(V, c)
    BY <1>1, <2>1, NextIs
  <2>4. NextGood(g, c)
    BY <1>1, <2>2, <2>3, Zenon DEF NextGood, Ending
  <2> QED
    BY <1>1, <1>2, <1>4, <2>4, Zenon DEF Nearest, p, c
<1> QED
  BY <1>3, <1>4

\* Nothing is claimed of a find that did not take place.
LEMMA IdleNearest ==
  ASSUME NEW f
  PROVE  Nearest(f, Idle) /\ Walking(f, Idle)
<1>1. Idle.pc = "idle" /\ Idle.find = "none"
  BY DEF Idle
<1> QED
  BY <1>1 DEF Nearest, Walking
-----------------------------------------------------------------------------
(***************************************************************************)
(* The steps.                                                              *)
(***************************************************************************)
\* What depends on the pages depends on the one that is searched.
LEMMA Primes ==
  ASSUME shown'[fb'.load] = shown[fb'.load], DOMAIN shown \subseteq DOMAIN shown',
         Kept(fb', segs'), Walking(fb', call'), Nearest(fb', call')
  PROVE  Kept(fb, segs)' /\ Walking(fb, call)' /\ Nearest(fb, call)'
<1>1. \A d : Matches(fb, d)' = Matches(fb', d)
  BY Zenon DEF Matches
<1>2. \A d : Seen(fb, d)' = Seen(fb', d)
  BY <1>1 DEF Seen
<1>3. AllMatches(fb)' = AllMatches(fb')
  BY <1>1, Zenon DEF AllMatches
<1>4. Visible(fb)' = Visible(fb')
  BY <1>2 DEF Visible, Places
<1>5. Ranged(fb)' <=> Ranged(fb')
  BY Zenon DEF Ranged
<1>6. Sure(fb)' <=> Sure(fb')
  BY <1>1, <1>2, Zenon DEF Sure
<1>7. Placed(fb') => Placed(fb)'
  BY <1>5, Zenon DEF Placed
<1>8. (Marked(fb, segs)' <=> Marked(fb', segs')) /\ (Old(fb, segs)' <=> Old(fb', segs'))
  BY <1>3, Zenon DEF Marked, Old
<1>9. Kept(fb, segs)'
  BY <1>7, <1>8, Zenon DEF Kept
<1>12. \A S, w : Walker(fb, call, S, w)' <=> Walker(fb', call', S, w)
  <2> SUFFICES ASSUME NEW S, NEW w
               PROVE  Walker(fb, call, S, w)' <=> Walker(fb', call', S, w)
    OBVIOUS
  <2>1. NextOf(Visible(fb), call.from, S)' <=> NextOf(Visible(fb'), call'.from, S)
    BY <1>4, Zenon
  <2>2. AllBefore(Visible(fb), call.from)' <=> AllBefore(Visible(fb'), call'.from)
    BY <1>4, Zenon
  <2>3. OnWay(Visible(fb), call.from, S, w, fb.tail, Sure(fb))' <=>
        OnWay(Visible(fb'), call'.from, S, w, fb'.tail, Sure(fb'))
    BY <1>4, <1>6, Zenon DEF OnWay
  <2> QED
    BY <2>1, <2>2, <2>3, Zenon DEF Walker, Stays
<1>10. Walking(fb, call)'
  BY <1>4, <1>12, Zenon DEF Walking
<1>11. Nearest(fb, call)'
  BY <1>4, <1>6, Zenon DEF Nearest, NextGood, PreviousGood, Stays, Ending
<1> QED
  BY <1>9, <1>10, <1>11

\* A step that does not load a page has to keep the other parts only.
LEMMA Stepped ==
  ASSUME shown \in Seq(Seq(Document)), UNCHANGED shown,
         Kept(fb', segs'), Walking(fb', call'), Nearest(fb', call')
  PROVE  FindInv'
<1>1. shown' = shown
  OBVIOUS
<1>2. shown'[fb'.load] = shown[fb'.load] /\ DOMAIN shown \subseteq DOMAIN shown'
  BY <1>1, Zenon
<1>3. shown' \in Seq(Seq(Document))
  BY <1>1
<1> QED
  BY <1>2, <1>3, Primes, Zenon DEF FindInv

\* A find that looks on keeps what is highlighted.
LEMMA ForwardKeeps ==
  ASSUME NEW S, NEW f, Kept(f, S), f.inProgress, NEW g \in FindAgainInternal(f, FALSE)
  PROVE  Kept(g, S) /\ SameFind(f, g) /\ Forward(f, g) /\ g.inProgress
<1>1. f \in Bar /\ Ranged(f) /\ f.load \in DOMAIN shown /\ Marked(f, S) /\ Old(f, S)
  BY DEF Kept, Placed
<1>2. g \in Bar /\ SameFind(f, g) /\ Ranged(g) /\ Forward(f, g)
  BY <1>1, FindsForward
<1>3. Marked(g, S) /\ Old(g, S)
  BY <1>1, <1>2, MarkedSame
<1>4. Placed(g) /\ g.inProgress
  BY <1>1, <1>2, Zenon DEF Placed, SameFind
<1> QED
  BY <1>2, <1>3, <1>4 DEF Kept

\* FBCheckDocument keeps the find and the highlights in order.
LEMMA CheckKeeps ==
  ASSUME shown \in Seq(Seq(Document)), NEW S, NEW f, Kept(f, S), NEW g \in CheckDocument(f)
  PROVE  Kept(g, S)
<1>1. f \in Bar /\ Placed(f) /\ Marked(f, S) /\ Old(f, S)
  BY DEF Kept
<1> QED
  BY <1>1, CheckIs, MarkedCheck DEF Kept

\* A find whose flags have changed, or that starts again from its first range.
LEMMA FlagsKeep ==
  ASSUME NEW S, NEW f, Kept(f, S), NEW g \in Bar, SameFind(f, g), g.docs = f.docs,
         g.cur = f.cur, g.changed = f.changed, g.lastLen \in {f.lastLen, 0}
  PROVE  Kept(g, S)
<1>1. f \in Bar /\ Placed(f) /\ Marked(f, S) /\ Old(f, S)
  BY DEF Kept
<1>2. Placed(g)
  BY <1>1, Zenon DEF Placed, Ranged, SameFind
<1> QED
  BY <1>1, <1>2, MarkedSame DEF Kept

\* The last part of FBFindText and FBFindAgain.
LEMMA FindKeeps ==
  ASSUME NEW S, NEW f, Kept(f, S), Find(f)
  PROVE  Kept(fb', S) /\ Walking(fb', call') /\ Nearest(fb', call')
<1>1. CASE ~f.inProgress
  BY <1>1, IdleNearest DEF Find
<1>2. CASE f.inProgress
  <2> DEFINE c == Clear(f)
             p == [pc |-> "idle", find |-> "next", from |-> Cursor(c)]
  <2>1. f \in Bar
    BY DEF Kept
  <2>2. /\ c \in Bar /\ SameFind(f, c) /\ c.docs = f.docs /\ c.cur = f.cur
        /\ c.lastLen = f.lastLen /\ c.changed = f.changed /\ ~c.found /\ ~c.head /\ ~c.tail
    BY <2>1, ClearIs
  <2>3. Cursor(f) = Cursor(c)
    BY <2>2, Zenon DEF Cursor
  <2>4. fb' \in FindAgainInternal(c, FALSE) /\ call' = p
    BY <1>2, <2>3, Zenon DEF Find
  <2> HIDE DEF c
  <2>5. Kept(c, S)
    BY <2>2, FlagsKeep
  <2>6. c.inProgress /\ Ranged(c)
    BY <1>2, <2>2, <2>5 DEF SameFind, Kept, Placed
  <2>7. Kept(fb', S) /\ SameFind(c, fb') /\ Forward(c, fb')
    BY <2>4, <2>5, <2>6, ForwardKeeps
  <2>8. fb' \in Bar
    BY <2>7 DEF Kept
  <2>9. Nearest(fb', p)
    BY <2>2, <2>6, <2>7, <2>8, ForwardNearest
  <2> QED
    BY <2>4, <2>7, <2>9 DEF Walking
<1>3. f.inProgress \in BOOLEAN
  BY BarIs DEF Kept
<1> QED
  BY <1>1, <1>2, <1>3

\* FBSetFindText.
LEMMA SetTextStep ==
  ASSUME FindInv, NEW text \in Texts, FBSetFindText(text)
  PROVE  FindInv'
<1>1. PICK r \in SetText(text) : fb' = r[1] /\ segs' = r[2]
  BY DEF FBSetFindText
<1>2. Kept(fb', segs')
  BY <1>1, SetTextKeeps DEF FindInv
<1>3. call' = Idle /\ UNCHANGED shown
  BY DEF FBSetFindText, Other
<1> QED
  BY <1>2, <1>3, IdleNearest, Stepped DEF FindInv

\* FBFindText.
LEMMA FindTextStep ==
  ASSUME FindInv, NEW text \in Texts, FBFindText(text)
  PROVE  FindInv'
<1>1. PICK r \in SetText(text) :
        /\ segs' = r[2]
        /\ IF ~r[1].inProgress THEN fb' = r[1] /\ call' = Idle
           ELSE \E f \in CheckDocument(r[1]) : Find([f EXCEPT !.lastLen = 0])
  BY Zenon DEF FBFindText
<1>2. Kept(r[1], segs') /\ shown \in Seq(Seq(Document)) /\ UNCHANGED shown
  BY <1>1, SetTextKeeps DEF FindInv, FBFindText
<1>3. CASE ~r[1].inProgress
  BY <1>1, <1>2, <1>3, IdleNearest, Stepped
<1>4. CASE r[1].inProgress
  <2>1. PICK f \in CheckDocument(r[1]) : Find([f EXCEPT !.lastLen = 0])
    BY <1>1, <1>4, Zenon
  <2> DEFINE g == [f EXCEPT !.lastLen = 0]
  <2>2. Kept(f, segs')
    BY <1>2, <2>1, CheckKeeps
  <2>3. f \in Bar
    BY <2>2 DEF Kept
  <2>4. /\ g \in Bar /\ SameFind(f, g) /\ g.docs = f.docs /\ g.cur = f.cur
        /\ g.changed = f.changed /\ g.lastLen \in {f.lastLen, 0}
    BY <2>3, Zenon DEF Bar, SameFind
  <2> HIDE DEF g
  <2>5. Kept(g, segs')
    BY <2>2, <2>4, FlagsKeep
  <2>6. Find(g)
    BY <2>1 DEF g
  <2> QED
    BY <1>2, <2>5, <2>6, FindKeeps, Stepped
<1> QED
  BY <1>3, <1>4

\* FBFindAgain.
LEMMA FindAgainStep ==
  ASSUME FindInv, FBFindAgain
  PROVE  FindInv'
<1>1. PICK f \in CheckDocument(fb) : Find(f)
  BY DEF FBFindAgain
<1>2. UNCHANGED <<shown, segs>> /\ shown \in Seq(Seq(Document)) /\ Kept(fb, segs)
  BY DEF FBFindAgain, FindInv
<1>3. Kept(f, segs)
  BY <1>1, <1>2, CheckKeeps
<1>4. Kept(fb', segs) /\ Walking(fb', call') /\ Nearest(fb', call')
  BY <1>1, <1>3, FindKeeps
<1> QED
  BY <1>2, <1>4, Stepped

\* FBEndFindText.
LEMMA EndStep ==
  ASSUME FindInv, FBEndFindText
  PROVE  FindInv'
<1>1. fb \in Bar /\ Placed(fb) /\ Old(fb, segs)
  BY DEF FindInv, Kept
<1>2. fb' = EndFind(fb) /\ call' = Idle /\ UNCHANGED <<shown, segs>>
  BY DEF FBEndFindText, Other
<1>3. fb' \in Bar /\ ~fb'.inProgress /\ fb'.load = fb.load
  <2>1. Clear(fb) \in Bar /\ Clear(fb).load = fb.load
    BY <1>1, ClearIs DEF SameFind
  <2>2. << >> \in Seq(Ranges) /\ "" \in Texts /\ 1 \in Nat
    BY DEF Texts
  <2> QED
    BY <1>2, <2>1, <2>2, Zenon DEF EndFind, Bar
<1>4. Placed(fb') /\ Old(fb', segs)
  BY <1>1, <1>3 DEF Placed, Old
<1>5. Kept(fb', segs')
  BY <1>2, <1>3, <1>4, KeptOver
<1> QED
  BY <1>2, <1>5, IdleNearest, Stepped DEF FindInv

\* FBToggleHighlight.
LEMMA HighlightStep ==
  ASSUME FindInv, FBToggleHighlight
  PROVE  FindInv'
<1> DEFINE g == Good([fb EXCEPT !.highlight = ~@])
<1>1. fb \in Bar /\ Placed(fb) /\ Old(fb, segs) /\ shown \in Seq(Seq(Document))
  BY DEF FindInv, Kept
<1>2. PICK f \in IF g.inProgress THEN CheckDocument(g) ELSE {g} :
        /\ fb'   = IF f.inProgress /\ f.highlight THEN HighlightAll(f) ELSE f
        /\ segs' = IF f.inProgress /\ f.highlight THEN AllMatches(f)
                   ELSE IF f.highlight \/ f.inProgress # g.inProgress THEN segs ELSE {}
  BY Zenon DEF FBToggleHighlight
<1>3. call' = Idle /\ UNCHANGED shown
  BY DEF FBToggleHighlight, Other
<1>4. /\ g \in Bar /\ g.load = fb.load /\ g.inProgress = fb.inProgress /\ g.docs = fb.docs
      /\ g.cur = fb.cur /\ g.changed = fb.changed /\ g.lastLen = fb.lastLen
  <2> DEFINE i == [fb EXCEPT !.highlight = ~@]
  <2>1. /\ i \in Bar /\ i.load = fb.load /\ i.inProgress = fb.inProgress /\ i.docs = fb.docs
        /\ i.cur = fb.cur /\ i.changed = fb.changed /\ i.lastLen = fb.lastLen
    <3>1. (~fb.highlight) \in BOOLEAN
      OBVIOUS
    <3> QED
      BY <1>1, <3>1, Zenon DEF Bar
  <2> HIDE DEF i
  <2>2. Good(i) = g
    BY DEF i
  <2>3. /\ g \in Bar /\ SameFind(i, g) /\ g.docs = i.docs /\ g.cur = i.cur
        /\ g.lastLen = i.lastLen /\ g.changed = i.changed
    BY <2>1, <2>2, GoodIs
  <2> HIDE DEF g
  <2> QED
    BY <2>1, <2>3, Zenon DEF SameFind
<1>5. Placed(g)
  BY <1>1, <1>4, Zenon DEF Placed, Ranged
<1>6. Old(g, segs)
  BY <1>1, <1>4, Zenon DEF Old
<1> HIDE DEF g
<1>7. /\ f \in Bar /\ Placed(f) /\ Old(f, segs)
      /\ f.inProgress => g.inProgress
  <2>1. CASE g.inProgress
    <3>1. f \in CheckDocument(g)
      BY <1>2, <2>1
    <3>2. f \in Bar /\ Placed(f) /\ g.load <= f.load
      BY <1>1, <1>4, <1>5, <3>1, CheckIs
    <3> QED
      BY <1>4, <1>6, <2>1, <3>2, OldGrows
  <2>2. CASE ~g.inProgress
    BY <1>2, <1>4, <1>5, <1>6, <2>2
  <2> QED
    BY <2>1, <2>2
<1>8. Kept(fb', segs')
  <2>1. CASE f.inProgress /\ f.highlight
    BY <1>2, <1>7, <2>1, KeptAll
  <2>2. CASE ~f.inProgress
    <3>1. fb' = f
      BY <1>2, <2>2
    <3>2. segs' = segs \/ segs' = {}
      BY <1>2, <2>2
    <3> QED
      BY <1>7, <2>2, <3>1, <3>2, KeptOver, KeptNone
  <2>3. CASE f.inProgress /\ ~f.highlight
    <3>1. f.inProgress = g.inProgress
      BY <1>4, <1>7, <2>3, BarIs
    <3>2. fb' = f /\ segs' = {}
      BY <1>2, <2>3, <3>1
    <3> QED
      BY <1>7, <3>2, KeptNone
  <2> QED
    BY <2>1, <2>2, <2>3
<1> QED
  BY <1>1, <1>3, <1>8, IdleNearest, Stepped

\* FBToggleCase.
LEMMA CaseStep ==
  ASSUME FindInv, FBToggleCase
  PROVE  FindInv'
<1> DEFINE g == Good([fb EXCEPT !.case = ~@])
<1>1. /\ fb \in Bar /\ Placed(fb) /\ Old(fb, segs) /\ Marked(fb, segs)
      /\ shown \in Seq(Seq(Document))
  BY DEF FindInv, Kept
<1>2. PICK f \in IF g.inProgress THEN CheckDocument(g) ELSE {g} :
        /\ fb'   = IF f.inProgress /\ f.highlight THEN HighlightAll(f) ELSE f
        /\ segs' = IF f.inProgress /\ f.highlight THEN AllMatches(f) ELSE segs
  BY Zenon DEF FBToggleCase
<1>3. call' = Idle /\ UNCHANGED shown
  BY DEF FBToggleCase, Other
<1>4. /\ g \in Bar /\ g.load = fb.load /\ g.inProgress = fb.inProgress /\ g.docs = fb.docs
      /\ g.cur = fb.cur /\ g.changed = fb.changed /\ g.lastLen = fb.lastLen
      /\ g.highlight = fb.highlight
  <2> DEFINE i == [fb EXCEPT !.case = ~@]
  <2>1. /\ i \in Bar /\ i.load = fb.load /\ i.inProgress = fb.inProgress /\ i.docs = fb.docs
        /\ i.cur = fb.cur /\ i.changed = fb.changed /\ i.lastLen = fb.lastLen
        /\ i.highlight = fb.highlight
    <3>1. (~fb.case) \in BOOLEAN
      OBVIOUS
    <3> QED
      BY <1>1, <3>1, Zenon DEF Bar
  <2> HIDE DEF i
  <2>2. Good(i) = g
    BY DEF i
  <2>3. /\ g \in Bar /\ SameFind(i, g) /\ g.docs = i.docs /\ g.cur = i.cur
        /\ g.lastLen = i.lastLen /\ g.changed = i.changed
    BY <2>1, <2>2, GoodIs
  <2> HIDE DEF g
  <2> QED
    BY <2>1, <2>3, Zenon DEF SameFind
<1>5. Placed(g)
  BY <1>1, <1>4, Zenon DEF Placed, Ranged
<1>6. Old(g, segs)
  BY <1>1, <1>4, Zenon DEF Old
<1> HIDE DEF g
<1>7. /\ f \in Bar /\ Placed(f) /\ Old(f, segs)
      /\ f.inProgress => g.inProgress
      /\ f.inProgress /\ ~f.highlight => Marked(f, segs)
  <2>1. CASE g.inProgress
    <3>1. f \in CheckDocument(g)
      BY <1>2, <2>1
    <3>2. /\ f \in Bar /\ Placed(f) /\ g.load <= f.load /\ f.highlight = g.highlight
          /\ f = g \/ (f.inProgress => g.load < f.load)
      BY <1>1, <1>4, <1>5, <3>1, CheckIs
    <3>3. Old(f, segs)
      BY <1>4, <1>6, <3>2, OldGrows
    <3>4. ASSUME f.inProgress, ~f.highlight
          PROVE  Marked(f, segs)
      <4>1. CASE f = g
        <5>1. \A x \in segs : x[1] # fb.load
          BY <1>1, <1>4, <2>1, <3>2, <3>4, Zenon DEF Marked
        <5> QED
          BY <1>4, <4>1, <5>1, Zenon DEF Marked
      <4>2. CASE f.inProgress => g.load < f.load
        BY <1>4, <1>6, <3>2, <4>2, MarkedOver
      <4> QED
        BY <3>2, <4>1, <4>2
    <3> QED
      BY <2>1, <3>2, <3>3, <3>4
  <2>2. CASE ~g.inProgress
    BY <1>2, <1>4, <1>5, <1>6, <2>2
  <2> QED
    BY <2>1, <2>2
<1>8. Kept(fb', segs')
  <2>1. CASE f.inProgress /\ f.highlight
    BY <1>2, <1>7, <2>1, KeptAll
  <2>2. CASE ~f.inProgress
    BY <1>2, <1>7, <2>2, KeptOver
  <2>3. CASE f.inProgress /\ ~f.highlight
    BY <1>2, <1>7, <2>3 DEF Kept
  <2> QED
    BY <2>1, <2>2, <2>3
<1> QED
  BY <1>1, <1>3, <1>8, IdleNearest, Stepped

\* Another page is shown: the find is still on the old one.
LEMMA NavigateStep ==
  ASSUME FindInv, Navigate
  PROVE  FindInv'
<1>1. PICK p \in NextPages : shown' = Append(shown, p)
  BY DEF Navigate
<1>2. shown \in Seq(Seq(Document)) /\ p \in Seq(Document)
  BY FindAssumption DEF FindInv
<1>3. fb' = fb /\ segs' = segs /\ call' = Idle
  BY DEF Navigate
<1>4. fb.load \in 1 .. Len(shown)
  BY LoadIs DEF FindInv, Kept
<1>5. shown' \in Seq(Seq(Document)) /\ DOMAIN shown \subseteq DOMAIN shown' /\ shown'[fb.load] = shown[fb.load]
  BY <1>1, <1>2, <1>4
<1>6. Kept(fb', segs') /\ Walking(fb', call') /\ Nearest(fb', call')
  BY <1>3, IdleNearest DEF FindInv
<1>7. shown'[fb'.load] = shown[fb'.load]
  BY <1>3, <1>5
<1> QED
  BY <1>5, <1>6, <1>7, Primes, Zenon DEF FindInv

\* OnDocumentComplete starts the find again on the present page.
LEMMA CompleteStep ==
  ASSUME FindInv, OnDocumentComplete
  PROVE  FindInv'
<1>1. /\ fb \in Bar /\ Placed(fb) /\ Old(fb, segs) /\ Marked(fb, segs)
      /\ shown \in Seq(Seq(Document))
  BY DEF FindInv, Kept
<1>2. fb.inProgress /\ fb' = ResetFindRange(fb) /\ segs' = segs /\ call' = Idle /\ UNCHANGED shown
  BY DEF OnDocumentComplete, Other
<1>3. fb.load \in 1 .. Len(shown) /\ Len(shown) \in Nat /\ shown # << >>
  BY <1>1, LoadIs
<1>4. /\ fb' \in Bar /\ fb'.highlight = fb.highlight /\ fb'.case = fb.case
      /\ fb'.inProgress => /\ fb.inProgress /\ fb'.text = fb.text /\ fb'.load = Len(shown)
                           /\ Len(fb'.docs) = Len(shown[Len(shown)])
                           /\ Ranged(fb')
      /\ fb'.load \in {fb.load, Len(shown)}
  BY <1>1, <1>2, <1>3, ResetIs
<1>5. Placed(fb') /\ fb.load <= fb'.load
  BY <1>3, <1>4 DEF Placed
<1>6. Kept(fb', segs)
  <2>1. CASE fb'.inProgress => fb.load < fb'.load
    BY <1>1, <1>4, <1>5, <2>1, MarkedOver DEF Kept
  <2>2. CASE fb'.inProgress /\ ~(fb.load < fb'.load)
    <3>1. fb'.load = fb.load
      BY <1>3, <1>4, <2>2
    <3>2. Len(fb'.docs) = Len(fb.docs)
      BY <1>1, <1>2, <1>4, <2>2, <3>1, Zenon DEF Placed, Ranged
    <3>3. fb'.inProgress = fb.inProgress
      BY <1>2, <1>4, <2>2, BarIs
    <3>4. SameFind(fb, fb')
      BY <1>4, <2>2, <3>1, <3>2, <3>3 DEF SameFind
    <3> QED
      BY <1>1, <1>4, <1>5, <3>4, MarkedSame DEF Kept
  <2> QED
    BY <2>1, <2>2
<1> QED
  BY <1>1, <1>2, <1>6, IdleNearest, Stepped

\* FBFindPrevious begins: the match it starts from is the one after the cursor.
LEMMA PreviousStep ==
  ASSUME FindInv, FBFindPrevious
  PROVE  FindInv'
<1>1. shown \in Seq(Seq(Document)) /\ Kept(fb, segs) /\ UNCHANGED <<shown, segs>>
  BY DEF FindInv, FBFindPrevious
<1>2. PICK f \in CheckDocument(fb) :
        IF ~f.inProgress THEN fb' = f /\ call' = Idle
        ELSE LET g == [Clear(f) EXCEPT !.lastLen = 0]
             IN \E h \in FindAgainInternal(g, FALSE) :
                  IF h.found
                  THEN /\ fb' = [h EXCEPT !.found = FALSE]
                       /\ call' = [pc |-> "back", find |-> "previous", from |-> Cursor(g),
                                   doc |-> h.cur, range |-> h.docs[h.cur], len |-> h.lastLen]
                  ELSE /\ fb' = [h EXCEPT !.tail = FALSE, !.head = TRUE]
                       /\ call' = [pc |-> "idle", find |-> "previous", from |-> Cursor(g)]
  BY Zenon DEF FBFindPrevious
<1>3. Kept(f, segs)
  BY <1>1, <1>2, CheckKeeps
<1>4. CASE ~f.inProgress
  BY <1>1, <1>2, <1>3, <1>4, IdleNearest, Stepped
<1>5. CASE f.inProgress
  <2> DEFINE g == [Clear(f) EXCEPT !.lastLen = 0]
  <2>1. PICK h \in FindAgainInternal(g, FALSE) :
          IF h.found
          THEN /\ fb' = [h EXCEPT !.found = FALSE]
               /\ call' = [pc |-> "back", find |-> "previous", from |-> Cursor(g),
                           doc |-> h.cur, range |-> h.docs[h.cur], len |-> h.lastLen]
          ELSE /\ fb' = [h EXCEPT !.tail = FALSE, !.head = TRUE]
               /\ call' = [pc |-> "idle", find |-> "previous", from |-> Cursor(g)]
    BY <1>2, <1>5, Zenon
  <2>2. f \in Bar
    BY <1>3 DEF Kept
  <2>3. /\ g \in Bar /\ SameFind(f, g) /\ g.docs = f.docs /\ g.cur = f.cur
        /\ g.changed = f.changed /\ g.lastLen \in {f.lastLen, 0}
        /\ ~g.found /\ ~g.head /\ ~g.tail
    <3>1. /\ Clear(f) \in Bar /\ SameFind(f, Clear(f)) /\ Clear(f).docs = f.docs
          /\ Clear(f).cur = f.cur /\ Clear(f).changed = f.changed
          /\ ~Clear(f).found /\ ~Clear(f).head /\ ~Clear(f).tail
      BY <2>2, ClearIs
    <3> QED
      BY <3>1, Zenon DEF Bar, SameFind
  <2> HIDE DEF g
  <2>4. Kept(g, segs)
    BY <1>3, <2>3, FlagsKeep
  <2>5. g.inProgress /\ Ranged(g)
    BY <1>5, <2>3, <2>4 DEF Kept, Placed, SameFind
  <2>6. Kept(h, segs) /\ SameFind(g, h) /\ Forward(g, h) /\ h.inProgress
    BY <2>1, <2>4, <2>5, ForwardKeeps
  <2>7. h \in Bar
    BY <2>6 DEF Kept
  <2>8. Visible(h) = Visible(g)
    BY <2>3, <2>6, <2>7, SamePlaces
  <2>9. CASE ~h.found
    <3> DEFINE i == [h EXCEPT !.tail = FALSE, !.head = TRUE]
               p == [pc |-> "idle", find |-> "previous", from |-> Cursor(g)]
    <3>1. fb' = i /\ call' = p
      BY <2>1, <2>9
    <3>2. /\ i \in Bar /\ SameFind(h, i) /\ i.docs = h.docs /\ i.cur = h.cur
          /\ i.changed = h.changed /\ i.lastLen \in {h.lastLen, 0} /\ i.found = h.found
      BY <2>7, Zenon DEF Bar, SameFind
    <3> HIDE DEF i
    <3>3. Kept(i, segs)
      BY <2>6, <3>2, FlagsKeep
    <3>4. Visible(i) = {}
      <4>1. Visible(g) = {}
        BY <2>6, <2>9, Zenon DEF Forward, AtMatch
      <4> QED
        BY <2>7, <2>8, <3>2, <4>1, SamePlaces
    <3>5. Nearest(i, p)
      BY <2>9, <3>2, <3>4, Zenon DEF Nearest, Ending
    <3>6. Walking(i, p)
      BY DEF Walking
    <3> QED
      BY <1>1, <3>1, <3>3, <3>5, <3>6, Stepped
  <2>10. CASE h.found
    <3> DEFINE i == [h EXCEPT !.found = FALSE]
               p == [pc |-> "back", find |-> "previous", from |-> Cursor(g),
                     doc |-> h.cur, range |-> h.docs[h.cur], len |-> h.lastLen]
    <3>1. fb' = i /\ call' = p
      BY <2>1, <2>10
    <3>2. /\ i \in Bar /\ SameFind(h, i) /\ i.docs = h.docs /\ i.cur = h.cur
          /\ i.changed = h.changed /\ i.lastLen = h.lastLen /\ ~i.found
          /\ i.head = h.head /\ i.tail = h.tail /\ i.inProgress = h.inProgress
      BY <2>7, Zenon DEF Bar, SameFind
    <3>3. /\ p.pc = "back" /\ p.find = "previous" /\ p.from = Cursor(g)
          /\ p.doc = h.cur /\ p.range = h.docs[h.cur] /\ p.len = h.lastLen
      OBVIOUS
    <3> HIDE DEF i, p
    <3>4. Kept(i, segs)
      BY <2>6, <3>2, FlagsKeep
    <3>5. Visible(i) = Visible(g)
      BY <2>7, <2>8, <3>2, SamePlaces
    <3>6. PICK x \in Visible(g) : /\ NextOf(Visible(g), Cursor(g), x) /\ AtMatch(g, h, x)
                                  /\ h.head = g.head
                                  /\ h.tail <=> g.tail \/ AllBefore(Visible(g), Cursor(g))
      BY <2>3, <2>6, <2>10, Zenon DEF Forward
    <3>7. h.cur = x[1] /\ h.docs[x[1]] = At(x[2]) /\ h.lastLen = Size
      BY <3>6, Zenon DEF AtMatch
    <3>8. Walker(i, p, x, x)
      BY <2>3, <3>2, <3>3, <3>5, <3>6, <3>7, Zenon DEF Walker, Stays
    <3>9. Point(p.from)
      BY <2>3, <2>5, <3>3, CursorPoint
    <3>10. Walking(i, p)
      BY <2>3, <2>6, <3>2, <3>3, <3>5, <3>6, <3>7, <3>8, <3>9, Zenon DEF Walking
    <3>11. Nearest(i, p)
      BY <3>3 DEF Nearest
    <3> QED
      BY <1>1, <3>1, <3>4, <3>10, <3>11, Stepped
  <2> QED
    BY <2>9, <2>10
<1> QED
  BY <1>4, <1>5

\* A find on its way: what holds of it, whatever it does next.
LEMMA OnTheWay ==
  ASSUME FindInv, call.pc # "idle"
  PROVE  /\ shown \in Seq(Seq(Document)) /\ Kept(fb, segs) /\ fb \in Bar /\ Ranged(fb)
         /\ call.pc \in {"back", "walk"} /\ call.find = "previous" /\ call.len = Size
         /\ Point(call.from) /\ fb.inProgress /\ fb.lastLen = Size /\ ~fb.head
         /\ Points(Visible(fb))
         /\ \E S \in Visible(fb) : \E w \in Visible(fb) : Walker(fb, call, S, w)
<1>1. shown \in Seq(Seq(Document)) /\ Kept(fb, segs)
  BY DEF FindInv
<1>2. /\ call.pc \in {"back", "walk"} /\ call.find = "previous" /\ call.len = Size
      /\ Point(call.from) /\ fb.inProgress /\ fb.lastLen = Size /\ ~fb.head
      /\ \E S \in Visible(fb) : \E w \in Visible(fb) : Walker(fb, call, S, w)
  BY Zenon DEF FindInv, Walking
<1>3. fb \in Bar /\ Ranged(fb)
  BY <1>1, <1>2 DEF Kept, Placed
<1> QED
  BY <1>1, <1>2, <1>3, VisiblePoints

\* The find f is put at the match x.
LEMMA PutAt ==
  ASSUME NEW f \in Bar, Ranged(f), NEW g \in Bar, SameFind(f, g), DOMAIN g.docs = DOMAIN f.docs,
         NEW x \in Visible(f), g.changed, Stays(g, x),
         \A e \in DOMAIN f.docs \ {x[1]} : g.docs[e] = Whole
  PROVE  Ranged(g)
<1>1. f.cur \in DOMAIN f.docs /\ DOMAIN f.docs = 1 .. Len(f.docs)
  BY CurIs DEF Ranged
<1>2. x[1] \in DOMAIN f.docs /\ x[2] \in Nat
  BY <1>1, VisibleIs
<1>3. At(x[2]).a >= 0
  BY <1>2, AtIs
<1>4. Len(g.docs) = Len(shown[g.load])
  BY DEF SameFind, Ranged
<1> QED
  BY <1>2, <1>3, <1>4, Zenon DEF Ranged, Stays

\* It jumps back, to any match that findText returns.
LEMMA JumpStep ==
  ASSUME FindInv, JumpBack
  PROVE  FindInv'
<1>0. call.pc = "back" /\ call' = [call EXCEPT !.pc = "walk"] /\ UNCHANGED <<shown, segs>>
  BY DEF JumpBack
<1>1. /\ shown \in Seq(Seq(Document)) /\ Kept(fb, segs) /\ fb \in Bar /\ Ranged(fb)
      /\ call.find = "previous" /\ call.len = Size
      /\ Point(call.from) /\ fb.inProgress /\ fb.lastLen = Size /\ ~fb.head
      /\ Points(Visible(fb))
      /\ \E S \in Visible(fb) : \E w \in Visible(fb) : Walker(fb, call, S, w)
  BY <1>0, OnTheWay
<1>2. PICK S \in Visible(fb) : Walker(fb, call, S, S)
  BY <1>0, <1>1, Zenon DEF Walker
<1>3. /\ call.doc = S[1] /\ call.range = At(S[2]) /\ NextOf(Visible(fb), call.from, S)
      /\ Stays(fb, S) /\ ~fb.found /\ (fb.tail <=> AllBefore(Visible(fb), call.from))
  BY <1>0, <1>2, Zenon DEF Walker
<1>4. PICK f \in FindAgainInternal(fb, TRUE) :
        fb' = IF f.found /\ ~AtStart(f)
              THEN [f EXCEPT !.tail = @ \/ ~f.head, !.head = FALSE]
              ELSE [f EXCEPT !.head = FALSE, !.cur = call.doc, !.docs[call.doc] = call.range,
                             !.lastLen = call.len]
  BY Zenon DEF JumpBack
<1>5. Backward(fb, f, S)
  BY <1>1, <1>3, <1>4, FindsBackward, Zenon DEF Stays
<1>6. Point(S) /\ S[1] \in DOMAIN fb.docs
  BY <1>1, VisibleIs, CurIs DEF Points, Ranged
<1>7. /\ f \in Bar /\ SameFind(fb, f) /\ DOMAIN f.docs = DOMAIN fb.docs /\ f.changed
      /\ f.inProgress /\ f.docs \in Seq(Ranges)
  <2>1. f \in Bar /\ SameFind(fb, f) /\ DOMAIN f.docs = DOMAIN fb.docs /\ f.changed
    BY <1>5, Zenon DEF Backward, AtMatch, Nowhere
  <2> QED
    BY <1>1, <2>1, BarIs DEF SameFind
<1>8. ASSUME NEW g \in Bar, fb' = g, SameFind(fb, g), Ranged(g), g.lastLen = Size, ~g.head,
             NEW w \in Visible(fb), Stays(g, w),
             OnWay(Visible(fb), call.from, S, w, g.tail, Sure(fb))
      PROVE  FindInv'
  <2> DEFINE p == [call EXCEPT !.pc = "walk"]
  <2>1. p.pc = "walk" /\ p.doc = call.doc /\ p.range = call.range /\ p.from = call.from
        /\ p.find = call.find /\ p.len = call.len
    BY <1>0
  <2> HIDE DEF p
  <2>2. Visible(g) = Visible(fb) /\ (Sure(g) <=> Sure(fb))
    <3>1. DOMAIN g.docs = DOMAIN fb.docs
      BY <1>1, <1>8 DEF SameFind, Bar
    <3>2. Visible(g) = Visible(fb)
      BY <1>1, <1>8, SamePlaces
    <3>3. \A d : Matches(g, d) = Matches(fb, d) /\ Seen(g, d) = Seen(fb, d)
      BY <1>8, SameMatches
    <3>4. Sure(g) <=> Sure(fb)
      BY <3>1, <3>3, Zenon DEF Sure
    <3> QED
      BY <3>2, <3>4
  <2>3. Walker(g, p, S, w)
    <3>1. OnWay(Visible(g), p.from, S, w, g.tail, Sure(g))
      BY <1>8, <2>1, <2>2, Zenon DEF OnWay
    <3> QED
      BY <1>3, <1>8, <2>1, <2>2, <3>1, Zenon DEF Walker
  <2>4. g.inProgress
    BY <1>1, <1>8, Zenon DEF SameFind
  <2>5. Walking(g, p)
    BY <1>1, <1>2, <1>8, <2>1, <2>2, <2>3, <2>4, Zenon DEF Walking
  <2>6. Nearest(g, p)
    BY <2>1 DEF Nearest
  <2>7. Kept(g, segs)
    <3>1. Marked(g, segs) /\ Old(g, segs)
      BY <1>1, <1>8, MarkedSame DEF Kept
    <3>2. Placed(g)
      BY <1>1, <1>8 DEF Kept, Placed, SameFind
    <3> QED
      BY <3>1, <3>2 DEF Kept
  <2> QED
    BY <1>0, <1>1, <1>8, <2>5, <2>6, <2>7, Stepped DEF p
<1>9. CASE f.found /\ ~AtStart(f)
  <2>1. PICK x \in Visible(fb) : /\ AtMatch(fb, f, x)
                                 /\ f.tail <=> fb.tail
                                 /\ f.head \/ x \prec S
                                 /\ Sure(fb) /\ f.head => ~(x \prec S)
    BY <1>3, <1>5, <1>9, Zenon DEF Backward, Nowhere
  <2> DEFINE g == [f EXCEPT !.tail = @ \/ ~f.head, !.head = FALSE]
  <2>2. /\ g \in Bar /\ SameFind(f, g) /\ g.docs = f.docs /\ g.cur = f.cur /\ ~g.head
        /\ g.lastLen = f.lastLen /\ g.changed = f.changed /\ (g.tail <=> f.tail \/ ~f.head)
    <3>1. (f.tail \/ ~f.head) \in BOOLEAN
      OBVIOUS
    <3> QED
      BY <1>7, <3>1, Zenon DEF Bar, SameFind
  <2>3. fb' = g
    BY <1>4, <1>9, Zenon
  <2> HIDE DEF g
  <2>4. f.lastLen = Size /\ Stays(f, x) /\ (\A e \in DOMAIN fb.docs \ {x[1]} : f.docs[e] = Whole)
    BY <2>1, Zenon DEF AtMatch, Stays
  <2>5. SameFind(fb, g) /\ Stays(g, x) /\ g.lastLen = Size
    BY <1>7, <2>2, <2>4, Zenon DEF SameFind, Stays
  <2>6. Ranged(g)
    BY <1>1, <1>7, <2>2, <2>4, <2>5, PutAt
  <2>7. OnWay(Visible(fb), call.from, S, x, g.tail, Sure(fb))
    BY <1>3, <2>1, <2>2, Zenon DEF OnWay
  <2> QED
    BY <1>8, <2>2, <2>3, <2>5, <2>6, <2>7
<1>10. CASE ~(f.found /\ ~AtStart(f))
  <2> DEFINE docs == [f.docs EXCEPT ![S[1]] = At(S[2])]
             g == [f EXCEPT !.head = FALSE, !.cur = S[1], !.docs = docs, !.lastLen = Size]
  <2>1. fb' = g
    <3>1. fb' = [f EXCEPT !.head = FALSE, !.cur = S[1], !.docs[S[1]] = At(S[2]), !.lastLen = Size]
      BY <1>1, <1>3, <1>4, <1>10, Zenon
    <3> QED
      BY <1>7, <3>1, Zenon DEF Bar
  <2>2. /\ docs \in Seq(Ranges) /\ Len(docs) = Len(f.docs) /\ DOMAIN docs = DOMAIN f.docs
        /\ docs[S[1]] = At(S[2]) /\ \A e \in DOMAIN f.docs \ {S[1]} : docs[e] = f.docs[e]
    <3>1. At(S[2]) \in Ranges
      BY <1>6, AtIs DEF Point
    <3> QED
      BY <1>6, <1>7, <3>1
  <2> HIDE DEF docs
  <2>3. /\ g \in Bar /\ g.docs = docs /\ g.cur = S[1] /\ ~g.head /\ g.lastLen = Size
        /\ g.changed = f.changed /\ g.tail = f.tail
        /\ g.inProgress = f.inProgress /\ g.highlight = f.highlight /\ g.case = f.case
        /\ g.text = f.text /\ g.load = f.load
    <3>1. S[1] \in Nat
      BY <1>6 DEF Point
    <3> QED
      BY <1>7, <2>2, <3>1, Zenon DEF Bar
  <2> HIDE DEF g
  <2>4. SameFind(fb, g) /\ DOMAIN g.docs = DOMAIN fb.docs /\ g.changed
    BY <1>7, <2>2, <2>3 DEF SameFind
  <2>5. Stays(g, S)
    BY <2>2, <2>3, Zenon DEF Stays
  <2>6. \A e \in DOMAIN fb.docs \ {S[1]} : f.docs[e] = Whole
    <3>1. CASE f.found
      <4>1. PICK x \in Visible(fb) : AtMatch(fb, f, x)
        BY <1>3, <1>5, <3>1, Zenon DEF Backward, Nowhere
      <4>2. f.cur = S[1]
        BY <1>3, <1>10, <3>1 DEF AtStart
      <4> QED
        BY <4>1, <4>2, Zenon DEF AtMatch
    <3>2. CASE ~f.found
      BY <1>3, <1>5, <3>2, Zenon DEF Backward, Nowhere, AtMatch, Stays
    <3> QED
      BY <3>1, <3>2
  <2>7. Ranged(g)
    <3>1. \A e \in DOMAIN fb.docs \ {S[1]} : g.docs[e] = Whole
      BY <1>7, <2>2, <2>3, <2>6
    <3> QED
      BY <1>1, <2>3, <2>4, <2>5, <3>1, PutAt
  <2>8. g.tail <=> AllBefore(Visible(fb), call.from)
    BY <1>3, <1>5, <2>3, Zenon DEF Backward
  <2>9. OnWay(Visible(fb), call.from, S, S, g.tail, Sure(fb))
    BY <1>6, <2>8, Ordered DEF OnWay
  <2> QED
    BY <1>8, <2>1, <2>3, <2>4, <2>5, <2>7, <2>9
<1> QED
  BY <1>9, <1>10

\* It goes on forwards, and ends at the match whose next one is the match it started from.
LEMMA WalkStep ==
  ASSUME FindInv, Walk
  PROVE  FindInv'
<1>0. call.pc = "walk" /\ UNCHANGED <<shown, segs>>
  BY DEF Walk
<1>1. /\ shown \in Seq(Seq(Document)) /\ Kept(fb, segs) /\ fb \in Bar /\ Ranged(fb)
      /\ call.find = "previous" /\ call.len = Size
      /\ Point(call.from) /\ fb.inProgress /\ fb.lastLen = Size /\ ~fb.head
      /\ Points(Visible(fb))
      /\ \E S \in Visible(fb) : \E w \in Visible(fb) : Walker(fb, call, S, w)
  BY <1>0, OnTheWay
<1>2. PICK S \in Visible(fb) : \E w \in Visible(fb) : Walker(fb, call, S, w)
  BY <1>1, Zenon
<1>3. PICK w \in Visible(fb) : Walker(fb, call, S, w)
  BY <1>2, Zenon
<1>4. /\ call.doc = S[1] /\ call.range = At(S[2]) /\ NextOf(Visible(fb), call.from, S)
      /\ Stays(fb, w) /\ OnWay(Visible(fb), call.from, S, w, fb.tail, Sure(fb))
  BY <1>0, <1>3, Zenon DEF Walker
<1> DEFINE b == [fb EXCEPT !.found = FALSE]
           V == Visible(fb)
<1>5. PICK f \in FindAgainInternal(b, FALSE) :
       IF AtStart(f)
       THEN /\ fb' = [f EXCEPT !.tail = FALSE, !.head = @ \/ ~fb.tail, !.cur = fb.cur,
                               !.docs = [@ EXCEPT ![f.cur] = Whole, ![fb.cur] = fb.docs[fb.cur]]]
            /\ call' = [pc |-> "idle", find |-> "previous", from |-> call.from]
       ELSE fb' = f /\ UNCHANGED call
  BY Zenon DEF Walk
<1>6. /\ b \in Bar /\ SameFind(fb, b) /\ b.docs = fb.docs /\ b.cur = fb.cur
      /\ b.changed = fb.changed /\ b.lastLen \in {fb.lastLen, 0} /\ b.lastLen = fb.lastLen
      /\ ~b.found /\ b.head = fb.head /\ b.tail = fb.tail
  BY <1>1, Zenon DEF Bar, SameFind
<1> HIDE DEF b
<1>7. Kept(b, segs) /\ b.inProgress /\ Ranged(b)
  <2>1. Kept(b, segs)
    BY <1>1, <1>6, FlagsKeep
  <2>2. b.inProgress
    BY <1>1, <1>6, Zenon DEF SameFind
  <2> QED
    BY <2>1, <2>2 DEF Kept, Placed
<1>8. Kept(f, segs) /\ SameFind(b, f) /\ Forward(b, f) /\ f.inProgress
  BY <1>5, <1>7, ForwardKeeps
<1>9. f \in Bar
  BY <1>8 DEF Kept
<1>10. Visible(b) = V
  BY <1>1, <1>6, SamePlaces
<1>11. Point(w) /\ Point(S)
  BY <1>1 DEF Points
<1>12. Cursor(b) = Beyond(w)
  <2>1. Stays(b, w) /\ b.lastLen = Size
    BY <1>1, <1>4, <1>6, Zenon DEF Stays
  <2> QED
    BY <1>6, <1>11, <2>1, CursorBeyond
<1>13. PICK x \in V : /\ NextOf(V, Beyond(w), x) /\ AtMatch(b, f, x) /\ f.head = b.head
                      /\ f.tail <=> b.tail \/ AllBefore(V, Beyond(w))
  BY <1>8, <1>10, <1>12, Zenon DEF Forward
<1>14. /\ f.cur = x[1] /\ f.docs[x[1]] = At(x[2]) /\ f.changed /\ f.found /\ f.lastLen = Size
       /\ DOMAIN f.docs = DOMAIN fb.docs /\ ~f.head
       /\ \A e \in DOMAIN fb.docs \ {x[1]} : f.docs[e] = Whole
  BY <1>1, <1>6, <1>13, Zenon DEF AtMatch
<1>15. SameFind(fb, f) /\ Visible(f) = V /\ (Sure(f) <=> Sure(fb))
  <2>1. SameFind(fb, f)
    BY <1>6, <1>8, Zenon DEF SameFind
  <2>2. Visible(f) = V
    BY <1>1, <1>9, <2>1, SamePlaces
  <2>3. \A d : Matches(f, d) = Matches(fb, d) /\ Seen(f, d) = Seen(fb, d)
    BY <2>1, SameMatches
  <2>4. Sure(f) <=> Sure(fb)
    BY <1>14, <2>3, Zenon DEF Sure
  <2> QED
    BY <2>1, <2>2, <2>4
<1>16. Point(x) /\ (AtStart(f) <=> x = S)
  <2>1. Point(x)
    BY <1>1 DEF Points
  <2>2. At(x[2]).a = x[2] /\ At(S[2]).a = S[2]
    BY <1>11, <2>1, AtIs DEF Point
  <2>3. AtStart(f) <=> x[1] = S[1] /\ At(x[2]) = At(S[2])
    BY <1>4, <1>14, Zenon DEF AtStart
  <2> QED
    BY <1>11, <2>1, <2>2, <2>3, Zenon DEF Point
<1>17. fb.tail \in BOOLEAN /\ f.tail \in BOOLEAN /\ Sure(fb) \in BOOLEAN
  BY <1>1, <1>9, BarIs DEF Sure
<1> HIDE DEF V
<1>18. CASE x # S
  <2>1. fb' = f /\ call' = call
    BY <1>5, <1>16, <1>18
  <2>2. OnWay(V, call.from, S, x, f.tail, Sure(fb))
    <3>1. f.tail <=> fb.tail \/ AllBefore(V, Beyond(w))
      BY <1>6, <1>13, Zenon
    <3>2. Points(V) /\ S \in V /\ w \in V /\ OnWay(V, call.from, S, w, fb.tail, Sure(fb))
      BY <1>1, <1>4 DEF V
    <3> QED
      BY <1>13, <1>17, <1>18, <3>1, <3>2, WalksOn
  <2>3. Walker(f, call, S, x)
    <3>1. OnWay(Visible(f), call.from, S, x, f.tail, Sure(f))
      BY <1>15, <2>2, Zenon DEF OnWay
    <3>2. NextOf(Visible(f), call.from, S) /\ Stays(f, x)
      BY <1>4, <1>14, <1>15, Zenon DEF Stays, V
    <3> QED
      BY <1>0, <1>4, <3>1, <3>2, Zenon DEF Walker
  <2>4. Walking(f, call)
    <3>1. S \in Visible(f) /\ x \in Visible(f)
      BY <1>15 DEF V
    <3> QED
      BY <1>0, <1>1, <1>8, <1>14, <2>3, <3>1, Zenon DEF Walking
  <2>5. Nearest(f, call)
    BY <1>0 DEF Nearest
  <2> QED
    BY <1>0, <1>1, <1>8, <2>1, <2>4, <2>5, Stepped
<1>19. CASE x = S
  <2> DEFINE docs == [f.docs EXCEPT ![f.cur] = Whole, ![fb.cur] = fb.docs[fb.cur]]
             g == [f EXCEPT !.tail = FALSE, !.head = ~fb.tail, !.cur = fb.cur, !.docs = docs]
             p == [pc |-> "idle", find |-> "previous", from |-> call.from]
  <2>1. fb' = g /\ call' = p
    <3>1. /\ fb' = [f EXCEPT !.tail = FALSE, !.head = @ \/ ~fb.tail, !.cur = fb.cur,
                             !.docs = [@ EXCEPT ![f.cur] = Whole, ![fb.cur] = fb.docs[fb.cur]]]
          /\ call' = p
      BY <1>5, <1>16, <1>19
    <3>2. (f.head \/ ~fb.tail) = (~fb.tail)
      BY <1>14
    <3> QED
      BY <1>9, <3>1, <3>2, Zenon DEF Bar
  <2>2. fb.cur \in DOMAIN f.docs /\ f.docs \in Seq(Ranges) /\ fb.docs[fb.cur] \in Ranges
    BY <1>1, <1>9, <1>14, BarIs, CurIs DEF Ranged
  <2>3. /\ docs \in Seq(Ranges) /\ Len(docs) = Len(f.docs) /\ DOMAIN docs = DOMAIN f.docs
        /\ docs[fb.cur] = fb.docs[fb.cur]
        /\ \A e \in DOMAIN f.docs \ {fb.cur} : docs[e] = IF e = f.cur THEN Whole ELSE f.docs[e]
    <3> DEFINE one == [f.docs EXCEPT ![f.cur] = Whole]
    <3>1. /\ one \in Seq(Ranges) /\ Len(one) = Len(f.docs) /\ DOMAIN one = DOMAIN f.docs
          /\ \A e \in DOMAIN f.docs : one[e] = IF e = f.cur THEN Whole ELSE f.docs[e]
      <4> DEFINE old == f.docs  c == f.cur  n == Len(f.docs)
      <4>1. old \in [1 .. n -> Ranges] /\ n \in Nat /\ Whole \in Ranges /\ DOMAIN old = 1 .. n
        BY <2>2, Numbers
      <4>2. one = [old EXCEPT ![c] = Whole]
        OBVIOUS
      <4> HIDE DEF old, c, one, n
      <4>3. /\ one \in [1 .. n -> Ranges]
            /\ \A e \in 1 .. n : one[e] = IF e = c THEN Whole ELSE old[e]
        BY <4>1, <4>2
      <4>4. one \in Seq(Ranges) /\ Len(one) = n
        BY <4>1, <4>3
      <4> QED
        BY <4>1, <4>3, <4>4 DEF old, c, n
    <3>2. docs = [one EXCEPT ![fb.cur] = fb.docs[fb.cur]]
      OBVIOUS
    <3> HIDE DEF one, docs
    <3> QED
      BY <2>2, <3>1, <3>2
  <2> HIDE DEF docs
  <2>4. /\ g \in Bar /\ g.docs = docs /\ g.cur = fb.cur /\ g.lastLen = f.lastLen
        /\ g.changed = f.changed /\ g.found = f.found /\ ~g.tail /\ (g.head <=> ~fb.tail)
        /\ g.inProgress = f.inProgress /\ g.highlight = f.highlight /\ g.case = f.case
        /\ g.text = f.text /\ g.load = f.load
    <3>1. (~fb.tail) \in BOOLEAN /\ fb.cur \in Nat
      BY <1>1, BarIs
    <3> QED
      BY <1>9, <2>3, <3>1, Zenon DEF Bar
  <2> HIDE DEF g
  <2>5. SameFind(fb, g) /\ DOMAIN g.docs = DOMAIN fb.docs
    BY <1>14, <1>15, <2>3, <2>4 DEF SameFind
  <2>6. Stays(g, w)
    BY <1>4, <2>3, <2>4, Zenon DEF Stays
  <2>7. Ranged(g)
    <3>1. \A e \in DOMAIN fb.docs \ {w[1]} : g.docs[e] = Whole
      BY <1>4, <1>14, <2>3, <2>4 DEF Stays
    <3> QED
      BY <1>1, <1>14, <2>4, <2>5, <2>6, <3>1, PutAt
  <2>8. Kept(g, segs)
    <3>1. Marked(g, segs) /\ Old(g, segs)
      BY <1>1, <2>4, <2>5, MarkedSame DEF Kept
    <3>2. Placed(g)
      BY <1>1, <2>4, <2>5, <2>7 DEF Kept, Placed, SameFind
    <3> QED
      BY <2>4, <3>1, <3>2 DEF Kept
  <2>9. Visible(g) = V /\ (Sure(g) <=> Sure(fb))
    <3>1. Visible(g) = V
      BY <1>1, <2>4, <2>5, SamePlaces DEF V
    <3>2. \A d : Matches(g, d) = Matches(fb, d) /\ Seen(g, d) = Seen(fb, d)
      BY <2>5, SameMatches
    <3>3. Sure(g) <=> Sure(fb)
      BY <2>5, <3>2, Zenon DEF Sure
    <3> QED
      BY <3>1, <3>3
  <2>10. /\ {y \in V : y \prec call.from} # {} =>
              w = Final({y \in V : y \prec call.from}) /\ (Sure(fb) => fb.tail)
         /\ {y \in V : y \prec call.from} = {} => w = Final(V) /\ (Sure(fb) => ~fb.tail)
    <3>1. /\ Points(V) /\ S \in V /\ w \in V /\ NextOf(V, call.from, S)
          /\ OnWay(V, call.from, S, w, fb.tail, Sure(fb))
      BY <1>1, <1>4 DEF V
    <3>2. Point(call.from) /\ NextOf(V, Beyond(w), S)
      BY <1>1, <1>13, <1>19
    <3> QED
      BY <1>17, <3>1, <3>2, WalkEnds
  <2>11. PreviousGood(g, call.from)
    BY <1>14, <2>4, <2>6, <2>9, <2>10, Zenon DEF PreviousGood, Ending
  <2>12. Nearest(g, p) /\ Walking(g, p)
    <3>1. p.pc = "idle" /\ p.find = "previous" /\ p.from = call.from
      OBVIOUS
    <3> HIDE DEF p
    <3>2. Visible(g) # {}
      BY <2>9
    <3> QED
      BY <2>11, <3>1, <3>2 DEF Nearest, Walking
  <2> QED
    BY <1>0, <1>1, <2>1, <2>8, <2>12, Stepped
<1> QED
  BY <1>18, <1>19

\* At first no find is in progress.
LEMMA FindStarts == Init => FindInv
<1> SUFFICES ASSUME Init PROVE FindInv
  OBVIOUS
<1>1. PICK p \in Pages : shown = <<p>>
  BY DEF Init
<1>2. p \in Seq(Document)
  BY FindAssumption
<1>3. shown \in Seq(Seq(Document)) /\ DOMAIN shown = {1}
  BY <1>1, <1>2
<1>4. PICK u \in BOOLEAN, v \in BOOLEAN, w \in BOOLEAN, x \in BOOLEAN :
        fb = [inProgress |-> FALSE, highlight |-> FALSE, case |-> FALSE, text |-> "",
              load |-> 1, docs |-> << >>, cur |-> 1, changed |-> u, lastLen |-> 0,
              found |-> v, head |-> w, tail |-> x]
  BY Zenon DEF Init
<1>5. fb \in Bar /\ ~fb.inProgress /\ fb.load = 1
  <2>1. << >> \in Seq(Ranges) /\ "" \in Texts /\ 1 \in Nat /\ 0 \in {0, Size}
    BY DEF Texts
  <2> QED
    BY <1>4, <2>1, Zenon DEF Bar
<1>6. Placed(fb)
  BY <1>3, <1>5 DEF Placed
<1>7. segs = {} /\ call = Idle
  BY DEF Init
<1>8. Kept(fb, segs)
  BY <1>5, <1>6, <1>7, KeptNone
<1> QED
  BY <1>3, <1>7, <1>8, IdleNearest DEF FindInv

\* Every operation keeps the invariant.
LEMMA FindSteps == FindInv /\ [Next]_vars => FindInv'
<1> SUFFICES ASSUME FindInv, [Next]_vars PROVE FindInv'
  OBVIOUS
<1>1. ASSUME NEW text \in Texts, FBSetFindText(text) PROVE FindInv'
  BY <1>1, SetTextStep
<1>2. ASSUME NEW text \in Texts, FBFindText(text) PROVE FindInv'
  BY <1>2, FindTextStep
<1>3. CASE FBFindAgain
  BY <1>3, FindAgainStep
<1>4. CASE FBFindPrevious
  BY <1>4, PreviousStep
<1>5. CASE JumpBack
  BY <1>5, JumpStep
<1>6. CASE Walk
  BY <1>6, WalkStep
<1>7. CASE FBEndFindText
  BY <1>7, EndStep
<1>8. CASE FBToggleHighlight
  BY <1>8, HighlightStep
<1>9. CASE FBToggleCase
  BY <1>9, CaseStep
<1>10. CASE Navigate
  BY <1>10, NavigateStep
<1>11. CASE OnDocumentComplete
  BY <1>11, CompleteStep
<1>12. CASE UNCHANGED vars
  <2>1. UNCHANGED shown /\ fb' = fb /\ segs' = segs /\ call' = call
    BY <1>12 DEF vars
  <2> QED
    BY <2>1, Stepped DEF FindInv
<1> QED
  BY <1>1, <1>2, <1>3, <1>4, <1>5, <1>6, <1>7, <1>8, <1>9, <1>10, <1>11, <1>12 DEF Next

\* The invariant of the find bar: where its range can be, what is highlighted, and how far
\* FBFindPrevious has come.
THEOREM FindInductive == Spec => []FindInv
  BY FindStarts, FindSteps, PTL DEF Spec

\* What is highlighted on the documents searched is what the text matches now.
THEOREM HighlightsMatch == Spec => []HighlightsExact
<1>1. FindInv => HighlightsExact
  BY Zenon DEF FindInv, Kept, Marked, HighlightsExact
<1> QED
  BY <1>1, FindInductive, PTL

\* FBFindText, FBFindAgain and FBFindPrevious end at the visible match next to where they
\* start, with the status that says whether an end of the page was passed.
THEOREM NearestIsFound == Spec => []FindsNearest
<1>1. FindInv => FindsNearest
  BY NearestIs DEF FindInv
<1> QED
  BY <1>1, FindInductive, PTL
====
