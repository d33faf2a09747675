------------------------------ MODULE FindBar ------------------------------
(***************************************************************************)
(* The find bar of a content window (the FB members of IEHostWindow.cpp).  *)
(*                                                                         *)
(* A page is a tree of frames, flattened to a list of documents.  A        *)
(* document is known by what is at each of its positions: no match, or a   *)
(* match that is hidden, weak (it differs in case, and the longer text does*)
(* not match there) or strong.  A text range is [a |-> start, b |-> end].  *)
(*                                                                         *)
(* IE's findText is external.  Forwards it finds the first match of the    *)
(* range.  Backwards it finds a match of the range, "although it might not *)
(* be the closest one", and FBFindPrevious works around that by finding    *)
(* forwards until it meets the match it started from, a find per step here.*)
(***************************************************************************)
EXTENDS Integers, Sequences, FiniteSetsExt

CONSTANTS L,         \* the length of a document
          Size,      \* the length of a match
          Pages,     \* the pages the window may show first
          NextPages, \* and those it may go to
          MaxLoads   \* bounds the pages loaded

Marks    == {"none", "hidden", "weak", "strong"}
Texts    == {"", "short", "long"}
Pos      == 0 .. (L - Size)
Document == [Pos -> Marks]

ASSUME FindAssumption ==
  /\ Size \in Nat \ {0} /\ L \in Nat /\ L >= Size /\ MaxLoads \in Nat
  /\ Pages \subseteq Seq(Document) /\ NextPages \subseteq Seq(Document)

VARIABLES
  shown, \* the pages the window has shown, the last one now
  fb,    \* the m_..FB.. members; load: the page m_vFBDocs was taken from
  segs,  \* m_vFBHighlightSegments, as <<page, document, position>>
  call   \* the last find: the locals of FBFindPrevious, where it started

vars == <<shown, fb, segs, call>>

Whole    == [a |-> 0, b |-> L]
At(p)    == [a |-> p, b |-> p + Size]
Good(f)  == [f EXCEPT !.found = TRUE, !.head = FALSE, !.tail = FALSE]
Clear(f) == [f EXCEPT !.found = FALSE, !.head = FALSE, !.tail = FALSE]
Idle     == [pc |-> "idle", find |-> "none"]

\* The members the constructor does not set have any value.
Init == /\ \E p \in Pages : shown = <<p>>
        /\ segs = {} /\ call = Idle
        /\ \E u, v, w, x \in BOOLEAN :
             fb = [inProgress |-> FALSE, highlight |-> FALSE, case |-> FALSE, text |-> "",
                   load |-> 1, docs |-> << >>, cur |-> 1, changed |-> u, lastLen |-> 0,
                   found |-> v, head |-> w, tail |-> x]
-----------------------------------------------------------------------------
\* The matches of the text in document d, and those a user can see.
Matches(f, d) == IF f.text = "" THEN {}
                 ELSE {p \in Pos : shown[f.load][d][p] \in
                         IF f.case \/ f.text = "long" THEN {"strong", "hidden"}
                                                      ELSE Marks \ {"none"}}
Seen(f, d) == {p \in Matches(f, d) : shown[f.load][d][p] # "hidden"}

EndFind(f) == [Clear(f) EXCEPT !.inProgress = FALSE, !.docs = << >>, !.cur = 1, !.text = ""]

\* Start over with the documents the window shows now.
ResetFindRange(f) ==
  LET page == shown[Len(shown)]
  IN IF page = << >> THEN EndFind(f)
     ELSE [Good(f) EXCEPT !.load = Len(shown), !.docs = [d \in DOMAIN page |-> Whole],
                          !.cur = 1, !.changed = FALSE, !.lastLen = 0]

\* Whether a change shows depends on what became of the old documents.  It
\* returns false just when it has ended the find, so callers ask inProgress.
CheckDocument(f) == {f} \cup (IF f.load = Len(shown) THEN {} ELSE {ResetFindRange(f)})
-----------------------------------------------------------------------------
None == -1

\* What findText may end at in the range r of document d, once the loop has
\* passed over what cannot be seen.  Backwards, a hidden match at the head of
\* the range may be found before those after it, and then they are missed.
Hits(f, d, r, back) ==
  LET in  == {p \in Matches(f, d) : p >= r.a /\ p + Size <= r.b}
      see == in \cap Seen(f, d)
  IN IF back THEN see \cup (IF in = {} \/ Min(in) \notin see THEN {None} ELSE {})
     ELSE IF see = {} THEN {None} ELSE {Min(see)}

Stretch(r, back)   == IF back THEN [r EXCEPT !.a = 0] ELSE [r EXCEPT !.b = L]
Pass(r, len, back) == IF len = 0 THEN r
                      ELSE IF back THEN [r EXCEPT !.b = @ - 1] ELSE [r EXCEPT !.a = @ + 1]
Collapse(r, back)  == IF back THEN [r EXCEPT !.a = r.b] ELSE [r EXCEPT !.b = r.a]

\* The document k steps from the current one, and whether an end is passed.
Hop(f, k, back)   == ((f.cur - 1 + (IF back THEN -k ELSE k)) % Len(f.docs)) + 1
Wraps(f, k, back) == IF back THEN k >= f.cur ELSE f.cur + k > Len(f.docs)

\* Mutant: the current document is searched again only from where it was left.
Range0Left(f, r, k, back) == IF k = 0 THEN r ELSE Stretch(f.docs[Hop(f, k, back)], back)

\* The current document starts at r; the others from their own range, and the
\* current one again, from the whole of it, if a find has moved its range.
Range0(f, r, k, back) == IF k = 0 THEN r
                         ELSE IF k = Len(f.docs) THEN Whole
                         ELSE Stretch(f.docs[Hop(f, k, back)], back)

\* The find has searched the documents 0 .. k and is left at document d, whose
\* range is r.
Searched(f, k, d, r, back) ==
  [f EXCEPT !.cur = d, !.changed = TRUE,
            !.docs = [e \in DOMAIN f.docs |->
                        IF e = d THEN r
                        ELSE IF e = f.cur THEN Whole
                        ELSE IF \E j \in 1 .. k : e = Hop(f, j, back) THEN Stretch(f.docs[e], back)
                        ELSE f.docs[e]],
            !.head = @ \/ (back /\ Wraps(f, k, back)),
            !.tail = @ \/ (~back /\ Wraps(f, k, back))]

FindAgainInternal(f, back) ==
  IF f.text = "" THEN {[f EXCEPT !.docs[f.cur] = Collapse(@, back)]}
  ELSE LET n    == Len(f.docs)
           r    == Pass(Stretch(f.docs[f.cur], back), f.lastLen, back)
           last == IF f.changed THEN n ELSE n - 1
           hits == [k \in 0 .. last |-> Hits(f, Hop(f, k, back), Range0(f, r, k, back), back)]
           reached == {k \in 0 .. last : \A j \in 0 .. (k - 1) : None \in hits[j]}
           finds(k) == {[Searched(f, k, Hop(f, k, back), At(p), back) EXCEPT !.found = TRUE, !.lastLen = Size] :
                          p \in hits[k] \ {None}}
       IN (UNION {finds(k) : k \in reached})
          \cup (IF \A k \in 0 .. last : None \in hits[k]
                THEN {[Searched(f, n, f.cur, Collapse(r, back), back) EXCEPT !.lastLen = 0]}
                ELSE {})

AllMatches(f) == UNION {{f.load} \X {d} \X Matches(f, d) : d \in DOMAIN f.docs}

HighlightAll(f) == [Clear(f) EXCEPT !.found = AllMatches(f) # {}]
-----------------------------------------------------------------------------
Ready == call.pc = "idle"
Other == call' = Idle /\ UNCHANGED shown

\* A new text starts a find, if none is in progress.  Afterwards all of its
\* matches are highlighted or nothing is, unless the documents are gone.
SetText(text) ==
  IF text = fb.text THEN {<<fb, segs>>}
  ELSE LET g == [fb EXCEPT !.text = text]
           h == IF fb.inProgress \/ text = "" THEN g
                                              ELSE ResetFindRange([g EXCEPT !.inProgress = TRUE])
       IN {IF f.inProgress /\ f.highlight THEN <<HighlightAll(f), AllMatches(f)>>
           ELSE <<f, IF f.inProgress = h.inProgress THEN {} ELSE segs>> :
             f \in IF h.inProgress THEN CheckDocument(h) ELSE {h}}

FBSetFindText(text) == /\ Ready
                       /\ \E r \in SetText(text) : fb' = r[1] /\ segs' = r[2]
                       /\ Other

\* What a find does once the documents are checked.  The cursor is where it
\* starts: what it finds is counted from there.
Cursor(f) == <<f.cur, f.docs[f.cur].a + (IF f.lastLen = 0 THEN 0 ELSE 1)>>
Find(f)   == IF ~f.inProgress THEN fb' = f /\ call' = Idle
             ELSE /\ fb' \in FindAgainInternal(Clear(f), FALSE)
                  /\ call' = [pc |-> "idle", find |-> "next", from |-> Cursor(f)]

FBFindText(text) ==
  /\ Ready
  /\ \E r \in SetText(text) :
       /\ segs' = r[2]
       /\ IF ~r[1].inProgress THEN fb' = r[1] /\ call' = Idle
          ELSE \E f \in CheckDocument(r[1]) : Find([f EXCEPT !.lastLen = 0])
  /\ UNCHANGED shown

FBFindAgain == /\ Ready /\ fb.inProgress
               /\ \E f \in CheckDocument(fb) : Find(f)
               /\ UNCHANGED <<shown, segs>>

FBEndFindText == Ready /\ fb' = EndFind(fb) /\ Other /\ UNCHANGED segs

FBToggleHighlight ==
  /\ Ready
  /\ LET g == Good([fb EXCEPT !.highlight = ~@])
     IN \E f \in IF g.inProgress THEN CheckDocument(g) ELSE {g} :
          /\ fb'   = IF f.inProgress /\ f.highlight THEN HighlightAll(f) ELSE f
          /\ segs' = IF f.inProgress /\ f.highlight THEN AllMatches(f)
                     ELSE IF f.highlight \/ f.inProgress # g.inProgress THEN segs ELSE {}
  /\ Other

\* Mutant: what is highlighted stays when the case begins to matter.
FBToggleCaseOnly ==
  /\ Ready
  /\ fb' = Good([fb EXCEPT !.case = ~@])
  /\ Other /\ UNCHANGED segs

FBToggleCase ==
  /\ Ready
  /\ LET g == Good([fb EXCEPT !.case = ~@])
     IN \E f \in IF g.inProgress THEN CheckDocument(g) ELSE {g} :
          /\ fb'   = IF f.inProgress /\ f.highlight THEN HighlightAll(f) ELSE f
          /\ segs' = IF f.inProgress /\ f.highlight THEN AllMatches(f) ELSE segs
  /\ Other
-----------------------------------------------------------------------------
\* FBFindPrevious finds forwards to the match to start from, jumps back to some
\* match before it, and then finds forwards until it is there again.
FBFindPrevious ==
  /\ Ready /\ fb.inProgress
  /\ \E f \in CheckDocument(fb) :
       IF ~f.inProgress THEN fb' = f /\ call' = Idle
       ELSE LET g == [Clear(f) EXCEPT !.lastLen = 0]
            IN \E h \in FindAgainInternal(g, FALSE) :
                 IF h.found
                 THEN /\ fb' = [h EXCEPT !.found = FALSE]
                      /\ call' = [pc |-> "back", find |-> "previous", from |-> Cursor(g),
                                  doc |-> h.cur, range |-> h.docs[h.cur], len |-> h.lastLen]
                 ELSE /\ fb' = [h EXCEPT !.tail = FALSE, !.head = TRUE]
                      /\ call' = [pc |-> "idle", find |-> "previous", from |-> Cursor(g)]
  /\ UNCHANGED <<shown, segs>>

AtStart(f) == f.cur = call.doc /\ f.docs[f.cur] = call.range

\* Mutant: that the jump has not crossed the head is not noted.
JumpBackUnnoted ==
  /\ call.pc = "back"
  /\ \E f \in FindAgainInternal(fb, TRUE) :
       fb' = IF f.found /\ ~AtStart(f) THEN [f EXCEPT !.head = FALSE]
             ELSE [f EXCEPT !.head = FALSE, !.cur = call.doc, !.docs[call.doc] = call.range,
                            !.lastLen = call.len]
  /\ call' = [call EXCEPT !.pc = "walk"]
  /\ UNCHANGED <<shown, segs>>

JumpBack ==
  /\ call.pc = "back"
  /\ \E f \in FindAgainInternal(fb, TRUE) :
       fb' = IF f.found /\ ~AtStart(f)
             THEN [f EXCEPT !.tail = @ \/ ~f.head, !.head = FALSE]
             ELSE [f EXCEPT !.head = FALSE, !.cur = call.doc, !.docs[call.doc] = call.range,
                            !.lastLen = call.len]
  /\ call' = [call EXCEPT !.pc = "walk"]
  /\ UNCHANGED <<shown, segs>>

\* The match before the one it started from is the result.
Walk ==
  /\ call.pc = "walk"
  /\ \E f \in FindAgainInternal([fb EXCEPT !.found = FALSE], FALSE) :
       IF AtStart(f)
       THEN /\ fb' = [f EXCEPT !.tail = FALSE, !.head = @ \/ ~fb.tail, !.cur = fb.cur,
                               !.docs = [@ EXCEPT ![f.cur] = Whole, ![fb.cur] = fb.docs[fb.cur]]]
            /\ call' = [pc |-> "idle", find |-> "previous", from |-> call.from]
       ELSE fb' = f /\ UNCHANGED call
  /\ UNCHANGED <<shown, segs>>
-----------------------------------------------------------------------------
Navigate == /\ Ready /\ Len(shown) <= MaxLoads
            /\ \E p \in NextPages : shown' = Append(shown, p)
            /\ call' = Idle /\ UNCHANGED <<fb, segs>>

\* OnDocumentComplete, or OnDownloadComplete if it takes it for a refresh.
OnDocumentComplete == /\ Ready /\ fb.inProgress
                      /\ fb' = ResetFindRange(fb)
                      /\ Other /\ UNCHANGED segs

Next == \/ \E text \in Texts : FBSetFindText(text) \/ FBFindText(text)
        \/ FBFindAgain \/ FBFindPrevious \/ JumpBack \/ Walk
        \/ FBEndFindText \/ FBToggleHighlight \/ FBToggleCase
        \/ Navigate \/ OnDocumentComplete

\* A call runs to its end before the window handles another event.
Spec == Init /\ [][Next]_vars /\ WF_vars(JumpBack \/ Walk)
-----------------------------------------------------------------------------
(***************************************************************************)
(* Properties                                                              *)
(***************************************************************************)
Places(f)  == {<<d, p>> : d \in DOMAIN f.docs, p \in Pos}
Visible(f) == {x \in Places(f) : x[2] \in Seen(f, x[1])}
x \prec y  == x[1] < y[1] \/ (x[1] = y[1] /\ x[2] < y[2])
First(S)   == CHOOSE x \in S : \A y \in S : ~(y \prec x)
Final(S)   == CHOOSE x \in S : \A y \in S : ~(x \prec y)

FBGetLastFindStatus == IF ~fb.found THEN "notfound"
                       ELSE IF fb.head THEN "crosshead"
                       ELSE IF fb.tail THEN "crosstail" ELSE "found"

IsAt(x) == fb.cur = x[1] /\ fb.docs[x[1]] = At(x[2])

\* Find next finds the first visible match from its cursor through all frames,
\* and goes back to the head, and says so, only if there is none.
NextExact ==
  LET ahead == {x \in Visible(fb) : ~(x \prec call.from)}
  IN IF ahead # {} THEN IsAt(First(ahead)) /\ FBGetLastFindStatus = "found"
     ELSE IsAt(First(Visible(fb))) /\ FBGetLastFindStatus = "crosstail"

\* Find previous finds the last visible match before its cursor, whichever
\* match the backward find jumps to.  The status may be wrong only if a hidden
\* match makes that jump miss visible ones.
PreviousExact ==
  LET behind == {x \in Visible(fb) : x \prec call.from}
      sure   == \A d \in DOMAIN fb.docs : Matches(fb, d) = Seen(fb, d)
  IN IF behind # {} THEN IsAt(Final(behind)) /\ (sure => FBGetLastFindStatus = "found")
     ELSE IsAt(Final(Visible(fb))) /\ (sure => FBGetLastFindStatus = "crosshead")

\* What a find selects and the status it leaves are those the user sees on the
\* page: of the visible matches, the nearest in the direction of the find.
FindsNearest ==
  (call.pc = "idle" /\ call.find # "none") =>
    IF Visible(fb) = {} THEN FBGetLastFindStatus = "notfound"
    ELSE IF call.find = "next" THEN NextExact ELSE PreviousExact

\* On the documents searched, what is highlighted is what the text matches now,
\* and with highlighting off nothing is.
HighlightsExact ==
  fb.inProgress => \A x \in segs : x[1] = fb.load => fb.highlight /\ x \in AllMatches(fb)

\* The forward finds of FBFindPrevious meet the match they started from.
PreviousEnds == [](call.pc # "idle" => <>(call.pc = "idle"))
=============================================================================
