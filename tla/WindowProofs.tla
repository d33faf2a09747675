---------------------------- MODULE WindowProofs ----------------------------
(***************************************************************************)
(* What IE's windows and the hook on their messages keep.                  *)
(*                                                                         *)
(* HostWindows: while one utils window stays, whatever other windows come  *)
(* and go, popups are owned or due to be removed, and every cookie is in   *)
(* just one place.                                                         *)
(*                                                                         *)
(* MessageHook: every message gets to IE or to Firefox, to one of them,    *)
(* whole gestures and in order, and no gesture outlives the buttons.       *)
(***************************************************************************)
EXTENDS HostWindows, MessageHook, SequenceTheorems, TLAPS

Functions == [cookies : SUBSET Cookies, context : Windows \cup {NoWindow}]

WindowsOK == /\ life \in [Windows -> {"none", "live", "destroyed", "deleted"}]
             /\ kind \in [Windows -> {"content", "popup", "utils"}]
             /\ plugin \in [Windows -> {"none", "held", "attached"}]
             /\ newTab \in [Windows -> {"none", "deferred", "asked", "opened"}]

PopupsOK == /\ popups \subseteq Windows
            /\ expiring \in [Windows -> SUBSET Windows]

CookiesOK == /\ funcs \in [Windows -> Seq(Functions)]
             /\ deferred \in [Windows -> SUBSET Cookies]
             /\ scheduled \in [Windows -> BOOLEAN]
             /\ flush \in [Windows -> {"none", "timer", "plugin", "sending"}]
             /\ received \subseteq Cookies /\ delivered \subseteq Cookies

TypeOK == WindowsOK /\ PopupsOK /\ CookiesOK /\ utils \in Seq(Windows)

\* The utils window that stays is the first in the map: everything that other
\* threads and popups leave to a utils window is left to this one.
UtilsStays == /\ Live(UtilsFirst) /\ kind[UtilsFirst] = "utils"
              /\ plugin[UtilsFirst] = "attached"
              /\ utils # << >> /\ Head(utils) = UtilsFirst

\* A window that no plugin owns is a popup, and the ten seconds are running.
PopupsDue ==
  /\ \A p \in popups : Live(p) /\ plugin[p] = "none"
  /\ \A p \in Windows : life[p] = "none" => plugin[p] = "none"
  /\ \A p \in Windows : Live(p) /\ plugin[p] = "none" => p \in popups /\ p \in expiring[UtilsFirst]

\* The map of the utils windows, through what happens to others.
LEMMA UtilsKept ==
  ASSUME NEW w \in Windows, w # UtilsFirst, UtilsFirst \in Windows,
         utils \in Seq(Windows), utils # << >>, Head(utils) = UtilsFirst,
         Unregister(w) \/ utils' = Append(utils, w)
  PROVE  utils' \in Seq(Windows) /\ utils' # << >> /\ Head(utils') = UtilsFirst
<1>1. CASE utils' = Append(utils, w)
  BY <1>1
<1>2. CASE Unregister(w) /\ utils' # utils
  <2>1. PICK i \in DOMAIN utils : utils[i] = w /\ utils' = RemoveAt(utils, i)
    BY <1>2 DEF Unregister
  <2>2. i \in 2..Len(utils)
    BY <2>1
  <2> DEFINE front == SubSeq(utils, 1, i - 1)
             back  == SubSeq(utils, i + 1, Len(utils))
  <2>3. front \in Seq(Windows) /\ Len(front) = i - 1 /\ front[1] = utils[1]
    BY <2>2
  <2>4. back \in Seq(Windows)
    BY <2>2
  <2>5. utils' = front \o back
    BY <2>1 DEF RemoveAt
  <2> HIDE DEF front, back
  <2>6. utils' \in Seq(Windows) /\ Len(utils') >= 1 /\ utils'[1] = utils[1]
    BY <2>2, <2>3, <2>4, <2>5
  <2> QED  BY <2>6
<1> QED  BY <1>1, <1>2

LEMMA InitWindows ==
  ASSUME UtilsFirst \in Windows, Init
  PROVE  TypeOK /\ UtilsStays /\ PopupsDue
<1>1. WindowsOK
  BY DEF Init, WindowsOK
<1>2. PopupsOK
  BY DEF Init, PopupsOK
<1>3. CookiesOK
  <2>1. funcs \in [Windows -> Seq(Functions)]
    BY DEF Init
  <2>2. scheduled \in [Windows -> BOOLEAN]
    BY Zenon DEF Init
  <2>3. deferred \in [Windows -> SUBSET Cookies] /\ flush \in [Windows -> {"none", "timer", "plugin", "sending"}]
    BY DEF Init
  <2>4. received \subseteq Cookies /\ delivered \subseteq Cookies
    BY DEF Init
  <2> QED  BY <2>1, <2>2, <2>3, <2>4 DEF CookiesOK
<1>4. utils = <<UtilsFirst>>
  BY WindowsAssumption DEF Init
<1>5. UtilsStays
  BY <1>4 DEF Init, UtilsStays, Live
<1>6. PopupsDue
  BY DEF Init, PopupsDue, Live
<1> QED  BY <1>1, <1>2, <1>3, <1>4, <1>5, <1>6 DEF TypeOK

\* The windows, and who owns them.
LEMMA WindowsStep ==
  ASSUME WindowsOK, PopupsOK, Next
  PROVE  WindowsOK' /\ PopupsOK'
<1> USE DEF WindowsOK, PopupsOK, Set, ownVars, popupVars
<1>1. ASSUME NEW w \in Windows, CreateUtils(w) \/ CreateContent(w)
      PROVE  WindowsOK' /\ PopupsOK'
  BY <1>1 DEF CreateUtils, CreateContent
<1>7. ASSUME NEW w \in Windows, FireInitEvent(w)
      PROVE  WindowsOK' /\ PopupsOK'
  BY <1>7 DEF FireInitEvent
<1>8. ASSUME NEW w \in Windows, RunAsyncCall(w) \/ FlushDue(w) \/ Clear(w)
      PROVE  WindowsOK' /\ PopupsOK'
  BY <1>8 DEF RunAsyncCall, FlushDue, Clear
<1>2. ASSUME NEW w \in Windows, Adopt(w) \/ Shut(w)
      PROVE  WindowsOK' /\ PopupsOK'
  BY <1>2 DEF Adopt, Shut
<1>3. ASSUME NEW w \in Windows, Delete(w)
      PROVE  WindowsOK' /\ PopupsOK'
  BY <1>3 DEF Delete, Destruct
<1>4. ASSUME NEW w \in Windows, NEW c \in Cookies, ExportCookies(c, w)
      PROVE  WindowsOK' /\ PopupsOK'
  BY <1>4 DEF ExportCookies
<1>5. ASSUME NEW w \in Windows, NEW p \in Windows, OnNewWindow3(w, p)
      PROVE  WindowsOK' /\ PopupsOK'
  <2>1. WindowsOK' /\ popups' \subseteq Windows
    BY <1>5 DEF OnNewWindow3
  <2>2. expiring' \in [Windows -> SUBSET Windows]
    BY <1>5 DEF OnNewWindow3
  <2> QED  BY <2>1, <2>2
<1>6. ASSUME NEW w \in Windows, NEW p \in Windows, RemoveNewWindow(w, p)
      PROVE  WindowsOK' /\ PopupsOK'
  BY <1>6 DEF RemoveNewWindow, Destruct
<1> QED  BY <1>1, <1>2, <1>3, <1>4, <1>5, <1>6, <1>7, <1>8 DEF Next

\* The first utils window, and the popups.
LEMMA PopupsStep ==
  ASSUME UtilsFirst \in Windows, WindowsOK, PopupsOK, utils \in Seq(Windows),
         UtilsStays, PopupsDue, Next
  PROVE  utils' \in Seq(Windows) /\ UtilsStays' /\ PopupsDue'
<1> USE DEF UtilsStays, Live, WindowsOK, PopupsOK, Set, ownVars, popupVars
<1>1. ASSUME NEW w \in Windows, CreateUtils(w)
      PROVE  utils' \in Seq(Windows) /\ UtilsStays' /\ PopupsDue'
  <2>1. w # UtilsFirst /\ utils' = Append(utils, w)
    BY <1>1 DEF CreateUtils
  <2>2. utils' \in Seq(Windows) /\ utils' # << >> /\ Head(utils') = UtilsFirst
    BY <2>1, UtilsKept
  <2> QED  BY <1>1, <2>1, <2>2 DEF CreateUtils, PopupsDue
<1>2. ASSUME NEW w \in Windows, CreateContent(w)
      PROVE  utils' \in Seq(Windows) /\ UtilsStays' /\ PopupsDue'
  BY <1>2 DEF CreateContent, PopupsDue
<1>3. ASSUME NEW w \in Windows, FireInitEvent(w)
      PROVE  utils' \in Seq(Windows) /\ UtilsStays' /\ PopupsDue'
  BY <1>3 DEF FireInitEvent, PopupsDue
<1>4. ASSUME NEW w \in Windows, RunAsyncCall(w) \/ FlushDue(w) \/ Clear(w)
      PROVE  utils' \in Seq(Windows) /\ UtilsStays' /\ PopupsDue'
  BY <1>4 DEF RunAsyncCall, FlushDue, Clear, PopupsDue
<1>5. ASSUME NEW w \in Windows, Adopt(w)
      PROVE  utils' \in Seq(Windows) /\ UtilsStays' /\ PopupsDue'
  BY <1>5 DEF Adopt, PopupsDue
<1>6. ASSUME NEW w \in Windows, Shut(w)
      PROVE  utils' \in Seq(Windows) /\ UtilsStays' /\ PopupsDue'
  <2>1. w # UtilsFirst /\ plugin[w] # "none" /\ Unregister(w)
    BY <1>6 DEF Shut
  <2>2. utils' \in Seq(Windows) /\ utils' # << >> /\ Head(utils') = UtilsFirst
    BY <2>1, UtilsKept
  <2>3. w \notin popups
    BY <2>1 DEF PopupsDue
  <2> QED  BY <1>6, <2>1, <2>2, <2>3 DEF Shut, PopupsDue
<1>7. ASSUME NEW w \in Windows, Delete(w)
      PROVE  utils' \in Seq(Windows) /\ UtilsStays' /\ PopupsDue'
  BY <1>7 DEF Delete, Destruct, PopupsDue
<1>8. ASSUME NEW w \in Windows, NEW c \in Cookies, ExportCookies(c, w)
      PROVE  utils' \in Seq(Windows) /\ UtilsStays' /\ PopupsDue'
  BY <1>8 DEF ExportCookies, PopupsDue
<1>9. ASSUME NEW w \in Windows, NEW p \in Windows, OnNewWindow3(w, p)
      PROVE  utils' \in Seq(Windows) /\ UtilsStays' /\ PopupsDue'
  <2>1. /\ life[p] = "none" /\ life' = [life EXCEPT ![p] = "live"]
        /\ popups' = popups \cup {p} /\ UNCHANGED <<plugin, utils>>
        /\ expiring' = [expiring EXCEPT ![UtilsFirst] = @ \cup {p}]
        /\ kind' = [kind EXCEPT ![p] = "popup"]
    BY <1>9 DEF OnNewWindow3
  <2> QED  BY <2>1 DEF PopupsDue
<1>10. ASSUME NEW w \in Windows, NEW p \in Windows, RemoveNewWindow(w, p)
       PROVE  utils' \in Seq(Windows) /\ UtilsStays' /\ PopupsDue'
  <2>1. /\ expiring' = [expiring EXCEPT ![w] = @ \ {p}]
        /\ popups' = popups \ {p} /\ UNCHANGED <<kind, plugin, utils>>
    BY <1>10 DEF RemoveNewWindow
  <2>2. CASE p \in popups
    <3>1. life' = [life EXCEPT ![p] = "deleted"]
      BY <1>10, <2>2 DEF RemoveNewWindow, Destruct
    <3>2. p # UtilsFirst
      BY <2>2 DEF PopupsDue
    <3> QED  BY <2>1, <3>1, <3>2 DEF PopupsDue
  <2>3. CASE p \notin popups
    <3>1. life' = life
      BY <1>10, <2>3 DEF RemoveNewWindow
    <3> QED  BY <2>1, <2>3, <3>1 DEF PopupsDue
  <2> QED  BY <2>2, <2>3
<1> QED  BY <1>1, <1>2, <1>3, <1>4, <1>5, <1>6, <1>7, <1>8, <1>9, <1>10 DEF Next

-----------------------------------------------------------------------------
\* The functions in the queue of the utils window that stays: no other window
\* has any.
Queue    == funcs[UtilsFirst]
Other(w) == w \in Windows /\ w # UtilsFirst

\* The cookies a window has not given Firefox yet.
Kept == [w \in Windows |-> IF flush[w] = "sending" THEN {} ELSE deferred[w]]

\* Where the cookies are.
Located ==
  /\ \A i, j \in DOMAIN Queue : i # j => Queue[i].cookies \cap Queue[j].cookies = {}
  /\ \A w, x \in Windows : w # x => Kept[w] \cap Kept[x] = {}
  /\ \A i \in DOMAIN Queue, w \in Windows : Queue[i].cookies \cap Kept[w] = {}
  /\ \A i \in DOMAIN Queue : Queue[i].cookies \subseteq received \ delivered
  /\ \A w \in Windows : Kept[w] \subseteq received \ delivered
  /\ delivered \subseteq received
  /\ \A c \in received : \/ c \in delivered
                         \/ \E i \in DOMAIN Queue : c \in Queue[i].cookies
                         \/ \E w \in Windows : c \in Kept[w]

\* Cookies wait with content windows and popups, or with the utils window that
\* stays: those are the windows from which they are saved, or which are not closed.
Waiting ==
  /\ \A w \in Windows : Other(w) => funcs[w] = << >>
  /\ \A w \in Windows : deferred[w] # {} /\ Other(w) => kind[w] # "utils"
  /\ \A w \in Windows : life[w] = "none" =>
       deferred[w] = {} /\ ~scheduled[w] /\ flush[w] = "none"
  /\ \A i \in DOMAIN Queue, w \in Windows :
       Queue[i].context = w => life[w] # "none" /\ kind[w] # "utils"

\* Who holds cookies will hand them on.
Flushed == \A w \in Windows : Live(w) => WillFlush(w)

\* One window at a time gives its cookies to Firefox: all it has.
Sent == /\ \A w \in Windows : flush[w] = "sending" => deferred[w] \subseteq delivered
        /\ \A w, x \in Windows : flush[w] = "sending" /\ flush[x] = "sending" => w = x

CookieInv == Located /\ Waiting /\ Flushed /\ Sent

LEMMA InitCookies ==
  ASSUME UtilsFirst \in Windows, Init
  PROVE  CookieInv
<1>1. Queue = << >> /\ DOMAIN Queue = {}
  BY DEF Init, Queue
<1>2. \A w \in Windows : /\ deferred[w] = {} /\ funcs[w] = << >>
                         /\ ~scheduled[w] /\ flush[w] = "none"
  BY DEF Init
<1>3. received = {} /\ delivered = {}
  BY DEF Init
<1>4. Located
  BY <1>1, <1>2, <1>3 DEF Located, Kept
<1>5. Waiting
  BY <1>1, <1>2 DEF Waiting
<1>6. Flushed
  BY <1>2 DEF Flushed, WillFlush
<1>7. Sent
  BY <1>2 DEF Sent
<1> QED  BY <1>4, <1>5, <1>6, <1>7 DEF CookieInv

\* CookiesKept is this invariant, said of the queues of all windows.
LEMMA KeptByInv ==
  ASSUME UtilsFirst \in Windows, TypeOK, CookieInv
  PROVE  CookiesKept
<1> SUFFICES ASSUME NEW c \in Cookies PROVE InOnePlace(c)
  BY DEF CookieInv, Flushed, CookiesKept
<1>1. \A q : q \in Carries(c) <=>
             \E i \in DOMAIN Queue : q = <<UtilsFirst, i>> /\ c \in Queue[i].cookies
  <2>1. \A u \in Windows : funcs[u] = << >> => DOMAIN funcs[u] = {}
    OBVIOUS
  <2>2. \A q \in Carries(c) : \E i \in DOMAIN Queue : q = <<UtilsFirst, i>> /\ c \in Queue[i].cookies
    <3> SUFFICES ASSUME NEW u \in Windows, NEW i \in DOMAIN funcs[u], c \in funcs[u][i].cookies
                 PROVE  u = UtilsFirst
      BY DEF Carries, Queued, Queue
    <3> QED  BY <2>1 DEF CookieInv, Waiting, Other
  <2>3. \A i \in DOMAIN Queue : c \in Queue[i].cookies => <<UtilsFirst, i>> \in Carries(c)
    BY DEF Carries, Queued, Queue
  <2> QED  BY <2>2, <2>3
<1>2. \A w : w \in Holders(c) <=> w \in Windows /\ c \in deferred[w]
  BY DEF Holders
<1>8. \A w \in Windows : /\ c \in Kept[w] => c \in deferred[w]
                         /\ c \in deferred[w] => \/ c \in Kept[w] /\ c \notin delivered
                                                 \/ flush[w] = "sending" /\ c \in delivered
  <2>1. \A w \in Windows : Kept[w] = IF flush[w] = "sending" THEN {} ELSE deferred[w]
    BY DEF Kept
  <2> QED  BY <2>1 DEF CookieInv, Sent, Located
<1>3. c \in received <=> Carries(c) # {} \/ Holders(c) # {} \/ c \in delivered
  BY <1>1, <1>2, <1>8 DEF CookieInv, Located
<1>4. AtMostOne(Carries(c))
  BY <1>1 DEF CookieInv, Located, AtMostOne
<1>5. AtMostOne(Holders(c))
  <2> SUFFICES ASSUME NEW w \in Windows, NEW x \in Windows, w # x,
                      c \in deferred[w], c \in deferred[x]
               PROVE  FALSE
    BY <1>2 DEF AtMostOne
  <2>1. \/ c \in Kept[w] /\ c \in Kept[x]
        \/ flush[w] = "sending" /\ flush[x] = "sending"
    BY <1>8
  <2> QED  BY <2>1 DEF CookieInv, Located, Sent
<1>6. Carries(c) = {} \/ Holders(c) = {}
  BY <1>1, <1>2, <1>8 DEF CookieInv, Located
<1>7. c \in delivered => /\ Carries(c) = {}
                         /\ \A w \in Holders(c) : flush[w] = "sending"
  BY <1>1, <1>2, <1>8 DEF CookieInv, Located
<1> QED  BY <1>3, <1>4, <1>5, <1>6, <1>7 DEF InOnePlace

-----------------------------------------------------------------------------
\* Sequences of functions with one more behind, or one less in front.
LEMMA AppendFacts ==
  ASSUME NEW s \in Seq(Functions), NEW e \in Functions
  PROVE  /\ Append(s, e) \in Seq(Functions)
         /\ Len(s) \in Nat /\ DOMAIN s = 1..Len(s)
         /\ DOMAIN Append(s, e) = 1..(Len(s) + 1)
         /\ \A i \in 1..Len(s) : Append(s, e)[i] = s[i]
         /\ Append(s, e)[Len(s) + 1] = e
  OBVIOUS

LEMMA TailFacts ==
  ASSUME NEW s \in Seq(Functions), s # << >>
  PROVE  /\ Tail(s) \in Seq(Functions)
         /\ Len(s) \in Nat \ {0} /\ DOMAIN s = 1..Len(s)
         /\ Head(s) = s[1] /\ s[1] \in Functions
         /\ DOMAIN Tail(s) = 1..(Len(s) - 1)
         /\ \A i \in 1..(Len(s) - 1) : Tail(s)[i] = s[i + 1]
  OBVIOUS

\* Cookies are queued: just seen, or saved from a window that is deleted.
LEMMA Enqueue ==
  ASSUME Queue \in Seq(Functions), NEW f \in Functions, Queue' = Append(Queue, f), Located,
         \A i \in DOMAIN Queue : Queue[i].cookies \cap f.cookies = {},
         \A w \in Windows : Kept'[w] = Kept[w] \ f.cookies,
         received' = received \cup f.cookies, delivered' = delivered,
         f.cookies \cap delivered = {}
  PROVE  Located'
<1>1. /\ Len(Queue) \in Nat /\ DOMAIN Queue = 1..Len(Queue)
      /\ DOMAIN Queue' = 1..(Len(Queue) + 1)
      /\ \A i \in 1..Len(Queue) : Queue'[i] = Queue[i]
      /\ Queue'[Len(Queue) + 1] = f
  BY AppendFacts
<1>2. \A i \in DOMAIN Queue' : i \in DOMAIN Queue \/ i = Len(Queue) + 1
  BY <1>1
<1>3. \A i \in DOMAIN Queue : i \in DOMAIN Queue' /\ Queue'[i] = Queue[i]
  BY <1>1
<1>4. Len(Queue) + 1 \in DOMAIN Queue'
  BY <1>1
<1> DEFINE new == Len(Queue) + 1
<1> HIDE DEF new
<1>5. /\ \A i \in DOMAIN Queue' : i \in DOMAIN Queue \/ i = new
      /\ \A i \in DOMAIN Queue : i \in DOMAIN Queue' /\ Queue'[i] = Queue[i]
      /\ new \in DOMAIN Queue' /\ Queue'[new] = f
  BY <1>1, <1>2, <1>3, <1>4 DEF new
<1>6. \A i, j \in DOMAIN Queue' : i # j => Queue'[i].cookies \cap Queue'[j].cookies = {}
  BY <1>5 DEF Located
<1>7. \A i \in DOMAIN Queue', w \in Windows : Queue'[i].cookies \cap Kept'[w] = {}
  BY <1>5 DEF Located
<1>8. \A c \in received' :
        \/ c \in delivered
        \/ \E i \in DOMAIN Queue' : c \in Queue'[i].cookies
        \/ \E w \in Windows : c \in Kept'[w]
  BY <1>5 DEF Located
<1>9. \A i \in DOMAIN Queue' : Queue'[i].cookies \subseteq received' \ delivered'
  BY <1>5 DEF Located
<1> QED  BY <1>6, <1>7, <1>8, <1>9 DEF Located

\* The first function runs: its cookies are with a window.
LEMMA Dequeue ==
  ASSUME Queue \in Seq(Functions), Queue # << >>, Queue' = Tail(Queue), Located,
         Kept \in [Windows -> SUBSET Cookies], NEW w \in Windows,
         Kept' = Set(Kept, w, Kept[w] \cup Head(Queue).cookies),
         UNCHANGED <<received, delivered>>
  PROVE  Located'
<1>1. /\ Len(Queue) \in Nat \ {0} /\ DOMAIN Queue = 1..Len(Queue) /\ Head(Queue) = Queue[1]
      /\ DOMAIN Queue' = 1..(Len(Queue) - 1)
      /\ \A i \in 1..(Len(Queue) - 1) : Queue'[i] = Queue[i + 1]
  BY TailFacts
<1>2. /\ 1 \in DOMAIN Queue
      /\ \A i \in DOMAIN Queue' : i + 1 \in DOMAIN Queue /\ i + 1 # 1 /\ Queue'[i] = Queue[i + 1]
  BY <1>1
<1>3. \A i, j \in DOMAIN Queue' : i # j => i + 1 # j + 1
  BY <1>1
<1>4. \A i \in DOMAIN Queue :
        i # 1 => \E j \in DOMAIN Queue' : Queue'[j] = Queue[i]
  <2> SUFFICES ASSUME NEW i \in DOMAIN Queue, i # 1
               PROVE  \E j \in DOMAIN Queue' : Queue'[j] = Queue[i]
    OBVIOUS
  <2>1. i - 1 \in 1..(Len(Queue) - 1) /\ (i - 1) + 1 = i
    BY <1>1
  <2> QED  BY <1>1, <2>1
<1>5. \A x \in Windows :
        Kept'[x] = IF x = w THEN Kept[w] \cup Queue[1].cookies ELSE Kept[x]
  BY <1>1 DEF Set
<1>6. \A i, j \in DOMAIN Queue' : i # j => Queue'[i].cookies \cap Queue'[j].cookies = {}
  BY <1>2, <1>3 DEF Located
<1>7. \A x, y \in Windows : x # y => Kept'[x] \cap Kept'[y] = {}
  <2>1. \A x \in Windows : Queue[1].cookies \cap Kept[x] = {}
    BY <1>2 DEF Located
  <2>2. \A x, y \in Windows : x # y => Kept[x] \cap Kept[y] = {}
    BY DEF Located
  <2> QED  BY <1>5, <2>1, <2>2
<1>8. \A i \in DOMAIN Queue', x \in Windows : Queue'[i].cookies \cap Kept'[x] = {}
  <2> SUFFICES ASSUME NEW i \in DOMAIN Queue', NEW x \in Windows
               PROVE  Queue'[i].cookies \cap Kept'[x] = {}
    OBVIOUS
  <2>1. Queue'[i].cookies \cap Kept[x] = {} /\ Queue'[i].cookies \cap Queue[1].cookies = {}
    BY <1>2 DEF Located
  <2> QED  BY <1>5, <2>1
<1>9. \A i \in DOMAIN Queue' : Queue'[i].cookies \subseteq received \ delivered
  BY <1>2 DEF Located
<1>10. \A x \in Windows : Kept'[x] \subseteq received \ delivered
  <2>1. Queue[1].cookies \subseteq received \ delivered
    BY <1>2 DEF Located
  <2>2. \A x \in Windows : Kept[x] \subseteq received \ delivered
    BY DEF Located
  <2> QED  BY <1>5, <2>1, <2>2
<1>11. \A c \in received :
        \/ c \in delivered
        \/ \E i \in DOMAIN Queue' : c \in Queue'[i].cookies
        \/ \E x \in Windows : c \in Kept'[x]
  <2> TAKE c \in received
  <2>1. CASE \E x \in Windows : c \in Kept[x]
    <3>1. PICK x \in Windows : c \in Kept[x]
      BY <2>1
    <3>2. c \in Kept'[x]
      BY <1>5, <3>1
    <3> QED  BY <3>2
  <2>2. CASE c \in Queue[1].cookies
    <3>1. c \in Kept'[w]
      BY <1>5, <2>2
    <3> QED  BY <3>1
  <2>3. CASE c \notin Queue[1].cookies /\ \E i \in DOMAIN Queue : c \in Queue[i].cookies
    BY <1>4, <2>3
  <2> QED  BY <2>1, <2>2, <2>3 DEF Located
<1> QED  BY <1>6, <1>7, <1>8, <1>9, <1>10, <1>11 DEF Located

\* A window's cookies get to Firefox.
LEMMA Delivers ==
  ASSUME Located, NEW w \in Windows, Queue' = Queue, Kept' = Set(Kept, w, {}),
         received' = received, delivered' = delivered \cup Kept[w]
  PROVE  Located'
<1>1. \A x \in Windows : Kept'[x] = IF x = w THEN {} ELSE Kept[x]
  BY DEF Set, Kept
<1> QED  BY <1>1 DEF Located

\* No window is giving its cookies to Firefox.
NoneSends == \A w \in Windows : flush[w] # "sending"

LEMMA AllKept ==
  ASSUME NoneSends, deferred \in [Windows -> SUBSET Cookies]
  PROVE  Kept = deferred /\ Sent
  BY DEF NoneSends, Kept, Sent

LEMMA AllKeptNext ==
  ASSUME NoneSends', deferred' \in [Windows -> SUBSET Cookies]
  PROVE  Kept' = deferred' /\ Sent'
  BY DEF NoneSends, Kept, Sent

\* A window is deleted: the utils window has its cookies.
LEMMA DestructCookies ==
  ASSUME UtilsFirst \in Windows, TypeOK, UtilsStays, CookieInv, NoneSends,
         NEW w \in Windows, Other(w), life[w] # "none", Destruct(w), kind' = kind
  PROVE  CookiesOK' /\ CookieInv'
<1>0. /\ CookiesOK /\ Queue \in Seq(Functions) /\ life \in [Windows -> {"none", "live", "destroyed", "deleted"}]
      /\ w # UtilsFirst /\ funcs[w] = << >>
  BY DEF TypeOK, CookiesOK, WindowsOK, Queue, Other, CookieInv, Waiting
<1>1. /\ life' = [life EXCEPT ![w] = "deleted"] /\ deferred' = [deferred EXCEPT ![w] = {}]
      /\ flush' = [flush EXCEPT ![w] = "none"] /\ scheduled' = [scheduled EXCEPT ![w] = FALSE]
      /\ UNCHANGED <<received, delivered>>
  BY DEF Destruct, Set
<1>k. Kept = deferred /\ Kept' = deferred' /\ Sent'
  <2>1. deferred' \in [Windows -> SUBSET Cookies] /\ NoneSends'
    BY <1>0, <1>1 DEF CookiesOK, NoneSends
  <2> QED  BY <1>0, <2>1, AllKept, AllKeptNext DEF CookiesOK
<1>2. Flushed'
  BY <1>0, <1>1 DEF CookiesOK, CookieInv, Flushed, WillFlush, Live
<1>3. CASE deferred[w] # {}
  <2> DEFINE f == [cookies |-> deferred[w], context |-> NoWindow]
  <2>1. f \in Functions /\ f.cookies = deferred[w] /\ f.context = NoWindow
    BY <1>0 DEF CookiesOK, Functions
  <2> HIDE DEF f
  <2>2. funcs' = [funcs EXCEPT ![UtilsFirst] = Append(@, f)]
    BY <1>3 DEF Destruct, SetFirefoxCookie, UtilsStays, CookieInv, Waiting, f
  <2>3. Queue' = Append(Queue, f)
    BY <1>0, <2>2 DEF Queue, CookiesOK
  <2>4. Located'
    <3>1. \A x \in Windows : Kept'[x] = Kept[x] \ f.cookies
      BY <1>0, <1>1, <1>k, <2>1 DEF CookiesOK, CookieInv, Located
    <3>2. \A i \in DOMAIN Queue : Queue[i].cookies \cap f.cookies = {}
      BY <1>k, <2>1 DEF CookieInv, Located
    <3>3. received' = received \cup f.cookies /\ f.cookies \cap delivered = {}
      BY <1>1, <1>k, <2>1 DEF CookieInv, Located
    <3> QED  BY <1>0, <1>1, <2>1, <2>3, <3>1, <3>2, <3>3, Enqueue DEF CookieInv
  <2>5. /\ DOMAIN Queue' = 1..(Len(Queue) + 1) /\ DOMAIN Queue = 1..Len(Queue) /\ Len(Queue) \in Nat
        /\ \A i \in 1..Len(Queue) : Queue'[i] = Queue[i]
        /\ Queue'[Len(Queue) + 1] = f /\ Queue' \in Seq(Functions)
    BY <1>0, <2>1, <2>3, AppendFacts
  <2>6. \A i \in DOMAIN Queue' :
          \/ i \in DOMAIN Queue /\ Queue'[i] = Queue[i]
          \/ Queue'[i].context = NoWindow
    BY <2>1, <2>5
  <2>7. \A x \in Windows : Other(x) => funcs'[x] = funcs[x]
    BY <1>0, <2>2 DEF CookiesOK, Other
  <2>8. Waiting'
    <3>1. \A i \in DOMAIN Queue', x \in Windows :
            Queue'[i].context = x => life'[x] # "none" /\ kind'[x] # "utils"
      BY <1>0, <1>1, <2>6, WindowsAssumption DEF CookieInv, Waiting
    <3>2. \A x \in Windows : Other(x) => funcs'[x] = << >>
      BY <2>7 DEF CookieInv, Waiting
    <3> QED  BY <1>0, <1>1, <3>1, <3>2 DEF CookieInv, Waiting, CookiesOK, Other
  <2>9. CookiesOK'
    <3>1. funcs' \in [Windows -> Seq(Functions)]
      BY <1>0, <2>2, <2>3, <2>5 DEF CookiesOK, Queue
    <3> QED  BY <1>0, <1>1, <3>1 DEF CookiesOK
  <2> QED  BY <1>2, <1>k, <2>4, <2>8, <2>9 DEF CookieInv
<1>4. CASE deferred[w] = {}
  <2>1. funcs' = [funcs EXCEPT ![w] = << >>]
    BY <1>4 DEF Destruct, Set
  <2>2. funcs' = funcs /\ deferred' = deferred
    BY <1>0, <1>1, <1>4, <2>1 DEF CookiesOK
  <2>3. Queue' = Queue
    BY <2>2 DEF Queue
  <2>4. Located'
    BY <1>1, <1>k, <2>2, <2>3 DEF CookieInv, Located
  <2>5. Waiting'
    BY <1>0, <1>1, <2>2, <2>3 DEF CookieInv, Waiting, CookiesOK, Other
  <2>6. CookiesOK'
    BY <1>0, <1>1, <2>2 DEF CookiesOK
  <2> QED  BY <1>2, <1>k, <2>4, <2>5, <2>6 DEF CookieInv
<1> QED  BY <1>3, <1>4

\* Where the cookies are, one step at a time.
LEMMA CookiesStep ==
  ASSUME ~Reentered, UtilsFirst \in Windows, TypeOK, UtilsStays, PopupsDue, CookieInv, Next
  PROVE  CookiesOK' /\ CookieInv'
<1>0. /\ CookiesOK /\ WindowsOK /\ Queue \in Seq(Functions)
      /\ UtilsFirst # NoWindow
  BY WindowsAssumption DEF TypeOK, CookiesOK, Queue
<1>k. Free => NoneSends /\ Kept = deferred
  BY <1>0, AllKept DEF Free, NoneSends, CookiesOK
<1>1. ASSUME UNCHANGED <<funcs, cookieVars>>,
             \A w \in Windows : life'[w] = "none" => life[w] = "none",
             \A w \in Windows : kind'[w] = kind[w] \/ life[w] = "none",
             \A w \in Windows : Live(w)' => Live(w) \/ life[w] = "none"
      PROVE  CookiesOK' /\ CookieInv'
  <2>1. CookiesOK'
    BY <1>0, <1>1 DEF CookiesOK, cookieVars
  <2>2. Queue' = Queue
    BY <1>1 DEF Queue
  <2>3. Located'
    BY <1>1, <2>2 DEF CookieInv, Located, Kept, cookieVars
  <2>6. Sent'
    BY <1>1 DEF CookieInv, Sent, cookieVars
  <2>4. Waiting'
    BY <1>1, <2>2 DEF CookieInv, Waiting, cookieVars, Other
  <2>5. Flushed'
    BY <1>0, <1>1 DEF CookieInv, Waiting, Flushed, WillFlush, cookieVars, CookiesOK
  <2> QED  BY <2>1, <2>3, <2>4, <2>5, <2>6 DEF CookieInv
<1>2. ASSUME NEW w \in Windows, CreateUtils(w) \/ CreateContent(w)
      PROVE  CookiesOK' /\ CookieInv'
  <2>1. life' = [life EXCEPT ![w] = "live"] /\ life[w] = "none" /\ UNCHANGED <<funcs, cookieVars>>
    BY <1>2 DEF CreateUtils, CreateContent, Set
  <2>2. kind' = kind \/ kind' = [kind EXCEPT ![w] = "utils"]
    BY <1>2 DEF CreateUtils, CreateContent, Set
  <2> QED  BY <1>0, <1>1, <2>1, <2>2 DEF WindowsOK, Live
<1>3. ASSUME NEW w \in Windows, Free, Live(w), flush[w] # "none", Send(w), UNCHANGED <<life, kind, funcs>>
      PROVE  CookiesOK' /\ CookieInv'
  <2>1. Queue' = Queue /\ Kept = deferred /\ NoneSends
    BY <1>3, <1>k DEF Queue
  <2>2. CookiesOK'
    BY <1>0, <1>3 DEF Send, CookiesOK, Set
  <2>3. \A x \in Windows : flush'[x] = "sending" <=> x = w
    BY <1>0, <1>3, <2>1 DEF Send, CookiesOK, Set, NoneSends
  <2>4. Kept' = Set(Kept, w, {})
    BY <1>0, <1>3, <2>1, <2>3 DEF Send, CookiesOK, Set, Kept
  <2>5. Located'
    BY <1>3, <2>1, <2>4, Delivers DEF CookieInv, Send
  <2>6. Waiting'
    BY <1>0, <1>3, <2>1 DEF CookieInv, Waiting, Send, CookiesOK, Set, Other, Live
  <2>7. Flushed'
    BY <1>0, <1>3 DEF CookieInv, Flushed, WillFlush, Live, Send, CookiesOK, Set
  <2>8. Sent'
    BY <1>3, <2>3 DEF Send, Sent
  <2> QED  BY <2>2, <2>5, <2>6, <2>7, <2>8 DEF CookieInv
<1>4. ASSUME NEW w \in Windows, FireInitEvent(w)
      PROVE  CookiesOK' /\ CookieInv'
  <2>1. UNCHANGED <<life, kind, funcs>>
    BY <1>4 DEF FireInitEvent
  <2>2. \/ Free /\ Live(w) /\ flush[w] # "none" /\ Send(w)
        \/ UNCHANGED cookieVars
    BY <1>4 DEF FireInitEvent
  <2> QED  BY <1>1, <1>3, <2>1, <2>2 DEF Live
<1>12. ASSUME NEW w \in Windows, Clear(w)
       PROVE  CookiesOK' /\ CookieInv'
  <2>1. /\ flush[w] = "sending" /\ UNCHANGED <<life, kind, funcs, received, delivered>> /\ Queue' = Queue
        /\ deferred' = [deferred EXCEPT ![w] = {}] /\ scheduled' = [scheduled EXCEPT ![w] = FALSE]
        /\ flush' = [flush EXCEPT ![w] = "none"]
    BY <1>12 DEF Clear, ownVars, Set, Queue
  <2>2. CookiesOK'
    BY <1>0, <2>1 DEF CookiesOK
  <2>3. \A x \in Windows : flush'[x] # "sending"
    BY <1>0, <2>1 DEF CookieInv, Sent, CookiesOK
  <2>4. Kept' = Kept
    <3>1. \A x \in Windows : (IF flush'[x] = "sending" THEN {} ELSE deferred'[x])
                              = IF flush[x] = "sending" THEN {} ELSE deferred[x]
      BY <1>0, <2>1, <2>3 DEF CookieInv, Sent, CookiesOK
    <3> QED  BY <3>1 DEF Kept
  <2>5. Located'
    BY <2>1, <2>4 DEF CookieInv, Located
  <2>6. Waiting'
    BY <1>0, <2>1 DEF CookieInv, Waiting, CookiesOK, Other
  <2>7. Flushed'
    BY <1>0, <2>1 DEF CookieInv, Flushed, WillFlush, Live, CookiesOK
  <2>8. Sent'
    BY <2>3 DEF Sent
  <2> QED  BY <2>2, <2>5, <2>6, <2>7, <2>8 DEF CookieInv
<1>5. ASSUME NEW u \in Windows, RunAsyncCall(u)
      PROVE  CookiesOK' /\ CookieInv'
  <2>1. u = UtilsFirst /\ Queue # << >>
    BY <1>5 DEF RunAsyncCall, CookieInv, Waiting, Other, Queue
  <2> DEFINE f == Head(Queue)
             w == Target(f.context, u)
  <2>2. f \in Functions /\ 1 \in DOMAIN Queue /\ f = Queue[1] /\ Tail(Queue) \in Seq(Functions)
    BY <1>0, <2>1, TailFacts
  <2>3. f.cookies \subseteq Cookies /\ f.context \in Windows \cup {NoWindow}
    BY <2>2 DEF Functions
  <2>4. /\ w \in Windows /\ Live(w)
        /\ Other(w) => kind[w] # "utils"
    BY <2>1, <2>2, <2>3 DEF Target, UtilsStays, Other, CookieInv, Waiting
  <2>5. /\ funcs' = [funcs EXCEPT ![UtilsFirst] = Tail(Queue)]
        /\ deferred' = Set(deferred, w, deferred[w] \cup f.cookies)
        /\ scheduled' = [scheduled EXCEPT ![w] = TRUE]
        /\ flush' = IF scheduled[w] THEN flush ELSE [flush EXCEPT ![w] = "timer"]
        /\ UNCHANGED <<received, delivered, life, kind>>
    BY <1>5, <2>1 DEF RunAsyncCall, DeferCookies, Set, ownVars, Queue
  <2> HIDE DEF f, w
  <2>6. Queue' = Tail(Queue)
    BY <1>0, <2>5 DEF Queue, CookiesOK
  <2>11. Kept = deferred /\ NoneSends
    BY <1>5, <1>k DEF RunAsyncCall
  <2>8. CookiesOK'
    <3>1. funcs' \in [Windows -> Seq(Functions)] /\ scheduled' \in [Windows -> BOOLEAN]
      BY <1>0, <2>2, <2>5 DEF CookiesOK
    <3>2. deferred' \in [Windows -> SUBSET Cookies]
      BY <1>0, <2>3, <2>4, <2>5 DEF CookiesOK, Set
    <3>3. flush' \in [Windows -> {"none", "timer", "plugin", "sending"}]
      BY <1>0, <2>5 DEF CookiesOK
    <3> QED  BY <1>0, <2>5, <3>1, <3>2, <3>3 DEF CookiesOK
  <2>12. Kept' = deferred' /\ Sent'
    <3>1. NoneSends'
      BY <1>0, <2>5, <2>11 DEF NoneSends, CookiesOK
    <3> QED  BY <2>8, <3>1, AllKeptNext DEF CookiesOK
  <2>7. Located'
    BY <1>0, <2>1, <2>4, <2>5, <2>6, <2>11, <2>12, Dequeue DEF f, CookieInv, CookiesOK
  <2>9. Waiting'
    <3>1. \A i \in DOMAIN Queue' : i + 1 \in DOMAIN Queue /\ Queue'[i] = Queue[i + 1]
      BY <1>0, <2>1, <2>6, TailFacts
    <3>2. \A i \in DOMAIN Queue', x \in Windows :
            Queue'[i].context = x => life'[x] # "none" /\ kind'[x] # "utils"
      BY <2>5, <3>1 DEF CookieInv, Waiting
    <3>3. \A x \in Windows : Other(x) => funcs'[x] = << >>
      BY <1>0, <2>5 DEF CookieInv, Waiting, Other, CookiesOK
    <3>4. \A x \in Windows : deferred'[x] # {} /\ Other(x) => kind'[x] # "utils"
      BY <1>0, <2>4, <2>5 DEF CookieInv, Waiting, Other, CookiesOK, Set
    <3>5. \A x \in Windows : life'[x] = "none" =>
            deferred'[x] = {} /\ ~scheduled'[x] /\ flush'[x] = "none"
      BY <1>0, <2>4, <2>5 DEF CookieInv, Waiting, CookiesOK, Set, Live
    <3> QED  BY <3>2, <3>3, <3>4, <3>5 DEF Waiting, Other
  <2>10. Flushed'
    <3> SUFFICES ASSUME NEW x \in Windows, Live(x) PROVE WillFlush(x)'
      BY <2>5 DEF Flushed, Live
    <3>1. WillFlush(x)
      BY DEF CookieInv, Flushed
    <3> QED  BY <1>0, <2>4, <2>5, <3>1 DEF WillFlush, CookiesOK, Set
  <2> QED  BY <2>7, <2>8, <2>9, <2>10, <2>12 DEF CookieInv
<1>6. ASSUME NEW w \in Windows, FlushDue(w)
      PROVE  CookiesOK' /\ CookieInv'
  <2>1. UNCHANGED <<life, kind, funcs>>
    BY <1>6 DEF FlushDue, ownVars
  <2>2. CASE Send(w)
    BY <1>3, <1>6, <2>1, <2>2 DEF FlushDue
  <2>3. CASE flush' = Set(flush, w, "plugin") /\ UNCHANGED <<deferred, scheduled, received, delivered>>
    <3>1. Live(w) /\ flush[w] = "timer" /\ Queue' = Queue /\ Kept = deferred /\ NoneSends
      BY <1>6, <1>k, <2>1 DEF FlushDue, Queue
    <3>2. CookiesOK'
      BY <1>0, <2>1, <2>3 DEF CookiesOK, Set
    <3>6. Kept' = deferred' /\ Sent'
      <4>1. NoneSends'
        BY <1>0, <2>3, <3>1 DEF NoneSends, CookiesOK, Set
      <4> QED  BY <3>2, <4>1, AllKeptNext DEF CookiesOK
    <3>3. Located'
      BY <2>3, <3>1, <3>6 DEF CookieInv, Located
    <3>4. Waiting'
      BY <1>0, <2>1, <2>3, <3>1 DEF CookieInv, Waiting, Other, Live, Set, CookiesOK
    <3>5. Flushed'
      BY <1>0, <2>1, <2>3, <3>1 DEF CookieInv, Flushed, WillFlush, Live, Set, CookiesOK
    <3> QED  BY <3>2, <3>3, <3>4, <3>5, <3>6 DEF CookieInv
  <2> QED  BY <1>6, <2>2, <2>3 DEF FlushDue
<1>7. ASSUME NEW w \in Windows, Adopt(w) \/ Shut(w)
      PROVE  CookiesOK' /\ CookieInv'
  <2>1. UNCHANGED <<kind, funcs, cookieVars>>
    BY <1>7 DEF Adopt, Shut
  <2>2. life' = life \/ life' = [life EXCEPT ![w] = "destroyed"]
    BY <1>7 DEF Adopt, Shut, Set
  <2> QED  BY <1>0, <1>1, <2>1, <2>2 DEF WindowsOK, Live
<1>8. ASSUME NEW w \in Windows, Delete(w)
      PROVE  CookiesOK' /\ CookieInv'
  <2>1. Other(w) /\ life[w] # "none" /\ Destruct(w) /\ kind' = kind /\ NoneSends
    BY <1>8, <1>k DEF Delete, Other, UtilsStays, Live
  <2> QED  BY <2>1, DestructCookies
<1>9. ASSUME NEW c \in Cookies, NEW w \in Windows, ExportCookies(c, w)
      PROVE  CookiesOK' /\ CookieInv'
  <2> DEFINE f == [cookies |-> {c}, context |-> w]
  <2>1. f \in Functions /\ f.cookies = {c} /\ f.context = w
    BY DEF Functions
  <2> HIDE DEF f
  <2>2. /\ funcs' = [funcs EXCEPT ![UtilsFirst] = Append(@, f)]
        /\ c \notin received /\ received' = received \cup {c} /\ Live(w) /\ kind[w] # "utils"
        /\ UNCHANGED <<life, kind, deferred, scheduled, flush, delivered>>
    BY <1>9 DEF ExportCookies, SetFirefoxCookie, UtilsStays, f, ownVars
  <2>3. Queue' = Append(Queue, f)
    BY <1>0, <2>2 DEF Queue, CookiesOK
  <2>4. /\ Queue' \in Seq(Functions) /\ DOMAIN Queue = 1..Len(Queue) /\ Len(Queue) \in Nat
        /\ DOMAIN Queue' = 1..(Len(Queue) + 1)
        /\ \A i \in 1..Len(Queue) : Queue'[i] = Queue[i]
        /\ Queue'[Len(Queue) + 1] = f
    BY <1>0, <2>1, <2>3, AppendFacts
  <2>5. Located'
    <3>1. c \notin delivered /\ Kept' = Kept /\ \A x \in Windows : c \notin Kept[x]
      BY <2>2 DEF CookieInv, Located, Kept
    <3>2. \A i \in DOMAIN Queue : Queue[i].cookies \cap f.cookies = {}
      BY <2>1, <2>2 DEF CookieInv, Located
    <3>3. \A x \in Windows : Kept'[x] = Kept[x] \ f.cookies
      BY <2>1, <2>2, <3>1
    <3> QED  BY <1>0, <2>1, <2>2, <2>3, <3>1, <3>2, <3>3, Enqueue DEF CookieInv
  <2>6. CookiesOK'
    <3>1. funcs' \in [Windows -> Seq(Functions)]
      BY <1>0, <2>2, <2>3, <2>4 DEF CookiesOK, Queue
    <3> QED  BY <1>0, <2>2, <3>1 DEF CookiesOK
  <2>7. Waiting'
    <3>1. \A i \in DOMAIN Queue' :
            \/ i \in DOMAIN Queue /\ Queue'[i] = Queue[i]
            \/ Queue'[i] = f
      BY <2>4
    <3>2. \A i \in DOMAIN Queue', x \in Windows :
            Queue'[i].context = x => life'[x] # "none" /\ kind'[x] # "utils"
      BY <2>1, <2>2, <3>1 DEF CookieInv, Waiting, Live
    <3>3. \A x \in Windows : Other(x) => funcs'[x] = << >>
      BY <1>0, <2>2 DEF CookieInv, Waiting, Other, CookiesOK
    <3> QED  BY <2>2, <3>2, <3>3 DEF CookieInv, Waiting, Other
  <2>8. Flushed'
    BY <2>2 DEF CookieInv, Flushed, WillFlush, Live
  <2>9. Sent'
    BY <2>2 DEF CookieInv, Sent
  <2> QED  BY <2>5, <2>6, <2>7, <2>8, <2>9 DEF CookieInv
<1>10. ASSUME NEW w \in Windows, NEW p \in Windows, OnNewWindow3(w, p)
      PROVE  CookiesOK' /\ CookieInv'
  <2>1. /\ life[p] = "none" /\ life' = [life EXCEPT ![p] = "live"]
        /\ kind' = [kind EXCEPT ![p] = "popup"] /\ UNCHANGED <<funcs, cookieVars>>
    BY <1>10 DEF OnNewWindow3, Set
  <2> QED  BY <1>0, <1>1, <2>1 DEF WindowsOK, Live
<1>11. ASSUME NEW u \in Windows, NEW p \in Windows, RemoveNewWindow(u, p)
      PROVE  CookiesOK' /\ CookieInv'
  <2>1. CASE p \in popups
    <3>1. Other(p) /\ life[p] # "none" /\ NoneSends
      BY <1>11, <1>k, <2>1 DEF RemoveNewWindow, PopupsDue, UtilsStays, Live, Other
    <3> QED  BY <1>11, <2>1, <3>1, DestructCookies DEF RemoveNewWindow
  <2>2. CASE p \notin popups
    <3>1. UNCHANGED <<life, kind, funcs, cookieVars>>
      BY <1>11, <2>2 DEF RemoveNewWindow
    <3> QED  BY <1>1, <3>1 DEF Live
  <2> QED  BY <2>1, <2>2
<1> QED
  BY <1>2, <1>4, <1>5, <1>6, <1>7, <1>8, <1>9, <1>10, <1>11, <1>12 DEF Next
-----------------------------------------------------------------------------
WindowInv == WindowsOK /\ PopupsOK /\ utils \in Seq(Windows) /\ UtilsStays /\ PopupsDue

IInv == TypeOK /\ UtilsStays /\ PopupsDue /\ CookieInv

\* The inductive invariant of the windows, while a utils window stays.
LEMMA WindowsInductive ==
  ASSUME UtilsFirst \in Windows
  PROVE  Spec => []WindowInv
<1>1. Init => WindowInv
  BY InitWindows DEF WindowInv, TypeOK
<1>2. WindowInv /\ [Next]_windowVars => WindowInv'
  <2> SUFFICES ASSUME WindowInv, [Next]_windowVars PROVE WindowInv'
    OBVIOUS
  <2>1. CASE Next
    BY <2>1, WindowsStep, PopupsStep DEF WindowInv
  <2>2. CASE UNCHANGED windowVars
    BY <2>2
    DEF windowVars, ownVars, popupVars, WindowInv, WindowsOK, PopupsOK, UtilsStays, PopupsDue, Live
  <2> QED  BY <2>1, <2>2
<1> QED  BY <1>1, <1>2, PTL DEF Spec

\* The inductive invariant with the cookies, if the main thread does not go on
\* while Firefox is given some.
THEOREM Inductive ==
  ASSUME UtilsFirst \in Windows, ~Reentered
  PROVE  Spec => []IInv
<1>1. Init => IInv
  BY InitWindows, InitCookies DEF IInv
<1>2. IInv /\ [Next]_windowVars => IInv'
  <2> SUFFICES ASSUME IInv, [Next]_windowVars PROVE IInv'
    OBVIOUS
  <2>1. CASE Next
    BY <2>1, WindowsStep, PopupsStep, CookiesStep DEF IInv, TypeOK
  <2>2. CASE UNCHANGED windowVars
    <3>1. TypeOK' /\ UtilsStays' /\ PopupsDue'
      BY <2>2
      DEF windowVars, ownVars, popupVars, cookieVars, IInv, TypeOK, WindowsOK, PopupsOK,
          CookiesOK, UtilsStays, PopupsDue, Live
    <3>2. CookieInv'
      BY <2>2
      DEF windowVars, ownVars, popupVars, cookieVars, IInv, CookieInv, Located, Kept, Waiting,
          Flushed, WillFlush, Sent, Queue, Other, Live
    <3> QED  BY <3>1, <3>2 DEF IInv
  <2> QED  BY <2>1, <2>2
<1> QED  BY <1>1, <1>2, PTL DEF Spec

(* No tab's window is destroyed after ten seconds as a popup that nobody took,
   and none is left that nobody would destroy, whatever windows come and go. *)
THEOREM PopupsCaredFor ==
  ASSUME UtilsFirst \in Windows
  PROVE  Spec => []PopupsOwned
<1>1. WindowInv => PopupsOwned
  BY DEF WindowInv, PopupsDue, PopupsOwned, UtilsStays
<1> QED  BY <1>1, WindowsInductive, PTL

(* Whatever windows are closed on the way, a cookie seen is in just one place,
   if the main thread does not go on while Firefox is given cookies.         *)
THEOREM CookiesOnce ==
  ASSUME UtilsFirst \in Windows, ~Reentered
  PROVE  Spec => []CookiesKept
<1>1. IInv => CookiesKept
  BY KeptByInv DEF IInv
<1> QED  BY <1>1, Inductive, PTL
-----------------------------------------------------------------------------
(***************************************************************************)
(* The message hook.  A message is shown to the handlers one by one: what  *)
(* each may make of it (HandleMessageIs, OfferToIs), then the loop over    *)
(* them (OfferIs), from each of the states a gesture may be in: at rest,   *)
(* begun with the left button, begun with the right one, going on.         *)
(***************************************************************************)
HandlerState == [enabled : BOOLEAN, state : {"none", "initiated", "triggered"},
                 left : BOOLEAN, start : Places, held : Seq(Nat)]
Message      == [no : Nat, kind : Kinds, ctrl : BOOLEAN, l : BOOLEAN, r : BOOLEAN, at : Places]
Outcome      == [hs : [Handlers -> HandlerState], swallow : BOOLEAN, stop : BOOLEAN,
                 ff : Seq(Nat), back : Seq(Nat)]

\* A short move with the button down.
Near(s, m) == Drags(s, m) /\ ~Far(s, m)

\* The members that only the start of a gesture sets.
SameStart(s, t) == t.left = s.left /\ t.start = s.start

\* A handler that keeps one message more.
Keep(s, n) == [s EXCEPT !.held = Append(@, n)]

LEMMA KeepIs ==
  ASSUME NEW s \in HandlerState, NEW n \in Nat
  PROVE  /\ Keep(s, n) \in HandlerState /\ Keep(s, n).enabled = s.enabled
         /\ Keep(s, n).state = s.state /\ SameStart(s, Keep(s, n))
         /\ Keep(s, n).held = Append(s.held, n)
<1>1. PICK q \in Seq(Nat) : q = Append(s.held, n)
  <2>1. s.held \in Seq(Nat)
    BY DEF HandlerState
  <2>2. Append(s.held, n) \in Seq(Nat)
    BY <2>1
  <2> QED
    BY <2>2, Zenon
<1>2. Keep(s, n) = [s EXCEPT !.held = q]
  BY <1>1 DEF Keep
<1>3. Keep(s, n) \in HandlerState
  BY <1>2 DEF HandlerState
<1> QED
  BY <1>1, <1>2, <1>3 DEF HandlerState, SameStart

\* What a handler makes of a message, case by case.
LEMMA HandleInternalIs ==
  ASSUME NEW h \in Handlers, NEW s \in HandlerState, NEW m \in Message,
         NEW r, r = HandleInternal(h, s, m)
  PROVE  /\ r = <<r[1], r[2]>> 
         /\ r[1] \in HandlerState /\ r[1].enabled = s.enabled /\ r[1].held = s.held
         /\ s.state = "none" /\ ~Starts(h, m) => r[1] = s /\ r[2] = "NotHandled"
         /\ s.state = "none" /\ Starts(h, m) =>
              /\ r[2] = "Initiated" /\ r[1].state = "initiated" /\ r[1].start = m.at
              /\ r[1].left <=> h = "rocker" /\ m.kind = "ldown"
         /\ s.state = "initiated" /\ Triggers(h, s, m) =>
              r[2] = "Triggered" /\ r[1].state = "triggered" /\ SameStart(s, r[1])
         /\ s.state = "initiated" /\ ~Triggers(h, s, m) /\ Near(s, m) =>
              r[2] = "Swallowed" /\ r[1] = s
         /\ s.state = "initiated" /\ ~Triggers(h, s, m) /\ ~Near(s, m) =>
              r[2] = "Canceled" /\ r[1].state = "none" /\ SameStart(s, r[1])
         /\ s.state = "triggered" /\ Continues(h, s, m) => r[2] = "Swallowed" /\ r[1] = s
         /\ s.state = "triggered" /\ ~Continues(h, s, m) =>
              r[2] = "GestureEnd" /\ r[1].state = "none" /\ SameStart(s, r[1])
<1>1. CASE s.state = "none"
  BY <1>1 DEF HandleInternal, HandlerState, Message
<1>2. CASE s.state = "initiated"
  BY <1>2 DEF HandleInternal, HandlerState, Message, SameStart, Near
<1>3. CASE s.state = "triggered"
  BY <1>3 DEF HandleInternal, HandlerState, Message, SameStart
<1> QED
  BY <1>1, <1>2, <1>3 DEF HandlerState

LEMMA HandleMessageIs ==
  ASSUME NEW h \in Handlers, NEW s \in HandlerState, NEW m \in Message,
         NEW r, r = HandleMessage(h, s, m)
  PROVE  /\ r[1] \in HandlerState /\ r[1].enabled = s.enabled
         /\ ~s.enabled => r[1] = s /\ r[2] = "NotHandled"
         /\ s.enabled /\ s.state = "none" /\ ~Starts(h, m) => r[1] = s /\ r[2] = "NotHandled"
         /\ s.enabled /\ s.state = "none" /\ Starts(h, m) =>
              /\ r[2] = "Initiated" /\ r[1].state = "initiated" /\ r[1].start = m.at
              /\ r[1].left <=> h = "rocker" /\ m.kind = "ldown"
              /\ r[1].held = Append(s.held, m.no)
         /\ s.enabled /\ s.state = "initiated" =>
              SameStart(s, r[1]) /\ r[1].held = Append(s.held, m.no)
         /\ s.enabled /\ s.state = "initiated" /\ Triggers(h, s, m) =>
              r[2] = "Triggered" /\ r[1].state = "triggered"
         /\ s.enabled /\ s.state = "initiated" /\ ~Triggers(h, s, m) /\ Near(s, m) =>
              r[2] = "Swallowed" /\ r[1].state = "initiated"
         /\ s.enabled /\ s.state = "initiated" /\ ~Triggers(h, s, m) /\ ~Near(s, m) =>
              r[2] = "Canceled" /\ r[1].state = "none"
         /\ s.enabled /\ s.state = "triggered" /\ Continues(h, s, m) =>
              r[2] = "Swallowed" /\ r[1] = s
         /\ s.enabled /\ s.state = "triggered" /\ ~Continues(h, s, m) =>
              r[2] = "GestureEnd" /\ r[1].state = "none"
<1>1. PICK i : i = HandleInternal(h, s, m)
  OBVIOUS
<1>2. s.enabled \in BOOLEAN /\ s.state \in {"none", "initiated", "triggered"} /\ m.no \in Nat
  BY DEF HandlerState, Message
<1>3. i[1] \in HandlerState /\ i[1].held = s.held /\ i[1].enabled = s.enabled
  BY <1>1, HandleInternalIs
<1>4. PICK kept : kept = Keep(i[1], m.no)
  OBVIOUS
<1>5. /\ kept \in HandlerState /\ kept.enabled = s.enabled /\ kept.state = i[1].state
      /\ SameStart(i[1], kept) /\ kept.held = Append(s.held, m.no)
  BY <1>2, <1>3, <1>4, KeepIs
<1>6. /\ ~s.enabled => r = <<s, "NotHandled">>
      /\ s.enabled /\ KeepsTrack(i[1], i[2]) => r = <<kept, i[2]>>
      /\ s.enabled /\ ~KeepsTrack(i[1], i[2]) => r = i
  BY <1>1, <1>4 DEF HandleMessage, Keep
<1>7. CASE ~s.enabled
  BY <1>6, <1>7
<1>8. CASE s.enabled /\ s.state = "none" /\ Starts(h, m)
  <2>1. /\ i[2] = "Initiated" /\ i[1].state = "initiated" /\ i[1].start = m.at
        /\ i[1].left <=> h = "rocker" /\ m.kind = "ldown"
    BY <1>1, <1>8, HandleInternalIs
  <2>2. r[1] = kept /\ r[2] = i[2]
    BY <1>6, <1>8, <2>1 DEF KeepsTrack
  <2> QED
    BY <1>5, <1>8, <2>1, <2>2 DEF SameStart
<1>9. CASE s.enabled /\ s.state = "none" /\ ~Starts(h, m)
  <2>1. i[1] = s /\ i[2] = "NotHandled"
    BY <1>1, <1>9, HandleInternalIs
  <2>2. r = i
    BY <1>6, <1>9, <2>1 DEF KeepsTrack
  <2> QED
    BY <1>9, <2>1, <2>2
<1>10. CASE s.enabled /\ s.state = "initiated"
  <2>1. /\ Triggers(h, s, m) => i[2] = "Triggered" /\ i[1].state = "triggered" /\ SameStart(s, i[1])
        /\ ~Triggers(h, s, m) /\ Near(s, m) => i[2] = "Swallowed" /\ i[1] = s
        /\ ~Triggers(h, s, m) /\ ~Near(s, m) =>
             i[2] = "Canceled" /\ i[1].state = "none" /\ SameStart(s, i[1])
    BY <1>1, <1>10, HandleInternalIs
  <2>2. KeepsTrack(i[1], i[2])
    BY <1>10, <2>1 DEF KeepsTrack
  <2>3. r[1] = kept /\ r[2] = i[2]
    BY <1>6, <1>10, <2>2
  <2>4. SameStart(s, r[1])
    BY <1>5, <2>1, <2>3 DEF SameStart
  <2> QED
    BY <1>5, <1>10, <2>1, <2>3, <2>4
<1>11. CASE s.enabled /\ s.state = "triggered"
  <2>1. /\ Continues(h, s, m) => i[2] = "Swallowed" /\ i[1] = s
        /\ ~Continues(h, s, m) => i[2] = "GestureEnd" /\ i[1].state = "none"
    BY <1>1, <1>11, HandleInternalIs
  <2>2. r = i
    BY <1>6, <1>11, <2>1 DEF KeepsTrack
  <2> QED
    BY <1>3, <1>11, <2>1, <2>2
<1> QED
  BY <1>2, <1>7, <1>8, <1>9, <1>10, <1>11

\* What a message has come to when every handler is as in f.
With(acc, f, w) == [acc EXCEPT !.hs = f, !.swallow = @ \/ w]

LEMMA WithIs ==
  ASSUME NEW acc \in Outcome, NEW f \in [Handlers -> HandlerState], NEW w \in BOOLEAN
  PROVE  /\ With(acc, f, w) \in Outcome /\ With(acc, f, w).hs = f
         /\ With(acc, f, w).swallow <=> acc.swallow \/ w
         /\ With(acc, f, w).stop = acc.stop /\ With(acc, f, w).ff = acc.ff
         /\ With(acc, f, w).back = acc.back
<1>1. PICK v \in BOOLEAN : v = (acc.swallow \/ w)
  OBVIOUS
<1>2. With(acc, f, w) = [[acc EXCEPT !.hs = f] EXCEPT !.swallow = v]
  BY <1>1 DEF With, Outcome
<1>3. With(acc, f, w) \in Outcome
  BY <1>2 DEF Outcome
<1> QED
  BY <1>1, <1>2, <1>3 DEF Outcome

LEMMA ResetIs ==
  ASSUME NEW s \in HandlerState
  PROVE  /\ Reset(s) \in HandlerState /\ Reset(s).enabled = s.enabled /\ Reset(s).state = "none"
         /\ Reset(s).held = << >> /\ Reset(s).left = s.left
<1>1. << >> \in Seq(Nat)
  OBVIOUS
<1>2. Reset(s) \in HandlerState
  BY <1>1 DEF Reset, HandlerState
<1> QED
  BY <1>2 DEF Reset, HandlerState

Released(s) == [s EXCEPT !.held = << >>]

LEMMA ReleasedIs ==
  ASSUME NEW s \in HandlerState
  PROVE  /\ Released(s) \in HandlerState /\ Released(s).enabled = s.enabled
         /\ Released(s).state = s.state /\ Released(s).held = << >> /\ Released(s).left = s.left
<1>1. << >> \in Seq(Nat)
  OBVIOUS
<1>2. Released(s) \in HandlerState
  BY <1>1 DEF Released, HandlerState
<1> QED
  BY <1>2 DEF Released, HandlerState

\* The three ways of a handler with the message, once it has made r of it.
Quits(acc, h, r)  == [acc EXCEPT !.stop = TRUE, !.ff = r[1].held, !.hs[h].held = << >>]
Gives(acc, h, r)  == [acc EXCEPT !.back = IF r[1].left THEN << >> ELSE r[1].held,
                                 !.hs = [g \in Handlers |-> Reset(@[g])]]

LEMMA QuitsIs ==
  ASSUME NEW acc \in Outcome, NEW h \in Handlers, NEW r, r[1] \in HandlerState
  PROVE  LET a == Quits(acc, h, r)
         IN /\ a \in Outcome /\ a.stop /\ a.ff = r[1].held /\ a.back = acc.back
            /\ a.swallow = acc.swallow
            /\ a.hs[h] = Released(acc.hs[h])
            /\ \A g \in Handlers \ {h} : a.hs[g] = acc.hs[g]
<1>1. PICK q \in Seq(Nat) : q = r[1].held
  BY DEF HandlerState
<1>2. PICK f \in [Handlers -> HandlerState] : f = [acc.hs EXCEPT ![h] = Released(@)]
  <2>1. acc.hs \in [Handlers -> HandlerState] /\ acc.hs[h] \in HandlerState
    BY DEF Outcome
  <2>2. Released(acc.hs[h]) \in HandlerState
    BY <2>1, ReleasedIs
  <2>3. [acc.hs EXCEPT ![h] = Released(@)] \in [Handlers -> HandlerState]
    BY <2>1, <2>2
  <2> QED
    BY <2>3, Zenon
<1>3. Quits(acc, h, r) = [[[acc EXCEPT !.stop = TRUE] EXCEPT !.ff = q] EXCEPT !.hs = f]
  BY <1>1, <1>2 DEF Quits, Released, Outcome
<1>4. Quits(acc, h, r) \in Outcome
  BY <1>3 DEF Outcome
<1> QED
  BY <1>1, <1>2, <1>3, <1>4 DEF Outcome

LEMMA GivesIs ==
  ASSUME NEW acc \in Outcome, NEW h \in Handlers, NEW r, r[1] \in HandlerState
  PROVE  LET a == Gives(acc, h, r)
         IN /\ a \in Outcome /\ a.stop = acc.stop /\ a.ff = acc.ff /\ a.swallow = acc.swallow
            /\ a.back = IF r[1].left THEN << >> ELSE r[1].held
            /\ a.hs = [g \in Handlers |-> Reset(acc.hs[g])]
<1>1. PICK q \in Seq(Nat) : q = IF r[1].left THEN << >> ELSE r[1].held
  <2>1. r[1].held \in Seq(Nat) /\ << >> \in Seq(Nat)
    BY DEF HandlerState
  <2> QED
    BY <2>1, Zenon
<1>2. PICK f \in [Handlers -> HandlerState] : f = [g \in Handlers |-> Reset(acc.hs[g])]
  <2>1. \A g \in Handlers : Reset(acc.hs[g]) \in HandlerState
    BY ResetIs DEF Outcome
  <2>2. [g \in Handlers |-> Reset(acc.hs[g])] \in [Handlers -> HandlerState]
    BY <2>1
  <2> QED
    BY <2>2, Zenon
<1>3. Gives(acc, h, r) = [[acc EXCEPT !.back = q] EXCEPT !.hs = f]
  BY <1>1, <1>2 DEF Gives, Outcome
<1>4. Gives(acc, h, r) \in Outcome
  BY <1>3 DEF Outcome
<1> QED
  BY <1>1, <1>2, <1>3, <1>4 DEF Outcome

\* What the handlers and the outcome become when one more is shown the message.
LEMMA OfferToIs ==
  ASSUME NEW m \in Message, NEW acc \in Outcome, NEW h \in Handlers,
         NEW r, r = HandleMessage(h, acc.hs[h], m), NEW a, a = OfferTo(m, acc, h)
  PROVE  /\ a \in Outcome
         /\ acc.stop => a = acc
         /\ ~acc.stop => (a.swallow <=> acc.swallow \/ Swallows(r[1], r[2]))
         /\ ~acc.stop /\ r[2] = "Triggered" =>
              /\ a.stop /\ a.ff = r[1].held /\ a.back = acc.back
              /\ \A g \in Handlers \ {h} : a.hs[g] = acc.hs[g]
              /\ a.hs[h].enabled = acc.hs[h].enabled /\ a.hs[h].state = r[1].state
              /\ a.hs[h].held = << >>
         /\ ~acc.stop /\ r[2] = "Canceled" /\ r[1].state = "none"
              /\ (\A g \in Handlers \ {h} : acc.hs[g].state = "none") =>
              /\ ~a.stop /\ a.ff = acc.ff /\ a.back = (IF r[1].left THEN << >> ELSE r[1].held)
              /\ \A g \in Handlers : /\ a.hs[g].enabled = acc.hs[g].enabled
                                     /\ a.hs[g].state = "none" /\ a.hs[g].held = << >>
         /\ ~acc.stop /\ r[2] # "Triggered"
              /\ (r[2] # "Canceled" \/ \E g \in Handlers \ {h} : acc.hs[g].state # "none") =>
              /\ ~a.stop /\ a.ff = acc.ff /\ a.back = acc.back
              /\ \A g \in Handlers \ {h} : a.hs[g] = acc.hs[g]
              /\ a.hs[h] = r[1]
<1>1. /\ acc.hs \in [Handlers -> HandlerState] /\ acc.hs[h] \in HandlerState
      /\ acc.stop \in BOOLEAN /\ acc.swallow \in BOOLEAN
  BY DEF Outcome
<1>2. r[1] \in HandlerState /\ r[1].enabled = acc.hs[h].enabled
  BY <1>1, HandleMessageIs
<1>3. PICK w \in BOOLEAN : w = Swallows(r[1], r[2])
  <2>1. Swallows(r[1], r[2]) \in BOOLEAN
    BY <1>2 DEF Swallows, KeepsTrack, HandlerState
  <2> QED
    BY <2>1
<1>4. PICK f \in [Handlers -> HandlerState] : f = [acc.hs EXCEPT ![h] = r[1]]
  <2>1. [acc.hs EXCEPT ![h] = r[1]] \in [Handlers -> HandlerState]
    BY <1>1, <1>2
  <2> QED
    BY <2>1, Zenon
<1>5. f[h] = r[1] /\ \A g \in Handlers \ {h} : f[g] = acc.hs[g]
  BY <1>1, <1>4
<1>6. PICK b : b = With(acc, f, w)
  OBVIOUS
<1>7. /\ b \in Outcome /\ b.hs = f /\ b.stop = acc.stop /\ b.ff = acc.ff /\ b.back = acc.back
      /\ b.swallow <=> acc.swallow \/ w
  BY <1>6, WithIs
<1>8. a = IF acc.stop THEN acc
          ELSE IF r[2] = "Triggered" THEN Quits(b, h, r)
          ELSE IF r[2] = "Canceled" /\ \A g \in Handlers : f[g].state = "none"
               THEN Gives(b, h, r) ELSE b
  BY <1>3, <1>4, <1>6 DEF OfferTo, With, Quits, Gives
<1>9. CASE acc.stop
  BY <1>8, <1>9
<1>10. CASE ~acc.stop /\ r[2] = "Triggered"
  <2>1. a = Quits(b, h, r)
    BY <1>8, <1>10
  <2>2. /\ a \in Outcome /\ a.stop /\ a.ff = r[1].held /\ a.back = b.back
        /\ a.swallow = b.swallow /\ a.hs[h] = Released(f[h])
        /\ \A g \in Handlers \ {h} : a.hs[g] = f[g]
    BY <1>2, <1>7, <2>1, QuitsIs
  <2>3. a.hs[h] = Released(r[1]) /\ \A g \in Handlers \ {h} : a.hs[g] = acc.hs[g]
    BY <1>5, <2>2
  <2>4. /\ Released(r[1]).enabled = r[1].enabled /\ Released(r[1]).state = r[1].state
        /\ Released(r[1]).held = << >>
    BY <1>2, ReleasedIs
  <2> QED
    BY <1>2, <1>3, <1>7, <1>10, <2>2, <2>3, <2>4
<1>11. CASE ~acc.stop /\ r[2] = "Canceled" /\ r[1].state = "none"
            /\ \A g \in Handlers \ {h} : acc.hs[g].state = "none"
  <2>1. \A g \in Handlers : f[g].state = "none"
    BY <1>5, <1>11
  <2>2. a = Gives(b, h, r)
    BY <1>8, <1>11, <2>1
  <2>3. /\ a \in Outcome /\ a.stop = b.stop /\ a.ff = b.ff /\ a.swallow = b.swallow
        /\ a.back = (IF r[1].left THEN << >> ELSE r[1].held)
        /\ a.hs = [g \in Handlers |-> Reset(f[g])]
    BY <1>2, <1>7, <2>2, GivesIs
  <2>4. ASSUME NEW g \in Handlers
        PROVE  /\ a.hs[g].enabled = acc.hs[g].enabled /\ a.hs[g].state = "none"
               /\ a.hs[g].held = << >>
    <3>1. a.hs[g] = Reset(f[g]) /\ f[g] \in HandlerState
      BY <2>3
    <3>2. f[g].enabled = acc.hs[g].enabled
      BY <1>2, <1>5
    <3> QED
      BY <3>1, <3>2, ResetIs
  <2> QED
    BY <1>3, <1>7, <1>11, <2>3, <2>4
<1>12. CASE ~acc.stop /\ r[2] # "Triggered"
            /\ (r[2] # "Canceled" \/ \E g \in Handlers \ {h} : acc.hs[g].state # "none")
  <2>1. r[2] # "Canceled" \/ \E g \in Handlers : f[g].state # "none"
    BY <1>5, <1>12
  <2>2. a = b
    BY <1>8, <1>12, <2>1
  <2> QED
    BY <1>3, <1>5, <1>7, <1>12, <2>2
<1>13. CASE ~acc.stop /\ r[2] = "Canceled" /\ r[1].state # "none"
            /\ \A g \in Handlers \ {h} : acc.hs[g].state = "none"
  <2>1. ~ \A g \in Handlers : f[g].state = "none"
    BY <1>5, <1>13
  <2>2. a = b
    BY <1>8, <1>13, <2>1
  <2> QED
    BY <1>3, <1>5, <1>7, <1>13, <2>2
<1> QED
  BY <1>9, <1>10, <1>11, <1>12, <1>13

\* The loop of ForwardFirefoxMouseMessage shows the message to each handler in turn.
Shown(c, i, x) ==
  x = CASE i = 0 -> c[2]
        [] i = 1 -> OfferTo(c[1], c[2], "trace")
        [] i = 2 -> OfferTo(c[1], OfferTo(c[1], c[2], "trace"), "rocker")
        [] i = 3 -> OfferTo(c[1], OfferTo(c[1], OfferTo(c[1], c[2], "trace"), "rocker"), "wheel")

HookLoop == INSTANCE FoldInduction WITH Op <- OfferTo, P <- Shown

NotOffered == [hs |-> hs, swallow |-> FALSE, stop |-> FALSE, ff |-> << >>, back |-> << >>]

LEMMA OfferIs ==
  ASSUME NEW m
  PROVE  Offer(m) = OfferTo(m, OfferTo(m, OfferTo(m, NotOffered, "trace"), "rocker"), "wheel")
<1> DEFINE c == <<m, NotOffered>>
<1>1. Shown(c, 0, NotOffered)
  BY DEF Shown
<1>2. \A i \in 1..3 : \A x : Shown(c, i - 1, x) => Shown(c, i, OfferTo(m, x, Order[i]))
  <2>1. \A x : Shown(c, 0, x) => Shown(c, 1, OfferTo(m, x, "trace"))
    BY DEF Shown
  <2>2. \A x : Shown(c, 1, x) => Shown(c, 2, OfferTo(m, x, "rocker"))
    BY DEF Shown
  <2>3. \A x : Shown(c, 2, x) => Shown(c, 3, OfferTo(m, x, "wheel"))
    BY DEF Shown
  <2>4. ASSUME NEW i \in 1..3, NEW x, Shown(c, i - 1, x) PROVE Shown(c, i, OfferTo(m, x, Order[i]))
    <3>1. CASE i = 1
      BY <2>1, <2>4, <3>1 DEF Order
    <3>2. CASE i = 2
      BY <2>2, <2>4, <3>2 DEF Order
    <3>3. CASE i = 3
      BY <2>3, <2>4, <3>3 DEF Order
    <3> QED
      BY <3>1, <3>2, <3>3
  <2> QED
    BY <2>4
<1>3. Shown(c, 3, HookLoop!Fold(m, NotOffered, Order))
  <2>1. DOMAIN Order = 1..3
    BY DEF Order
  <2> HIDE DEF c
  <2> QED
    BY <1>1, <1>2, <2>1, HookLoop!FoldLeftInduction
<1>4. Offer(m) = HookLoop!Fold(m, NotOffered, Order)
  BY Zenon DEF Offer, NotOffered, FoldLeft, MapThenFoldSet, Max, HookLoop!Fold,
     HookLoop!FoldLeft, HookLoop!MapThenFoldSet, HookLoop!Max
<1> QED
  BY <1>3, <1>4 DEF Shown

\* What a gesture under way may become: the three cases of HandleMessageIs.
LEMMA MovesOn ==
  ASSUME NEW h \in Handlers, NEW s \in HandlerState, s.enabled, s.state = "initiated",
         NEW m \in Message, NEW r, r = HandleMessage(h, s, m)
  PROVE  /\ Triggers(h, s, m) => r[2] = "Triggered" /\ r[1].state = "triggered"
         /\ ~Triggers(h, s, m) /\ Near(s, m) => r[2] = "Swallowed" /\ r[1].state = "initiated"
         /\ ~Triggers(h, s, m) /\ ~Near(s, m) => r[2] = "Canceled" /\ r[1].state = "none"
  BY HandleMessageIs, SMTT(60)

\* The same for each case of a handler that has not triggered.
LEMMA OneMoreShown ==
  ASSUME NEW m \in Message, NEW acc \in Outcome, ~acc.stop, NEW h \in Handlers,
         NEW s, s = acc.hs[h], s.state # "triggered", ~s.enabled => s.state = "none",
         NEW a, a = OfferTo(m, acc, h)
  PROVE  /\ a \in Outcome
         /\ \A g \in Handlers : a.hs[g].enabled = acc.hs[g].enabled
         /\ s.state = "none" /\ ~(s.enabled /\ Starts(h, m)) =>
              /\ ~a.stop /\ a.ff = acc.ff /\ a.back = acc.back /\ (a.swallow <=> acc.swallow)
              /\ \A g \in Handlers : a.hs[g] = acc.hs[g]
         /\ s.state = "none" /\ s.enabled /\ Starts(h, m) =>
              /\ ~a.stop /\ a.ff = acc.ff /\ a.back = acc.back
              /\ a.swallow <=> acc.swallow \/ ~(h = "rocker" /\ m.kind = "ldown")
              /\ \A g \in Handlers \ {h} : a.hs[g] = acc.hs[g]
              /\ a.hs[h].state = "initiated" /\ a.hs[h].start = m.at
              /\ a.hs[h].left <=> h = "rocker" /\ m.kind = "ldown"
              /\ a.hs[h].held = Append(s.held, m.no)
         /\ s.state = "initiated" /\ Triggers(h, s, m) =>
              /\ a.stop /\ a.ff = Append(s.held, m.no) /\ a.back = acc.back /\ a.swallow
              /\ \A g \in Handlers \ {h} : a.hs[g] = acc.hs[g]
              /\ a.hs[h].state = "triggered" /\ a.hs[h].held = << >>
         /\ s.state = "initiated" /\ ~Triggers(h, s, m) /\ Near(s, m) =>
              /\ ~a.stop /\ a.ff = acc.ff /\ a.back = acc.back
              /\ a.swallow <=> acc.swallow \/ ~s.left
              /\ \A g \in Handlers \ {h} : a.hs[g] = acc.hs[g]
              /\ a.hs[h].state = "initiated" /\ SameStart(s, a.hs[h])
              /\ a.hs[h].held = Append(s.held, m.no)
         /\ s.state = "initiated" /\ ~Triggers(h, s, m) /\ ~Near(s, m)
              /\ (\A g \in Handlers \ {h} : acc.hs[g].state = "none") =>
              /\ ~a.stop /\ a.ff = acc.ff
              /\ a.back = (IF s.left THEN << >> ELSE Append(s.held, m.no))
              /\ a.swallow <=> acc.swallow \/ ~s.left
              /\ \A g \in Handlers : a.hs[g].state = "none" /\ a.hs[g].held = << >>
         /\ s.state = "initiated" /\ ~Triggers(h, s, m) /\ ~Near(s, m)
              /\ (\E g \in Handlers \ {h} : acc.hs[g].state # "none") =>
              /\ ~a.stop /\ a.ff = acc.ff /\ a.back = acc.back
              /\ a.swallow <=> acc.swallow \/ ~s.left
              /\ \A g \in Handlers \ {h} : a.hs[g] = acc.hs[g]
              /\ a.hs[h].state = "none" /\ a.hs[h].held = Append(s.held, m.no)
<1>1. PICK r : r = HandleMessage(h, s, m)
  OBVIOUS
<1>2. s \in HandlerState /\ s.state \in {"none", "initiated", "triggered"}
      /\ s.enabled \in BOOLEAN /\ s.left \in BOOLEAN /\ acc.swallow \in BOOLEAN
  BY DEF Outcome, HandlerState
<1>3. a \in Outcome /\ r[1] \in HandlerState /\ r[1].enabled = s.enabled
  BY <1>1, <1>2, OfferToIs, HandleMessageIs
<1>4. a.swallow <=> acc.swallow \/ Swallows(r[1], r[2])
  BY <1>1, OfferToIs
<1>5. r[2] # "Triggered" /\ r[2] # "Canceled" =>
        /\ ~a.stop /\ a.ff = acc.ff /\ a.back = acc.back
        /\ \A g \in Handlers \ {h} : a.hs[g] = acc.hs[g]
        /\ a.hs[h] = r[1]
  BY <1>1, OfferToIs
<1>6. CASE s.state = "none" /\ ~(s.enabled /\ Starts(h, m))
  <2>1. r[1] = s /\ r[2] = "NotHandled"
    BY <1>1, <1>2, <1>6, HandleMessageIs
  <2>2. ~Swallows(r[1], r[2])
    BY <1>6, <2>1 DEF Swallows, KeepsTrack
  <2> QED
    BY <1>2, <1>3, <1>4, <1>5, <1>6, <2>1, <2>2
<1>7. CASE s.state = "none" /\ s.enabled /\ Starts(h, m)
  <2>1. /\ r[2] = "Initiated" /\ r[1].state = "initiated" /\ r[1].start = m.at
        /\ r[1].held = Append(s.held, m.no)
    BY <1>1, <1>2, <1>7, HandleMessageIs, SMTT(120)
  <2>3. r[1].left <=> h = "rocker" /\ m.kind = "ldown"
    BY <1>1, <1>2, <1>7, HandleMessageIs, SMTT(120)
  <2>2. Swallows(r[1], r[2]) <=> ~(h = "rocker" /\ m.kind = "ldown")
    BY <2>1, <2>3 DEF Swallows, KeepsTrack
  <2> QED
    BY <1>2, <1>3, <1>4, <1>5, <1>7, <2>1, <2>2, <2>3
<1>8. CASE s.state = "initiated"
  <2>1. s.enabled /\ SameStart(s, r[1]) /\ r[1].held = Append(s.held, m.no)
    BY <1>1, <1>2, <1>8, HandleMessageIs, SMTT(30)
  <2>2. r[1].left = s.left
    BY <2>1 DEF SameStart
  <2>3. CASE Triggers(h, s, m)
    <3>1. r[2] = "Triggered" /\ r[1].state = "triggered"
      BY <1>1, <1>2, <1>8, <2>1, <2>3, MovesOn, SMTT(30)
    <3>2. Swallows(r[1], r[2])
      BY <3>1 DEF Swallows, KeepsTrack
    <3>3. /\ a.stop /\ a.ff = r[1].held /\ a.back = acc.back
          /\ \A g \in Handlers \ {h} : a.hs[g] = acc.hs[g]
          /\ a.hs[h].enabled = s.enabled /\ a.hs[h].state = r[1].state /\ a.hs[h].held = << >>
      BY <1>1, <3>1, OfferToIs
    <3> QED
      BY <1>2, <1>3, <1>4, <1>8, <2>1, <2>3, <3>1, <3>2, <3>3
  <2>4. CASE ~Triggers(h, s, m) /\ Near(s, m)
    <3>1. r[2] = "Swallowed" /\ r[1].state = "initiated"
      BY <1>1, <1>2, <1>8, <2>1, <2>4, MovesOn, SMTT(30)
    <3>2. Swallows(r[1], r[2]) <=> ~s.left
      BY <2>2, <3>1 DEF Swallows, KeepsTrack
    <3> QED
      BY <1>2, <1>3, <1>4, <1>5, <1>8, <2>1, <2>4, <3>1, <3>2
  <2>5. CASE ~Triggers(h, s, m) /\ ~Near(s, m)
    <3>1. r[2] = "Canceled" /\ r[1].state = "none"
      BY <1>1, <1>2, <1>8, <2>1, <2>5, MovesOn, SMTT(30)
    <3>2. Swallows(r[1], r[2]) <=> ~s.left
      BY <2>2, <3>1 DEF Swallows, KeepsTrack
    <3>3. CASE \A g \in Handlers \ {h} : acc.hs[g].state = "none"
      <4>1. /\ ~a.stop /\ a.ff = acc.ff /\ a.back = (IF r[1].left THEN << >> ELSE r[1].held)
            /\ \A g \in Handlers : /\ a.hs[g].enabled = acc.hs[g].enabled
                                   /\ a.hs[g].state = "none" /\ a.hs[g].held = << >>
        BY <1>1, <3>1, <3>3, OfferToIs
      <4> QED
        BY <1>2, <1>3, <1>4, <1>8, <2>1, <2>2, <2>5, <3>2, <3>3, <4>1
    <3>4. CASE \E g \in Handlers \ {h} : acc.hs[g].state # "none"
      <4>1. /\ ~a.stop /\ a.ff = acc.ff /\ a.back = acc.back
            /\ \A g \in Handlers \ {h} : a.hs[g] = acc.hs[g]
            /\ a.hs[h] = r[1]
        BY <1>1, <3>1, <3>4, OfferToIs
      <4> QED
        BY <1>2, <1>3, <1>4, <1>8, <2>1, <2>2, <2>5, <3>1, <3>2, <3>4, <4>1
    <3> QED
      BY <3>3, <3>4
  <2> QED
    BY <2>3, <2>4, <2>5
<1> QED
  BY <1>2, <1>6, <1>7, <1>8

\* A handler that has nothing to do with the message.
LEMMA Passed ==
  ASSUME NEW m \in Message, NEW acc \in Outcome, ~acc.stop, NEW h \in Handlers,
         NEW s, s = acc.hs[h], s.state = "none", ~(s.enabled /\ Starts(h, m)),
         NEW a, a = OfferTo(m, acc, h)
  PROVE  /\ a \in Outcome /\ \A g \in Handlers : a.hs[g].enabled = acc.hs[g].enabled
         /\ ~a.stop /\ a.ff = acc.ff /\ a.back = acc.back /\ (a.swallow <=> acc.swallow)
         /\ \A g \in Handlers : a.hs[g] = acc.hs[g]
<1>1. s.state # "triggered" /\ (~s.enabled => s.state = "none")
  OBVIOUS
<1>2. a \in Outcome /\ \A g \in Handlers : a.hs[g].enabled = acc.hs[g].enabled
  BY <1>1, OneMoreShown, SMTT(120)
<1>3. ~a.stop /\ a.ff = acc.ff /\ a.back = acc.back /\ (a.swallow <=> acc.swallow)
  BY <1>1, OneMoreShown, SMTT(120)
<1>4. \A g \in Handlers : a.hs[g] = acc.hs[g]
  BY <1>1, OneMoreShown, SMTT(120)
<1> QED
  BY <1>2, <1>3, <1>4

\* One that begins a gesture with it.
LEMMA Began ==
  ASSUME NEW m \in Message, NEW acc \in Outcome, ~acc.stop, NEW h \in Handlers,
         NEW s, s = acc.hs[h], s.state = "none", s.enabled, Starts(h, m),
         NEW a, a = OfferTo(m, acc, h)
  PROVE  /\ a \in Outcome /\ \A g \in Handlers : a.hs[g].enabled = acc.hs[g].enabled
         /\ ~a.stop /\ a.ff = acc.ff /\ a.back = acc.back
         /\ a.swallow <=> acc.swallow \/ ~(h = "rocker" /\ m.kind = "ldown")
         /\ \A g \in Handlers \ {h} : a.hs[g] = acc.hs[g]
         /\ a.hs[h].state = "initiated" /\ a.hs[h].start = m.at
         /\ a.hs[h].left <=> h = "rocker" /\ m.kind = "ldown"
         /\ a.hs[h].held = Append(s.held, m.no)
<1>1. s.state # "triggered" /\ (~s.enabled => s.state = "none")
  OBVIOUS
<1>2. a \in Outcome /\ \A g \in Handlers : a.hs[g].enabled = acc.hs[g].enabled
  BY <1>1, OneMoreShown, SMTT(120)
<1>3. ~a.stop /\ a.ff = acc.ff /\ a.back = acc.back
  BY <1>1, OneMoreShown, SMTT(120)
<1>4. a.swallow <=> acc.swallow \/ ~(h = "rocker" /\ m.kind = "ldown")
  BY <1>1, OneMoreShown, SMTT(120)
<1>5. \A g \in Handlers \ {h} : a.hs[g] = acc.hs[g]
  BY <1>1, OneMoreShown, SMTT(120)
<1>6. a.hs[h].state = "initiated" /\ a.hs[h].start = m.at
  BY <1>1, OneMoreShown, SMTT(120)
<1>7. a.hs[h].left <=> h = "rocker" /\ m.kind = "ldown"
  BY <1>1, OneMoreShown, SMTT(120)
<1>8. a.hs[h].held = Append(s.held, m.no)
  BY <1>1, OneMoreShown, SMTT(120)
<1> QED
  BY <1>2, <1>3, <1>4, <1>5, <1>6, <1>7, <1>8

\* One that triggers.
LEMMA Fired ==
  ASSUME NEW m \in Message, NEW acc \in Outcome, ~acc.stop, NEW h \in Handlers,
         NEW s, s = acc.hs[h], s.state = "initiated", s.enabled, Triggers(h, s, m),
         NEW a, a = OfferTo(m, acc, h)
  PROVE  /\ a \in Outcome /\ \A g \in Handlers : a.hs[g].enabled = acc.hs[g].enabled
         /\ a.stop /\ a.ff = Append(s.held, m.no) /\ a.back = acc.back /\ a.swallow
         /\ \A g \in Handlers \ {h} : a.hs[g] = acc.hs[g]
         /\ a.hs[h].state = "triggered" /\ a.hs[h].held = << >>
<1>1. s.state # "triggered" /\ (~s.enabled => s.state = "none")
  OBVIOUS
<1>2. a \in Outcome /\ \A g \in Handlers : a.hs[g].enabled = acc.hs[g].enabled
  BY <1>1, OneMoreShown, SMTT(120)
<1>3. a.stop /\ a.ff = Append(s.held, m.no) /\ a.back = acc.back /\ a.swallow
  BY <1>1, OneMoreShown, SMTT(120)
<1>4. \A g \in Handlers \ {h} : a.hs[g] = acc.hs[g]
  BY <1>1, OneMoreShown, SMTT(120)
<1>5. a.hs[h].state = "triggered" /\ a.hs[h].held = << >>
  BY <1>1, OneMoreShown, SMTT(120)
<1> QED
  BY <1>2, <1>3, <1>4, <1>5

\* One that goes on as before.
LEMMA KeptOn ==
  ASSUME NEW m \in Message, NEW acc \in Outcome, ~acc.stop, NEW h \in Handlers,
         NEW s, s = acc.hs[h], s.state = "initiated", s.enabled, ~Triggers(h, s, m), Near(s, m),
         NEW a, a = OfferTo(m, acc, h)
  PROVE  /\ a \in Outcome /\ \A g \in Handlers : a.hs[g].enabled = acc.hs[g].enabled
         /\ ~a.stop /\ a.ff = acc.ff /\ a.back = acc.back
         /\ a.swallow <=> acc.swallow \/ ~s.left
         /\ \A g \in Handlers \ {h} : a.hs[g] = acc.hs[g]
         /\ a.hs[h].state = "initiated" /\ SameStart(s, a.hs[h])
         /\ a.hs[h].held = Append(s.held, m.no)
<1>1. s.state # "triggered" /\ (~s.enabled => s.state = "none")
  OBVIOUS
<1>2. a \in Outcome /\ \A g \in Handlers : a.hs[g].enabled = acc.hs[g].enabled
  BY <1>1, OneMoreShown, SMTT(120)
<1>3. ~a.stop /\ a.ff = acc.ff /\ a.back = acc.back
  BY <1>1, OneMoreShown, SMTT(120)
<1>4. a.swallow <=> acc.swallow \/ ~s.left
  BY <1>1, OneMoreShown, SMTT(120)
<1>5. \A g \in Handlers \ {h} : a.hs[g] = acc.hs[g]
  BY <1>1, OneMoreShown, SMTT(120)
<1>6. a.hs[h].state = "initiated" /\ SameStart(s, a.hs[h])
  BY <1>1, OneMoreShown, SMTT(120)
<1>7. a.hs[h].held = Append(s.held, m.no)
  BY <1>1, OneMoreShown, SMTT(120)
<1> QED
  BY <1>2, <1>3, <1>4, <1>5, <1>6, <1>7

\* The last one that gives up.
LEMMA LastGaveUp ==
  ASSUME NEW m \in Message, NEW acc \in Outcome, ~acc.stop, NEW h \in Handlers,
         NEW s, s = acc.hs[h], s.state = "initiated", s.enabled, ~Triggers(h, s, m), ~Near(s, m),
         \A g \in Handlers \ {h} : acc.hs[g].state = "none",
         NEW a, a = OfferTo(m, acc, h)
  PROVE  /\ a \in Outcome /\ \A g \in Handlers : a.hs[g].enabled = acc.hs[g].enabled
         /\ ~a.stop /\ a.ff = acc.ff
         /\ s.left => a.back = << >>
         /\ ~s.left => a.back = Append(s.held, m.no)
         /\ a.swallow <=> acc.swallow \/ ~s.left
         /\ \A g \in Handlers : a.hs[g].state = "none" /\ a.hs[g].held = << >>
<1>1. s.state # "triggered" /\ (~s.enabled => s.state = "none")
  OBVIOUS
<1>2. a \in Outcome /\ \A g \in Handlers : a.hs[g].enabled = acc.hs[g].enabled
  BY <1>1, OneMoreShown, SMTT(120)
<1>3. ~a.stop /\ a.ff = acc.ff
  BY <1>1, OneMoreShown, SMTT(120)
<1>4. a.back = (IF s.left THEN << >> ELSE Append(s.held, m.no))
  BY <1>1, OneMoreShown, SMTT(120)
<1>5. a.swallow <=> acc.swallow \/ ~s.left
  BY <1>1, OneMoreShown, SMTT(120)
<1>6. \A g \in Handlers : a.hs[g].state = "none" /\ a.hs[g].held = << >>
  BY <1>1, OneMoreShown, SMTT(120)
<1>7. (s.left => a.back = << >>) /\ (~s.left => a.back = Append(s.held, m.no))
  BY <1>4
<1> QED
  BY <1>2, <1>3, <1>5, <1>6, <1>7

\* One that gives up when another does not.
LEMMA GaveUp ==
  ASSUME NEW m \in Message, NEW acc \in Outcome, ~acc.stop, NEW h \in Handlers,
         NEW s, s = acc.hs[h], s.state = "initiated", s.enabled, ~Triggers(h, s, m), ~Near(s, m),
         NEW k \in Handlers \ {h}, acc.hs[k].state # "none",
         NEW a, a = OfferTo(m, acc, h)
  PROVE  /\ a \in Outcome /\ \A g \in Handlers : a.hs[g].enabled = acc.hs[g].enabled
         /\ ~a.stop /\ a.ff = acc.ff /\ a.back = acc.back
         /\ a.swallow <=> acc.swallow \/ ~s.left
         /\ \A g \in Handlers \ {h} : a.hs[g] = acc.hs[g]
         /\ a.hs[h].state = "none" /\ a.hs[h].held = Append(s.held, m.no)
<1>1. s.state # "triggered" /\ (~s.enabled => s.state = "none")
  OBVIOUS
<1>2. a \in Outcome /\ \A g \in Handlers : a.hs[g].enabled = acc.hs[g].enabled
  BY <1>1, OneMoreShown, SMTT(120)
<1>3. ~a.stop /\ a.ff = acc.ff /\ a.back = acc.back
  BY <1>1, OneMoreShown, SMTT(120)
<1>4. a.swallow <=> acc.swallow \/ ~s.left
  BY <1>1, OneMoreShown, SMTT(120)
<1>5. \A g \in Handlers \ {h} : a.hs[g] = acc.hs[g]
  BY <1>1, OneMoreShown, SMTT(120)
<1>6. a.hs[h].state = "none" /\ a.hs[h].held = Append(s.held, m.no)
  BY <1>1, OneMoreShown, SMTT(120)
<1> QED
  BY <1>2, <1>3, <1>4, <1>5, <1>6

\* What the handlers may be about, f being their members: nothing; a gesture that the
\* left button has begun, or the right one, with the messages of K; one of them triggered.
Proper(f)  == f \in [Handlers -> HandlerState] /\ \A g \in Handlers : f[g].enabled \/ f[g].state = "none"
Resting(f) == \A g \in Handlers : f[g].state = "none" /\ f[g].held = << >>
LeftBegun(f, K)     == /\ f["rocker"].state = "initiated" /\ f["rocker"].left /\ f["rocker"].held = K
                       /\ \A g \in Handlers \ {"rocker"} : f[g].state = "none" /\ f[g].held = << >>
RightBegun(f, K, p) == /\ \E g \in Handlers : f[g].enabled
                       /\ \A g \in Handlers :
                            IF f[g].enabled
                            THEN f[g].state = "initiated" /\ ~f[g].left /\ f[g].held = K /\ f[g].start = p
                            ELSE f[g].held = << >>
Going(f)   == \E g \in Handlers : f[g].state = "triggered"

SameEnabled(f, e) == \A g \in Handlers : e[g].enabled = f[g].enabled

\* The handlers of S have been shown m, and nothing was going on.
RestShown(m, S, acc) ==
  /\ acc \in Outcome /\ ~acc.stop /\ acc.ff = << >> /\ acc.back = << >> /\ SameEnabled(hs, acc.hs)
  /\ \A g \in Handlers : g \notin S \/ ~(hs[g].enabled /\ Starts(g, m)) => acc.hs[g] = hs[g]
  /\ \A g \in S : hs[g].enabled /\ Starts(g, m) =>
       /\ acc.hs[g].state = "initiated" /\ acc.hs[g].start = m.at
       /\ acc.hs[g].left <=> m.kind = "ldown"
       /\ acc.hs[g].held = <<m.no>>
  /\ acc.swallow <=> m.kind # "ldown" /\ \E g \in S : hs[g].enabled /\ Starts(g, m)

LEMMA OfferedNothing ==
  ASSUME Proper(hs)
  PROVE  NotOffered \in Outcome /\ NotOffered.hs = hs /\ ~NotOffered.swallow /\ ~NotOffered.stop
         /\ NotOffered.ff = << >> /\ NotOffered.back = << >>
BY DEF Proper, NotOffered, Outcome

LEMMA RestStep ==
  ASSUME NEW m \in Message, Proper(hs), Resting(hs), NEW S \in SUBSET Handlers,
         NEW h \in Handlers \ S, NEW acc, RestShown(m, S, acc), NEW a, a = OfferTo(m, acc, h)
  PROVE  RestShown(m, S \cup {h}, a)
<1> DEFINE s == acc.hs[h]
<1>1. acc \in Outcome /\ ~acc.stop /\ s = hs[h]
  BY DEF RestShown
<1>2. s.state = "none" /\ s.held = << >> /\ m.no \in Nat /\ Append(<< >>, m.no) = <<m.no>>
  BY <1>1 DEF Resting, Message
<1>4. a \in Outcome /\ SameEnabled(acc.hs, a.hs)
  <2>1. CASE ~(s.enabled /\ Starts(h, m))
    BY <1>1, <1>2, <2>1, Passed DEF SameEnabled
  <2>2. CASE s.enabled /\ Starts(h, m)
    BY <1>1, <1>2, <2>2, Began DEF SameEnabled
  <2> QED
    BY <2>1, <2>2
<1>5. CASE ~(s.enabled /\ Starts(h, m))
  <2>1. /\ ~a.stop /\ a.ff = acc.ff /\ a.back = acc.back /\ (a.swallow <=> acc.swallow)
        /\ \A g \in Handlers : a.hs[g] = acc.hs[g]
    BY <1>1, <1>2, <1>5, Passed
  <2>2. SameEnabled(hs, a.hs)
    BY <1>4 DEF RestShown, SameEnabled
  <2>3. ASSUME NEW g \in Handlers, g \notin S \cup {h} \/ ~(hs[g].enabled /\ Starts(g, m))
        PROVE  a.hs[g] = hs[g]
    BY <1>1, <2>1, <2>3 DEF RestShown
  <2>4. ASSUME NEW g \in S \cup {h}, hs[g].enabled /\ Starts(g, m)
        PROVE  /\ g \in S /\ a.hs[g].state = "initiated" /\ a.hs[g].start = m.at
               /\ a.hs[g].left <=> m.kind = "ldown"
               /\ a.hs[g].held = <<m.no>>
    BY <1>1, <1>5, <2>1, <2>4 DEF RestShown
  <2>5. a.swallow <=> m.kind # "ldown" /\ \E g \in S \cup {h} : hs[g].enabled /\ Starts(g, m)
    BY <1>1, <1>5, <2>1 DEF RestShown
  <2>6. ~a.stop /\ a.ff = << >> /\ a.back = << >>
    BY <2>1 DEF RestShown
  <2> QED
    BY <1>4, <2>2, <2>3, <2>4, <2>5, <2>6 DEF RestShown
<1>6. CASE s.enabled /\ Starts(h, m)
  <2>1. /\ ~a.stop /\ a.ff = acc.ff /\ a.back = acc.back
        /\ \A g \in Handlers \ {h} : a.hs[g] = acc.hs[g]
        /\ a.hs[h].state = "initiated" /\ a.hs[h].start = m.at
        /\ a.hs[h].held = Append(s.held, m.no)
    BY <1>1, <1>2, <1>6, Began
  <2>2. /\ a.swallow <=> acc.swallow \/ ~(h = "rocker" /\ m.kind = "ldown")
        /\ a.hs[h].left <=> h = "rocker" /\ m.kind = "ldown"
    BY <1>1, <1>2, <1>6, Began
  <2>3. m.kind = "ldown" => h = "rocker"
    BY <1>6 DEF Starts
  <2>4. SameEnabled(hs, a.hs)
    BY <1>4 DEF RestShown, SameEnabled
  <2>5. ASSUME NEW g \in Handlers, g \notin S \cup {h} \/ ~(hs[g].enabled /\ Starts(g, m))
        PROVE  a.hs[g] = hs[g]
    BY <1>1, <1>6, <2>1, <2>5 DEF RestShown
  <2>6. ASSUME NEW g \in S \cup {h}, hs[g].enabled /\ Starts(g, m)
        PROVE  /\ a.hs[g].state = "initiated" /\ a.hs[g].start = m.at
               /\ a.hs[g].left <=> m.kind = "ldown"
               /\ a.hs[g].held = <<m.no>>
    BY <1>2, <2>1, <2>2, <2>3, <2>6 DEF RestShown
  <2>7. a.swallow <=> m.kind # "ldown" /\ \E g \in S \cup {h} : hs[g].enabled /\ Starts(g, m)
    BY <1>1, <1>6, <2>2, <2>3 DEF RestShown
  <2>8. ~a.stop /\ a.ff = << >> /\ a.back = << >>
    BY <2>1 DEF RestShown
  <2> QED
    BY <1>4, <2>4, <2>5, <2>6, <2>7, <2>8 DEF RestShown
<1> QED
  BY <1>5, <1>6

LEMMA RestOffered ==
  ASSUME NEW m \in Message, Proper(hs), Resting(hs)
  PROVE  RestShown(m, Handlers, Offer(m))
<1>1. RestShown(m, {}, NotOffered)
  BY OfferedNothing DEF RestShown, SameEnabled
<1>2. RestShown(m, {"trace"}, OfferTo(m, NotOffered, "trace"))
  <2>1. RestShown(m, {} \cup {"trace"}, OfferTo(m, NotOffered, "trace"))
    BY <1>1, RestStep DEF Handlers
  <2> QED
    BY <2>1
<1>3. RestShown(m, {"trace", "rocker"}, OfferTo(m, OfferTo(m, NotOffered, "trace"), "rocker"))
  <2>1. RestShown(m, {"trace"} \cup {"rocker"}, OfferTo(m, OfferTo(m, NotOffered, "trace"), "rocker"))
    BY <1>2, RestStep DEF Handlers
  <2>2. {"trace"} \cup {"rocker"} = {"trace", "rocker"}
    OBVIOUS
  <2> QED
    BY <2>1, <2>2
<1>4. RestShown(m, {"trace", "rocker"} \cup {"wheel"}, Offer(m))
  BY <1>3, RestStep, OfferIs DEF Handlers
<1>5. {"trace", "rocker"} \cup {"wheel"} = Handlers
  BY DEF Handlers
<1> QED
  BY <1>4, <1>5

\* Whatever was going on, the handlers of S have been shown m.
Up(m) == ~m.l /\ ~m.r /\ m.kind \notin {"ldown", "rdown"}
EndsWith(q, i) == q # << >> /\ q[Len(q)] = i
Known(f, n) == \A g \in Handlers : f[g].held \in Seq(1..n)
Offered(n, m, S, acc) ==
  /\ acc \in Outcome /\ Proper(acc.hs) /\ SameEnabled(hs, acc.hs)
  /\ Known(acc.hs, n) /\ acc.ff \in Seq(1..n) /\ acc.back \in Seq(1..n)
  /\ ~acc.stop => ~Going(acc.hs)
  /\ acc.back = << >> \/ EndsWith(acc.back, m.no)
  /\ Up(m) => ~acc.stop /\ \A g \in S : acc.hs[g].state = "none"

LEMMA AppendEnds ==
  ASSUME NEW q \in Seq(Nat), NEW n \in Nat
  PROVE  EndsWith(Append(q, n), n) /\ Append(q, n) \in Seq(Nat)
BY DEF EndsWith

LEMMA UpStartsNothing ==
  ASSUME NEW m, Up(m), NEW h \in Handlers, NEW s
  PROVE  ~Starts(h, m) /\ ~Triggers(h, s, m) /\ ~Near(s, m)
BY DEF Up, Handlers, Starts, Triggers, Near, Drags, Down

LEMMA OfferedStep ==
  ASSUME NEW n \in Nat, NEW m \in Message, m.no \in 1..n, NEW S \in SUBSET Handlers, NEW h \in Handlers \ S,
         NEW acc, Offered(n, m, S, acc), NEW a, a = OfferTo(m, acc, h)
  PROVE  Offered(n, m, S \cup {h}, a)
<1>1. CASE acc.stop
  <2>1. a = acc
    BY <1>1, OfferToIs DEF Offered
  <2>2. ~Up(m)
    BY <1>1 DEF Offered
  <2> QED
    BY <1>1, <2>1, <2>2 DEF Offered
<1>2. CASE ~acc.stop
  <2> DEFINE s == acc.hs[h]
  <2>1. acc \in Outcome /\ ~acc.stop /\ s \in HandlerState /\ s.held \in Seq(Nat) /\ m.no \in Nat
    BY <1>2 DEF Offered, Outcome, HandlerState, Message
  <2>2. s.state # "triggered" /\ (~s.enabled => s.state = "none")
    BY <1>2 DEF Offered, Going, Proper
  <2>3. EndsWith(Append(s.held, m.no), m.no)
    BY <2>1, AppendEnds
  <2>15. Append(s.held, m.no) \in Seq(1..n) /\ << >> \in Seq(1..n)
    <3>1. s.held \in Seq(1..n)
      BY DEF Offered, Known
    <3> QED
      BY <3>1
  <2>4. SUFFICES /\ a \in Outcome /\ \A g \in Handlers : a.hs[g].enabled = acc.hs[g].enabled
                 /\ \A g \in Handlers : a.hs[g].enabled \/ a.hs[g].state = "none"
                 /\ ~a.stop => \A g \in Handlers : a.hs[g].state # "triggered"
                 /\ a.back = << >> \/ EndsWith(a.back, m.no)
                 /\ \A g \in Handlers : a.hs[g].held \in Seq(1..n)
                 /\ a.ff \in Seq(1..n) /\ a.back \in Seq(1..n)
                 /\ Up(m) => ~a.stop /\ \A g \in S \cup {h} : a.hs[g].state = "none"
    BY DEF Offered, Proper, Outcome, Going, Known, SameEnabled
  <2>6. s.enabled \in BOOLEAN /\ s.state \in {"none", "initiated"}
    BY <2>1, <2>2 DEF HandlerState
  <2>8. /\ \A g \in Handlers : acc.hs[g].enabled \/ acc.hs[g].state = "none"
        /\ \A g \in Handlers : acc.hs[g].state # "triggered"
        /\ acc.back = << >> \/ EndsWith(acc.back, m.no)
        /\ Up(m) => \A g \in S : acc.hs[g].state = "none"
        /\ \A g \in Handlers : acc.hs[g].held \in Seq(1..n)
        /\ acc.ff \in Seq(1..n) /\ acc.back \in Seq(1..n)
    BY <1>2 DEF Offered, Proper, Going, SameEnabled, Known
  <2>9. CASE s.state = "none" /\ ~(s.enabled /\ Starts(h, m))
    <3>1. /\ a \in Outcome /\ \A g \in Handlers : a.hs[g].enabled = acc.hs[g].enabled
          /\ ~a.stop /\ a.ff = acc.ff /\ a.back = acc.back /\ \A g \in Handlers : a.hs[g] = acc.hs[g]
      BY <2>1, <2>2, <2>9, Passed
    <3> QED
      BY <2>8, <2>9, <3>1
  <2>10. CASE s.state = "none" /\ s.enabled /\ Starts(h, m)
    <3>1. /\ a \in Outcome /\ \A g \in Handlers : a.hs[g].enabled = acc.hs[g].enabled
          /\ ~a.stop /\ a.ff = acc.ff /\ a.back = acc.back /\ \A g \in Handlers \ {h} : a.hs[g] = acc.hs[g]
          /\ a.hs[h].state = "initiated" /\ a.hs[h].held = Append(s.held, m.no)
      BY <2>1, <2>2, <2>10, Began, SMTT(120)
    <3>2. ~Up(m)
      BY <2>10, UpStartsNothing
    <3> QED
      BY <2>8, <2>10, <2>15, <3>1, <3>2, ZenonT(30)
  <2>11. CASE s.state = "initiated" /\ Triggers(h, s, m)
    <3>1. /\ a \in Outcome /\ \A g \in Handlers : a.hs[g].enabled = acc.hs[g].enabled
          /\ a.stop /\ a.ff = Append(s.held, m.no) /\ a.back = acc.back
          /\ \A g \in Handlers \ {h} : a.hs[g] = acc.hs[g]
          /\ a.hs[h].held = << >>
      BY <2>1, <2>2, <2>11, Fired, SMTT(120)
    <3>2. ~Up(m) /\ s.enabled
      BY <2>2, <2>11, UpStartsNothing
    <3> QED
      BY <2>8, <2>11, <2>15, <3>1, <3>2, ZenonT(30)
  <2>12. CASE s.state = "initiated" /\ ~Triggers(h, s, m) /\ Near(s, m)
    <3>1. /\ a \in Outcome /\ \A g \in Handlers : a.hs[g].enabled = acc.hs[g].enabled
          /\ ~a.stop /\ a.ff = acc.ff /\ a.back = acc.back /\ \A g \in Handlers \ {h} : a.hs[g] = acc.hs[g]
          /\ a.hs[h].state = "initiated" /\ a.hs[h].held = Append(s.held, m.no)
      BY <2>1, <2>2, <2>12, KeptOn, SMTT(120)
    <3>2. ~Up(m) /\ s.enabled
      BY <2>2, <2>12, UpStartsNothing
    <3> QED
      BY <2>8, <2>12, <2>15, <3>1, <3>2, ZenonT(30)
  <2>13. CASE s.state = "initiated" /\ ~Triggers(h, s, m) /\ ~Near(s, m)
              /\ \A g \in Handlers \ {h} : acc.hs[g].state = "none"
    <3>1. /\ a \in Outcome /\ \A g \in Handlers : a.hs[g].enabled = acc.hs[g].enabled
          /\ ~a.stop /\ a.ff = acc.ff
          /\ (s.left => a.back = << >>) /\ (~s.left => a.back = Append(s.held, m.no))
          /\ \A g \in Handlers : a.hs[g].state = "none" /\ a.hs[g].held = << >>
      BY <2>1, <2>2, <2>13, LastGaveUp, SMTT(120)
    <3> QED
      BY <2>1, <2>3, <2>8, <2>15, <3>1 DEF HandlerState
  <2>14. CASE s.state = "initiated" /\ ~Triggers(h, s, m) /\ ~Near(s, m)
              /\ \E g \in Handlers \ {h} : acc.hs[g].state # "none"
    <3>1. /\ a \in Outcome /\ \A g \in Handlers : a.hs[g].enabled = acc.hs[g].enabled
          /\ ~a.stop /\ a.ff = acc.ff /\ a.back = acc.back
      BY <2>1, <2>2, <2>14, GaveUp, SMTT(120)
    <3>2. /\ \A g \in Handlers \ {h} : a.hs[g] = acc.hs[g]
          /\ a.hs[h].state = "none" /\ a.hs[h].held = Append(s.held, m.no)
      BY <2>1, <2>2, <2>14, GaveUp, SMTT(120)
    <3> QED
      BY <2>8, <2>15, <3>1, <3>2
  <2> QED
    BY <2>6, <2>9, <2>10, <2>11, <2>12, <2>13, <2>14
<1> QED
  BY <1>1, <1>2 DEF Offered, Outcome

LEMMA OfferedAll ==
  ASSUME NEW n \in Nat, NEW m \in Message, m.no \in 1..n, Proper(hs), Known(hs, n), ~Going(hs)
  PROVE  Offered(n, m, Handlers, Offer(m))
<1>1. Offered(n, m, {}, NotOffered)
  <2>1. << >> \in Seq(1..n)
    OBVIOUS
  <2> QED
    BY <2>1, OfferedNothing DEF Offered, SameEnabled
<1>2. Offered(n, m, {"trace"}, OfferTo(m, NotOffered, "trace"))
  <2>1. Offered(n, m, {} \cup {"trace"}, OfferTo(m, NotOffered, "trace"))
    BY <1>1, OfferedStep DEF Handlers
  <2> QED
    BY <2>1
<1>3. Offered(n, m, {"trace", "rocker"}, OfferTo(m, OfferTo(m, NotOffered, "trace"), "rocker"))
  <2>1. Offered(n, m, {"trace"} \cup {"rocker"}, OfferTo(m, OfferTo(m, NotOffered, "trace"), "rocker"))
    BY <1>2, OfferedStep DEF Handlers
  <2>2. {"trace"} \cup {"rocker"} = {"trace", "rocker"}
    OBVIOUS
  <2> QED
    BY <2>1, <2>2
<1>4. Offered(n, m, {"trace", "rocker"} \cup {"wheel"}, Offer(m))
  BY <1>3, OfferedStep, OfferIs DEF Handlers
<1>5. {"trace", "rocker"} \cup {"wheel"} = Handlers
  BY DEF Handlers
<1> QED
  BY <1>4, <1>5
-----------------------------------------------------------------------------
HookType ==
  /\ Proper(hs) /\ Known(hs, Len(input))
  /\ buttons \in [l : BOOLEAN, r : BOOLEAN, at : Places]
  /\ input \in Seq(Message)
  /\ \A i \in DOMAIN input : /\ input[i].no = i
                             /\ input[i].kind = "ldown" => input[i].l
                             /\ input[i].kind = "rdown" => input[i].r
  /\ posted \in Seq(1..Len(input)) /\ sending \in Seq(1..Len(input))
  /\ ie \in Seq(1..Len(input)) /\ ff \in Seq(1..Len(input))
  /\ Len(posted) <= 1 /\ (sending # << >> => posted = << >>)
  /\ missed \in Nat /\ toggles \in Nat /\ nested \in BOOLEAN /\ odd \in BOOLEAN

\* What there is to say of the first and the last element of a sequence given back.
LEMMA FirstAndRest ==
  ASSUME NEW n \in Nat, NEW q \in Seq(1..n), q # << >>
  PROVE  /\ Head(q) \in 1..n /\ Tail(q) \in Seq(1..n)
         /\ \A i : EndsWith(q, i) => Tail(q) = << >> \/ EndsWith(Tail(q), i)
<1>1. Head(q) = q[1] /\ Head(q) \in 1..n /\ Tail(q) \in Seq(1..n) /\ Len(Tail(q)) = Len(q) - 1
  OBVIOUS
<1>2. \A k \in 1..Len(Tail(q)) : Tail(q)[k] = q[k + 1]
  OBVIOUS
<1>3. ASSUME NEW i, EndsWith(q, i), Tail(q) # << >> PROVE EndsWith(Tail(q), i)
  <2>1. Len(Tail(q)) \in 1..Len(Tail(q))
    BY <1>1, <1>3
  <2> QED
    BY <1>1, <1>2, <1>3, <2>1 DEF EndsWith
<1> QED
  BY <1>1, <1>3

\* A handler that has triggered goes on, or the message ends the gesture for all.
LEMMA WhileGoing ==
  ASSUME NEW m \in Message, Proper(hs), Going(hs), Hook(m)
  PROVE  /\ ff' = Append(ff, m.no) /\ sending' = sending /\ ie' = ie
         /\ \/ hs' = hs /\ ~Up(m)
            \/ hs' = [g \in Handlers |-> Reset(hs[g])]
<1> DEFINE h == CHOOSE g \in Handlers : hs[g].state = "triggered"
           r == HandleMessage(h, hs[h], m)
<1>1. h \in Handlers /\ hs[h].state = "triggered"
  BY DEF Going
<1>2. /\ hs' = IF r[2] = "GestureEnd" THEN [g \in Handlers |-> Reset(hs[g])]
                                      ELSE [hs EXCEPT ![h] = r[1]]
      /\ ff' = Append(ff, m.no) /\ sending' = sending /\ ie' = ie
  BY DEF Hook, Going
<1> HIDE DEF h
<1>3. hs[h] \in HandlerState /\ hs[h].enabled
  BY <1>1 DEF Proper
<1>4. CASE Continues(h, hs[h], m)
  <2>1. r[2] = "Swallowed" /\ r[1] = hs[h]
    BY <1>1, <1>3, <1>4, HandleMessageIs
  <2>2. hs' = [hs EXCEPT ![h] = hs[h]]
    BY <1>2, <2>1
  <2>3. hs' = hs
    BY <1>1, <2>2 DEF Proper
  <2>4. ~Up(m)
    <3>1. Down(hs[h], m)
      BY <1>4 DEF Continues
    <3> QED
      BY <3>1 DEF Down, Up
  <2> QED
    BY <1>2, <2>3, <2>4
<1>5. CASE ~Continues(h, hs[h], m)
  <2>1. r[2] = "GestureEnd"
    BY <1>1, <1>3, <1>5, HandleMessageIs
  <2> QED
    BY <1>2, <2>1
<1> QED
  BY <1>4, <1>5

LEMMA ResetAllIs ==
  ASSUME Proper(hs), NEW f, f = [g \in Handlers |-> Reset(hs[g])]
  PROVE  Proper(f) /\ SameEnabled(hs, f) /\ Resting(f) /\ \A n : Known(f, n)
<1>1. f \in [Handlers -> HandlerState]
  BY ResetIs DEF Proper
<1>2. \A g \in Handlers : f[g].enabled = hs[g].enabled /\ f[g].state = "none" /\ f[g].held = << >>
  BY ResetIs DEF Proper
<1>3. \A n : << >> \in Seq(1..n)
  OBVIOUS
<1> QED
  BY <1>1, <1>2, <1>3 DEF Proper, SameEnabled, Resting, Known

\* What a message through the hook leaves, whatever was going on.
LEMMA HookGives ==
  ASSUME NEW n \in Nat, NEW m \in Message, m.no \in 1..n, Proper(hs), Known(hs, n),
         sending = << >>, ie \in Seq(1..n), ff \in Seq(1..n), Hook(m)
  PROVE  /\ Proper(hs') /\ Known(hs', n) /\ SameEnabled(hs, hs')
         /\ ie' \in Seq(1..n) /\ ff' \in Seq(1..n) /\ sending' \in Seq(1..n)
         /\ sending' = << >> \/ EndsWith(sending', m.no)
         /\ Up(m) => Idle'
<1>1. CASE Going(hs)
  <2>1. ff' = Append(ff, m.no) /\ sending' = sending /\ ie' = ie
    BY <1>1, WhileGoing
  <2>2. ff' \in Seq(1..n)
    BY <2>1
  <2>3. sending' \in Seq(1..n)
    BY <2>1
  <2>4. CASE hs' = hs /\ ~Up(m)
    BY <2>1, <2>2, <2>3, <2>4 DEF SameEnabled
  <2>5. CASE hs' = [g \in Handlers |-> Reset(hs[g])]
    <3>1. Proper(hs') /\ SameEnabled(hs, hs') /\ Resting(hs') /\ Known(hs', n)
      BY <2>5, ResetAllIs
    <3> QED
      BY <2>1, <2>2, <2>3, <3>1 DEF Resting, Idle
  <2> QED
    BY <1>1, <2>4, <2>5, WhileGoing
<1>2. CASE ~Going(hs)
  <2> DEFINE a == Offer(m)
             zoom == ~a.swallow /\ m.kind = "wheel" /\ m.ctrl
  <2>1. /\ hs' = a.hs
        /\ ff' = ff \o a.ff \o IF zoom THEN <<m.no>> ELSE << >>
        /\ ie' = ie \o IF a.back # << >> THEN <<Head(a.back)>>
                       ELSE IF a.swallow \/ zoom THEN << >> ELSE <<m.no>>
        /\ sending' = IF a.back = << >> THEN << >> ELSE Tail(a.back)
    BY <1>2 DEF Hook, Going
  <2>2. Offered(n, m, Handlers, a)
    BY <1>2, OfferedAll
  <2> HIDE DEF a
  <2>3. <<m.no>> \in Seq(1..n) /\ << >> \in Seq(1..n)
    OBVIOUS
  <2>4. /\ a.ff \in Seq(1..n) /\ a.back \in Seq(1..n) /\ (a.back = << >> \/ EndsWith(a.back, m.no))
        /\ Proper(a.hs) /\ Known(a.hs, n) /\ SameEnabled(hs, a.hs)
        /\ Up(m) => \A g \in Handlers : a.hs[g].state = "none"
    BY <2>2 DEF Offered
  <2>5. ff' \in Seq(1..n)
    <3>1. ff \o a.ff \in Seq(1..n)
      BY <2>4
    <3>2. CASE zoom
      BY <2>1, <2>3, <3>1, <3>2
    <3>3. CASE ~zoom
      <4>1. ff' = ff \o a.ff \o << >>
        BY <2>1, <3>3
      <4> QED
        BY <2>3, <3>1, <4>1
    <3> QED
      BY <3>2, <3>3
  <2>6. ie' \in Seq(1..n)
    <3>1. CASE a.back # << >>
      <4>1. <<Head(a.back)>> \in Seq(1..n)
        BY <2>4, <3>1, FirstAndRest
      <4> QED
        BY <2>1, <3>1, <4>1
    <3>2. CASE a.back = << >>
      <4>1. ie' = ie \o << >> \/ ie' = ie \o <<m.no>>
        BY <2>1, <3>2
      <4>2. ie \o << >> \in Seq(1..n) /\ ie \o <<m.no>> \in Seq(1..n)
        BY <2>3
      <4> QED
        BY <4>1, <4>2, Zenon
    <3> QED
      BY <3>1, <3>2
  <2>7. sending' \in Seq(1..n) /\ (sending' = << >> \/ EndsWith(sending', m.no))
    BY <2>1, <2>3, <2>4, FirstAndRest
  <2> QED
    BY <2>1, <2>4, <2>5, <2>6, <2>7 DEF Idle
<1> QED
  BY <1>1, <1>2

\* Once the buttons are up, whatever has reached the hook has ended every gesture.
GoneInv ==
  /\ HookType
  /\ missed = 0 /\ input # << >> =>
       input[Len(input)].l = buttons.l /\ input[Len(input)].r = buttons.r
  /\ ~nested => /\ posted = << >> \/ posted = <<Len(input)>>
                /\ sending = << >> \/ EndsWith(sending, Len(input))
  /\ missed = 0 /\ ~nested => Idle \/ buttons.l \/ buttons.r

LEMMA GoneInit == HookInit => GoneInv
<1> SUFFICES ASSUME HookInit PROVE GoneInv
  OBVIOUS
<1>1. PICK on \in SUBSET Handlers : hs = [h \in Handlers |-> Fresh(h \in on)]
  BY DEF HookInit
<1>2. << >> \in Seq(Nat) /\ << >> \in Seq(1..Len(input)) /\ << >> \in Seq(Message) /\ Len(<< >>) = 0
  OBVIOUS
<1>3. \A h \in Handlers : Fresh(h \in on) \in HandlerState
  BY <1>2 DEF Fresh, HandlerState, Places
<1>4. hs \in [Handlers -> HandlerState]
  BY <1>1, <1>3
<1>5. \A h \in Handlers : hs[h].state = "none" /\ hs[h].held = << >>
  BY <1>1 DEF Fresh
<1>6. Proper(hs) /\ Known(hs, Len(input)) /\ Idle
  BY <1>2, <1>4, <1>5 DEF Proper, Known, Idle
<1>7. /\ input = << >> /\ posted = << >> /\ sending = << >> /\ ie = << >> /\ ff = << >>
      /\ missed = 0 /\ toggles = 0 /\ nested = FALSE /\ odd = FALSE
      /\ buttons \in [l : BOOLEAN, r : BOOLEAN, at : Places]
  BY DEF HookInit, Places
<1>8. DOMAIN input = {}
  BY <1>7
<1>9. HookType
  <2>1. posted \in Seq(1..Len(input)) /\ Len(posted) <= 1 /\ input \in Seq(Message)
    BY <1>2, <1>7
  <2>2. sending \in Seq(1..Len(input)) /\ ie \in Seq(1..Len(input)) /\ ff \in Seq(1..Len(input))
    BY <1>2, <1>7
  <2>3. missed \in Nat /\ toggles \in Nat /\ nested \in BOOLEAN /\ odd \in BOOLEAN
    BY <1>7
  <2>4. sending = << >>
    BY <1>7
  <2> QED
    BY <1>6, <1>7, <1>8, <2>1, <2>2, <2>3, <2>4, Zenon DEF HookType
<1> QED
  BY <1>6, <1>7, <1>9 DEF GoneInv

\* The message that a new input is.
LEMMA NewMessage ==
  ASSUME HookType, NEW type \in Kinds, NEW ctrl \in BOOLEAN, Pressed(type), NEW m,
         m = [no |-> Len(input) + 1, kind |-> type, ctrl |-> ctrl,
              l |-> buttons'.l, r |-> buttons'.r, at |-> buttons'.at]
  PROVE  /\ buttons' \in [l : BOOLEAN, r : BOOLEAN, at : Places]
         /\ m \in Message /\ m.no = Len(input) + 1 /\ m.kind = type
         /\ m.l = buttons'.l /\ m.r = buttons'.r
         /\ (type = "ldown" => m.l) /\ (type = "rdown" => m.r)
<1>1. /\ buttons \in [l : BOOLEAN, r : BOOLEAN, at : Places] /\ Len(input) \in Nat
  BY DEF HookType
<1>2. /\ buttons' \in [l : BOOLEAN, r : BOOLEAN, at : Places]
      /\ (type = "ldown" => buttons'.l) /\ (type = "rdown" => buttons'.r)
  BY <1>1 DEF Pressed, Kinds
<1> QED
  BY <1>1, <1>2 DEF Message

LEMMA InputGrows ==
  ASSUME HookType, NEW m \in Message, m.no = Len(input) + 1, input' = Append(input, m)
  PROVE  /\ Len(input') = m.no /\ m.no \in 1..Len(input') /\ Len(input') \in Nat
         /\ input' \in Seq(Message) /\ input'[m.no] = m /\ input' # << >>
         /\ DOMAIN input' = DOMAIN input \cup {m.no} /\ m.no \notin DOMAIN input
         /\ \A i \in DOMAIN input : input'[i] = input[i]
         /\ \A q : q \in Seq(1..Len(input)) => q \in Seq(1..Len(input'))
<1>1. input \in Seq(Message) /\ Len(input) \in Nat
  BY DEF HookType
<1>2. /\ Len(input') = m.no /\ input' \in Seq(Message) /\ input'[m.no] = m
      /\ \A i \in DOMAIN input : input'[i] = input[i]
      /\ DOMAIN input' = DOMAIN input \cup {m.no} /\ m.no \notin DOMAIN input
  BY <1>1
<1>3. \A q : q \in Seq(1..Len(input)) => q \in Seq(1..Len(input'))
  <2>1. ASSUME NEW q \in Seq(1..Len(input)) PROVE q \in Seq(1..Len(input'))
    BY <1>1, <1>2
  <2> QED
    BY <2>1
<1> QED
  BY <1>1, <1>2, <1>3

LEMMA GoneMouse ==
  ASSUME GoneInv, NEW type \in Kinds, NEW ctrl \in BOOLEAN, Mouse(type, ctrl)
  PROVE  GoneInv'
<1> DEFINE m == [no |-> Len(input) + 1, kind |-> type, ctrl |-> ctrl,
                 l |-> buttons'.l, r |-> buttons'.r, at |-> buttons'.at]
           n == Len(input')
<1>1. /\ posted = << >> /\ Pressed(type) /\ input' = Append(input, m)
      /\ IF Quiet THEN Hook(m) /\ UNCHANGED nested
         ELSE ie' = Append(ie, m.no) /\ nested' = TRUE /\ UNCHANGED <<hs, sending, ff>>
      /\ UNCHANGED <<posted, missed, toggles, odd>>
  BY DEF Mouse
<1>2. /\ buttons' \in [l : BOOLEAN, r : BOOLEAN, at : Places]
      /\ m \in Message /\ m.no = Len(input) + 1 /\ m.kind = type
      /\ m.l = buttons'.l /\ m.r = buttons'.r
      /\ (type = "ldown" => m.l) /\ (type = "rdown" => m.r)
  BY <1>1, NewMessage DEF GoneInv
<1> HIDE DEF m
<1>3. /\ n = m.no /\ m.no \in 1..n /\ n \in Nat
      /\ input' \in Seq(Message) /\ input'[m.no] = m /\ input' # << >>
      /\ DOMAIN input' = DOMAIN input \cup {m.no} /\ m.no \notin DOMAIN input
      /\ \A i \in DOMAIN input : input'[i] = input[i]
      /\ \A q : q \in Seq(1..Len(input)) => q \in Seq(1..n)
  BY <1>1, <1>2, InputGrows DEF GoneInv
<1>4. /\ Proper(hs) /\ Known(hs, n) /\ ie \in Seq(1..n) /\ ff \in Seq(1..n) /\ sending \in Seq(1..n)
      /\ posted' \in Seq(1..n) /\ Len(posted') <= 1
  BY <1>1, <1>3 DEF GoneInv, HookType, Known
<1>5. \A i \in DOMAIN input' : /\ input'[i].no = i
                               /\ input'[i].kind = "ldown" => input'[i].l
                               /\ input'[i].kind = "rdown" => input'[i].r
  BY <1>2, <1>3 DEF GoneInv, HookType
<1>6. CASE Quiet
  <2>1. /\ Proper(hs') /\ Known(hs', n)
        /\ ie' \in Seq(1..n) /\ ff' \in Seq(1..n) /\ sending' \in Seq(1..n)
        /\ sending' = << >> \/ EndsWith(sending', m.no)
        /\ Up(m) => Idle'
    BY <1>1, <1>2, <1>3, <1>4, <1>6, HookGives DEF Quiet
  <2>2. HookType'
    BY <1>1, <1>2, <1>3, <1>4, <1>5, <1>6, <2>1 DEF HookType, GoneInv
  <2>3. ~buttons'.l /\ ~buttons'.r => Up(m)
    BY <1>2 DEF Up
  <2> QED
    BY <1>1, <1>2, <1>3, <2>1, <2>2, <2>3 DEF GoneInv
<1>7. CASE ~Quiet
  <2>1. /\ ie' = Append(ie, m.no) /\ nested' = TRUE /\ UNCHANGED <<hs, sending, ff>>
    BY <1>1, <1>7
  <2>2. ie' \in Seq(1..n)
    BY <1>3, <1>4, <2>1
  <2>3. HookType'
    BY <1>1, <1>2, <1>3, <1>4, <1>5, <2>1, <2>2 DEF HookType, GoneInv
  <2> QED
    BY <1>1, <1>2, <1>3, <2>1, <2>3 DEF GoneInv
<1> QED
  BY <1>6, <1>7

LEMMA GoneDispatch ==
  ASSUME GoneInv, Dispatch
  PROVE  GoneInv'
<1> DEFINE i == Head(posted)
           m == input[i]
           n == Len(input)
<1>1. /\ sending = << >> /\ posted # << >> /\ posted' = << >> /\ Hook(m)
      /\ UNCHANGED <<buttons, input, missed, toggles, nested>>
      /\ odd' = (odd \/ Astray')
  BY DEF Dispatch, Quiet
<1>2. /\ n \in Nat /\ posted \in Seq(1..n) /\ input \in Seq(Message)
  BY DEF GoneInv, HookType
<1>3. i = posted[1] /\ i \in 1..n /\ m \in Message
  BY <1>1, <1>2
<1>4. m.no = i /\ (m.kind = "ldown" => m.l) /\ (m.kind = "rdown" => m.r)
  BY <1>2, <1>3 DEF GoneInv, HookType
<1>5. Proper(hs) /\ Known(hs, n) /\ ie \in Seq(1..n) /\ ff \in Seq(1..n)
  BY DEF GoneInv, HookType
<1> HIDE DEF m
<1>6. /\ Proper(hs') /\ Known(hs', n)
      /\ ie' \in Seq(1..n) /\ ff' \in Seq(1..n) /\ sending' \in Seq(1..n)
      /\ sending' = << >> \/ EndsWith(sending', m.no)
      /\ Up(m) => Idle'
  BY <1>1, <1>2, <1>3, <1>4, <1>5, HookGives
<1>7. odd' \in BOOLEAN
  BY <1>1
<1>8. posted' \in Seq(1..n) /\ Len(posted') <= 1
  BY <1>1
<1>9. HookType'
  BY <1>1, <1>6, <1>7, <1>8 DEF HookType, GoneInv
<1>10. ASSUME ~nested PROVE posted = <<n>> /\ m.no = n /\ input # << >>
  BY <1>1, <1>2, <1>3, <1>4, <1>10 DEF GoneInv
<1>11. ASSUME missed = 0, ~nested, ~buttons.l, ~buttons.r PROVE Up(m)
  <2>1. m = input[Len(input)]
    BY <1>3, <1>4, <1>10, <1>11 DEF m
  <2>2. m.l = buttons.l /\ m.r = buttons.r
    BY <1>10, <1>11, <2>1 DEF GoneInv
  <2> QED
    BY <1>4, <1>11, <2>2 DEF Up
<1> QED
  BY <1>1, <1>6, <1>9, <1>10, <1>11 DEF GoneInv

LEMMA GoneSend ==
  ASSUME GoneInv, SendOrPost
  PROVE  GoneInv'
<1> DEFINE n == Len(input)
<1>1. /\ sending # << >> /\ sending' = Tail(sending)
      /\ IF Len(sending) = 1 THEN posted' = sending /\ UNCHANGED ie
                             ELSE ie' = Append(ie, Head(sending)) /\ UNCHANGED posted
      /\ UNCHANGED <<hs, buttons, input, ff, missed, toggles, nested, odd>>
  BY DEF SendOrPost, Quiet
<1>2. /\ n \in Nat /\ sending \in Seq(1..n) /\ posted = << >> /\ ie \in Seq(1..n)
  BY <1>1 DEF GoneInv, HookType
<1>3. /\ Head(sending) \in 1..n /\ Tail(sending) \in Seq(1..n)
      /\ \A i : EndsWith(sending, i) => Tail(sending) = << >> \/ EndsWith(Tail(sending), i)
  BY <1>1, <1>2, FirstAndRest
<1>4. CASE Len(sending) = 1
  <2>1. posted' = sending /\ ie' = ie /\ sending' = << >> /\ sending = <<sending[1]>>
    <3>1. posted' = sending /\ ie' = ie
      BY <1>1, <1>4
    <3>2. Len(Tail(sending)) = 0 /\ Tail(sending) \in Seq(1..n)
      BY <1>1, <1>2, <1>4
    <3>3. sending' = << >>
      BY <1>1, <3>2
    <3>4. sending = <<sending[1]>>
      BY <1>2, <1>4
    <3> QED
      BY <3>1, <3>3, <3>4
  <2>2. ~nested => posted' = <<n>>
    BY <1>1, <1>4, <2>1 DEF GoneInv, EndsWith
  <2>4. posted' \in Seq(1..n) /\ Len(posted') <= 1 /\ sending' \in Seq(1..n)
    <3>1. << >> \in Seq(1..n) /\ Len(sending) <= 1
      BY <1>4
    <3> QED
      BY <1>2, <2>1, <3>1, Zenon
  <2>3. HookType'
    BY <1>1, <2>1, <2>4 DEF HookType, GoneInv, Known
  <2> QED
    BY <1>1, <2>1, <2>2, <2>3 DEF GoneInv, Idle
<1>5. CASE Len(sending) # 1
  <2>1. ie' = Append(ie, Head(sending)) /\ posted' = posted
    BY <1>1, <1>5
  <2>2. ie' \in Seq(1..n)
    BY <1>2, <1>3, <2>1
  <2>3. HookType'
    BY <1>1, <1>2, <1>3, <2>1, <2>2 DEF HookType, GoneInv, Known
  <2> QED
    BY <1>1, <1>3, <2>1, <2>3 DEF GoneInv, Idle
<1> QED
  BY <1>4, <1>5

LEMMA GoneUpElsewhere ==
  ASSUME GoneInv, UpElsewhere
  PROVE  GoneInv'
<1>1. /\ missed' = missed + 1 /\ odd' = (odd \/ Astray')
      /\ UNCHANGED <<hs, input, posted, sending, ie, ff, toggles, nested>>
      /\ \/ buttons' = [buttons EXCEPT !.l = FALSE]
         \/ buttons' = [buttons EXCEPT !.r = FALSE]
  BY DEF UpElsewhere
<1>2. missed' \in Nat /\ missed' # 0 /\ buttons' \in [l : BOOLEAN, r : BOOLEAN, at : Places]
      /\ odd' \in BOOLEAN
  <2>1. missed \in Nat /\ buttons \in [l : BOOLEAN, r : BOOLEAN, at : Places]
    BY DEF GoneInv, HookType
  <2>2. buttons' \in [l : BOOLEAN, r : BOOLEAN, at : Places]
    BY <1>1, <2>1
  <2>3. odd' \in BOOLEAN
    BY <1>1
  <2> QED
    BY <1>1, <2>1, <2>2, <2>3
<1> QED
  BY <1>1, <1>2 DEF GoneInv, HookType, Known

LEMMA GoneEnabled ==
  ASSUME GoneInv, SetEnabledGestures
  PROVE  GoneInv'
<1>1. PICK on \in SUBSET Handlers :
        hs' = [h \in Handlers |->
                 IF hs[h].enabled /\ h \notin on THEN [Reset(hs[h]) EXCEPT !.enabled = FALSE]
                                                 ELSE [hs[h] EXCEPT !.enabled = (h \in on)]]
  BY DEF SetEnabledGestures
<1>2. /\ toggles' = toggles + 1 /\ odd' \in BOOLEAN
      /\ UNCHANGED <<buttons, input, posted, sending, ie, ff, missed, nested>>
  BY DEF SetEnabledGestures
<1>3. ASSUME NEW h \in Handlers
      PROVE  /\ hs'[h] \in HandlerState /\ (hs'[h].enabled \/ hs'[h].state = "none")
             /\ hs'[h].held \in Seq(1..Len(input))
             /\ hs'[h].state = "none" \/ hs'[h].state = hs[h].state
  <2>1. hs[h] \in HandlerState /\ (hs[h].enabled \/ hs[h].state = "none")
        /\ hs[h].held \in Seq(1..Len(input)) /\ hs[h].enabled \in BOOLEAN
    BY DEF GoneInv, HookType, Proper, Known, HandlerState
  <2>2. CASE hs[h].enabled /\ h \notin on
    <3>1. hs'[h] = [Reset(hs[h]) EXCEPT !.enabled = FALSE]
      BY <1>1, <2>2
    <3>2. /\ Reset(hs[h]) \in HandlerState /\ Reset(hs[h]).state = "none"
          /\ Reset(hs[h]).held = << >>
      BY <2>1, ResetIs
    <3>3. hs'[h] \in HandlerState /\ hs'[h].state = "none" /\ hs'[h].held = << >>
      BY <3>1, <3>2 DEF HandlerState
    <3> QED
      BY <3>3
  <2>3. CASE ~(hs[h].enabled /\ h \notin on)
    <3>1. hs'[h] = [hs[h] EXCEPT !.enabled = (h \in on)]
      BY <1>1, <2>3
    <3>2. CASE h \in on
      <4>1. hs'[h] = [hs[h] EXCEPT !.enabled = TRUE]
        BY <3>1, <3>2
      <4> QED
        BY <2>1, <4>1 DEF HandlerState
    <3>3. CASE h \notin on
      <4>1. hs[h].state = "none"
        BY <2>1, <2>3, <3>3
      <4>2. (h \in on) = FALSE
        BY <3>3
      <4>3. hs'[h] = [hs[h] EXCEPT !.enabled = FALSE]
        BY <3>1, <4>2
      <4> QED
        BY <2>1, <4>1, <4>3 DEF HandlerState
    <3> QED
      BY <3>2, <3>3
  <2> QED
    BY <2>2, <2>3
<1>4. hs' \in [Handlers -> HandlerState]
  <2>1. hs' = [h \in Handlers |-> hs'[h]]
    BY <1>1
  <2> QED
    BY <1>3, <2>1
<1>5. Proper(hs') /\ Known(hs', Len(input')) /\ (Idle => Idle')
  BY <1>2, <1>3, <1>4 DEF Proper, Known, Idle
<1>6. HookType'
  BY <1>2, <1>5 DEF GoneInv, HookType
<1> QED
  BY <1>2, <1>5, <1>6 DEF GoneInv

LEMMA GoneNext == GoneInv /\ [HookNext]_hookVars => GoneInv'
<1> SUFFICES ASSUME GoneInv, [HookNext]_hookVars PROVE GoneInv'
  OBVIOUS
<1>1. ASSUME NEW type \in Kinds, NEW ctrl \in BOOLEAN, Mouse(type, ctrl) PROVE GoneInv'
  BY <1>1, GoneMouse
<1>2. CASE Dispatch
  BY <1>2, GoneDispatch
<1>3. CASE SendOrPost
  BY <1>3, GoneSend
<1>4. CASE UpElsewhere
  BY <1>4, GoneUpElsewhere
<1>5. CASE SetEnabledGestures
  BY <1>5, GoneEnabled
<1>6. CASE UNCHANGED hookVars
  BY <1>6 DEF hookVars, GoneInv, HookType, Idle, Known
<1> QED
  BY <1>1, <1>2, <1>3, <1>4, <1>5, <1>6 DEF HookNext

\* LetsGo: with no button down, nothing is held and no gesture goes on.
THEOREM GesturesEnd == HookSpec => []LetsGo
<1>1. GoneInv => LetsGo
  BY DEF GoneInv, LetsGo
<1> QED
  BY <1>1, GoneInit, GoneNext, PTL DEF HookSpec
-----------------------------------------------------------------------------
\* The handlers of S have been shown m after the left button had begun a gesture.
LeftShown(m, K, S, acc) ==
  /\ acc \in Outcome /\ acc.back = << >> /\ SameEnabled(hs, acc.hs)
  /\ "rocker" \notin S => acc.hs["rocker"] = hs["rocker"]
  /\ IF Triggers("rocker", hs["rocker"], m)
     THEN /\ \A g \in Handlers \ S : acc.stop \/ acc.hs[g] = hs[g]
          /\ \A g \in Handlers \ {"rocker"} : acc.hs[g].held \in {<< >>, <<m.no>>}
          /\ IF "rocker" \in S
             THEN /\ acc.stop /\ acc.swallow /\ acc.ff = Append(K, m.no)
                  /\ acc.hs["rocker"].state = "triggered" /\ acc.hs["rocker"].held = << >>
             ELSE ~acc.stop /\ acc.ff = << >>
     ELSE /\ ~acc.stop /\ ~acc.swallow /\ acc.ff = << >>
          /\ \A g \in Handlers \ {"rocker"} : acc.hs[g].state = "none" /\ acc.hs[g].held = << >>
          /\ "rocker" \in S =>
               IF Near(hs["rocker"], m)
               THEN /\ acc.hs["rocker"].state = "initiated" /\ acc.hs["rocker"].left
                    /\ acc.hs["rocker"].held = Append(K, m.no)
               ELSE acc.hs["rocker"].state = "none" /\ acc.hs["rocker"].held = << >>

LEMMA LeftStep ==
  ASSUME NEW m \in Message, Proper(hs), NEW K \in Seq(Nat), LeftBegun(hs, K),
         m.kind # "ldown", m.kind = "rdown" => m.l, NEW S \in SUBSET Handlers,
         NEW h \in Handlers \ S, NEW acc, LeftShown(m, K, S, acc), NEW a, a = OfferTo(m, acc, h)
  PROVE  LeftShown(m, K, S \cup {h}, a)
<1> DEFINE s     == acc.hs[h]
           s0    == hs["rocker"]
           fires == Triggers("rocker", s0, m)
           T     == S \cup {h}
<1>1. /\ acc \in Outcome /\ acc.back = << >> /\ SameEnabled(hs, acc.hs) /\ m.no \in Nat
      /\ acc.hs[h] \in HandlerState /\ "rocker" \in Handlers
      /\ s0 \in HandlerState /\ s0.state = "initiated" /\ s0.enabled /\ s0.left /\ s0.held = K
  BY DEF LeftShown, LeftBegun, Message, Proper, Outcome, Handlers
<1>2. fires <=> m.kind = "rdown"
  BY <1>1 DEF Triggers, Down
<1>3. Append(<< >>, m.no) = <<m.no>>
  BY <1>1
<1>4. CASE acc.stop
  <2>1. a = acc
    BY <1>4, OfferToIs DEF LeftShown
  <2>2. fires /\ "rocker" \in S
    BY <1>4 DEF LeftShown
  <2> QED
    BY <1>4, <2>1, <2>2 DEF LeftShown
<1>5. CASE ~acc.stop /\ h = "rocker"
  <2>1. s = s0 /\ "rocker" \notin S
    BY <1>5 DEF LeftShown
  <2>2. CASE fires
    <3>1. /\ a \in Outcome /\ \A g \in Handlers : a.hs[g].enabled = acc.hs[g].enabled
          /\ a.stop /\ a.ff = Append(s0.held, m.no) /\ a.back = acc.back /\ a.swallow
          /\ \A g \in Handlers \ {h} : a.hs[g] = acc.hs[g]
          /\ a.hs[h].state = "triggered" /\ a.hs[h].held = << >>
      BY <1>1, <1>5, <2>1, <2>2, Fired, SMTT(120)
    <3>2. \A g \in Handlers \ {"rocker"} : acc.hs[g].held \in {<< >>, <<m.no>>}
      BY <2>2 DEF LeftShown
    <3>3. SameEnabled(hs, a.hs)
      BY <1>1, <3>1 DEF SameEnabled
    <3> QED
      BY <1>1, <1>5, <2>2, <3>1, <3>2, <3>3 DEF LeftShown
  <2>3. CASE ~fires
    <3>1. \A g \in Handlers \ {"rocker"} : acc.hs[g].state = "none" /\ acc.hs[g].held = << >>
      BY <2>3 DEF LeftShown
    <3>2. acc.ff = << >> /\ ~acc.swallow
      BY <2>3 DEF LeftShown
    <3>3. CASE Near(s0, m)
      <4>3. s.state = "initiated" /\ s.enabled /\ ~Triggers(h, s, m) /\ Near(s, m)
        BY <1>1, <1>5, <2>1, <2>3, <3>3
      <4>4. /\ a \in Outcome /\ \A g \in Handlers : a.hs[g].enabled = acc.hs[g].enabled
            /\ ~a.stop /\ a.ff = acc.ff /\ a.back = acc.back
            /\ a.swallow <=> acc.swallow \/ ~s.left
            /\ \A g \in Handlers \ {h} : a.hs[g] = acc.hs[g]
            /\ a.hs[h].state = "initiated" /\ SameStart(s, a.hs[h])
            /\ a.hs[h].held = Append(s.held, m.no)
        BY <1>1, <1>5, <4>3, KeptOn, SMTT(120)
      <4>1. /\ a \in Outcome /\ \A g \in Handlers : a.hs[g].enabled = acc.hs[g].enabled
            /\ ~a.stop /\ a.ff = acc.ff /\ a.back = acc.back
            /\ a.swallow <=> acc.swallow \/ ~s0.left
            /\ \A g \in Handlers \ {h} : a.hs[g] = acc.hs[g]
            /\ a.hs[h].state = "initiated" /\ SameStart(s0, a.hs[h])
            /\ a.hs[h].held = Append(s0.held, m.no)
        BY <2>1, <4>4
      <4>2. SameEnabled(hs, a.hs) /\ a.hs[h].left /\ ~a.swallow
        BY <1>1, <3>2, <4>1 DEF SameEnabled, SameStart
      <4> QED
        BY <1>1, <1>5, <2>3, <3>1, <3>2, <3>3, <4>1, <4>2 DEF LeftShown
    <3>4. CASE ~Near(s0, m)
      <4>3. /\ s.state = "initiated" /\ s.enabled /\ ~Triggers(h, s, m) /\ ~Near(s, m) /\ s.left
            /\ \A g \in Handlers \ {h} : acc.hs[g].state = "none"
        BY <1>1, <1>5, <2>1, <2>3, <3>1, <3>4
      <4>1. /\ a \in Outcome /\ \A g \in Handlers : a.hs[g].enabled = acc.hs[g].enabled
            /\ ~a.stop /\ a.ff = acc.ff /\ a.back = << >>
            /\ a.swallow <=> acc.swallow
            /\ \A g \in Handlers : a.hs[g].state = "none" /\ a.hs[g].held = << >>
        BY <1>1, <1>5, <4>3, LastGaveUp, SMTT(120)
      <4>2. SameEnabled(hs, a.hs) /\ ~a.swallow /\ a.back = << >>
        BY <1>1, <3>2, <4>1 DEF SameEnabled
      <4> QED
        BY <1>1, <1>5, <2>3, <3>2, <3>4, <4>1, <4>2 DEF LeftShown
    <3> QED
      BY <3>3, <3>4
  <2> QED
    BY <2>2, <2>3
<1>6. CASE ~acc.stop /\ h # "rocker"
  <2>1. CASE fires
    <3>1. s = hs[h] /\ s.state = "none" /\ s.held = << >> /\ "rocker" \notin S
      BY <1>6, <2>1 DEF LeftShown, LeftBegun
    <3>2. \A g \in Handlers \ {"rocker"} : acc.hs[g].held \in {<< >>, <<m.no>>}
      BY <2>1 DEF LeftShown
    <3>3. acc.ff = << >> /\ (\A g \in Handlers \ S : acc.hs[g] = hs[g])
      BY <1>6, <2>1, <3>1 DEF LeftShown
    <3>4. CASE s.enabled /\ Starts(h, m)
      <4>1. /\ a \in Outcome /\ \A g \in Handlers : a.hs[g].enabled = acc.hs[g].enabled
            /\ ~a.stop /\ a.ff = acc.ff /\ a.back = acc.back
            /\ \A g \in Handlers \ {h} : a.hs[g] = acc.hs[g]
            /\ a.hs[h].held = Append(s.held, m.no)
        BY <1>1, <1>6, <3>1, <3>4, Began, SMTT(120)
      <4>2. SameEnabled(hs, a.hs) /\ a.hs[h].held = <<m.no>>
        BY <1>1, <1>3, <3>1, <4>1 DEF SameEnabled
      <4> QED
        BY <1>1, <1>6, <2>1, <3>1, <3>2, <3>3, <4>1, <4>2, ZenonT(30) DEF LeftShown
    <3>5. CASE ~(s.enabled /\ Starts(h, m))
      <4>1. /\ a \in Outcome /\ \A g \in Handlers : a.hs[g].enabled = acc.hs[g].enabled
            /\ ~a.stop /\ a.ff = acc.ff /\ a.back = acc.back
            /\ \A g \in Handlers : a.hs[g] = acc.hs[g]
        BY <1>1, <1>6, <3>1, <3>5, Passed, SMTT(120)
      <4>2. SameEnabled(hs, a.hs)
        BY <1>1, <4>1 DEF SameEnabled
      <4> QED
        BY <1>1, <1>6, <2>1, <3>1, <3>2, <3>3, <4>1, <4>2 DEF LeftShown
    <3> QED
      BY <3>4, <3>5
  <2>2. CASE ~fires
    <3>1. s.state = "none" /\ ~Starts(h, m)
      BY <1>2, <1>6, <2>2 DEF LeftShown, Starts
    <3>2. /\ a \in Outcome /\ \A g \in Handlers : a.hs[g].enabled = acc.hs[g].enabled
          /\ ~a.stop /\ a.ff = acc.ff /\ a.back = acc.back /\ (a.swallow <=> acc.swallow)
          /\ \A g \in Handlers : a.hs[g] = acc.hs[g]
      BY <1>1, <1>6, <3>1, Passed, SMTT(120)
    <3>3. SameEnabled(hs, a.hs)
      BY <1>1, <3>2 DEF SameEnabled
    <3> QED
      BY <1>1, <1>6, <2>2, <3>2, <3>3, SMTT(60) DEF LeftShown
  <2> QED
    BY <2>1, <2>2
<1> QED
  BY <1>1, <1>4, <1>5, <1>6 DEF Outcome

LEMMA LeftOffered ==
  ASSUME NEW m \in Message, Proper(hs), NEW K \in Seq(Nat), LeftBegun(hs, K),
         m.kind # "ldown", m.kind = "rdown" => m.l
  PROVE  LeftShown(m, K, Handlers, Offer(m))
<1>1. LeftShown(m, K, {}, NotOffered)
  <2>1. \A g \in Handlers \ {"rocker"} : hs[g].state = "none" /\ hs[g].held = << >>
    BY DEF LeftBegun
  <2> QED
    BY <2>1, OfferedNothing DEF LeftShown, SameEnabled
<1>2. LeftShown(m, K, {"trace"}, OfferTo(m, NotOffered, "trace"))
  <2>1. LeftShown(m, K, {} \cup {"trace"}, OfferTo(m, NotOffered, "trace"))
    BY <1>1, LeftStep DEF Handlers
  <2> QED
    BY <2>1
<1>3. LeftShown(m, K, {"trace", "rocker"}, OfferTo(m, OfferTo(m, NotOffered, "trace"), "rocker"))
  <2>1. LeftShown(m, K, {"trace"} \cup {"rocker"}, OfferTo(m, OfferTo(m, NotOffered, "trace"), "rocker"))
    BY <1>2, LeftStep DEF Handlers
  <2>2. {"trace"} \cup {"rocker"} = {"trace", "rocker"}
    OBVIOUS
  <2> QED
    BY <2>1, <2>2
<1>4. LeftShown(m, K, {"trace", "rocker"} \cup {"wheel"}, Offer(m))
  BY <1>3, LeftStep, OfferIs DEF Handlers
<1>5. {"trace", "rocker"} \cup {"wheel"} = Handlers
  BY DEF Handlers
<1> QED
  BY <1>4, <1>5

\* The same after the right button has begun one.  The handlers enabled have seen the
\* same messages K: they give up together, unless one triggers before the last has.
NearTo(p, m) == m.kind = "move" /\ m.r /\ m.at = p

RightShown(m, K, p, S, acc) ==
  /\ acc \in Outcome /\ SameEnabled(hs, acc.hs)
  /\ IF NearTo(p, m)
     THEN /\ ~acc.stop /\ acc.ff = << >> /\ acc.back = << >>
          /\ \A g \in Handlers : g \notin S \/ ~hs[g].enabled => acc.hs[g] = hs[g]
          /\ \A g \in S : hs[g].enabled =>
               /\ acc.hs[g].state = "initiated" /\ ~acc.hs[g].left /\ acc.hs[g].start = p
               /\ acc.hs[g].held = Append(K, m.no) /\ acc.swallow
     ELSE IF acc.stop
     THEN /\ acc.ff = Append(K, m.no) /\ acc.back = << >> /\ acc.swallow /\ Going(acc.hs)
          /\ \A g \in Handlers : acc.hs[g].held \in {<< >>, K, Append(K, m.no)}
     ELSE /\ acc.ff = << >>
          /\ IF \A g \in Handlers : hs[g].enabled => g \in S
             THEN /\ acc.back = Append(K, m.no) /\ acc.swallow
                  /\ \A g \in Handlers : acc.hs[g].state = "none" /\ acc.hs[g].held = << >>
             ELSE /\ acc.back = << >>
                  /\ \A g \in Handlers : g \notin S \/ ~hs[g].enabled => acc.hs[g] = hs[g]
                  /\ \A g \in S : hs[g].enabled =>
                       acc.hs[g].state = "none" /\ acc.hs[g].held = Append(K, m.no)

\* A short move triggers nothing.
LEMMA NearIs ==
  ASSUME NEW p, NEW m, NEW h \in Handlers, NEW s, ~s.left, s.start = p
  PROVE  /\ Near(s, m) <=> NearTo(p, m)
         /\ NearTo(p, m) => ~Triggers(h, s, m)
BY DEF Near, NearTo, Drags, Down, Far, Triggers, Handlers

LEMMA RightStepNear ==
  ASSUME NEW m \in Message, Proper(hs), NEW K \in Seq(Nat), NEW p, RightBegun(hs, K, p), NearTo(p, m),
         NEW S \in SUBSET Handlers, NEW h \in Handlers \ S, NEW acc, RightShown(m, K, p, S, acc),
         NEW a, a = OfferTo(m, acc, h)
  PROVE  RightShown(m, K, p, S \cup {h}, a)
<1> DEFINE s == acc.hs[h]
<1>1. /\ acc \in Outcome /\ SameEnabled(hs, acc.hs) /\ s = hs[h]
      /\ ~acc.stop /\ acc.ff = << >> /\ acc.back = << >>
  BY DEF RightShown
<1>2. /\ \A g \in Handlers : g \notin S \/ ~hs[g].enabled => acc.hs[g] = hs[g]
      /\ \A g \in S : hs[g].enabled =>
           /\ acc.hs[g].state = "initiated" /\ ~acc.hs[g].left /\ acc.hs[g].start = p
           /\ acc.hs[g].held = Append(K, m.no) /\ acc.swallow
  BY DEF RightShown
<1>3. SUFFICES /\ a \in Outcome /\ \A g \in Handlers : a.hs[g].enabled = acc.hs[g].enabled
               /\ ~a.stop /\ a.ff = << >> /\ a.back = << >>
               /\ \A g \in Handlers : g \notin S \cup {h} \/ ~hs[g].enabled => a.hs[g] = hs[g]
               /\ \A g \in S \cup {h} : hs[g].enabled =>
                    /\ a.hs[g].state = "initiated" /\ ~a.hs[g].left /\ a.hs[g].start = p
                    /\ a.hs[g].held = Append(K, m.no) /\ a.swallow
  BY <1>1 DEF RightShown, SameEnabled
<1>4. CASE ~hs[h].enabled
  <2>1. s.state = "none" /\ ~s.enabled
    BY <1>1, <1>4 DEF Proper
  <2>2. /\ a \in Outcome /\ \A g \in Handlers : a.hs[g].enabled = acc.hs[g].enabled
        /\ ~a.stop /\ a.ff = acc.ff /\ a.back = acc.back /\ (a.swallow <=> acc.swallow)
        /\ \A g \in Handlers : a.hs[g] = acc.hs[g]
    BY <1>1, <2>1, Passed, SMTT(120)
  <2> QED
    BY <1>1, <1>2, <1>4, <2>2
<1>5. CASE hs[h].enabled
  <2>1. /\ s.state = "initiated" /\ s.enabled /\ ~s.left /\ s.start = p /\ s.held = K
    BY <1>1, <1>5 DEF RightBegun
  <2>2. ~Triggers(h, s, m) /\ Near(s, m)
    BY <2>1, NearIs
  <2>3. /\ a \in Outcome /\ \A g \in Handlers : a.hs[g].enabled = acc.hs[g].enabled
        /\ ~a.stop /\ a.ff = acc.ff /\ a.back = acc.back
        /\ a.swallow <=> acc.swallow \/ ~s.left
        /\ \A g \in Handlers \ {h} : a.hs[g] = acc.hs[g]
        /\ a.hs[h].state = "initiated" /\ SameStart(s, a.hs[h])
        /\ a.hs[h].held = Append(s.held, m.no)
    BY <1>1, <2>1, <2>2, KeptOn, SMTT(120)
  <2>4. ~a.hs[h].left /\ a.hs[h].start = p /\ a.swallow /\ a.hs[h].held = Append(K, m.no)
    BY <2>1, <2>3 DEF SameStart
  <2> QED
    BY <1>1, <1>2, <1>5, <2>3, <2>4
<1> QED
  BY <1>4, <1>5

LEMMA RightStepFar ==
  ASSUME NEW m \in Message, Proper(hs), NEW K \in Seq(Nat), NEW p, RightBegun(hs, K, p), ~NearTo(p, m),
         NEW S \in SUBSET Handlers, NEW h \in Handlers \ S, NEW acc, RightShown(m, K, p, S, acc),
         NEW a, a = OfferTo(m, acc, h)
  PROVE  RightShown(m, K, p, S \cup {h}, a)
<1> DEFINE s    == acc.hs[h]
           all  == \A g \in Handlers : hs[g].enabled => g \in S
           all2 == \A g \in Handlers : hs[g].enabled => g \in S \cup {h}
<1>1. CASE acc.stop
  <2>1. a = acc
    BY <1>1, OfferToIs DEF RightShown
  <2> QED
    BY <1>1, <2>1 DEF RightShown
<1>2. CASE ~acc.stop
  <2>1. acc \in Outcome /\ SameEnabled(hs, acc.hs) /\ acc.ff = << >>
    BY <1>2 DEF RightShown
  <2>2. CASE ~hs[h].enabled
    <3>1. s.state = "none" /\ ~s.enabled
      BY <1>2, <2>1, <2>2 DEF RightShown, Proper, SameEnabled
    <3>2. /\ a \in Outcome /\ \A g \in Handlers : a.hs[g].enabled = acc.hs[g].enabled
          /\ ~a.stop /\ a.ff = acc.ff /\ a.back = acc.back /\ (a.swallow <=> acc.swallow)
          /\ \A g \in Handlers : a.hs[g] = acc.hs[g]
      BY <1>2, <2>1, <3>1, Passed, SMTT(120)
    <3>3. SameEnabled(hs, a.hs) /\ (all <=> all2)
      BY <2>1, <2>2, <3>2 DEF SameEnabled
    <3>4. CASE all
      BY <1>2, <2>1, <3>2, <3>3, <3>4 DEF RightShown
    <3>5. CASE ~all
      <4>1. /\ acc.back = << >>
            /\ \A g \in Handlers : g \notin S \/ ~hs[g].enabled => acc.hs[g] = hs[g]
            /\ \A g \in S : hs[g].enabled =>
                 acc.hs[g].state = "none" /\ acc.hs[g].held = Append(K, m.no)
        BY <1>2, <3>5 DEF RightShown
      <4> QED
        BY <2>1, <2>2, <3>2, <3>3, <3>5, <4>1, SMTT(30) DEF RightShown
    <3> QED
      BY <3>4, <3>5
  <2>3. CASE hs[h].enabled
    <3>1. /\ acc.back = << >> /\ s = hs[h]
          /\ \A g \in Handlers : g \notin S \/ ~hs[g].enabled => acc.hs[g] = hs[g]
          /\ \A g \in S : hs[g].enabled =>
               acc.hs[g].state = "none" /\ acc.hs[g].held = Append(K, m.no)
      BY <1>2, <2>3 DEF RightShown
    <3>2. s.state = "initiated" /\ s.enabled /\ ~s.left /\ s.start = p /\ s.held = K
      BY <2>3, <3>1 DEF RightBegun
    <3>3. ~Near(s, m)
      BY <3>2, NearIs
    <3>4. \A g \in Handlers \ {h} : acc.hs[g].held \in {<< >>, K, Append(K, m.no)}
      BY <3>1 DEF RightBegun
    <3>5. CASE Triggers(h, s, m)
      <4>1. /\ a \in Outcome /\ \A g \in Handlers : a.hs[g].enabled = acc.hs[g].enabled
            /\ a.stop /\ a.ff = Append(s.held, m.no) /\ a.back = acc.back /\ a.swallow
            /\ \A g \in Handlers \ {h} : a.hs[g] = acc.hs[g]
            /\ a.hs[h].state = "triggered" /\ a.hs[h].held = << >>
        BY <1>2, <2>1, <3>2, <3>5, Fired, SMTT(120)
      <4>2. SameEnabled(hs, a.hs) /\ Going(a.hs)
        BY <2>1, <4>1 DEF SameEnabled, Going
      <4> QED
        BY <3>1, <3>2, <3>4, <4>1, <4>2 DEF RightShown
    <3>6. CASE ~Triggers(h, s, m) /\ all2
      <4>1. \A g \in Handlers \ {h} : acc.hs[g].state = "none"
        BY <3>1, <3>6 DEF Proper
      <4>2. /\ a \in Outcome /\ \A g \in Handlers : a.hs[g].enabled = acc.hs[g].enabled
            /\ ~a.stop /\ a.ff = acc.ff /\ a.back = Append(s.held, m.no) /\ a.swallow
            /\ \A g \in Handlers : a.hs[g].state = "none" /\ a.hs[g].held = << >>
        <5>1. acc \in Outcome /\ ~Triggers(h, s, m)
          BY <2>1, <3>6
        <5>2. /\ a \in Outcome /\ \A g \in Handlers : a.hs[g].enabled = acc.hs[g].enabled
              /\ ~a.stop /\ a.ff = acc.ff /\ a.swallow
              /\ \A g \in Handlers : a.hs[g].state = "none" /\ a.hs[g].held = << >>
          BY <1>2, <3>2, <3>3, <4>1, <5>1, LastGaveUp, SMTT(120)
        <5>3. a.back = Append(s.held, m.no)
          BY <1>2, <3>2, <3>3, <4>1, <5>1, LastGaveUp, SMTT(120)
        <5> QED
          BY <5>2, <5>3
      <4>3. SameEnabled(hs, a.hs) /\ a.back = Append(K, m.no) /\ a.swallow
        BY <2>1, <3>2, <4>2 DEF SameEnabled
      <4> QED
        BY <2>1, <3>6, <4>2, <4>3 DEF RightShown
    <3>7. CASE ~Triggers(h, s, m) /\ ~all2
      <4>1. PICK k \in Handlers \ {h} : hs[k].enabled /\ k \notin S
        BY <3>7
      <4>2. acc.hs[k].state # "none"
        BY <3>1, <4>1 DEF RightBegun
      <4>3. /\ a \in Outcome /\ \A g \in Handlers : a.hs[g].enabled = acc.hs[g].enabled
            /\ ~a.stop /\ a.ff = acc.ff /\ a.back = acc.back
            /\ \A g \in Handlers \ {h} : a.hs[g] = acc.hs[g]
            /\ a.hs[h].state = "none" /\ a.hs[h].held = Append(s.held, m.no)
        BY <1>2, <2>1, <3>2, <3>3, <3>7, <4>1, <4>2, GaveUp, SMTT(120)
      <4>4. SameEnabled(hs, a.hs)
        BY <2>1, <4>3 DEF SameEnabled
      <4>5. \A g \in Handlers : g \notin S \cup {h} \/ ~hs[g].enabled => a.hs[g] = hs[g]
        BY <2>3, <3>1, <4>3
      <4>6. \A g \in S \cup {h} : hs[g].enabled =>
              a.hs[g].state = "none" /\ a.hs[g].held = Append(K, m.no)
        BY <3>1, <3>2, <4>3
      <4> QED
        BY <2>1, <3>1, <3>7, <4>3, <4>4, <4>5, <4>6 DEF RightShown
    <3> QED
      BY <3>5, <3>6, <3>7
  <2> QED
    BY <2>2, <2>3
<1> QED
  BY <1>1, <1>2

LEMMA RightOffered ==
  ASSUME NEW m \in Message, Proper(hs), NEW K \in Seq(Nat), NEW p, RightBegun(hs, K, p)
  PROVE  RightShown(m, K, p, Handlers, Offer(m))
<1>1. RightShown(m, K, p, {}, NotOffered)
  <2>1. \E g \in Handlers : hs[g].enabled
    BY DEF RightBegun
  <2>2. SameEnabled(hs, NotOffered.hs)
    BY OfferedNothing DEF SameEnabled
  <2> QED
    BY <2>1, <2>2, OfferedNothing DEF RightShown
<1>2. ASSUME NEW S \in SUBSET Handlers, NEW h \in Handlers \ S, NEW acc, RightShown(m, K, p, S, acc)
      PROVE  RightShown(m, K, p, S \cup {h}, OfferTo(m, acc, h))
  BY <1>2, RightStepNear, RightStepFar
<1>3. RightShown(m, K, p, {} \cup {"trace"}, OfferTo(m, NotOffered, "trace"))
  BY <1>1, <1>2 DEF Handlers
<1>4. RightShown(m, K, p, ({} \cup {"trace"}) \cup {"rocker"}, OfferTo(m, OfferTo(m, NotOffered, "trace"), "rocker"))
  BY <1>2, <1>3 DEF Handlers
<1>5. RightShown(m, K, p, (({} \cup {"trace"}) \cup {"rocker"}) \cup {"wheel"}, Offer(m))
  BY <1>2, <1>4, OfferIs DEF Handlers
<1>6. (({} \cup {"trace"}) \cup {"rocker"}) \cup {"wheel"} = Handlers
  BY DEF Handlers
<1> QED
  BY <1>5, <1>6
-----------------------------------------------------------------------------
\* Where a message goes that is offered to the handlers.
LEMMA HookOffers ==
  ASSUME NEW m \in Message, ~Going(hs), Hook(m), ie \in Seq(Nat), ff \in Seq(Nat),
         NEW a, a = Offer(m), a \in Outcome
  PROVE  /\ hs' = a.hs
         /\ a.back = << >> => sending' = << >>
         /\ a.back # << >> => sending' = Tail(a.back) /\ ie' = Append(ie, Head(a.back))
         /\ a.back = << >> /\ a.swallow => ie' = ie
         /\ a.swallow => ff' = ff \o a.ff
         /\ a.back = << >> /\ ~a.swallow /\ a.ff = << >> =>
              \/ ie' = Append(ie, m.no) /\ ff' = ff
              \/ ie' = ie /\ ff' = Append(ff, m.no) /\ m.ctrl /\ m.kind = "wheel"
<1> DEFINE zoom == ~a.swallow /\ m.kind = "wheel" /\ m.ctrl
<1>1. /\ hs' = a.hs
      /\ ff' = ff \o a.ff \o IF zoom THEN <<m.no>> ELSE << >>
      /\ ie' = ie \o IF a.back # << >> THEN <<Head(a.back)>>
                     ELSE IF a.swallow \/ zoom THEN << >> ELSE <<m.no>>
      /\ sending' = IF a.back = << >> THEN << >> ELSE Tail(a.back)
  BY DEF Hook, Going
<1>2. a.ff \in Seq(Nat) /\ a.back \in Seq(Nat) /\ m.no \in Nat
  BY DEF Outcome, Message
<1>3. /\ \A q \in Seq(Nat) : q \o << >> = q
      /\ \A q \in Seq(Nat), x \in Nat : q \o <<x>> = Append(q, x)
  OBVIOUS
<1>4. ff \o a.ff \in Seq(Nat)
  BY <1>2
<1>5. CASE a.swallow
  <2>1. ff' = ff \o a.ff \o << >>
    BY <1>1, <1>5
  <2>2. ff' = ff \o a.ff
    BY <1>3, <1>4, <2>1
  <2>3. CASE a.back = << >>
    <3>1. ie' = ie \o << >>
      BY <1>1, <1>5, <2>3
    <3> QED
      BY <1>1, <1>3, <1>5, <2>2, <2>3, <3>1
  <2>4. CASE a.back # << >>
    <3>1. ie' = ie \o <<Head(a.back)>> /\ Head(a.back) \in Nat
      BY <1>1, <1>2, <2>4, SMTT(30)
    <3> QED
      BY <1>1, <1>3, <1>5, <2>2, <2>4, <3>1
  <2> QED
    BY <2>3, <2>4
<1>6. CASE ~a.swallow
  <2>1. CASE a.back # << >>
    <3>1. ie' = ie \o <<Head(a.back)>> /\ Head(a.back) \in Nat
      BY <1>1, <1>2, <2>1, SMTT(30)
    <3> QED
      BY <1>1, <1>3, <1>6, <2>1, <3>1
  <2>2. CASE a.back = << >> /\ a.ff = << >>
    <3>1. ff \o a.ff = ff
      BY <1>3, <2>2
    <3>2. CASE zoom
      <4>1. ie' = ie \o << >> /\ ff' = ff \o <<m.no>>
        BY <1>1, <2>2, <3>1, <3>2
      <4> QED
        BY <1>1, <1>2, <1>3, <1>6, <2>2, <3>2, <4>1
    <3>3. CASE ~zoom
      <4>1. ie' = ie \o <<m.no>> /\ ff' = ff \o << >>
        BY <1>1, <1>6, <2>2, <3>1, <3>3
      <4> QED
        BY <1>1, <1>2, <1>3, <1>6, <2>2, <4>1
    <3> QED
      BY <3>2, <3>3
  <2>3. CASE a.back = << >> /\ a.ff # << >>
    BY <1>1, <1>6, <2>3
  <2> QED
    BY <2>1, <2>2, <2>3
<1> QED
  BY <1>5, <1>6

\* IE or Firefox has got m alone.
ToOne(m) == \/ ie' = Append(ie, m.no) /\ ff' = ff
            \/ ie' = ie /\ ff' = Append(ff, m.no) /\ m.ctrl /\ m.kind = "wheel"

LEMMA FromRest ==
  ASSUME NEW m \in Message, Proper(hs), Resting(hs), Hook(m), ie \in Seq(Nat), ff \in Seq(Nat)
  PROVE  /\ sending' = << >>
         /\ \/ Resting(hs') /\ ToOne(m)
            \/ m.kind = "ldown" /\ LeftBegun(hs', <<m.no>>) /\ ie' = Append(ie, m.no) /\ ff' = ff
            \/ m.kind = "rdown" /\ RightBegun(hs', <<m.no>>, m.at) /\ ie' = ie /\ ff' = ff
<1>1. PICK a : a = Offer(m)
  OBVIOUS
<1>2. RestShown(m, Handlers, a)
  BY <1>1, RestOffered
<1>3. ~Going(hs) /\ a \in Outcome /\ a.back = << >> /\ a.ff = << >>
  BY <1>2 DEF Going, Resting, RestShown
<1>4. /\ hs' = a.hs /\ sending' = << >>
      /\ a.swallow => ie' = ie /\ ff' = ff \o << >>
      /\ ~a.swallow => ToOne(m)
  BY <1>1, <1>3, HookOffers DEF ToOne
<1>5. ff \o << >> = ff
  OBVIOUS
<1>6. \A g \in Handlers : hs[g].state = "none" /\ hs[g].held = << >> /\ hs[g].enabled \in BOOLEAN
  BY DEF Resting, Proper, HandlerState
<1>7. /\ SameEnabled(hs, a.hs)
      /\ \A g \in Handlers : ~(hs[g].enabled /\ Starts(g, m)) => a.hs[g] = hs[g]
      /\ \A g \in Handlers : hs[g].enabled /\ Starts(g, m) =>
           /\ a.hs[g].state = "initiated" /\ a.hs[g].start = m.at
           /\ a.hs[g].left <=> m.kind = "ldown"
           /\ a.hs[g].held = <<m.no>>
      /\ a.swallow <=> m.kind # "ldown" /\ \E g \in Handlers : hs[g].enabled /\ Starts(g, m)
  BY <1>2 DEF RestShown
<1>8. CASE \A g \in Handlers : ~(hs[g].enabled /\ Starts(g, m))
  <2>1. Resting(hs') /\ ~a.swallow
    BY <1>4, <1>6, <1>7, <1>8 DEF Resting
  <2> QED
    BY <1>4, <2>1
<1>9. CASE m.kind = "ldown" /\ \E g \in Handlers : hs[g].enabled /\ Starts(g, m)
  <2>1. hs["rocker"].enabled /\ Starts("rocker", m) /\ \A g \in Handlers \ {"rocker"} : ~Starts(g, m)
    BY <1>9 DEF Starts
  <2>2. LeftBegun(hs', <<m.no>>)
    BY <1>4, <1>6, <1>7, <1>9, <2>1 DEF LeftBegun, Handlers
  <2>3. ToOne(m)
    BY <1>4, <1>7, <1>9
  <2> QED
    BY <1>4, <1>9, <2>2, <2>3 DEF ToOne
<1>10. CASE m.kind # "ldown" /\ \E g \in Handlers : hs[g].enabled /\ Starts(g, m)
  <2>1. m.kind = "rdown" /\ \A g \in Handlers : Starts(g, m)
    BY <1>10 DEF Starts
  <2>2. RightBegun(hs', <<m.no>>, m.at)
    <3>1. \A g \in Handlers : hs'[g].enabled = hs[g].enabled
      BY <1>4, <1>7 DEF SameEnabled
    <3>2. \E g \in Handlers : hs'[g].enabled
      BY <1>10, <3>1
    <3>3. ASSUME NEW g \in Handlers, hs'[g].enabled
          PROVE  hs'[g].state = "initiated" /\ ~hs'[g].left /\ hs'[g].held = <<m.no>> /\ hs'[g].start = m.at
      BY <1>4, <1>7, <1>10, <2>1, <3>1, <3>3
    <3>4. ASSUME NEW g \in Handlers, ~hs'[g].enabled PROVE hs'[g].held = << >>
      BY <1>4, <1>6, <1>7, <3>1, <3>4
    <3> QED
      BY <3>2, <3>3, <3>4 DEF RightBegun
  <2>3. ie' = ie /\ ff' = ff
    BY <1>4, <1>5, <1>7, <1>10
  <2> QED
    BY <1>4, <2>1, <2>2, <2>3
<1> QED
  BY <1>8, <1>9, <1>10

LEMMA FromLeft ==
  ASSUME NEW m \in Message, Proper(hs), NEW K \in Seq(Nat), LeftBegun(hs, K), Hook(m),
         m.kind # "ldown", m.kind = "rdown" => m.l, ie \in Seq(Nat), ff \in Seq(Nat)
  PROVE  /\ sending' = << >>
         /\ \/ Resting(hs') /\ ToOne(m)
            \/ /\ m.kind = "move" /\ m.l /\ LeftBegun(hs', Append(K, m.no))
               /\ ie' = Append(ie, m.no) /\ ff' = ff
            \/ /\ m.kind = "rdown" /\ Going(hs') /\ ie' = ie /\ ff' = ff \o Append(K, m.no)
               /\ \A g \in Handlers : hs'[g].held \in {<< >>, <<m.no>>}
<1>1. PICK a : a = Offer(m)
  OBVIOUS
<1>2. LeftShown(m, K, Handlers, a)
  BY <1>1, LeftOffered
<1>3. /\ ~Going(hs) /\ a \in Outcome /\ a.back = << >> /\ "rocker" \in Handlers
      /\ hs["rocker"].state = "initiated" /\ hs["rocker"].left
  BY <1>2 DEF Going, LeftBegun, LeftShown, Handlers
<1>4. /\ hs' = a.hs /\ sending' = << >>
      /\ a.swallow => ie' = ie /\ ff' = ff \o a.ff
      /\ ~a.swallow /\ a.ff = << >> => ToOne(m)
  BY <1>1, <1>3, HookOffers DEF ToOne
<1>5. CASE Triggers("rocker", hs["rocker"], m)
  <2>1. m.kind = "rdown"
    BY <1>3, <1>5 DEF Triggers
  <2>2. /\ a.swallow /\ a.ff = Append(K, m.no)
        /\ a.hs["rocker"].state = "triggered" /\ a.hs["rocker"].held = << >>
        /\ \A g \in Handlers \ {"rocker"} : a.hs[g].held \in {<< >>, <<m.no>>}
    BY <1>2, <1>3, <1>5 DEF LeftShown
  <2> QED
    BY <1>3, <1>4, <2>1, <2>2 DEF Going
<1>6. CASE ~Triggers("rocker", hs["rocker"], m)
  <2>1. /\ ~a.swallow /\ a.ff = << >>
        /\ \A g \in Handlers \ {"rocker"} : a.hs[g].state = "none" /\ a.hs[g].held = << >>
    BY <1>2, <1>6 DEF LeftShown
  <2>2. CASE Near(hs["rocker"], m)
    <3>1. m.kind = "move" /\ m.l
      BY <1>3, <2>2 DEF Near, Drags, Down
    <3>2. LeftBegun(hs', Append(K, m.no))
      BY <1>2, <1>3, <1>4, <1>6, <2>1, <2>2 DEF LeftShown, LeftBegun
    <3>3. ie' = Append(ie, m.no) /\ ff' = ff
      BY <1>4, <2>1, <3>1 DEF ToOne
    <3> QED
      BY <1>4, <3>1, <3>2, <3>3
  <2>3. CASE ~Near(hs["rocker"], m)
    <3>1. a.hs["rocker"].state = "none" /\ a.hs["rocker"].held = << >>
      BY <1>2, <1>3, <1>6, <2>3 DEF LeftShown
    <3>2. Resting(hs')
      BY <1>4, <2>1, <3>1 DEF Resting
    <3> QED
      BY <1>4, <2>1, <3>2
  <2> QED
    BY <2>2, <2>3
<1> QED
  BY <1>5, <1>6

LEMMA FromRight ==
  ASSUME NEW m \in Message, Proper(hs), NEW K \in Seq(Nat), NEW p, RightBegun(hs, K, p), Hook(m),
         ie \in Seq(Nat), ff \in Seq(Nat)
  PROVE  \/ sending' = << >> /\ RightBegun(hs', Append(K, m.no), p) /\ ie' = ie /\ ff' = ff
         \/ /\ sending' = << >> /\ Going(hs') /\ ie' = ie /\ ff' = ff \o Append(K, m.no)
            /\ \A g \in Handlers : hs'[g].held \in {<< >>, K, Append(K, m.no)}
         \/ /\ Resting(hs') /\ ff' = ff /\ ie' = Append(ie, Head(Append(K, m.no)))
            /\ sending' = Tail(Append(K, m.no))
<1>1. PICK a : a = Offer(m)
  OBVIOUS
<1>2. RightShown(m, K, p, Handlers, a)
  BY <1>1, RightOffered
<1>3. ~Going(hs)
  BY DEF Going, RightBegun, Proper
<1>4. a \in Outcome /\ SameEnabled(hs, a.hs) /\ \E g \in Handlers : hs[g].enabled
  BY <1>2 DEF RightShown, RightBegun
<1>5. /\ hs' = a.hs
      /\ a.back = << >> => sending' = << >>
      /\ a.back # << >> => sending' = Tail(a.back) /\ ie' = Append(ie, Head(a.back))
      /\ a.back = << >> /\ a.swallow => ie' = ie
      /\ a.swallow => ff' = ff \o a.ff
  BY <1>1, <1>3, <1>4, HookOffers
<1>6. ff \o << >> = ff
  OBVIOUS
<1>7. CASE NearTo(p, m)
  <2>1. /\ a.ff = << >> /\ a.back = << >>
        /\ \A g \in Handlers : ~hs[g].enabled => a.hs[g] = hs[g]
        /\ \A g \in Handlers : hs[g].enabled =>
             /\ a.hs[g].state = "initiated" /\ ~a.hs[g].left /\ a.hs[g].start = p
             /\ a.hs[g].held = Append(K, m.no) /\ a.swallow
    BY <1>2, <1>7 DEF RightShown
  <2>2. RightBegun(hs', Append(K, m.no), p)
    BY <1>4, <1>5, <2>1, ZenonT(30) DEF RightBegun, SameEnabled
  <2>3. a.swallow
    BY <1>4, <2>1
  <2> QED
    BY <1>5, <1>6, <2>1, <2>2, <2>3
<1>8. CASE ~NearTo(p, m) /\ a.stop
  <2>1. /\ a.ff = Append(K, m.no) /\ a.back = << >> /\ a.swallow /\ Going(a.hs)
        /\ \A g \in Handlers : a.hs[g].held \in {<< >>, K, Append(K, m.no)}
    BY <1>2, <1>8 DEF RightShown
  <2> QED
    BY <1>5, <2>1
<1>9. CASE ~NearTo(p, m) /\ ~a.stop
  <2>1. /\ a.ff = << >> /\ a.back = Append(K, m.no) /\ a.swallow
        /\ \A g \in Handlers : a.hs[g].state = "none" /\ a.hs[g].held = << >>
    BY <1>2, <1>9 DEF RightShown
  <2>2. Append(K, m.no) # << >>
    <3>1. m.no \in Nat
      BY DEF Message
    <3> QED
      BY <3>1
  <2>3. Resting(hs')
    BY <1>5, <2>1 DEF Resting
  <2> QED
    BY <1>5, <1>6, <2>1, <2>2, <2>3
<1> QED
  BY <1>7, <1>8, <1>9
-----------------------------------------------------------------------------
\* All of q come before x; q are the last messages of the first n.
Before(q, x) == \A k \in DOMAIN q : q[k] < x
Run(q, n)    == \A k \in DOMAIN q : q[k] = n - Len(q) + k

LEMMA Appended ==
  ASSUME NEW q \in Seq(Nat), NEW x \in Nat
  PROVE  /\ ToSet(Append(q, x)) = ToSet(q) \cup {x}
         /\ InSeq(q) /\ Before(q, x) => InSeq(Append(q, x))
         /\ \A y : Before(q, y) /\ x < y => Before(Append(q, x), y)
<1> DEFINE r == Append(q, x)
<1>1. /\ Len(q) \in Nat /\ DOMAIN q = 1..Len(q) /\ DOMAIN r = 1..(Len(q) + 1)
      /\ r[Len(q) + 1] = x /\ \A k \in 1..Len(q) : r[k] = q[k]
  OBVIOUS
<1>2. \A k \in DOMAIN r : k \in DOMAIN q \/ k = Len(q) + 1
  BY <1>1
<1> HIDE DEF r
<1>3. ToSet(r) = ToSet(q) \cup {x}
  BY <1>1, <1>2 DEF ToSet
<1>4. ASSUME InSeq(q), Before(q, x) PROVE InSeq(r)
  BY <1>1, <1>4 DEF InSeq, Before
<1>5. ASSUME NEW y, Before(q, y), x < y PROVE Before(r, y)
  BY <1>1, <1>2, <1>5 DEF Before
<1> QED
  BY <1>3, <1>4, <1>5 DEF r

LEMMA Joined ==
  ASSUME NEW q \in Seq(Nat), NEW r \in Seq(Nat)
  PROVE  /\ ToSet(q \o r) = ToSet(q) \cup ToSet(r)
         /\ InSeq(q) /\ InSeq(r) /\ (r # << >> => Before(q, r[1])) => InSeq(q \o r)
<1> DEFINE s == q \o r
<1>1. /\ Len(q) \in Nat /\ Len(r) \in Nat /\ DOMAIN q = 1..Len(q) /\ DOMAIN r = 1..Len(r)
      /\ DOMAIN s = 1..(Len(q) + Len(r))
      /\ \A k \in 1..Len(q) : s[k] = q[k]
      /\ \A k \in 1..Len(r) : s[Len(q) + k] = r[k]
      /\ (\A k \in 1..Len(q) : q[k] \in Nat) /\ (\A k \in 1..Len(r) : r[k] \in Nat)
  OBVIOUS
<1>2. \A k \in DOMAIN s : k \in 1..Len(q) \/ \E j \in 1..Len(r) : k = Len(q) + j
  <2>1. \A k \in DOMAIN s : k \in 1..Len(q) \/ k - Len(q) \in 1..Len(r)
    BY <1>1
  <2>2. \A k \in DOMAIN s : k = Len(q) + (k - Len(q))
    BY <1>1
  <2> QED
    BY <2>1, <2>2
<1> HIDE DEF s
<1>3. ToSet(s) = ToSet(q) \cup ToSet(r)
  <2>1. ASSUME NEW k \in DOMAIN s PROVE s[k] \in ToSet(q) \cup ToSet(r)
    <3>1. CASE k \in 1..Len(q)
      BY <1>1, <3>1 DEF ToSet
    <3>2. CASE \E j \in 1..Len(r) : k = Len(q) + j
      <4>1. PICK j \in 1..Len(r) : k = Len(q) + j
        BY <3>2
      <4>2. s[k] = r[j] /\ j \in DOMAIN r
        BY <1>1, <4>1
      <4> QED
        BY <4>2 DEF ToSet
    <3> QED
      BY <1>2, <3>1, <3>2
  <2>2. ToSet(q) \subseteq ToSet(s)
    BY <1>1 DEF ToSet
  <2>3. ASSUME NEW k \in DOMAIN r PROVE r[k] \in ToSet(s)
    <3>1. Len(q) + k \in DOMAIN s /\ s[Len(q) + k] = r[k]
      BY <1>1
    <3> QED
      BY <3>1 DEF ToSet
  <2> QED
    BY <2>1, <2>2, <2>3 DEF ToSet
<1>4. ASSUME InSeq(q), InSeq(r), r # << >> => Before(q, r[1]) PROVE InSeq(s)
  <2>1. ASSUME NEW j \in DOMAIN s, NEW k \in DOMAIN s, j < k PROVE s[j] < s[k]
    <3>1. CASE k \in 1..Len(q)
      <4>1. j \in 1..Len(q)
        BY <1>1, <2>1, <3>1
      <4>2. q[j] < q[k]
        BY <1>1, <1>4, <2>1, <3>1, <4>1 DEF InSeq
      <4> QED
        BY <1>1, <3>1, <4>1, <4>2
    <3>2. CASE k \notin 1..Len(q)
      <4>1. PICK i \in 1..Len(r) : k = Len(q) + i
        BY <1>2, <3>2
      <4>2. CASE j \in 1..Len(q)
        <5>1. r # << >> /\ 1 \in DOMAIN r
          BY <1>1, <4>1
        <5>2. q[j] < r[1]
          BY <1>1, <1>4, <4>2, <5>1 DEF Before
        <5>3. i = 1 \/ r[1] < r[i]
          <6>1. i = 1 \/ 1 < i
            BY <1>1
          <6> QED
            BY <1>1, <1>4, <5>1, <6>1 DEF InSeq
        <5>4. s[j] = q[j] /\ s[k] = r[i] /\ q[j] \in Nat /\ r[1] \in Nat /\ r[i] \in Nat
          BY <1>1, <4>1, <4>2, <5>1
        <5> QED
          BY <5>2, <5>3, <5>4
      <4>3. CASE j \notin 1..Len(q)
        <5>1. PICK h \in 1..Len(r) : j = Len(q) + h
          BY <1>2, <4>3
        <5>2. h < i
          BY <1>1, <2>1, <4>1, <5>1
        <5>3. r[h] < r[i]
          BY <1>1, <1>4, <5>2 DEF InSeq
        <5> QED
          BY <1>1, <4>1, <5>1, <5>3
      <4> QED
        BY <4>2, <4>3
    <3> QED
      BY <3>1, <3>2
  <2> QED
    BY <2>1 DEF InSeq
<1> QED
  BY <1>3, <1>4 DEF s

LEMMA HeadAndTail ==
  ASSUME NEW q \in Seq(Nat), q # << >>
  PROVE  /\ ToSet(q) = {Head(q)} \cup ToSet(Tail(q)) /\ Head(q) = q[1] /\ Head(q) \in Nat
         /\ Tail(q) \in Seq(Nat)
         /\ InSeq(q) => InSeq(Tail(q)) /\ Head(q) \notin ToSet(Tail(q))
         /\ InSeq(q) /\ Tail(q) # << >> => Head(q) < Tail(q)[1]
         /\ \A n \in Nat : Run(q, n) => Run(Tail(q), n)
<1> DEFINE r == Tail(q)
<1>1. /\ Len(q) \in Nat /\ Len(q) > 0 /\ DOMAIN q = 1..Len(q) /\ r \in Seq(Nat) /\ Len(r) = Len(q) - 1
      /\ DOMAIN r = 1..(Len(q) - 1) /\ \A k \in DOMAIN r : r[k] = q[k + 1]
      /\ Head(q) = q[1] /\ (\A k \in 1..Len(q) : q[k] \in Nat)
  OBVIOUS
<1> HIDE DEF r
<1>2. \A k \in DOMAIN q : k = 1 \/ k - 1 \in DOMAIN r
  BY <1>1
<1>3. ToSet(q) = {q[1]} \cup ToSet(r)
  <2>1. ASSUME NEW k \in DOMAIN q PROVE q[k] \in {q[1]} \cup ToSet(r)
    <3>1. CASE k = 1
      BY <3>1
    <3>2. CASE k - 1 \in DOMAIN r
      <4>1. r[k - 1] = q[k]
        <5>1. k \in Nat /\ (k - 1) + 1 = k
          BY <1>1
        <5> QED
          BY <1>1, <3>2, <5>1
      <4> QED
        BY <3>2, <4>1 DEF ToSet
    <3> QED
      BY <1>2, <3>1, <3>2
  <2>2. ASSUME NEW k \in DOMAIN r PROVE r[k] \in ToSet(q)
    <3>1. k + 1 \in DOMAIN q /\ r[k] = q[k + 1]
      BY <1>1, SMTT(30)
    <3> QED
      BY <3>1 DEF ToSet
  <2>3. q[1] \in ToSet(q)
    BY <1>1, SMTT(30) DEF ToSet
  <2> QED
    BY <2>1, <2>2, <2>3 DEF ToSet
<1>4. ASSUME InSeq(q) PROVE InSeq(r) /\ \A k \in DOMAIN r : q[1] < r[k]
  <2>1. ASSUME NEW k \in DOMAIN r PROVE k + 1 \in DOMAIN q /\ r[k] = q[k + 1] /\ 1 \in DOMAIN q /\ 1 < k + 1
    BY <1>1, SMTT(30)
  <2>2. \A k \in DOMAIN r : q[1] < r[k]
    BY <1>4, <2>1 DEF InSeq
  <2>3. ASSUME NEW j \in DOMAIN r, NEW k \in DOMAIN r, j < k PROVE r[j] < r[k]
    <3>1. j + 1 < k + 1
      BY <1>1, <2>3
    <3> QED
      BY <1>4, <2>1, <3>1 DEF InSeq
  <2> QED
    BY <2>2, <2>3 DEF InSeq
<1>5. InSeq(q) => q[1] \notin ToSet(r)
  BY <1>1, <1>4 DEF ToSet
<1>6. ASSUME r # << >> PROVE 1 \in DOMAIN r
  BY <1>1, <1>6
<1>7. ASSUME NEW n \in Nat, Run(q, n) PROVE Run(r, n)
  <2>1. ASSUME NEW k \in DOMAIN r PROVE r[k] = n - Len(r) + k
    <3>1. k + 1 \in DOMAIN q /\ r[k] = q[k + 1] /\ k \in Nat
      BY <1>1, SMTT(30)
    <3>2. q[k + 1] = n - Len(q) + (k + 1)
      BY <1>7, <3>1 DEF Run
    <3> QED
      BY <1>1, <3>1, <3>2
  <2> QED
    BY <2>1 DEF Run
<1>8. ASSUME InSeq(q), r # << >> PROVE q[1] < r[1]
  BY <1>4, <1>6, <1>8
<1> QED
  BY <1>1, <1>3, <1>4, <1>5, <1>7, <1>8 DEF r

LEMMA RunGrows ==
  ASSUME NEW q \in Seq(Nat), NEW n \in Nat, Run(q, n)
  PROVE  Run(Append(q, n + 1), n + 1) /\ InSeq(q)
<1> DEFINE r == Append(q, n + 1)
<1>1. /\ Len(q) \in Nat /\ DOMAIN q = 1..Len(q) /\ Len(r) = Len(q) + 1 /\ DOMAIN r = 1..(Len(q) + 1)
      /\ r[Len(q) + 1] = n + 1 /\ \A k \in 1..Len(q) : r[k] = q[k]
  OBVIOUS
<1> HIDE DEF r
<1>2. Run(r, n + 1)
  BY <1>1 DEF Run
<1>3. InSeq(q)
  BY <1>1 DEF Run, InSeq
<1> QED
  BY <1>2, <1>3 DEF r

LEMMA Single ==
  ASSUME NEW x \in Nat
  PROVE  /\ <<x>> \in Seq(Nat) /\ <<x>> # << >> /\ ToSet(<<x>>) = {x} /\ InSeq(<<x>>) /\ Run(<<x>>, x)
         /\ <<x>>[1] = x
         /\ ToSet(<< >>) = {} /\ InSeq(<< >>) /\ Run(<< >>, x)
BY DEF ToSet, InSeq, Run
-----------------------------------------------------------------------------
-----------------------------------------------------------------------------
\* A message that IE and Firefox may both have got.
Shared(i) == input[i].l /\ input[i].kind \in {"ldown", "move"}

\* Where each message is, K being those the handlers hold: with IE or Firefox, or on
\* its way back to IE, or held.
Ledger(K) ==
  /\ \A i \in DOMAIN input : i \in ToSet(ie) \cup ToSet(ff) \cup ToSet(posted) \cup ToSet(sending) \cup ToSet(K)
  /\ \A i \in ToSet(ie) \cap ToSet(ff) : Shared(i)
  /\ \A i \in ToSet(posted) \cup ToSet(sending) : i \notin ToSet(ie) \cup ToSet(ff)
  /\ InSeq(K) /\ InSeq(sending)

Phase(K) ==
  \/ Resting(hs) /\ K = << >>
  \/ /\ posted = << >> /\ sending = << >>
     /\ \/ /\ LeftBegun(hs, K) /\ K # << >> /\ buttons.l
           /\ \A i \in ToSet(K) : i \in ToSet(ie) /\ i \notin ToSet(ff) /\ Shared(i)
        \/ /\ (\E p \in Places : RightBegun(hs, K, p)) /\ K # << >>
           /\ \A i \in ToSet(K) : i \notin ToSet(ie) \cup ToSet(ff)
        \/ /\ Going(hs) /\ K = << >>
           /\ \A g \in Handlers : ToSet(hs[g].held) \subseteq ToSet(ff)

\* As long as IE has run no loop of its own, all that comes later has a greater number.
Whole == \A k \in DOMAIN ff : \/ input[ff[k]].kind \in {"ldown", "rdown"} \/ input[ff[k]].ctrl
                              \/ k > 1 /\ ff[k - 1] = ff[k] - 1
Ordered(K) ==
  /\ InSeq(ie) /\ InSeq(ff) /\ Whole
  /\ Run(K, Len(input)) /\ Run(sending, Len(input))
  /\ K # << >> => /\ input[K[1]].kind \in {"ldown", "rdown"} /\ Before(ff, K[1])
                  /\ LeftBegun(hs, K) \/ Before(ie, K[1])
  /\ sending # << >> => Before(ie, sending[1]) /\ Before(ff, sending[1])
  /\ posted # << >> => Before(ie, posted[1]) /\ Before(ff, posted[1])
  /\ Going(hs) => ff # << >> /\ ff[Len(ff)] = Len(input)

OwnedAs(K) == Ledger(K) /\ Phase(K) /\ (nested \/ Ordered(K))

OwnInv == GoneInv /\ (odd \/ \E K \in Seq(Nat) : OwnedAs(K))

\* The hook takes m, which neither IE nor Firefox has got: m is new, or had been posted.
Takes(m) ==
  /\ m \in Message /\ (m.kind = "ldown" => m.l)
  /\ input'[m.no] = m /\ DOMAIN input' = DOMAIN input \cup {m.no} /\ m.no \in DOMAIN input'
  /\ \A i \in DOMAIN input : input'[i] = input[i]
  /\ sending = << >> /\ posted' = << >> /\ nested' = nested /\ ToSet(posted) \subseteq {m.no}
  /\ m.no \notin ToSet(ie) \cup ToSet(ff)
  /\ ~nested => m.no = Len(input') /\ Before(ie, m.no) /\ Before(ff, m.no)
  /\ posted = << >> => m.no = Len(input) + 1 /\ Len(input') = Len(input) + 1 /\ m.no \notin DOMAIN input

\* The sequences as sets.
LEMMA TypeIs ==
  ASSUME HookType
  PROVE  /\ ie \in Seq(Nat) /\ ff \in Seq(Nat) /\ sending \in Seq(Nat) /\ posted \in Seq(Nat)
         /\ ToSet(ie) \subseteq DOMAIN input /\ ToSet(ff) \subseteq DOMAIN input
         /\ DOMAIN input = 1..Len(input) /\ Len(input) \in Nat
         /\ \A k \in DOMAIN ff : ff[k] \in DOMAIN input
<1>1. /\ DOMAIN input = 1..Len(input) /\ Len(input) \in Nat
      /\ ie \in Seq(1..Len(input)) /\ ff \in Seq(1..Len(input))
      /\ sending \in Seq(1..Len(input)) /\ posted \in Seq(1..Len(input))
  BY DEF HookType
<1>2. \A n \in Nat : \A q \in Seq(1..n) : q \in Seq(Nat) /\ (\A k \in DOMAIN q : q[k] \in 1..n)
  OBVIOUS
<1>3. \A n \in Nat : \A q \in Seq(1..n) : ToSet(q) \subseteq 1..n
  BY <1>2 DEF ToSet
<1> QED
  BY <1>1, <1>2, <1>3

LEMMA MouseTakes ==
  ASSUME HookType, NEW type \in Kinds, NEW ctrl \in BOOLEAN, Mouse(type, ctrl), Quiet
  PROVE  \E m : /\ Takes(m) /\ Hook(m) /\ posted = << >>
                /\ m.kind = type /\ m.l = buttons'.l /\ m.r = buttons'.r /\ m.at \in Places
                /\ Pressed(type) /\ odd' = odd
<1>1. PICK m : m = [no |-> Len(input) + 1, kind |-> type, ctrl |-> ctrl,
                    l |-> buttons'.l, r |-> buttons'.r, at |-> buttons'.at]
  OBVIOUS
<1>2. /\ posted = << >> /\ Pressed(type) /\ input' = Append(input, m) /\ Hook(m)
      /\ sending = << >> /\ UNCHANGED <<posted, nested, odd>>
  BY <1>1 DEF Mouse, Quiet
<1>3. /\ m \in Message /\ m.no = Len(input) + 1 /\ m.kind = type
      /\ m.l = buttons'.l /\ m.r = buttons'.r /\ (type = "ldown" => m.l)
  BY <1>1, <1>2, NewMessage
<1>4. /\ Len(input') = m.no /\ m.no \in 1..Len(input')
      /\ input'[m.no] = m /\ DOMAIN input' = DOMAIN input \cup {m.no} /\ m.no \notin DOMAIN input
      /\ \A i \in DOMAIN input : input'[i] = input[i]
  BY <1>2, <1>3, InputGrows
<1>5. /\ ToSet(ie) \subseteq DOMAIN input /\ ToSet(ff) \subseteq DOMAIN input
      /\ DOMAIN input = 1..Len(input) /\ Len(input) \in Nat
  BY TypeIs
<1>6. \A x \in 1..Len(input) : x < m.no
  BY <1>3, <1>5
<1>7. Before(ie, m.no) /\ Before(ff, m.no)
  BY <1>5, <1>6 DEF Before, ToSet
<1>8. ToSet(posted) = {}
  BY <1>2 DEF ToSet
<1>9. Takes(m)
  BY <1>2, <1>3, <1>4, <1>5, <1>7, <1>8 DEF Takes
<1> QED
  BY <1>2, <1>3, <1>9 DEF Message

LEMMA OneOf ==
  ASSUME NEW n \in Nat, NEW q \in Seq(1..n), q # << >>, Len(q) <= 1
  PROVE  q = <<q[1]>> /\ q[1] \in 1..n
<1>1. Len(q) = 1
  <2>1. PICK l \in Nat : l = Len(q) /\ l # 0
    BY EmptySeq
  <2>2. l = 1
    BY <2>1
  <2> QED
    BY <2>1, <2>2
<1> QED
  BY <1>1

LEMMA DispatchTakes ==
  ASSUME GoneInv, Dispatch, NEW K \in Seq(Nat), OwnedAs(K)
  PROVE  \E m : Takes(m) /\ Hook(m) /\ K = << >> /\ Resting(hs)
<1>1. PICK m : m = input[Head(posted)]
  OBVIOUS
<1>2. /\ sending = << >> /\ posted # << >> /\ posted' = << >> /\ Hook(m)
      /\ UNCHANGED <<buttons, input, missed, toggles, nested>>
  BY <1>1 DEF Dispatch, Quiet
<1>3. /\ posted \in Seq(1..Len(input)) /\ Len(posted) <= 1 /\ input \in Seq(Message) /\ Len(input) \in Nat
      /\ DOMAIN input = 1..Len(input)
  BY DEF GoneInv, HookType
<1>4. PICK x \in 1..Len(input) : posted = <<x>>
  <2>1. posted = <<posted[1]>> /\ posted[1] \in 1..Len(input)
    BY <1>2, <1>3, OneOf
  <2> QED
    BY <2>1, Zenon
<1>5. m = input[x] /\ m \in Message /\ m.no = x /\ (m.kind = "ldown" => m.l) /\ ToSet(posted) = {x} /\ posted[1] = x
  <2>1. m = input[x] /\ m \in Message
    BY <1>1, <1>3, <1>4
  <2>2. m.no = x /\ (m.kind = "ldown" => m.l)
    BY <1>3, <2>1 DEF GoneInv, HookType
  <2>3. ToSet(<<x>>) = {x}
    BY DEF ToSet
  <2> QED
    BY <1>4, <2>1, <2>2, <2>3
<1>6. K = << >> /\ Resting(hs)
  BY <1>2 DEF OwnedAs, Phase
<1>7. x \notin ToSet(ie) \cup ToSet(ff)
  BY <1>5 DEF OwnedAs, Ledger
<1>8. ASSUME ~nested PROVE x = Len(input) /\ Before(ie, x) /\ Before(ff, x)
  <2>1. Before(ie, posted[1]) /\ Before(ff, posted[1])
    BY <1>2, <1>8 DEF OwnedAs, Ordered
  <2>2. posted = <<Len(input)>>
    BY <1>2, <1>8 DEF GoneInv
  <2> QED
    BY <1>5, <2>1, <2>2
<1>9. Takes(m)
  BY <1>2, <1>3, <1>5, <1>7, <1>8 DEF Takes
<1> QED
  BY <1>2, <1>6, <1>9

LEMMA StaysShared ==
  ASSUME NEW m, Takes(m), NEW i \in DOMAIN input
  PROVE  Shared(i)' <=> Shared(i)
BY DEF Takes, Shared

\* The message that comes next goes on with a run, and makes one of its own.
LEMMA Joins ==
  ASSUME HookType, NEW m, Takes(m), posted = << >>, NEW K \in Seq(Nat),
         K \in Seq(1..Len(input)), NEW L, L = Append(K, m.no)
  PROVE  /\ L \in Seq(Nat) /\ L # << >> /\ ToSet(L) = ToSet(K) \cup {m.no}
         /\ m.no \notin ToSet(K) /\ ToSet(K) \subseteq DOMAIN input
         /\ InSeq(K) => InSeq(L)
         /\ Run(K, Len(input)) => Run(L, Len(input'))
         /\ K # << >> => L[1] = K[1]
<1>1. /\ m.no = Len(input) + 1 /\ Len(input') = Len(input) + 1 /\ Len(input) \in Nat
      /\ DOMAIN input = 1..Len(input) /\ m.no \in Nat
  BY TypeIs DEF Takes, Message
<1>3. \A k \in DOMAIN K : K[k] \in 1..Len(input)
  BY <1>1
<1>4. Before(K, m.no) /\ m.no \notin ToSet(K) /\ ToSet(K) \subseteq DOMAIN input
  BY <1>1, <1>3 DEF Before, ToSet
<1>5. L \in Seq(Nat) /\ L # << >> /\ (K # << >> => L[1] = K[1])
  BY <1>1
<1>6. ToSet(L) = ToSet(K) \cup {m.no} /\ (InSeq(K) => InSeq(L))
  BY <1>1, <1>4, Appended
<1>7. Run(K, Len(input)) => Run(L, Len(input'))
  BY <1>1, RunGrows
<1> QED
  BY <1>4, <1>5, <1>6, <1>7

\* What the one who gets m has then.
LEMMA Gets ==
  ASSUME HookType, NEW m, Takes(m), ToOne(m)
  PROVE  /\ ToSet(ie') \cup ToSet(ff') = (ToSet(ie) \cup ToSet(ff)) \cup {m.no}
         /\ ToSet(ie') \cap ToSet(ff') = ToSet(ie) \cap ToSet(ff)
         /\ ~nested /\ InSeq(ie) /\ InSeq(ff) => InSeq(ie') /\ InSeq(ff')
         /\ ~nested /\ Whole => Whole'
<1>1. ie \in Seq(Nat) /\ ff \in Seq(Nat) /\ m.no \in Nat
  <2>1. m \in Message
    BY DEF Takes
  <2> QED
    BY <2>1, TypeIs DEF Message
<1>2. /\ ToSet(Append(ie, m.no)) = ToSet(ie) \cup {m.no}
      /\ ToSet(Append(ff, m.no)) = ToSet(ff) \cup {m.no}
      /\ InSeq(ie) /\ Before(ie, m.no) => InSeq(Append(ie, m.no))
      /\ InSeq(ff) /\ Before(ff, m.no) => InSeq(Append(ff, m.no))
  BY <1>1, Appended
<1>3. m.no \notin ToSet(ie) \cup ToSet(ff) /\ (~nested => Before(ie, m.no) /\ Before(ff, m.no))
  BY DEF Takes
<1>4. ASSUME Whole PROVE Whole'
  <2>1. \A k \in DOMAIN ff : ff[k] \in DOMAIN input /\ input'[ff[k]] = input[ff[k]]
    BY TypeIs DEF Takes
  <2>2. CASE ff' = ff
    BY <1>4, <2>1, <2>2 DEF Whole
  <2>3. CASE ff' = Append(ff, m.no) /\ m.ctrl
    <3>1. /\ DOMAIN ff' = DOMAIN ff \cup {Len(ff) + 1} /\ ff'[Len(ff) + 1] = m.no
          /\ \A k \in DOMAIN ff : ff'[k] = ff[k] /\ (k > 1 => k - 1 \in DOMAIN ff)
      BY <1>1, <2>3
    <3>2. input'[m.no].ctrl
      BY <2>3 DEF Takes
    <3> QED
      BY <1>4, <2>1, <3>1, <3>2 DEF Whole
  <2> QED
    BY <2>2, <2>3 DEF ToOne
<1> QED
  BY <1>2, <1>3, <1>4 DEF ToOne

LEMMA OwnRest ==
  ASSUME HookType, HookType', NEW m, Takes(m), Hook(m), Resting(hs), OwnedAs(<< >>),
         m.kind = "ldown" /\ LeftBegun(hs', <<m.no>>) => buttons'.l
  PROVE  \E L \in Seq(Nat) : OwnedAs(L)'
<1>1. /\ Proper(hs) /\ ie \in Seq(Nat) /\ ff \in Seq(Nat) /\ m \in Message
      /\ ToSet(ie) \subseteq DOMAIN input /\ ToSet(ff) \subseteq DOMAIN input
      /\ m.no \in Nat /\ m.at \in Places
  <2>1. m \in Message /\ Proper(hs)
    BY DEF Takes, HookType
  <2> QED
    BY <2>1, TypeIs DEF Message
<1>2. /\ sending = << >> /\ posted' = << >> /\ nested' = nested /\ ToSet(posted) \subseteq {m.no}
      /\ m.no \notin ToSet(ie) \cup ToSet(ff)
      /\ input'[m.no] = m /\ DOMAIN input' = DOMAIN input \cup {m.no}
      /\ ~nested => m.no = Len(input') /\ Before(ie, m.no) /\ Before(ff, m.no)
  BY DEF Takes
<1>3. /\ ToSet(<<m.no>>) = {m.no} /\ ToSet(<< >>) = {} /\ InSeq(<<m.no>>) /\ InSeq(<< >>)
      /\ << >> \in Seq(Nat) /\ <<m.no>> \in Seq(Nat) /\ <<m.no>> # << >> /\ <<m.no>>[1] = m.no
      /\ \A n \in Nat : Run(<< >>, n)
      /\ Run(<<m.no>>, m.no)
  <2>1. \A n \in Nat : Run(<< >>, n)
    BY DEF Run
  <2>2. << >> \in Seq(Nat)
    OBVIOUS
  <2> QED
    BY <1>1, <2>1, <2>2, Single
<1>4. /\ \A i \in DOMAIN input : i \in ToSet(ie) \cup ToSet(ff) \cup {m.no}
      /\ \A i \in ToSet(ie) \cap ToSet(ff) : Shared(i)
  BY <1>2, <1>3 DEF OwnedAs, Ledger
<1>5. ASSUME ~nested PROVE InSeq(ie) /\ InSeq(ff) /\ Whole
  BY <1>5 DEF OwnedAs, Ordered
<1>6. Len(input') \in Nat
  BY TypeIs DEF HookType
<1>7. CASE Resting(hs') /\ ToOne(m) /\ sending' = << >>
  <2>1. /\ ToSet(ie') \cup ToSet(ff') = (ToSet(ie) \cup ToSet(ff)) \cup {m.no}
        /\ ToSet(ie') \cap ToSet(ff') = ToSet(ie) \cap ToSet(ff)
        /\ ~nested /\ InSeq(ie) /\ InSeq(ff) => InSeq(ie') /\ InSeq(ff')
        /\ ~nested /\ Whole => Whole'
    BY <1>7, Gets
  <2>2. Ledger(<< >>)'
    BY <1>1, <1>2, <1>3, <1>4, <1>7, <2>1, StaysShared DEF Ledger
  <2>3. Phase(<< >>)'
    BY <1>7 DEF Phase
  <2>4. ~nested => Ordered(<< >>)'
    <3>1. ~Going(hs')
      BY <1>7 DEF Going, Resting
    <3> QED
      BY <1>2, <1>3, <1>5, <1>6, <1>7, <2>1, <3>1 DEF Ordered
  <2> QED
    BY <1>2, <1>3, <2>2, <2>3, <2>4 DEF OwnedAs
<1>8. CASE m.kind = "ldown" /\ LeftBegun(hs', <<m.no>>) /\ ie' = Append(ie, m.no) /\ ff' = ff /\ sending' = << >>
  <2>1. /\ ToSet(ie') \cup ToSet(ff') = (ToSet(ie) \cup ToSet(ff)) \cup {m.no}
        /\ ToSet(ie') \cap ToSet(ff') = ToSet(ie) \cap ToSet(ff)
        /\ ~nested /\ InSeq(ie) /\ InSeq(ff) => InSeq(ie') /\ InSeq(ff')
        /\ ~nested /\ Whole => Whole'
    BY <1>8, Gets DEF ToOne
  <2>2. Ledger(<<m.no>>)'
    BY <1>1, <1>2, <1>3, <1>4, <1>8, <2>1, StaysShared DEF Ledger
  <2>3. Phase(<<m.no>>)'
    <3>1. Shared(m.no)'
      BY <1>2, <1>8 DEF Shared, Takes
    <3>2. m.no \in ToSet(ie') /\ m.no \notin ToSet(ff')
      BY <1>1, <1>2, <1>8, Appended
    <3> QED
      BY <1>2, <1>3, <1>8, <3>1, <3>2 DEF Phase
  <2>4. ~nested => Ordered(<<m.no>>)'
    <3>1. ~Going(hs')
      BY <1>8 DEF Going, LeftBegun
    <3> QED
      BY <1>2, <1>3, <1>5, <1>6, <1>8, <2>1, <3>1 DEF Ordered
  <2> QED
    BY <1>2, <1>3, <2>2, <2>3, <2>4 DEF OwnedAs
<1>9. CASE m.kind = "rdown" /\ RightBegun(hs', <<m.no>>, m.at) /\ ie' = ie /\ ff' = ff /\ sending' = << >>
  <2>1. Ledger(<<m.no>>)'
    BY <1>1, <1>2, <1>3, <1>4, <1>9, StaysShared DEF Ledger
  <2>2. Phase(<<m.no>>)'
    BY <1>1, <1>2, <1>3, <1>9 DEF Phase
  <2>3. Whole => Whole'
    <3>1. \A k \in DOMAIN ff : ff[k] \in DOMAIN input /\ input'[ff[k]] = input[ff[k]]
      BY TypeIs DEF Takes
    <3> QED
      BY <1>9, <3>1 DEF Whole
  <2>4. ~nested => Ordered(<<m.no>>)'
    <3>1. ~Going(hs')
      BY <1>9 DEF Going, RightBegun, HookType, Proper
    <3> QED
      BY <1>2, <1>3, <1>5, <1>6, <1>9, <2>3, <3>1 DEF Ordered
  <2> QED
    BY <1>2, <1>3, <2>1, <2>2, <2>4 DEF OwnedAs
<1> QED
  BY <1>1, <1>3, <1>7, <1>8, <1>9, FromRest

\* Firefox gets a gesture, which has begun with a button that went down.
LEMMA GetsAll ==
  ASSUME HookType, NEW m, Takes(m), NEW L \in Seq(Nat), L # << >>, ff' = ff \o L,
         Run(L, Len(input')), Len(input') \in Nat, input'[L[1]].kind \in {"ldown", "rdown"}
  PROVE  /\ Whole => Whole'
         /\ ff' # << >> /\ ff'[Len(ff')] = Len(input')
<1>1. /\ \A k \in DOMAIN ff : ff[k] \in DOMAIN input /\ input'[ff[k]] = input[ff[k]]
      /\ ff \in Seq(Nat)
  BY TypeIs DEF Takes
<1>2. Len(L) \in Nat /\ Len(L) # 0 /\ DOMAIN L = 1..Len(L)
  BY EmptySeq
<1>3. /\ Len(ff) \in Nat /\ DOMAIN ff = 1..Len(ff) /\ Len(ff') = Len(ff) + Len(L)
      /\ \A k \in DOMAIN ff' : k \in 1..(Len(ff) + Len(L))
      /\ \A k \in 1..Len(ff) : ff'[k] = ff[k]
      /\ \A k \in 1..Len(L) : ff'[Len(ff) + k] = L[k]
  BY <1>1, <1>2
<1>4. \A k \in 1..Len(L) : L[k] = Len(input') - Len(L) + k
  BY <1>2 DEF Run
<1>5. ff'[Len(ff')] = Len(input')
  <2>1. Len(L) \in 1..Len(L)
    BY <1>2
  <2>2. ff'[Len(ff')] = L[Len(L)]
    BY <1>3, <2>1
  <2>3. L[Len(L)] = Len(input') - Len(L) + Len(L)
    BY <1>4, <2>1
  <2> QED
    BY <1>2, <2>2, <2>3
<1>6. ff' # << >>
  BY <1>1, <1>2, <1>3
<1>7. ASSUME Whole, NEW k \in DOMAIN ff'
      PROVE  \/ input'[ff'[k]].kind \in {"ldown", "rdown"} \/ input'[ff'[k]].ctrl
             \/ k > 1 /\ ff'[k - 1] = ff'[k] - 1
  <2>1. CASE k \in 1..Len(ff)
    <3>1. \/ input[ff[k]].kind \in {"ldown", "rdown"} \/ input[ff[k]].ctrl
          \/ k > 1 /\ ff[k - 1] = ff[k] - 1
      BY <1>3, <1>7, <2>1 DEF Whole
    <3>2. ff'[k] = ff[k] /\ input'[ff[k]] = input[ff[k]] /\ (k > 1 => ff'[k - 1] = ff[k - 1])
      BY <1>1, <1>3, <2>1
    <3> QED
      BY <3>1, <3>2
  <2>2. CASE k = Len(ff) + 1
    BY <1>2, <1>3, <2>2
  <2>3. CASE k \notin 1..Len(ff) /\ k # Len(ff) + 1
    <3>1. PICK j \in 2..Len(L) : k = Len(ff) + j
      <4>1. k - Len(ff) \in 2..Len(L) /\ k = Len(ff) + (k - Len(ff))
        BY <1>2, <1>3, <2>3
      <4> QED
        BY <4>1
    <3>2. k - 1 = Len(ff) + (j - 1) /\ j \in 1..Len(L) /\ j - 1 \in 1..Len(L) /\ k > 1
      BY <1>2, <1>3, <3>1
    <3>3. ff'[k] = L[j] /\ ff'[k - 1] = L[j - 1]
      BY <1>3, <3>1, <3>2
    <3>4. L[j - 1] = L[j] - 1
      BY <1>2, <1>4, <3>1, <3>2
    <3> QED
      BY <3>2, <3>3, <3>4
  <2> QED
    BY <2>1, <2>2, <2>3
<1> QED
  BY <1>5, <1>6, <1>7 DEF Whole

\* What the ledger, the phase and the order are after Firefox has got all of L = K \o <<m>>.
LEMMA OwnFires ==
  ASSUME HookType, HookType', NEW m, Takes(m), posted = << >>, NEW K \in Seq(Nat), OwnedAs(K), K # << >>,
         ToSet(K) \subseteq DOMAIN input, m.no \notin ToSet(K),
         NEW L \in Seq(Nat), L # << >>, ToSet(L) = ToSet(K) \cup {m.no},
         InSeq(K) => InSeq(L), Run(K, Len(input)) => Run(L, Len(input')), L[1] = K[1],
         sending' = << >>, Going(hs'), ie' = ie, ff' = ff \o L,
         \A g \in Handlers : ToSet(hs'[g].held) \subseteq ToSet(L),
         \A i \in ToSet(K) : i \in ToSet(ie) => Shared(i)
  PROVE  OwnedAs(<< >>)'
<1>1. /\ ie \in Seq(Nat) /\ ff \in Seq(Nat) /\ Len(input') \in Nat
      /\ ToSet(ie) \subseteq DOMAIN input /\ ToSet(ff) \subseteq DOMAIN input
  BY TypeIs, SMTT(30) DEF HookType
<1>2. /\ sending = << >> /\ posted' = << >> /\ nested' = nested
      /\ m.no \notin ToSet(ie) \cup ToSet(ff)
      /\ DOMAIN input' = DOMAIN input \cup {m.no}
  BY DEF Takes
<1>3. ToSet(<< >>) = {} /\ InSeq(<< >>) /\ \A n \in Nat : Run(<< >>, n)
  BY DEF ToSet, InSeq, Run
<1>4. /\ ToSet(ff') = ToSet(ff) \cup ToSet(L)
      /\ InSeq(ff) /\ InSeq(L) /\ Before(ff, L[1]) => InSeq(ff')
  BY <1>1, Joined
<1>5. /\ \A i \in DOMAIN input : i \in ToSet(ie) \cup ToSet(ff) \cup ToSet(K)
      /\ \A i \in ToSet(ie) \cap ToSet(ff) : Shared(i)
      /\ InSeq(K)
  BY <1>2, <1>3 DEF OwnedAs, Ledger
<1>6. Ledger(<< >>)'
  <2>1. \A i \in DOMAIN input' : i \in ToSet(ie') \cup ToSet(ff')
    BY <1>2, <1>4, <1>5
  <2>2. ASSUME NEW i \in ToSet(ie') \cap ToSet(ff') PROVE Shared(i)'
    <3>1. i \in DOMAIN input /\ Shared(i)
      BY <1>1, <1>2, <1>4, <1>5, <2>2
    <3> QED
      BY <3>1, StaysShared
  <2> QED
    BY <1>2, <1>3, <2>1, <2>2 DEF Ledger
<1>7. Phase(<< >>)'
  BY <1>2, <1>4 DEF Phase
<1>8. ASSUME ~nested PROVE Ordered(<< >>)'
  <2>1. /\ InSeq(ie) /\ InSeq(ff) /\ Whole /\ Run(K, Len(input)) /\ Before(ff, K[1])
        /\ input[K[1]].kind \in {"ldown", "rdown"}
    BY <1>8 DEF OwnedAs, Ordered
  <2>2. K[1] \in DOMAIN input /\ input'[K[1]] = input[K[1]]
    <3>1. K[1] \in ToSet(K)
      BY EmptySeq DEF ToSet
    <3> QED
      BY <3>1 DEF Takes
  <2>3. InSeq(ff') /\ Run(L, Len(input'))
    BY <1>4, <1>5, <2>1
  <2>4. Whole' /\ ff' # << >> /\ ff'[Len(ff')] = Len(input')
    BY <1>1, <2>1, <2>2, <2>3, GetsAll
  <2> QED
    BY <1>1, <1>2, <1>3, <2>1, <2>3, <2>4 DEF Ordered
<1> QED
  BY <1>2, <1>6, <1>7, <1>8 DEF OwnedAs

LEMMA OwnLeft ==
  ASSUME HookType, HookType', NEW m, Takes(m), Hook(m), posted = << >>, NEW K \in Seq(Nat), OwnedAs(K),
         LeftBegun(hs, K), m.kind # "ldown", m.kind = "rdown" => m.l, m.l = buttons'.l
  PROVE  \E L \in Seq(Nat) : OwnedAs(L)'
<1>1. /\ Proper(hs) /\ Known(hs, Len(input)) /\ ie \in Seq(Nat) /\ ff \in Seq(Nat) /\ m \in Message
      /\ ToSet(ie) \subseteq DOMAIN input /\ ToSet(ff) \subseteq DOMAIN input
      /\ m.no \in Nat /\ "rocker" \in Handlers /\ hs["rocker"].held = K /\ Len(input') \in Nat
  <2>1. m \in Message /\ Proper(hs) /\ Known(hs, Len(input)) /\ hs["rocker"].held = K
    BY DEF Takes, HookType, LeftBegun
  <2> QED
    BY <2>1, TypeIs, SMTT(30) DEF Message, Handlers, HookType
<1>2. /\ sending = << >> /\ posted' = << >> /\ nested' = nested
      /\ m.no \notin ToSet(ie) \cup ToSet(ff)
      /\ input'[m.no] = m /\ DOMAIN input' = DOMAIN input \cup {m.no}
      /\ ~nested => m.no = Len(input') /\ Before(ie, m.no) /\ Before(ff, m.no)
  BY DEF Takes
<1>3. PICK L \in Seq(Nat) : L = Append(K, m.no)
  <2>1. Append(K, m.no) \in Seq(Nat)
    BY <1>1
  <2> QED
    BY <2>1, Zenon
<1>4. /\ L # << >> /\ ToSet(L) = ToSet(K) \cup {m.no}
      /\ m.no \notin ToSet(K) /\ ToSet(K) \subseteq DOMAIN input
      /\ InSeq(K) => InSeq(L)
      /\ Run(K, Len(input)) => Run(L, Len(input'))
      /\ K # << >> => L[1] = K[1]
  <2>1. K \in Seq(1..Len(input))
    BY <1>1 DEF Known
  <2>2. L # << >> /\ ToSet(L) = ToSet(K) \cup {m.no}
    BY <1>3, <2>1, Joins
  <2>3. m.no \notin ToSet(K) /\ ToSet(K) \subseteq DOMAIN input
    BY <1>3, <2>1, Joins
  <2>4. InSeq(K) => InSeq(L)
    BY <1>3, <2>1, Joins
  <2>5. Run(K, Len(input)) => Run(L, Len(input'))
    BY <1>3, <2>1, Joins
  <2>6. K # << >> => L[1] = K[1]
    BY <1>3, <2>1, Joins
  <2> QED
    BY <2>2, <2>3, <2>4, <2>5, <2>6
<1>5. /\ ToSet(<< >>) = {} /\ InSeq(<< >>) /\ (\A n \in Nat : Run(<< >>, n))
      /\ << >> \in Seq(Nat)
  <2>1. ToSet(<< >>) = {} /\ InSeq(<< >>) /\ \A n \in Nat : Run(<< >>, n)
    BY DEF ToSet, InSeq, Run
  <2> QED
    BY <2>1
<1>6. K # << >> /\ \A i \in ToSet(K) : i \in ToSet(ie) /\ i \notin ToSet(ff) /\ Shared(i)
  <2>1. ~Resting(hs) /\ ~Going(hs) /\ \A p : ~RightBegun(hs, K, p)
    BY <1>1 DEF Resting, Going, RightBegun, LeftBegun, Proper
  <2> QED
    BY <2>1 DEF OwnedAs, Phase
<1>7. /\ \A i \in DOMAIN input : i \in ToSet(ie) \cup ToSet(ff)
      /\ \A i \in ToSet(ie) \cap ToSet(ff) : Shared(i)
      /\ InSeq(K)
  <2>1. ToSet(posted) = {} /\ ToSet(sending) = {}
    BY <1>2, <1>5
  <2> QED
    BY <1>6, <2>1 DEF OwnedAs, Ledger
<1>8. ASSUME ~nested
      PROVE  /\ InSeq(ie) /\ InSeq(ff) /\ Whole /\ Run(K, Len(input))
             /\ input[K[1]].kind \in {"ldown", "rdown"} /\ Before(ff, K[1])
  BY <1>6, <1>8 DEF OwnedAs, Ordered
<1>9. K[1] \in DOMAIN input /\ input'[K[1]] = input[K[1]]
  <2>1. K[1] \in ToSet(K)
    BY <1>6, EmptySeq DEF ToSet
  <2> QED
    BY <1>4, <2>1 DEF Takes
<1>10. ASSUME ToOne(m)
       PROVE  /\ ToSet(ie') \cup ToSet(ff') = (ToSet(ie) \cup ToSet(ff)) \cup {m.no}
              /\ ToSet(ie') \cap ToSet(ff') = ToSet(ie) \cap ToSet(ff)
              /\ ~nested /\ InSeq(ie) /\ InSeq(ff) => InSeq(ie') /\ InSeq(ff')
              /\ ~nested /\ Whole => Whole'
              /\ \A i \in DOMAIN input' : i \in ToSet(ie') \cup ToSet(ff')
              /\ \A i \in ToSet(ie') \cap ToSet(ff') : Shared(i)'
  <2>1. /\ ToSet(ie') \cup ToSet(ff') = (ToSet(ie) \cup ToSet(ff)) \cup {m.no}
        /\ ToSet(ie') \cap ToSet(ff') = ToSet(ie) \cap ToSet(ff)
        /\ ~nested /\ InSeq(ie) /\ InSeq(ff) => InSeq(ie') /\ InSeq(ff')
        /\ ~nested /\ Whole => Whole'
    BY <1>10, Gets
  <2> QED
    BY <1>1, <1>2, <1>7, <2>1, StaysShared
<1>11. CASE Resting(hs') /\ ToOne(m) /\ sending' = << >>
  <2>1. Ledger(<< >>)' /\ Phase(<< >>)'
    BY <1>2, <1>5, <1>10, <1>11 DEF Ledger, Phase
  <2>2. ~nested => Ordered(<< >>)'
    <3>1. ~Going(hs')
      BY <1>11 DEF Going, Resting
    <3> QED
      BY <1>1, <1>2, <1>5, <1>8, <1>10, <1>11, <3>1 DEF Ordered
  <2> QED
    BY <1>2, <1>5, <2>1, <2>2 DEF OwnedAs
<1>12. CASE /\ m.kind = "move" /\ m.l /\ LeftBegun(hs', L)
            /\ ie' = Append(ie, m.no) /\ ff' = ff /\ sending' = << >>
  <2>1. ToOne(m)
    BY <1>12 DEF ToOne
  <2>2. Ledger(L)'
    BY <1>2, <1>4, <1>5, <1>7, <1>10, <1>12, <2>1 DEF Ledger
  <2>3. Phase(L)'
    <3>1. Shared(m.no)'
      BY <1>2, <1>12 DEF Shared
    <3>2. ToSet(ie') = ToSet(ie) \cup {m.no}
      BY <1>1, <1>12, Appended
    <3>3. \A i \in ToSet(L) : i \in ToSet(ie') /\ i \notin ToSet(ff') /\ Shared(i)'
      BY <1>2, <1>4, <1>6, <1>12, <3>1, <3>2, StaysShared
    <3> QED
      BY <1>2, <1>4, <1>12, <3>3 DEF Phase
  <2>4. ~nested => Ordered(L)'
    <3>1. ~Going(hs')
      BY <1>12 DEF Going, LeftBegun
    <3> QED
      BY <1>1, <1>2, <1>4, <1>5, <1>6, <1>8, <1>9, <1>10, <1>12, <2>1, <3>1 DEF Ordered
  <2> QED
    BY <1>2, <2>2, <2>3, <2>4 DEF OwnedAs
<1>13. CASE /\ Going(hs') /\ ie' = ie /\ ff' = ff \o L /\ sending' = << >>
            /\ \A g \in Handlers : hs'[g].held \in {<< >>, <<m.no>>}
  <2>1. \A g \in Handlers : ToSet(hs'[g].held) \subseteq ToSet(L)
    <3>1. ToSet(<<m.no>>) = {m.no}
      BY <1>1, Single
    <3> QED
      BY <1>4, <1>5, <1>13, <3>1
  <2>2. OwnedAs(<< >>)'
    BY <1>4, <1>6, <1>13, <2>1, OwnFires
  <2> QED
    BY <1>5, <2>2
<1> QED
  BY <1>1, <1>3, <1>11, <1>12, <1>13, FromLeft

LEMMA OwnGoing ==
  ASSUME HookType, HookType', NEW m, Takes(m), Hook(m), posted = << >>, NEW K \in Seq(Nat), OwnedAs(K), Going(hs)
  PROVE  \E L \in Seq(Nat) : OwnedAs(L)'
<1>1. /\ Proper(hs) /\ ie \in Seq(Nat) /\ ff \in Seq(Nat) /\ m \in Message
      /\ ToSet(ie) \subseteq DOMAIN input /\ ToSet(ff) \subseteq DOMAIN input
      /\ m.no \in Nat /\ Len(input) \in Nat /\ Len(input') \in Nat
  <2>1. m \in Message /\ Proper(hs) /\ Len(input') \in Nat
    BY DEF Takes, HookType
  <2> QED
    BY <2>1, TypeIs DEF Message
<1>2. /\ sending = << >> /\ posted' = << >> /\ nested' = nested
      /\ m.no \notin ToSet(ie) \cup ToSet(ff)
      /\ input'[m.no] = m /\ DOMAIN input' = DOMAIN input \cup {m.no}
      /\ ~nested => m.no = Len(input') /\ Before(ie, m.no) /\ Before(ff, m.no)
      /\ m.no = Len(input) + 1
  BY DEF Takes
<1>3. /\ ToSet(<< >>) = {} /\ InSeq(<< >>) /\ (\A n \in Nat : Run(<< >>, n))
      /\ << >> \in Seq(Nat)
  <2>1. ToSet(<< >>) = {} /\ InSeq(<< >>) /\ \A n \in Nat : Run(<< >>, n)
    BY DEF ToSet, InSeq, Run
  <2> QED
    BY <2>1
<1>4. K = << >> /\ \A g \in Handlers : ToSet(hs[g].held) \subseteq ToSet(ff)
  <2>1. ~Resting(hs) /\ ~LeftBegun(hs, K) /\ \A p : ~RightBegun(hs, K, p)
    BY <1>1 DEF Resting, Going, RightBegun, LeftBegun, Proper
  <2> QED
    BY <2>1 DEF OwnedAs, Phase
<1>5. /\ \A i \in DOMAIN input : i \in ToSet(ie) \cup ToSet(ff)
      /\ \A i \in ToSet(ie) \cap ToSet(ff) : Shared(i)
  BY <1>2, <1>3, <1>4 DEF OwnedAs, Ledger
<1>6. ASSUME ~nested
      PROVE  InSeq(ie) /\ InSeq(ff) /\ Whole /\ ff # << >> /\ ff[Len(ff)] = Len(input)
  BY <1>6 DEF OwnedAs, Ordered
<1>7. /\ ff' = Append(ff, m.no) /\ sending' = << >> /\ ie' = ie
      /\ hs' = hs \/ hs' = [g \in Handlers |-> Reset(hs[g])]
  BY <1>1, <1>2, WhileGoing
<1>8. /\ ToSet(ff') = ToSet(ff) \cup {m.no}
      /\ InSeq(ff) /\ Before(ff, m.no) => InSeq(ff')
  BY <1>1, <1>7, Appended
<1>9. Ledger(<< >>)'
  <2>1. \A i \in DOMAIN input' : i \in ToSet(ie') \cup ToSet(ff')
    BY <1>2, <1>5, <1>7, <1>8
  <2>2. \A i \in ToSet(ie') \cap ToSet(ff') : Shared(i)'
    BY <1>1, <1>2, <1>5, <1>7, <1>8, StaysShared
  <2> QED
    BY <1>2, <1>3, <1>7, <2>1, <2>2 DEF Ledger
<1>10. Phase(<< >>)'
  <2>1. CASE hs' = hs
    <3>1. \A g \in Handlers : ToSet(hs'[g].held) \subseteq ToSet(ff')
      BY <1>4, <1>8, <2>1
    <3> QED
      BY <1>2, <1>7, <2>1, <3>1 DEF Phase
  <2>2. CASE hs' = [g \in Handlers |-> Reset(hs[g])]
    <3>1. Resting(hs')
      BY <1>1, <2>2, ResetAllIs
    <3> QED
      BY <3>1 DEF Phase
  <2> QED
    BY <1>7, <2>1, <2>2
<1>11. ASSUME ~nested PROVE Ordered(<< >>)'
  <2>1. /\ Len(ff) \in Nat /\ Len(ff) # 0 /\ DOMAIN ff = 1..Len(ff)
    BY <1>1, <1>6, <1>11, EmptySeq
  <2>2. /\ DOMAIN ff' = 1..(Len(ff) + 1) /\ Len(ff') = Len(ff) + 1 /\ ff'[Len(ff) + 1] = m.no
        /\ \A k \in 1..Len(ff) : ff'[k] = ff[k] /\ (k > 1 => k - 1 \in 1..Len(ff))
    BY <1>1, <1>7, <2>1
  <2>3. Whole'
    <3>1. \A k \in DOMAIN ff : ff[k] \in DOMAIN input /\ input'[ff[k]] = input[ff[k]]
      BY TypeIs DEF Takes
    <3>2. ff'[Len(ff)] = ff'[Len(ff) + 1] - 1 /\ Len(ff) + 1 > 1 /\ (Len(ff) + 1) - 1 = Len(ff)
      BY <1>1, <1>2, <1>6, <1>11, <2>1, <2>2
    <3>3. \A k \in 1..Len(ff) : \/ input'[ff'[k]].kind \in {"ldown", "rdown"} \/ input'[ff'[k]].ctrl
                                \/ k > 1 /\ ff'[k - 1] = ff'[k] - 1
      BY <1>6, <1>11, <2>1, <2>2, <3>1 DEF Whole
    <3>4. \A k \in DOMAIN ff' : k \in 1..Len(ff) \/ k = Len(ff) + 1
      BY <2>1, <2>2
    <3> QED
      BY <3>2, <3>3, <3>4 DEF Whole
  <2>4. ff' # << >> /\ ff'[Len(ff')] = Len(input')
    BY <1>1, <1>2, <1>7, <1>11, <2>2, SMTT(30)
  <2> QED
    BY <1>1, <1>2, <1>3, <1>6, <1>7, <1>8, <1>11, <2>3, <2>4 DEF Ordered
<1> QED
  BY <1>2, <1>3, <1>9, <1>10, <1>11 DEF OwnedAs

LEMMA OwnRight ==
  ASSUME HookType, HookType', NEW m, Takes(m), Hook(m), posted = << >>, NEW K \in Seq(Nat), OwnedAs(K),
         NEW p \in Places, RightBegun(hs, K, p)
  PROVE  \E L \in Seq(Nat) : OwnedAs(L)'
<1>1. /\ Proper(hs) /\ Known(hs, Len(input)) /\ ie \in Seq(Nat) /\ ff \in Seq(Nat) /\ m \in Message
      /\ ToSet(ie) \subseteq DOMAIN input /\ ToSet(ff) \subseteq DOMAIN input
      /\ m.no \in Nat /\ Len(input') \in Nat /\ \E g \in Handlers : hs[g].held = K
  <2>1. /\ m \in Message /\ Proper(hs) /\ Known(hs, Len(input)) /\ Len(input') \in Nat
        /\ \E g \in Handlers : hs[g].held = K
    BY DEF Takes, HookType, RightBegun
  <2> QED
    BY <2>1, TypeIs DEF Message
<1>2. /\ sending = << >> /\ posted' = << >> /\ nested' = nested
      /\ m.no \notin ToSet(ie) \cup ToSet(ff)
      /\ input'[m.no] = m /\ DOMAIN input' = DOMAIN input \cup {m.no}
      /\ ~nested => m.no = Len(input') /\ Before(ie, m.no) /\ Before(ff, m.no)
  BY DEF Takes
<1>3. PICK L \in Seq(Nat) : L = Append(K, m.no)
  <2>1. Append(K, m.no) \in Seq(Nat)
    BY <1>1
  <2> QED
    BY <2>1, Zenon
<1>4. /\ L # << >> /\ ToSet(L) = ToSet(K) \cup {m.no}
      /\ m.no \notin ToSet(K) /\ ToSet(K) \subseteq DOMAIN input
      /\ InSeq(K) => InSeq(L)
      /\ Run(K, Len(input)) => Run(L, Len(input'))
      /\ K # << >> => L[1] = K[1]
  <2>1. K \in Seq(1..Len(input))
    BY <1>1 DEF Known
  <2> QED
    BY <1>3, <2>1, Joins
<1>5. /\ ToSet(<< >>) = {} /\ InSeq(<< >>) /\ (\A n \in Nat : Run(<< >>, n))
      /\ << >> \in Seq(Nat)
  <2>1. ToSet(<< >>) = {} /\ InSeq(<< >>) /\ \A n \in Nat : Run(<< >>, n)
    BY DEF ToSet, InSeq, Run
  <2> QED
    BY <2>1
<1>6. K # << >> /\ \A i \in ToSet(K) : i \notin ToSet(ie) \cup ToSet(ff)
  <2>1. ~Resting(hs) /\ ~Going(hs) /\ ~LeftBegun(hs, K)
    <3>1. PICK g \in Handlers : hs[g].enabled
      BY DEF RightBegun
    <3>2. hs[g].state = "initiated" /\ ~hs[g].left
      BY <3>1 DEF RightBegun
    <3> QED
      BY <1>1, <3>1, <3>2 DEF Resting, Going, RightBegun, LeftBegun, Proper
  <2> QED
    BY <2>1 DEF OwnedAs, Phase
<1>7. /\ \A i \in DOMAIN input : i \in ToSet(ie) \cup ToSet(ff) \cup ToSet(K)
      /\ \A i \in ToSet(ie) \cap ToSet(ff) : Shared(i)
      /\ InSeq(K)
  <2>1. ToSet(posted) = {} /\ ToSet(sending) = {}
    BY <1>2, <1>5
  <2> QED
    BY <2>1 DEF OwnedAs, Ledger
<1>8. ASSUME ~nested
      PROVE  /\ InSeq(ie) /\ InSeq(ff) /\ Whole /\ Run(K, Len(input))
             /\ input[K[1]].kind \in {"ldown", "rdown"} /\ Before(ff, K[1]) /\ Before(ie, K[1])
  <2>1. ~LeftBegun(hs, K)
    <3>1. PICK g \in Handlers : hs[g].enabled
      BY DEF RightBegun
    <3> QED
      BY <1>1, <3>1 DEF RightBegun, LeftBegun, Proper
  <2> QED
    BY <1>6, <1>8, <2>1 DEF OwnedAs, Ordered
<1>9. K[1] \in DOMAIN input /\ input'[K[1]] = input[K[1]]
  <2>1. K[1] \in ToSet(K)
    BY <1>6, EmptySeq DEF ToSet
  <2> QED
    BY <1>4, <2>1 DEF Takes
<1>10. ASSUME ff' = ff PROVE Whole => Whole'
  <2>1. \A k \in DOMAIN ff : ff[k] \in DOMAIN input /\ input'[ff[k]] = input[ff[k]]
    BY TypeIs DEF Takes
  <2> QED
    BY <1>10, <2>1 DEF Whole
<1>11. CASE sending' = << >> /\ RightBegun(hs', L, p) /\ ie' = ie /\ ff' = ff
  <2>1. Ledger(L)'
    <3>1. \A i \in ToSet(ie') \cap ToSet(ff') : Shared(i)'
      BY <1>1, <1>7, <1>11, StaysShared
    <3> QED
      BY <1>2, <1>4, <1>5, <1>7, <1>11, <3>1 DEF Ledger
  <2>2. Phase(L)'
    BY <1>2, <1>4, <1>6, <1>11 DEF Phase
  <2>3. ~nested => Ordered(L)'
    <3>1. ~Going(hs')
      BY <1>11 DEF Going, RightBegun, HookType, Proper
    <3> QED
      BY <1>2, <1>4, <1>5, <1>6, <1>8, <1>9, <1>10, <1>11, <3>1 DEF Ordered
  <2> QED
    BY <1>2, <2>1, <2>2, <2>3 DEF OwnedAs
<1>12. CASE /\ sending' = << >> /\ Going(hs') /\ ie' = ie /\ ff' = ff \o L
            /\ \A g \in Handlers : hs'[g].held \in {<< >>, K, L}
  <2>1. \A g \in Handlers : ToSet(hs'[g].held) \subseteq ToSet(L)
    BY <1>4, <1>5, <1>12
  <2>2. OwnedAs(<< >>)'
    BY <1>4, <1>6, <1>12, <2>1, OwnFires
  <2> QED
    BY <1>5, <2>2
<1>13. CASE /\ Resting(hs') /\ ff' = ff /\ ie' = Append(ie, Head(L)) /\ sending' = Tail(L)
  <2>1. /\ ToSet(L) = {Head(L)} \cup ToSet(Tail(L)) /\ Head(L) = L[1] /\ Head(L) \in Nat
        /\ Tail(L) \in Seq(Nat)
        /\ InSeq(L) => InSeq(Tail(L)) /\ Head(L) \notin ToSet(Tail(L))
        /\ InSeq(L) /\ Tail(L) # << >> => Head(L) < Tail(L)[1]
        /\ Run(L, Len(input')) => Run(Tail(L), Len(input'))
    BY <1>1, <1>4, HeadAndTail
  <2>2. PICK x \in Nat : x = Head(L)
    BY <2>1
  <2>3. PICK T \in Seq(Nat) : T = Tail(L)
    BY <2>1
  <2>4. /\ ToSet(L) = {x} \cup ToSet(T) /\ x = K[1] /\ ie' = Append(ie, x) /\ sending' = T
        /\ InSeq(T) /\ x \notin ToSet(T) /\ (T # << >> => x < T[1])
        /\ Run(L, Len(input')) => Run(T, Len(input'))
    BY <1>4, <1>6, <1>7, <1>13, <2>1, <2>2, <2>3
  <2>5. /\ ToSet(ie') = ToSet(ie) \cup {x}
        /\ InSeq(ie) /\ Before(ie, x) => InSeq(ie')
        /\ \A y : Before(ie, x) /\ Before(ie, y) /\ x < y => Before(ie', y)
    BY <1>1, <2>4, Appended
  <2>6. x \notin ToSet(ff)
    BY <1>2, <1>4, <1>6, <2>4
  <2>7. Ledger(<< >>)'
    <3>1. \A i \in DOMAIN input' : i \in ToSet(ie') \cup ToSet(ff') \cup ToSet(sending')
      BY <1>2, <1>4, <1>7, <1>13, <2>4, <2>5
    <3>2. \A i \in ToSet(ie') \cap ToSet(ff') : i \in DOMAIN input /\ Shared(i)
      BY <1>1, <1>7, <1>13, <2>5, <2>6
    <3>3. \A i \in ToSet(sending') : i \notin ToSet(ie') \cup ToSet(ff')
      BY <1>2, <1>4, <1>6, <1>13, <2>4, <2>5
    <3> QED
      BY <1>2, <1>5, <2>4, <3>1, <3>2, <3>3, StaysShared DEF Ledger
  <2>8. Phase(<< >>)'
    BY <1>13 DEF Phase
  <2>9. ASSUME ~nested PROVE Ordered(<< >>)'
    <3>1. ~Going(hs')
      BY <1>13 DEF Going, Resting
    <3>2. ASSUME T # << >> PROVE Before(ie', T[1]) /\ Before(ff', T[1])
      <4>1. x < T[1] /\ T[1] \in Nat
        BY <2>4, <3>2, EmptySeq
      <4>2. /\ \A k \in DOMAIN ie : ie[k] < x /\ ie[k] \in Nat
            /\ \A k \in DOMAIN ff : ff[k] < x /\ ff[k] \in Nat
        <5>1. (\A k \in DOMAIN ie : ie[k] \in Nat) /\ \A k \in DOMAIN ff : ff[k] \in Nat
          BY <1>1
        <5> QED
          BY <1>8, <2>4, <2>9, <5>1 DEF Before
      <4>3. Before(ie, T[1]) /\ Before(ff, T[1])
        BY <4>1, <4>2 DEF Before
      <4> QED
        BY <1>8, <1>13, <2>4, <2>5, <2>9, <4>1, <4>3
    <3>3. /\ InSeq(ie') /\ InSeq(ff') /\ Whole'
          /\ Run(<< >>, Len(input')) /\ Run(sending', Len(input'))
      BY <1>1, <1>4, <1>5, <1>8, <1>10, <1>13, <2>4, <2>5, <2>9
    <3>4. sending' # << >> => Before(ie', sending'[1]) /\ Before(ff', sending'[1])
      BY <2>4, <3>2
    <3> QED
      BY <1>2, <3>1, <3>3, <3>4 DEF Ordered
  <2> QED
    BY <1>2, <1>5, <2>7, <2>8, <2>9 DEF OwnedAs
<1> QED
  BY <1>1, <1>3, <1>11, <1>12, <1>13, FromRight

LEMMA NothingHeld ==
  /\ ToSet(<< >>) = {} /\ InSeq(<< >>) /\ << >> \in Seq(Nat)
  /\ \A n \in Nat : Run(<< >>, n)
<1>1. << >> \in Seq(Nat)
  OBVIOUS
<1> QED
  BY <1>1 DEF ToSet, InSeq, Run

LEMMA OwnInit == HookInit => OwnInv
<1> SUFFICES ASSUME HookInit PROVE OwnInv
  OBVIOUS
<1>1. GoneInv
  BY GoneInit
<1>2. /\ input = << >> /\ posted = << >> /\ sending = << >> /\ ie = << >> /\ ff = << >>
      /\ DOMAIN input = {} /\ Len(input) = 0
  BY DEF HookInit
<1>3. Resting(hs)
  BY DEF HookInit, Resting, Fresh
<1>4. ~Going(hs)
  BY <1>3 DEF Going, Resting
<1>5. Ledger(<< >>) /\ Phase(<< >>)
  BY <1>2, <1>3, NothingHeld DEF Ledger, Phase
<1>6. Whole
  BY <1>2 DEF Whole
<1>7. Ordered(<< >>)
  BY <1>2, <1>4, <1>6, NothingHeld DEF Ordered
<1> QED
  BY <1>1, <1>5, <1>7, NothingHeld DEF OwnInv, OwnedAs

LEMMA OwnMouse ==
  ASSUME OwnInv, NEW type \in Kinds, NEW ctrl \in BOOLEAN, Mouse(type, ctrl)
  PROVE  OwnInv'
<1>1. GoneInv /\ GoneInv' /\ HookType /\ HookType'
  BY GoneMouse DEF OwnInv, GoneInv
<1>2. CASE odd
  BY <1>1, <1>2 DEF OwnInv, Mouse
<1>3. CASE ~odd
  <2>1. PICK K \in Seq(Nat) : OwnedAs(K)
    BY <1>3 DEF OwnInv
  <2>2. CASE Quiet
    <3>1. PICK m : /\ Takes(m) /\ Hook(m) /\ posted = << >>
                   /\ m.kind = type /\ m.l = buttons'.l /\ m.r = buttons'.r /\ m.at \in Places
                   /\ Pressed(type) /\ odd' = odd
      BY <1>1, <2>2, MouseTakes
    <3>2. CASE Resting(hs) /\ K = << >>
      <4>1. m.kind = "ldown" => buttons'.l
        BY <3>1 DEF Takes
      <4>2. \E L \in Seq(Nat) : OwnedAs(L)'
        BY <1>1, <2>1, <3>1, <3>2, <4>1, OwnRest
      <4> QED
        BY <1>1, <4>2 DEF OwnInv
    <3>3. CASE LeftBegun(hs, K) /\ buttons.l
      <4>1. buttons \in [l : BOOLEAN, r : BOOLEAN, at : Places]
        BY <1>1 DEF HookType
      <4>2. m.kind # "ldown" /\ (m.kind = "rdown" => m.l)
        BY <3>1, <3>3, <4>1 DEF Pressed
      <4>3. \E L \in Seq(Nat) : OwnedAs(L)'
        BY <1>1, <2>1, <3>1, <3>3, <4>2, OwnLeft
      <4> QED
        BY <1>1, <4>3 DEF OwnInv
    <3>4. CASE \E p \in Places : RightBegun(hs, K, p)
      <4>1. \E L \in Seq(Nat) : OwnedAs(L)'
        BY <1>1, <2>1, <3>1, <3>4, OwnRight
      <4> QED
        BY <1>1, <4>1 DEF OwnInv
    <3>5. CASE Going(hs)
      <4>1. \E L \in Seq(Nat) : OwnedAs(L)'
        BY <1>1, <2>1, <3>1, <3>5, OwnGoing
      <4> QED
        BY <1>1, <4>1 DEF OwnInv
    <3> QED
      BY <2>1, <3>2, <3>3, <3>4, <3>5 DEF OwnedAs, Phase
  <2>3. CASE ~Quiet
    <3>1. PICK m : m = [no |-> Len(input) + 1, kind |-> type, ctrl |-> ctrl,
                        l |-> buttons'.l, r |-> buttons'.r, at |-> buttons'.at]
      OBVIOUS
    <3>2. /\ sending # << >> /\ Pressed(type) /\ input' = Append(input, m)
          /\ ie' = Append(ie, m.no) /\ nested' = TRUE /\ UNCHANGED <<hs, sending, ff, posted, odd>>
      BY <2>3, <3>1 DEF Mouse, Quiet
    <3>3. m \in Message /\ m.no = Len(input) + 1 /\ m.no \in Nat
      BY <1>1, <3>1, <3>2, NewMessage DEF Message
    <3>4. /\ DOMAIN input' = DOMAIN input \cup {m.no} /\ m.no \notin DOMAIN input
          /\ \A i \in DOMAIN input : input'[i] = input[i]
      BY <1>1, <3>2, <3>3, InputGrows
    <3>5. Resting(hs) /\ K = << >>
      BY <2>1, <3>2 DEF OwnedAs, Phase
    <3>6. /\ ToSet(ie) \subseteq DOMAIN input /\ ToSet(ff) \subseteq DOMAIN input
          /\ ie \in Seq(Nat)
      BY <1>1, TypeIs
    <3>7. ToSet(ie') = ToSet(ie) \cup {m.no}
      BY <3>2, <3>3, <3>6, Appended
    <3>8. \A i \in ToSet(posted) \cup ToSet(sending) : i \in DOMAIN input
      <4>1. \A n \in Nat : \A q \in Seq(1..n) : ToSet(q) \subseteq 1..n
        BY DEF ToSet
      <4>2. posted \in Seq(1..Len(input)) /\ sending \in Seq(1..Len(input))
            /\ Len(input) \in Nat /\ DOMAIN input = 1..Len(input)
        BY <1>1 DEF HookType
      <4> QED
        BY <4>1, <4>2
    <3>9. Ledger(<< >>)'
      <4>1. /\ \A i \in DOMAIN input : i \in ToSet(ie) \cup ToSet(ff) \cup ToSet(posted) \cup ToSet(sending)
            /\ \A i \in ToSet(ie) \cap ToSet(ff) : Shared(i)
            /\ \A i \in ToSet(posted) \cup ToSet(sending) : i \notin ToSet(ie) \cup ToSet(ff)
            /\ InSeq(sending)
        BY <2>1, <3>5, NothingHeld DEF OwnedAs, Ledger
      <4>2. \A i \in ToSet(ie') \cap ToSet(ff') : i \in DOMAIN input /\ Shared(i)
        BY <3>2, <3>4, <3>6, <3>7, <4>1
      <4>3. \A i \in DOMAIN input : Shared(i)' <=> Shared(i)
        BY <3>4 DEF Shared
      <4>4. \A i \in ToSet(posted') \cup ToSet(sending') : i \notin ToSet(ie') \cup ToSet(ff')
        BY <3>2, <3>4, <3>7, <3>8, <4>1
      <4>5. \A i \in DOMAIN input' : i \in ToSet(ie') \cup ToSet(ff') \cup ToSet(posted') \cup ToSet(sending')
        BY <3>2, <3>4, <3>7, <4>1
      <4> QED
        BY <3>2, <4>1, <4>2, <4>3, <4>4, <4>5, NothingHeld DEF Ledger
    <3>10. Phase(<< >>)'
      BY <3>2, <3>5 DEF Phase
    <3>11. OwnedAs(<< >>)'
      BY <3>2, <3>9, <3>10 DEF OwnedAs
    <3> QED
      BY <1>1, <3>11, NothingHeld DEF OwnInv
  <2> QED
    BY <2>2, <2>3
<1> QED
  BY <1>2, <1>3

LEMMA OwnDispatch ==
  ASSUME OwnInv, Dispatch
  PROVE  OwnInv'
<1>1. GoneInv /\ GoneInv' /\ HookType /\ HookType'
  BY GoneDispatch DEF OwnInv, GoneInv
<1>2. CASE odd'
  BY <1>1, <1>2 DEF OwnInv
<1>3. CASE ~odd'
  <2>1. ~odd /\ ~Astray'
    BY <1>3 DEF Dispatch
  <2>2. PICK K \in Seq(Nat) : OwnedAs(K)
    BY <2>1 DEF OwnInv
  <2>3. PICK m : Takes(m) /\ Hook(m) /\ K = << >> /\ Resting(hs)
    BY <1>1, <2>2, DispatchTakes
  <2>4. LeftBegun(hs', <<m.no>>) => buttons'.l
    BY <2>1 DEF Astray, LeftBegun
  <2>5. \E L \in Seq(Nat) : OwnedAs(L)'
    BY <1>1, <2>2, <2>3, <2>4, OwnRest
  <2> QED
    BY <1>1, <2>5 DEF OwnInv
<1> QED
  BY <1>2, <1>3

LEMMA OwnSend ==
  ASSUME OwnInv, SendOrPost
  PROVE  OwnInv'
<1>1. GoneInv /\ GoneInv' /\ HookType
  BY GoneSend DEF OwnInv, GoneInv
<1>2. /\ sending # << >> /\ sending' = Tail(sending)
      /\ IF Len(sending) = 1 THEN posted' = sending /\ UNCHANGED ie
                             ELSE ie' = Append(ie, Head(sending)) /\ UNCHANGED posted
      /\ UNCHANGED <<hs, buttons, input, ff, missed, toggles, nested, odd>>
  BY DEF SendOrPost, Quiet
<1>3. CASE odd
  BY <1>1, <1>2, <1>3 DEF OwnInv
<1>4. CASE ~odd
  <2>1. PICK K \in Seq(Nat) : OwnedAs(K)
    BY <1>4 DEF OwnInv
  <2>2. Resting(hs) /\ K = << >> /\ ~Going(hs)
    BY <1>2, <2>1 DEF OwnedAs, Phase, Resting, Going
  <2>3. /\ \A i \in DOMAIN input : i \in ToSet(ie) \cup ToSet(ff) \cup ToSet(posted) \cup ToSet(sending)
        /\ \A i \in ToSet(ie) \cap ToSet(ff) : Shared(i)
        /\ \A i \in ToSet(posted) \cup ToSet(sending) : i \notin ToSet(ie) \cup ToSet(ff)
        /\ InSeq(sending)
    BY <2>1, <2>2, NothingHeld DEF OwnedAs, Ledger
  <2>4. /\ ie \in Seq(Nat) /\ ff \in Seq(Nat) /\ sending \in Seq(Nat) /\ posted = << >>
        /\ Len(input) \in Nat /\ \A i \in DOMAIN input : Shared(i)' <=> Shared(i)
        /\ ToSet(ie) \subseteq DOMAIN input /\ input' = input
    <3>1. \A i \in DOMAIN input : Shared(i)' <=> Shared(i)
      BY <1>2 DEF Shared
    <3>2. posted = << >>
      BY <1>1, <1>2 DEF HookType
    <3> QED
      BY <1>1, <1>2, <3>1, <3>2, TypeIs
  <2>5. PICK x \in Nat, T \in Seq(Nat) :
          /\ x = Head(sending) /\ T = Tail(sending)
          /\ ToSet(sending) = {x} \cup ToSet(T) /\ x = sending[1]
          /\ InSeq(T) /\ x \notin ToSet(T) /\ (T # << >> => x < T[1])
          /\ \A n \in Nat : Run(sending, n) => Run(T, n)
    <3>1. Head(sending) \in Nat /\ Tail(sending) \in Seq(Nat)
      BY <1>2, <2>4, HeadAndTail
    <3>2. /\ ToSet(sending) = {Head(sending)} \cup ToSet(Tail(sending)) /\ Head(sending) = sending[1]
          /\ InSeq(Tail(sending)) /\ Head(sending) \notin ToSet(Tail(sending))
          /\ Tail(sending) # << >> => Head(sending) < Tail(sending)[1]
          /\ \A n \in Nat : Run(sending, n) => Run(Tail(sending), n)
      BY <1>2, <2>3, <2>4, HeadAndTail
    <3> QED
      BY <3>1, <3>2, Zenon
  <2>6. Phase(<< >>)'
    BY <1>2, <2>2 DEF Phase
  <2>7. ASSUME ~nested
        PROVE  /\ InSeq(ie) /\ InSeq(ff) /\ Whole /\ Whole' /\ Run(T, Len(input')) /\ Run(<< >>, Len(input'))
               /\ Before(ie, x) /\ Before(ff, x) /\ ~Going(hs')
    <3>1. /\ InSeq(ie) /\ InSeq(ff) /\ Whole /\ Run(sending, Len(input))
          /\ Before(ie, x) /\ Before(ff, x)
      BY <1>2, <2>1, <2>5, <2>7 DEF OwnedAs, Ordered
    <3>2. Whole'
      BY <1>2, <3>1 DEF Whole
    <3> QED
      BY <1>2, <2>2, <2>4, <2>5, <3>1, <3>2, NothingHeld
  <2>8. CASE Len(sending) = 1
    <3>1. posted' = sending /\ ie' = ie
      BY <1>2, <2>8
    <3>2. sending' = << >> /\ posted' # << >> /\ posted'[1] = x
      <4>1. Len(T) = 0
        BY <2>4, <2>5, <2>8
      <4>2. T = << >>
        BY <4>1, EmptySeq
      <4> QED
        BY <1>2, <2>5, <3>1, <4>2
    <3>3. Ledger(<< >>)'
      BY <1>2, <2>3, <2>4, <3>1, <3>2, NothingHeld DEF Ledger
    <3>4. ~nested => Ordered(<< >>)'
      BY <1>2, <2>4, <2>7, <3>1, <3>2, NothingHeld DEF Ordered
    <3>5. OwnedAs(<< >>)'
      BY <1>2, <2>6, <3>3, <3>4 DEF OwnedAs
    <3> QED
      BY <1>1, <3>5, NothingHeld DEF OwnInv
  <2>9. CASE Len(sending) # 1
    <3>1. ie' = Append(ie, x) /\ posted' = << >> /\ sending' = T
      BY <1>2, <2>4, <2>5, <2>9
    <3>2. /\ ToSet(ie') = ToSet(ie) \cup {x}
          /\ InSeq(ie) /\ Before(ie, x) => InSeq(ie')
          /\ \A y : Before(ie, y) /\ x < y => Before(ie', y)
      BY <2>4, <2>5, <3>1, Appended
    <3>3. Ledger(<< >>)'
      <4>1. \A i \in DOMAIN input' : i \in ToSet(ie') \cup ToSet(ff') \cup ToSet(sending')
        BY <1>2, <2>3, <2>4, <2>5, <3>1, <3>2, NothingHeld
      <4>2. \A i \in ToSet(ie') \cap ToSet(ff') : i \in DOMAIN input /\ Shared(i)
        BY <1>2, <2>3, <2>4, <2>5, <3>2
      <4>3. \A i \in ToSet(posted') \cup ToSet(sending') : i \notin ToSet(ie') \cup ToSet(ff')
        BY <1>2, <2>3, <2>5, <3>1, <3>2, NothingHeld
      <4> QED
        BY <2>4, <2>5, <3>1, <4>1, <4>2, <4>3, NothingHeld DEF Ledger
    <3>4. ASSUME ~nested PROVE Ordered(<< >>)'
      <4>1. ASSUME T # << >> PROVE Before(ie', T[1]) /\ Before(ff', T[1])
        <5>1. x < T[1] /\ T[1] \in Nat
          BY <2>5, <4>1, EmptySeq, SMTT(30)
        <5>2. (\A k \in DOMAIN ie : ie[k] \in Nat) /\ \A k \in DOMAIN ff : ff[k] \in Nat
          BY <2>4
        <5>3. Before(ie, T[1]) /\ Before(ff, T[1])
          BY <2>7, <3>4, <5>1, <5>2 DEF Before
        <5> QED
          BY <1>2, <3>2, <5>1, <5>3
      <4> QED
        BY <1>2, <2>4, <2>7, <3>1, <3>2, <3>4, <4>1, NothingHeld DEF Ordered
    <3>5. OwnedAs(<< >>)'
      BY <1>2, <2>6, <3>3, <3>4 DEF OwnedAs
    <3> QED
      BY <1>1, <3>5, NothingHeld DEF OwnInv
  <2> QED
    BY <2>8, <2>9
<1> QED
  BY <1>3, <1>4

LEMMA OwnUpElsewhere ==
  ASSUME OwnInv, UpElsewhere
  PROVE  OwnInv'
<1>1. GoneInv /\ GoneInv'
  BY GoneUpElsewhere DEF OwnInv
<1>2. CASE odd'
  BY <1>1, <1>2 DEF OwnInv
<1>3. CASE ~odd'
  <2>1. ~odd /\ ~Astray' /\ UNCHANGED <<hs, input, posted, sending, ie, ff, toggles, nested>>
    BY <1>3 DEF UpElsewhere
  <2>2. PICK K \in Seq(Nat) : OwnedAs(K)
    BY <2>1 DEF OwnInv
  <2>3. LeftBegun(hs, K) => buttons'.l
    BY <2>1 DEF Astray, LeftBegun
  <2>4. Ledger(K)'
    BY <2>1, <2>2 DEF OwnedAs, Ledger, Shared
  <2>5. Phase(K)'
    BY <2>1, <2>2, <2>3 DEF OwnedAs, Phase, Shared
  <2>6. ~nested => Ordered(K)'
    BY <2>1, <2>2 DEF OwnedAs, Ordered, Whole
  <2>7. OwnedAs(K)'
    BY <2>1, <2>4, <2>5, <2>6 DEF OwnedAs
  <2> QED
    BY <1>1, <2>7 DEF OwnInv
<1> QED
  BY <1>2, <1>3

LEMMA OwnEnabled ==
  ASSUME OwnInv, SetEnabledGestures
  PROVE  OwnInv'
<1>1. GoneInv /\ GoneInv'
  BY GoneEnabled DEF OwnInv
<1>2. CASE odd'
  BY <1>1, <1>2 DEF OwnInv
<1>3. CASE ~odd'
  <2>1. /\ ~odd /\ UNCHANGED <<buttons, input, posted, sending, ie, ff, missed, nested>>
        /\ \A h \in Handlers : hs[h].state = "none"
    BY <1>3 DEF SetEnabledGestures
  <2>2. PICK on \in SUBSET Handlers :
          hs' = [h \in Handlers |->
                   IF hs[h].enabled /\ h \notin on THEN [Reset(hs[h]) EXCEPT !.enabled = FALSE]
                                                   ELSE [hs[h] EXCEPT !.enabled = (h \in on)]]
    BY DEF SetEnabledGestures
  <2>3. PICK K \in Seq(Nat) : OwnedAs(K)
    BY <2>1 DEF OwnInv
  <2>4. Resting(hs) /\ K = << >>
    <3>1. ~LeftBegun(hs, K) /\ ~Going(hs) /\ \A p : ~RightBegun(hs, K, p)
      BY <2>1 DEF LeftBegun, Going, RightBegun, Handlers
    <3> QED
      BY <2>3, <3>1 DEF OwnedAs, Phase
  <2>5. ASSUME NEW h \in Handlers PROVE hs'[h].state = "none" /\ hs'[h].held = << >>
    <3>1. hs[h] \in HandlerState /\ hs[h].state = "none" /\ hs[h].held = << >>
      BY <1>1, <2>4 DEF GoneInv, HookType, Proper, Resting
    <3>2. CASE hs[h].enabled /\ h \notin on
      <4>1. hs'[h] = [Reset(hs[h]) EXCEPT !.enabled = FALSE]
        BY <2>2, <3>2
      <4> QED
        BY <3>1, <4>1, ResetIs DEF HandlerState
    <3>3. CASE ~(hs[h].enabled /\ h \notin on)
      <4>1. PICK e : e = (h \in on)
        OBVIOUS
      <4>2. hs'[h] = [hs[h] EXCEPT !.enabled = e]
        BY <2>2, <3>3, <4>1
      <4> QED
        BY <3>1, <4>2 DEF HandlerState
    <3> QED
      BY <3>2, <3>3
  <2>6. Resting(hs') /\ ~Going(hs) /\ ~Going(hs')
    BY <2>1, <2>5 DEF Resting, Going
  <2>7. Ledger(K)' /\ Phase(K)'
    BY <2>1, <2>3, <2>4, <2>6 DEF OwnedAs, Ledger, Phase, Shared
  <2>8. ~nested => Ordered(K)'
    BY <2>1, <2>3, <2>4, <2>6 DEF OwnedAs, Ordered, Whole
  <2>9. OwnedAs(K)'
    BY <2>1, <2>7, <2>8 DEF OwnedAs
  <2> QED
    BY <1>1, <2>9 DEF OwnInv
<1> QED
  BY <1>2, <1>3

LEMMA OwnNext == OwnInv /\ [HookNext]_hookVars => OwnInv'
<1> SUFFICES ASSUME OwnInv, [HookNext]_hookVars PROVE OwnInv'
  OBVIOUS
<1>1. ASSUME NEW type \in Kinds, NEW ctrl \in BOOLEAN, Mouse(type, ctrl) PROVE OwnInv'
  BY <1>1, OwnMouse
<1>2. CASE Dispatch
  BY <1>2, OwnDispatch
<1>3. CASE SendOrPost
  BY <1>3, OwnSend
<1>4. CASE UpElsewhere
  BY <1>4, OwnUpElsewhere
<1>5. CASE SetEnabledGestures
  BY <1>5, OwnEnabled
<1>6. CASE UNCHANGED hookVars
  <2>1. GoneInv'
    BY <1>6, GoneNext DEF OwnInv
  <2>2. \A K : OwnedAs(K) => OwnedAs(K)'
    BY <1>6 DEF hookVars, OwnedAs, Ledger, Phase, Ordered, Whole, Shared
  <2>3. odd' = odd
    BY <1>6 DEF hookVars
  <2> QED
    BY <2>1, <2>2, <2>3 DEF OwnInv
<1> QED
  BY <1>1, <1>2, <1>3, <1>4, <1>5, <1>6 DEF HookNext

\* Unless a gesture has been tracked when it could not be followed, each message is in
\* one of the places there are for it, those held by the handlers in the order of input.
THEOREM HookInductive == HookSpec => []OwnInv
BY OwnInit, OwnNext, PTL DEF HookSpec

\* EachToOne: every message gets to IE or to Firefox, and to one of them only.
THEOREM MessagesReachOne == HookSpec => []EachToOne
<1>1. OwnInv => EachToOne
  <2> SUFFICES ASSUME OwnInv, ~odd PROVE EachToOne
    BY DEF EachToOne
  <2>1. PICK K \in Seq(Nat) : OwnedAs(K)
    BY DEF OwnInv
  <2>2. /\ \A i \in DOMAIN input :
             i \in ToSet(ie) \cup ToSet(ff) \cup ToSet(posted) \cup ToSet(sending) \cup ToSet(K)
        /\ \A i \in ToSet(ie) \cap ToSet(ff) : Shared(i)
    BY <2>1 DEF OwnedAs, Ledger
  <2>3. CASE K = << >>
    BY <2>2, <2>3, NothingHeld DEF EachToOne, Shared
  <2>4. CASE LeftBegun(hs, K)
    <3>1. "rocker" \in Handlers /\ hs["rocker"].state # "none" /\ hs["rocker"].held = K
      BY <2>4 DEF LeftBegun, Handlers
    <3>2. ToSet(K) \subseteq Held
      BY <3>1 DEF Held, Idle
    <3> QED
      BY <2>2, <3>2 DEF EachToOne, Shared
  <2>5. CASE \E p \in Places : RightBegun(hs, K, p)
    <3>1. PICK g \in Handlers : hs[g].state # "none" /\ hs[g].held = K
      BY <2>5 DEF RightBegun
    <3>2. ToSet(K) \subseteq Held
      BY <3>1 DEF Held, Idle
    <3> QED
      BY <2>2, <3>2 DEF EachToOne, Shared
  <2> QED
    BY <2>1, <2>3, <2>4, <2>5 DEF OwnedAs, Phase
<1> QED
  BY <1>1, HookInductive, PTL

\* WholeAndInOrder: as long as IE runs no loop of its own, both get their messages in
\* the order of the input, and Firefox gets all of a gesture.
THEOREM MessagesStayInOrder == HookSpec => []WholeAndInOrder
<1>1. OwnInv => WholeAndInOrder
  BY DEF OwnInv, OwnedAs, Ordered, Whole, WholeAndInOrder
<1> QED
  BY <1>1, HookInductive, PTL
=============================================================================
