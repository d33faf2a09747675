----------------------------- MODULE HostWindows -----------------------------
(***************************************************************************)
(* The windows of the plugin (CIEHostWindow) and the plugin instances that *)
(* own them: content windows, popups that wait for their tab, and utils    *)
(* windows, through which every other thread reaches the main thread.      *)
(*                                                                         *)
(* Two things travel between them: cookies that a network thread has seen  *)
(* (SetFirefoxCookie), and popups (OnNewWindow3Ie), each kept in a map     *)
(* until a plugin instance asks for it or ten seconds have passed.         *)
(*                                                                         *)
(* Each handler runs as one step of the main thread, except that Firefox is*)
(* given cookies in one and they are cleared in the next; MainThreadQueue  *)
(* shows that what is queued with RunAsync and RunAsyncTimeout runs in the *)
(* end.                                                                    *)
(***************************************************************************)
EXTENDS Naturals, Sequences, FiniteSets, SequencesExt

CONSTANTS Windows, NoWindow,  \* every window made; no context
          Cookies,            \* the cookies received, a header each
          UtilsFirst,         \* a utils window, if one exists throughout
          Reentered           \* may the main thread go on while Firefox is given cookies?

ASSUME WindowsAssumption == /\ NoWindow \notin Windows /\ UtilsFirst \in Windows \cup {NoWindow}
                            /\ Reentered \in BOOLEAN

VARIABLES
  life,      \* "none", "live" (in s_IEWindowMap), "destroyed" (no HWND), "deleted"
  kind,      \* "content", "popup" or "utils"
  plugin,    \* "none", "held" (a CPlugin owns the window), "attached" (SetPlugin)
  utils,     \* s_UtilsIEWindowMap, in order
  popups,    \* s_NewIEWindowMap
  expiring,  \* per utils window: the RemoveNewWindow calls put off
  newTab,    \* per popup: the IENewTab event for it
  opener,    \* per popup: the window that asked for it
  funcs,     \* per utils window: SetFirefoxCookie's functions in m_qFuncs
  deferred,  \* m_vDeferredCookies
  scheduled, \* m_bDeferredSetCookieScheduled
  flush,     \* where the function that hands the cookies on is: nowhere, with
             \* the "timer", with RequirePlugin until the "plugin" is there, or
             \* "sending" them, in FireEvent
  received,  \* the cookies seen
  delivered  \* the cookies Firefox has got

ownVars    == <<life, kind, plugin>>
popupVars  == <<popups, expiring, newTab, opener>>
cookieVars == <<deferred, scheduled, flush, received, delivered>>
windowVars == <<ownVars, utils, popupVars, funcs, cookieVars>>

Live(w) == life[w] = "live"

Init == /\ life = [w \in Windows |-> IF w = UtilsFirst THEN "live" ELSE "none"]
        /\ kind = [w \in Windows |-> IF w = UtilsFirst THEN "utils" ELSE "content"]
        /\ plugin = [w \in Windows |-> IF w = UtilsFirst THEN "attached" ELSE "none"]
        /\ utils = IF UtilsFirst = NoWindow THEN << >> ELSE <<UtilsFirst>>
        /\ popups = {}
        /\ expiring = [w \in Windows |-> {}]
        /\ newTab = [w \in Windows |-> "none"]
        /\ opener = [w \in Windows |-> NoWindow]
        /\ funcs = [w \in Windows |-> << >>]
        /\ deferred = [w \in Windows |-> {}]
        /\ scheduled = [w \in Windows |-> FALSE]
        /\ flush = [w \in Windows |-> "none"]
        /\ received = {} /\ delivered = {}

Set(f, w, v) == [f EXCEPT ![w] = v]

\* The main thread is not in FireEvent, or comes back from there.
Free == Reentered \/ \A w \in Windows : flush[w] # "sending"
-----------------------------------------------------------------------------
\* CPlugin::init() for the hidden utils object: the plugin is set at once.
CreateUtils(w) == /\ Free /\ life[w] = "none"
                  /\ life' = Set(life, w, "live")
                  /\ kind' = Set(kind, w, "utils")
                  /\ plugin' = Set(plugin, w, "attached")
                  /\ utils' = Append(utils, w)
                  /\ UNCHANGED <<popupVars, funcs, cookieVars>>

\* CPlugin::init() for a tab with no window of its own waiting.
CreateContent(w) == /\ Free /\ life[w] = "none"
                    /\ life' = Set(life, w, "live")
                    /\ plugin' = Set(plugin, w, "held")
                    /\ UNCHANGED <<kind, utils, popupVars, funcs, cookieVars>>

\* The flush, once the plugin is there: Firefox gets the cookies,
Send(w) == /\ delivered' = delivered \cup deferred[w]
           /\ flush' = Set(flush, w, "sending")
           /\ UNCHANGED <<deferred, scheduled, received>>

\* and they are cleared when it has returned.
Clear(w) == /\ flush[w] = "sending"
            /\ deferred' = Set(deferred, w, {})
            /\ scheduled' = Set(scheduled, w, FALSE)
            /\ flush' = Set(flush, w, "none")
            /\ UNCHANGED <<ownVars, utils, popupVars, funcs, received, delivered>>

\* FireInitEvent(): SetPlugin makes the deferred calls, the flush of the cookies
\* and the IENewTab events among them.
FireInitEvent(w) ==
  /\ Free /\ Live(w) /\ plugin[w] = "held"
  /\ plugin' = Set(plugin, w, "attached")
  /\ newTab' = [p \in Windows |->
                  IF newTab[p] = "deferred" /\ opener[p] = w THEN "asked" ELSE newTab[p]]
  /\ IF flush[w] = "plugin" THEN Send(w) ELSE UNCHANGED cookieVars
  /\ UNCHANGED <<life, kind, utils, popups, expiring, opener, funcs>>
-----------------------------------------------------------------------------
\* SetFirefoxCookie(): the cookies go to the main thread by a utils window, or
\* nowhere when there is none.
SetFirefoxCookie(cookies, context) ==
  IF utils = << >> THEN UNCHANGED funcs
  ELSE funcs' = [funcs EXCEPT ![Head(utils)] =
                   Append(@, [cookies |-> cookies, context |-> context])]

\* A network thread has read a Set-Cookie header for window w.
ExportCookies(c, w) == /\ c \notin received
                       /\ Live(w) /\ kind[w] # "utils"
                       /\ received' = received \cup {c}
                       /\ SetFirefoxCookie({c}, w)
                       /\ UNCHANGED <<ownVars, utils, popupVars, deferred, scheduled, flush,
                                      delivered>>

\* Mutant: whether the context still exists is not checked.
TargetUnchecked(context, u) == IF context = NoWindow THEN u ELSE context

\* The window whose plugin will set the cookies.
Target(context, u) == IF context # NoWindow /\ Live(context) THEN context ELSE u

\* SetFirefoxCookie's function runs: the cookies are appended, and the window's
\* flush put off with RunAsyncTimeout unless it is already.
DeferCookies(u) ==
  LET f == Head(funcs[u])
      w == Target(f.context, u)
  IN /\ deferred' = Set(deferred, w, deferred[w] \cup f.cookies)
     /\ scheduled' = Set(scheduled, w, TRUE)
     /\ flush' = IF scheduled[w] THEN flush ELSE Set(flush, w, "timer")
     /\ UNCHANGED <<received, delivered>>

RunAsyncCall(u) == /\ Free /\ Live(u) /\ funcs[u] # << >>
                   /\ DeferCookies(u)
                   /\ funcs' = Set(funcs, u, Tail(funcs[u]))
                   /\ UNCHANGED <<ownVars, utils, popupVars>>

\* The flush is due: RequirePlugin.
FlushDue(w) == /\ Free /\ Live(w) /\ flush[w] = "timer"
               /\ IF plugin[w] = "attached" THEN Send(w)
                  ELSE /\ flush' = Set(flush, w, "plugin")
                       /\ UNCHANGED <<deferred, scheduled, received, delivered>>
               /\ UNCHANGED <<ownVars, utils, popupVars, funcs>>
-----------------------------------------------------------------------------
\* OnNewWindow3Ie(): window o opens popup p, which waits for its tab.
OnNewWindow3(o, p) ==
  /\ Free /\ Live(o) /\ kind[o] # "utils"
  /\ life[p] = "none"
  /\ life' = Set(life, p, "live")
  /\ kind' = Set(kind, p, "popup")
  /\ popups' = popups \cup {p}
  /\ expiring' = IF utils = << >> THEN expiring
                 ELSE [expiring EXCEPT ![Head(utils)] = @ \cup {p}]
  /\ newTab' = Set(newTab, p, IF plugin[o] = "attached" THEN "asked" ELSE "deferred")
  /\ opener' = Set(opener, p, o)
  /\ UNCHANGED <<plugin, utils, funcs, cookieVars>>

\* Mutant: the window adopted stays in s_NewIEWindowMap.
AdoptKeep(p) == /\ Free /\ newTab[p] = "asked"
                /\ newTab' = Set(newTab, p, "opened")
                /\ plugin' = IF p \in popups THEN Set(plugin, p, "held") ELSE plugin
                /\ UNCHANGED <<life, kind, utils, popups, expiring, opener, funcs, cookieVars>>

\* The tab Firefox opened for p loads its plugin: CreateNewIEHostWindow takes the
\* window that waits.  If it is gone the tab gets a new one (CreateContent).
Adopt(p) == /\ Free /\ newTab[p] = "asked"
            /\ newTab' = Set(newTab, p, "opened")
            /\ popups' = popups \ {p}
            /\ plugin' = IF p \in popups THEN Set(plugin, p, "held") ELSE plugin
            /\ UNCHANGED <<life, kind, utils, expiring, opener, funcs, cookieVars>>

\* ~CIEHostWindow(): "Make sure cookies are not lost".
\* Mutant: they are.
DestructForget(w) == /\ life' = Set(life, w, "deleted")
                     /\ deferred' = Set(deferred, w, {})
                     /\ flush' = Set(flush, w, "none")
                     /\ scheduled' = Set(scheduled, w, FALSE)
                     /\ funcs' = Set(funcs, w, << >>)
                     /\ UNCHANGED <<received, delivered>>

Destruct(w) == /\ life' = Set(life, w, "deleted")
               /\ deferred' = Set(deferred, w, {})
               /\ flush' = Set(flush, w, "none")
               /\ scheduled' = Set(scheduled, w, FALSE)
               /\ IF deferred[w] # {} /\ kind[w] # "utils"
                    THEN SetFirefoxCookie(deferred[w], NoWindow)
                    ELSE funcs' = Set(funcs, w, << >>)
               /\ UNCHANGED <<received, delivered>>

\* RemoveNewWindow(), ten seconds later: destroys and deletes a popup that still
\* waits.
RemoveNewWindow(u, p) ==
  /\ Free /\ Live(u) /\ p \in expiring[u]
  /\ expiring' = [expiring EXCEPT ![u] = @ \ {p}]
  /\ popups' = popups \ {p}
  /\ IF p \in popups THEN Destruct(p) ELSE UNCHANGED <<life, funcs, cookieVars>>
  /\ UNCHANGED <<kind, plugin, utils, newTab, opener>>

\* UninitIE(): a utils window leaves the map.
Unregister(w) == IF kind[w] = "utils"
                   THEN \E i \in DOMAIN utils : utils[i] = w /\ utils' = RemoveAt(utils, i)
                   ELSE UNCHANGED utils

\* CPlugin::shut(): DestroyWindow(), which unregisters the window; its timer and
\* its messages go with the HWND.
Shut(w) == /\ Free /\ Live(w) /\ plugin[w] # "none"
           /\ w # UtilsFirst
           /\ life' = Set(life, w, "destroyed")
           /\ Unregister(w)
           /\ expiring' = Set(expiring, w, {})
           /\ UNCHANGED <<kind, plugin, popups, newTab, opener, funcs, cookieVars>>

\* ~CPlugin() deletes the window; Firefox does not destroy a plugin that calls it.
Delete(w) == /\ Free /\ life[w] = "destroyed" /\ flush[w] # "sending"
             /\ plugin' = Set(plugin, w, "none")
             /\ Destruct(w)
             /\ UNCHANGED <<kind, utils, popupVars>>

Next == \/ \E w \in Windows : \/ CreateUtils(w) \/ CreateContent(w)
                              \/ FireInitEvent(w) \/ RunAsyncCall(w) \/ FlushDue(w) \/ Clear(w)
                              \/ Adopt(w) \/ Shut(w) \/ Delete(w)
        \/ \E w \in Windows, c \in Cookies : ExportCookies(c, w)
        \/ \E w, p \in Windows : OnNewWindow3(w, p) \/ RemoveNewWindow(w, p)

Spec == Init /\ [][Next]_windowVars

\* Firefox asks for the scriptable object of a tab's plugin, or closes the tab;
\* what is queued on a live window runs, events return, and a plugin shut is deleted.
Fairness == \A w \in Windows :
              /\ WF_windowVars(FireInitEvent(w)) /\ WF_windowVars(RunAsyncCall(w))
              /\ WF_windowVars(FlushDue(w)) /\ WF_windowVars(Clear(w)) /\ WF_windowVars(Delete(w))
              /\ \A u \in Windows : WF_windowVars(RemoveNewWindow(u, w))

FairSpec == Spec /\ Fairness
-----------------------------------------------------------------------------
\* The functions in the queues, and those of them that carry c.
Queued     == UNION {{u} \X DOMAIN funcs[u] : u \in Windows}
Carries(c) == {q \in Queued : c \in funcs[q[1]][q[2]].cookies}
Holders(c) == {w \in Windows : c \in deferred[w]}

AtMostOne(S) == \A x, y \in S : x = y

InOnePlace(c) == /\ c \in received <=> Carries(c) # {} \/ Holders(c) # {} \/ c \in delivered
                 /\ AtMostOne(Carries(c)) /\ AtMostOne(Holders(c))
                 /\ Carries(c) = {} \/ Holders(c) = {}
                 /\ c \in delivered => /\ Carries(c) = {}
                                       /\ \A w \in Holders(c) : flush[w] = "sending"

WillFlush(w) == /\ scheduled[w] <=> flush[w] # "none"
                /\ deferred[w] # {} => scheduled[w]

(* Whatever windows are closed while a cookie is on its way, it is in just one
   place: in a queue, with a window, or with Firefox; none is lost, and none is
   set twice.  A live window with cookies has a flush under way, and only a
   window with a flush under way says so.  (With Reentered, a cookie that a
   window gets while it sends others is cleared with them.)                 *)
CookiesKept == /\ \A c \in Cookies : InOnePlace(c)
               /\ \A w \in Windows : Live(w) => WillFlush(w)

(* A popup is either waiting, with its removal due, or owned by a plugin: the
   ten seconds never destroy a window that a tab has taken, and none is left
   that nobody would destroy.                                               *)
PopupsOwned ==
  /\ \A p \in popups : Live(p) /\ plugin[p] = "none"
  /\ \A p \in Windows : Live(p) /\ plugin[p] = "none" =>
       p \in popups /\ \E u \in Windows : Live(u) /\ p \in expiring[u]

(* A cookie seen gets to Firefox. *)
CookiesArrive == \A c \in Cookies : c \in received ~> c \in delivered
=============================================================================
