---------------------------- MODULE PluginEvents ----------------------------
(***************************************************************************)
(* Events from one content window to Firefox (IEHostWindow.cpp, plugin.cpp)*)
(*                                                                         *)
(* A window may run before its CPlugin can take events: a popup is made    *)
(* before its tab, and SetPlugin is put off until the init event is fired. *)
(* RequirePlugin keeps what is to be sent until then.  Progress events also*)
(* go through RunThrottled, which promises one per tc.timeoutMillis.       *)
(*                                                                         *)
(* Everything here runs on the main thread, a handler per step.  While     *)
(* FireEvent is in Firefox (`updating') the window may be called back and  *)
(* handle another event first.                                             *)
(***************************************************************************)
EXTENDS Naturals, Sequences, FiniteSets

CONSTANTS MaxEvents,   \* bounds the events other than progress
          MaxProgress, \* bounds the changes of m_iProgress
          Delay,       \* tc.timeoutMillis
          Threshold,   \* MIN_TIMEOUT_THRESHOLD_MILLIS: how early a wait may end
          Interrupted  \* may SetPlugin be interrupted between two deferred calls?

ASSUME EventsAssumption ==
  /\ MaxEvents \in Nat /\ MaxProgress \in Nat
  /\ Delay \in Nat /\ Threshold \in Nat /\ Threshold < Delay
  /\ Interrupted \in BOOLEAN

VARIABLES
  init,      \* "none", "queued" once the scriptable object exists, "fired"
  attached,  \* m_pPlugin is set
  deferred,  \* m_vDeferredCallPluginFuncs: event numbers, or Progress
  requested, \* the events other than progress asked for so far
  sent,      \* the events Firefox got, in order
  updating, delaying, scheduled,  \* m_tcProgressChanged
  waits,     \* the OnRunThrottled calls put off: what is left of each wait
  progress,  \* m_iProgress, as a count of its changes
  shown,     \* the progress Firefox was told last
  gap,       \* the time since Firefox was told
  putOff,    \* history: had that been put off until SetPlugin?
  rapid,     \* history: was Firefox ever told again too soon?
  lost       \* history: did the last change fall into an update?

throttleVars == <<updating, delaying, scheduled, waits>>
shownVars    == <<shown, gap, putOff, rapid>>
eventVars    == <<init, attached, deferred, requested, sent, throttleVars, progress,
                  lost, shownVars>>

Progress == 0  \* stands in `deferred' for a progress event

Init == /\ init = "none" /\ attached = FALSE
        /\ deferred = << >> /\ requested = 0 /\ sent = << >>
        /\ updating = FALSE /\ delaying = FALSE /\ scheduled = FALSE
        /\ waits = << >>
        /\ progress = 0 /\ shown = 0 /\ gap = Delay
        /\ putOff = FALSE /\ rapid = FALSE /\ lost = FALSE

\* A progress event reaches Firefox, at once or from SetPlugin.
Tell(late) == /\ shown' = progress'
              /\ gap' = 0
              /\ putOff' = late
              /\ rapid' = (rapid \/ (gap < Delay - Threshold /\ ~late /\ ~putOff))

\* SetPlugin has deferred calls left to make.
Calling == attached /\ deferred # << >>
-----------------------------------------------------------------------------
\* GetScriptableObject() has FireInitEvent run asynchronously.
GetScriptableObject ==
  /\ init = "none"
  /\ init' = "queued"
  /\ UNCHANGED <<attached, deferred, requested, sent, throttleVars, progress, lost, shownVars>>

\* FireInitEvent(): the init event, then SetPlugin.
FireInitEvent == /\ init = "queued"
                 /\ ~updating
                 /\ init' = "fired"
                 /\ attached' = TRUE
                 /\ UNCHANGED <<deferred, requested, sent, throttleVars, progress, lost, shownVars>>

\* Mutant: the call deferred last is made first.
SetPluginBackwards ==
  /\ Calling
  /\ UNCHANGED <<init, attached, requested, throttleVars, progress, lost>>
  /\ LET e == deferred[Len(deferred)]
     IN IF e = Progress THEN Tell(TRUE) /\ UNCHANGED sent
                        ELSE sent' = Append(sent, e) /\ UNCHANGED shownVars
  /\ deferred' = SubSeq(deferred, 1, Len(deferred) - 1)

\* SetPlugin(): the deferred calls are made one after the other.
SetPlugin ==
  /\ Calling
  /\ UNCHANGED <<init, attached, requested, throttleVars, progress, lost>>
  /\ IF Head(deferred) = Progress
       THEN Tell(TRUE) /\ UNCHANGED sent
       ELSE sent' = Append(sent, Head(deferred)) /\ UNCHANGED shownVars
  /\ deferred' = Tail(deferred)

\* While Firefox handles an event, the main thread may come to another.
Interrupts == /\ updating => attached
              /\ Calling => Interrupted

\* RequirePlugin() with any other event, such as OnTitleChanged's.
OnEvent ==
  /\ requested < MaxEvents
  /\ Interrupts
  /\ requested' = requested + 1
  /\ IF attached
       THEN sent' = Append(sent, requested') /\ UNCHANGED deferred
       ELSE deferred' = Append(deferred, requested') /\ UNCHANGED sent
  /\ UNCHANGED <<init, attached, throttleVars, progress, lost, shownVars>>
-----------------------------------------------------------------------------
\* The throttled function: RequirePlugin with the progress of the moment.
SendProgress ==
  IF attached
    THEN Tell(FALSE) /\ UNCHANGED deferred
    ELSE deferred' = Append(deferred, Progress) /\ UNCHANGED shownVars

\* OnProgressChange(), OnDownloadComplete(): m_iProgress changes.  RunThrottled
\* ignores it during an update and once one is scheduled; during the delay it
\* leaves it to OnRunThrottled, else it begins the update.
OnProgressChange ==
  /\ progress < MaxProgress
  /\ Interrupts
  /\ progress' = progress + 1
  /\ lost' = updating
  /\ IF updating \/ scheduled \/ delaying
       THEN /\ scheduled' = (scheduled \/ ~updating)
            /\ UNCHANGED <<updating, deferred, shownVars>>
       ELSE /\ updating' = TRUE
            /\ UNCHANGED scheduled
            /\ SendProgress
  /\ UNCHANGED <<init, attached, requested, sent, delaying, waits>>

\* Mutant: the wait is not taken note of.
EndUpdateUndelayed == /\ updating
                      /\ updating' = FALSE /\ delaying' = FALSE /\ scheduled' = FALSE
                      /\ waits' = Append(waits, Delay)
                      /\ UNCHANGED <<init, attached, deferred, requested, sent, progress,
                                     lost, shownVars>>

\* The function has returned; the next update is put off with RunAsyncTimeout.
EndUpdate == /\ updating
             /\ updating' = FALSE /\ delaying' = TRUE /\ scheduled' = FALSE
             /\ waits' = Append(waits, Delay)
             /\ UNCHANGED <<init, attached, deferred, requested, sent, progress, lost, shownVars>>

\* Mutant: what came during the delay is dropped.
OnRunThrottledDrops ==
  /\ waits # << >> /\ Head(waits) <= Threshold
  /\ ~updating /\ ~Calling
  /\ waits' = Tail(waits)
  /\ delaying' = FALSE /\ scheduled' = FALSE
  /\ UNCHANGED <<updating, deferred, shownVars>>
  /\ UNCHANGED <<init, attached, requested, sent, progress, lost>>

\* OnRunThrottled(), when the wait is over, or nearly so: an update, if one was
\* asked for meanwhile.
OnRunThrottled ==
  /\ waits # << >> /\ Head(waits) <= Threshold
  /\ ~updating /\ ~Calling
  /\ waits' = Tail(waits)
  /\ delaying' = FALSE /\ scheduled' = FALSE
  /\ UNCHANGED <<init, attached, requested, sent, progress, lost>>
  /\ IF scheduled THEN updating' = TRUE /\ SendProgress
                  ELSE UNCHANGED <<updating, deferred, shownVars>>

Tick == /\ ~Calling
        /\ gap < Delay \/ \E i \in DOMAIN waits : waits[i] > 0
        /\ gap' = IF gap = Delay THEN Delay ELSE gap + 1
        /\ waits' = [i \in DOMAIN waits |-> IF waits[i] = 0 THEN 0 ELSE waits[i] - 1]
        /\ UNCHANGED <<init, attached, deferred, requested, sent, updating, delaying,
                       scheduled, progress, lost, shown, putOff, rapid>>

Handlers == FireInitEvent \/ SetPlugin \/ EndUpdate \/ OnRunThrottled

Next == GetScriptableObject \/ OnEvent \/ OnProgressChange \/ Handlers \/ Tick

Spec == Init /\ [][Next]_eventVars

\* Firefox asks for the scriptable object of every plugin it shows; timed and
\* asynchronous functions run (MainThreadQueue).
Fairness == /\ WF_eventVars(GetScriptableObject) /\ WF_eventVars(FireInitEvent)
            /\ WF_eventVars(SetPlugin)
            /\ WF_eventVars(EndUpdate) /\ WF_eventVars(OnRunThrottled) /\ WF_eventVars(Tick)

FairSpec == Spec /\ Fairness
-----------------------------------------------------------------------------
(* Firefox gets the events in the order they were asked for, none twice and
   none left out, however they were put off; and none before the init event
   (`Interrupted' shows how an event handled meanwhile overtakes them).      *)
EventsInOrder == /\ \A i \in DOMAIN sent : sent[i] = i
                 /\ sent # << >> => init = "fired"
                 /\ attached /\ deferred = << >> => Len(sent) = requested

(* "Throttle some events so that they are not sent to Firefox rapidly"
   (IEHostWindow.h:383): tc.timeoutMillis pass between a progress event and the
   next, less the few milliseconds a timer may be early; except that SetPlugin
   makes the calls put off until then in one go, of which the throttle does not
   know.                                                                     *)
NotSentRapidly == ~rapid

(* Firefox is told the last progress in the end, the one that hides the bar
   included, although updates are dropped on the way; unless the last change
   fell into the sending of an earlier one, which RunThrottled forgets.      *)
LastProgressShown ==
  \A p \in 0..MaxProgress : [](progress = p => <>(shown = p \/ progress # p \/ lost))
=============================================================================
