---------------------------- MODULE AbpObserver -----------------------------
(***************************************************************************)
(* extension/modules/ABPObserver.jsm, the client of the filter engine, and *)
(* the engine itself (AbpEngine): their composition.                       *)
(*                                                                         *)
(* The observer runs on the browser's main thread.  It follows the         *)
(* preferences and the adblocker's notifications, and drives the engine by *)
(* synchronous calls; the engine answers a load with an event.  In the     *)
(* browser's process the event is dispatched inside filterLoadedCallback's *)
(* message; out of process it crosses a pipe, and other tasks of the       *)
(* browser may run between the two.  The process may also crash, and calls *)
(* then fail, until UtilsPluginManager has installed the plugin again.     *)
(***************************************************************************)
EXTENDS AbpEngine

CONSTANTS SlowLoads,    \* may a load outlast the clear timer's 60 seconds?
          QuickToggles, \* may a preference go off and on within one task?
          MaxChanges    \* bounds the environment: preferences, add-ons, saved files, crashes

ASSUME ObserverAssumption == /\ SlowLoads \in BOOLEAN /\ QuickToggles \in BOOLEAN
                             /\ MaxChanges \in Nat
                             /\ Data = 0..MaxChanges

VARIABLES
  outOfProcess,    \* does the plugin run in a process of its own?
  plugin,          \* getPlugin(): "up", "lost" with its process, or "none" in the page
  installed,       \* _abpInstalled
  adblocker,       \* the adblocker in use, named by its filter file
  allowed,         \* abpSupportEnabled and the adblocker's own "enabled"
  disk,            \* what each filter file (and the additional filters) holds
  needReload,      \* _needReload
  pendingUpdate,   \* _pendingUpdate
  scheduledUpdate, \* _scheduledUpdate, and the task it stands for
  status,          \* _status
  clearTimer,      \* _clearTimer is set
  cleared,         \* _cleared
  events,          \* IEABPFilterLoaded (TRUE), IEABPLoadFailure on their way
  loadFailed,      \* history: has a load ever failed?
  unheard,         \* history: has a load ever ended with no utils window to tell?
  changes          \* environment steps taken

prefVars     == <<outOfProcess, installed, adblocker, allowed, disk>>
updateVars   == <<needReload, pendingUpdate, scheduledUpdate>>
statusVars   == <<status, clearTimer, cleared>>
hostVars     == <<plugin, changes>>
loadVars     == <<loadFailed, unheard>>
observerVars == <<prefVars, updateVars, statusVars, events, loadVars, hostVars>>
vars         == <<engineVars, observerVars>>

Init == /\ EngineInit
        /\ outOfProcess \in BOOLEAN \* Firefox decides when it loads the plugin
        /\ plugin = "up" \* lazyStartup waits for it
        /\ installed = FALSE /\ adblocker \in Files /\ allowed \in BOOLEAN
        /\ disk = [f \in Files |-> 0]
        /\ needReload = FALSE /\ pendingUpdate = FALSE
        /\ scheduledUpdate = TRUE \* lazyStartup registers updateState as a pref setter
        /\ status = "NotDetected" /\ clearTimer = FALSE /\ cleared = TRUE
        /\ events = << >>
        /\ loadFailed = FALSE /\ unheard = FALSE /\ changes = 0

CanEnable == installed /\ allowed

\* Tasks of the browser wait while it calls ABPClear, and, in process, while
\* the engine dispatches an event.
Browser == /\ ~At(Main, "clearLock") /\ ~At(Main, "clear")
           /\ outOfProcess \/ events = << >>

\* _setStatus with _triggerClearTimers: off schedules a clear unless there is
\* nothing to clear (c), on cancels it.
TriggerClearTimers(s, c) ==
  clearTimer' = IF s \in {"NotDetected", "Disabled", "LoadFailed"}
                  THEN clearTimer \/ ~c ELSE FALSE
SetStatus(s, c) == status' = s /\ TriggerClearTimers(s, c) /\ cleared' = c

\* updateState(): at most one task is under way.
UpdateState == scheduledUpdate' = TRUE

\* The environment acts MaxChanges times in all.
Change == changes < MaxChanges /\ changes' = changes + 1

\* A process of the plugin's own may die at any time.
PluginDies == /\ outOfProcess /\ plugin = "up"
              /\ Change
              /\ plugin' = "lost"
              /\ EngineLost

\* A call reaches the engine, or throws: the process dies while it is called, or is
\* gone.  A lost plugin's properties read as undefined, as those of an idle engine do.
Reaches(call) == plugin = "up" /\ call /\ UNCHANGED hostVars
Throws        == PluginDies \/ (plugin # "up" /\ UNCHANGED <<engineVars, hostVars>>)

\* A call with its try and catch, and the status either sets.
Try(call, s, failed, c) == \/ Reaches(call) /\ SetStatus(s, c)
                           \/ Throws /\ SetStatus(failed, c)
-----------------------------------------------------------------------------
\* Mutant: the update that finds a load under way is not remembered.
CoreForgets == /\ loading
               /\ UNCHANGED <<engineVars, hostVars, needReload, pendingUpdate, statusVars>>

\* _updateStateCore(), one case per way through it.
CoreFindsNone == /\ pendingUpdate' = FALSE
                 /\ UNCHANGED <<engineVars, hostVars, needReload, statusVars>>

CoreWaits == /\ loading
             /\ pendingUpdate' = TRUE
             /\ UNCHANGED <<engineVars, hostVars, needReload, statusVars>>

CoreDisables == /\ ~loading /\ enabled /\ ~CanEnable
                /\ Try(Disable, IF installed THEN "Disabled" ELSE "NotDetected", "Disabled", cleared)
                /\ pendingUpdate' = FALSE
                /\ UNCHANGED needReload

\* Mutant: a load is started whether or not one is under way.
CoreLoadsAnyway == /\ CanEnable
                   /\ needReload \/ loadedFile # adblocker
                   /\ Try(LoadFilterFile(adblocker), "Loading", "LoadFailed", cleared)
                   /\ needReload' = FALSE
                   /\ pendingUpdate' = FALSE

CoreLoads == /\ ~loading /\ CanEnable
             /\ needReload \/ loadedFile # adblocker
             /\ Try(LoadFilterFile(adblocker), "Loading", "LoadFailed", cleared)
             /\ needReload' = FALSE
             /\ pendingUpdate' = FALSE

CoreEnables == /\ ~loading /\ ~enabled /\ CanEnable
               /\ ~needReload /\ loadedFile = adblocker
               /\ Try(Enable, "Enabled", "Disabled", cleared)
               /\ pendingUpdate' = FALSE
               /\ UNCHANGED needReload

CoreRests == /\ ~loading
             /\ enabled = CanEnable
             /\ CanEnable => ~needReload /\ loadedFile = adblocker
             /\ IF CanEnable THEN UNCHANGED statusVars
                             ELSE TriggerClearTimers(status, cleared)
                                  /\ UNCHANGED <<status, cleared>>
             /\ pendingUpdate' = FALSE
             /\ UNCHANGED <<engineVars, hostVars, needReload>>

UpdateStateCore ==
  /\ Browser /\ At(Main, "idle")
  /\ scheduledUpdate
  /\ scheduledUpdate' = FALSE
  /\ \/ plugin = "none" /\ CoreFindsNone
     \/ /\ plugin # "none"
        /\ CoreWaits \/ CoreDisables \/ CoreLoads \/ CoreEnables \/ CoreRests
  /\ UNCHANGED <<prefVars, events, loadVars>>

\* Mutant: _enable() whatever waited for the load.
OnABPFilterLoadedEnable ==
  /\ At(Main, "idle")
  /\ events # << >> /\ Head(events)
  /\ events' = Tail(events)
  /\ Try(Enable, "Enabled", "Disabled", FALSE)
  /\ UNCHANGED <<prefVars, updateVars, loadVars>>

\* onABPFilterLoaded(): _enable() unless an update waited for the load.
OnABPFilterLoaded ==
  /\ At(Main, "idle")
  /\ events # << >> /\ Head(events)
  /\ events' = Tail(events)
  /\ IF pendingUpdate
       THEN /\ UpdateState
            /\ cleared' = FALSE
            /\ UNCHANGED <<engineVars, hostVars, status, clearTimer>>
       ELSE /\ Try(Enable, "Enabled", "Disabled", FALSE)
            /\ UNCHANGED scheduledUpdate
  /\ UNCHANGED <<prefVars, needReload, pendingUpdate, loadVars>>

OnABPLoadFailure ==
  /\ events # << >> /\ ~Head(events)
  /\ events' = Tail(events)
  /\ SetStatus("LoadFailed", cleared)
  /\ scheduledUpdate' = (scheduledUpdate \/ pendingUpdate)
  /\ UNCHANGED <<engineVars, hostVars, prefVars, needReload, pendingUpdate, loadVars>>

\* The timer of _setClearTimer(): nobody has blocked for 60 seconds.  Unless
\* SlowLoads, a load that began meanwhile is over and reported by then.
ClearTimer ==
  /\ Browser
  /\ clearTimer
  /\ SlowLoads \/ (~loading /\ events = << >>)
  /\ Reaches(ClearFilters) \/ Throws
  /\ clearTimer' = FALSE
  /\ cleared' = TRUE
  /\ UNCHANGED <<prefVars, updateVars, status, events, loadVars>>
-----------------------------------------------------------------------------
\* _onPrefChanged(): the update is scheduled, the status follows at once.
OnPrefChanged ==
  /\ Browser /\ Change
  /\ allowed \/ ~scheduledUpdate \/ QuickToggles
  /\ allowed' = ~allowed
  /\ scheduledUpdate' = (scheduledUpdate \/ installed)
  /\ IF installed /\ ~allowed' THEN SetStatus("Disabled", cleared)
                               ELSE UNCHANGED statusVars
  /\ UNCHANGED <<engineVars, outOfProcess, installed, adblocker, disk, needReload, pendingUpdate,
                 events, loadVars, plugin>>

\* _onABPEnable(): an adblocker is detected.
OnABPEnable(f) ==
  /\ Browser /\ Change
  /\ ~installed
  /\ installed' = TRUE
  /\ adblocker' = f
  /\ SetStatus("Disabled", cleared)
  /\ needReload' = TRUE
  /\ UpdateState
  /\ UNCHANGED <<engineVars, outOfProcess, allowed, disk, pendingUpdate, events, loadVars,
                 plugin>>

\* _onABPDisable(): the adblocker is disabled or removed.
OnABPDisable ==
  /\ Browser /\ Change
  /\ installed
  /\ installed' = FALSE
  /\ UpdateState
  /\ SetStatus("NotDetected", cleared)
  /\ UNCHANGED <<engineVars, outOfProcess, adblocker, allowed, disk, needReload,
                 pendingUpdate, events, loadVars, plugin>>

\* The adblocker saves its filters, or the additional filters are switched:
\* reloadUpdate().
ReloadUpdate ==
  /\ Browser /\ Change
  /\ installed
  /\ disk' = [disk EXCEPT ![adblocker] = @ + 1]
  /\ needReload' = TRUE
  /\ UpdateState
  /\ UNCHANGED <<engineVars, outOfProcess, installed, adblocker, allowed, pendingUpdate,
                 statusVars, events, loadVars, plugin>>
-----------------------------------------------------------------------------
\* The engine's own steps.  Firing an event blocks the main thread until the
\* event has been dispatched; meanwhile it answers the browser and no more.
Callback == /\ FilterLoadedCallback
            /\ events = << >>
            /\ events' = Append(events, Head(calls))
            /\ UNCHANGED <<prefVars, updateVars, statusVars, loadVars, hostVars>>

Load(l) == /\ \/ /\ OpenFails(l)
                 /\ loadFailed' = TRUE
                 /\ UNCHANGED <<unheard, changes>>
              \/ /\ ReadFile(l, disk[job[l].file]) \/ LoaderLock(l) \/ LoaderClear(l)
                    \/ LoaderFill(l) \/ (Post(l) /\ calls' # calls)
                 /\ UNCHANGED <<loadVars, changes>>
              \/ /\ Post(l) /\ calls' = calls \* no utils window
                 /\ unheard' = TRUE
                 /\ Change
                 /\ UNCHANGED loadFailed
           /\ UNCHANGED <<prefVars, updateVars, statusVars, events, plugin>>

Block(t) == /\ \/ ShouldLoad(t) \/ Asking(t)
               \/ t = Main /\ events = << >> /\ GetElemHideStyles
            /\ UNCHANGED observerVars

FinishClear == Clearing /\ UNCHANGED observerVars

\* Out of process: the plugin crashes, an event of its perhaps still on its way; its
\* element is removed, and another is installed and given the preferences.
PluginCrash == /\ PluginDies
               /\ UNCHANGED <<prefVars, updateVars, statusVars, events, loadVars>>

RemovePlugin == /\ plugin = "lost"
                /\ plugin' = "none"
                /\ events' = << >>
                /\ UNCHANGED <<engineVars, prefVars, updateVars, statusVars, loadVars, changes>>

InstallPlugin == /\ plugin = "none"
                 /\ plugin' = "up"
                 /\ UpdateState
                 /\ UNCHANGED <<engineVars, prefVars, needReload, pendingUpdate, statusVars, events,
                                loadVars, changes>>

Next == \/ UpdateStateCore \/ OnABPFilterLoaded \/ OnABPLoadFailure \/ ClearTimer
        \/ OnPrefChanged \/ OnABPDisable \/ ReloadUpdate
        \/ \E f \in Files : OnABPEnable(f)
        \/ Callback \/ FinishClear
        \/ PluginCrash \/ RemovePlugin \/ InstallPlugin
        \/ \E l \in Loaders : Load(l)
        \/ \E t \in Askers : Block(t)

Spec == Init /\ [][Next]_vars

\* Tasks, events, timers and messages are served, threads run.  The main
\* thread answers the browser in between its own work, hence strong fairness.
Fairness == /\ SF_vars(UpdateStateCore) /\ SF_vars(OnABPFilterLoaded)
            /\ WF_vars(OnABPLoadFailure)
            /\ SF_vars(ClearTimer)
            /\ SF_vars(Callback) /\ WF_vars(FinishClear)
            /\ \A l \in Loaders : WF_vars(Load(l))
            /\ \A t \in Askers : WF_vars(Asking(t) /\ UNCHANGED observerVars)

FairSpec == Spec /\ Fairness
-----------------------------------------------------------------------------
(* The observer keeps to the engine's protocol: it never starts a load while one
   is under way, whatever is pending, scheduled or in flight, and whether or not
   the plugin's process has crashed, which alone begins the protocol anew.       *)
KeepsProtocol == [][EngineNext \/ EngineLost]_engineVars

(* "Update plugin state according to current prefs" (line 561): blocking that
   the preferences forbid is about to be switched off.  So it is as long as the
   engine's events are dispatched as they are fired: out of process an update may
   come between the end of a load and its event, which then enables blocking.  *)
BlockingPermitted          == enabled /\ ~CanEnable => scheduledUpdate
BlockingPermittedInProcess == ~outOfProcess => BlockingPermitted

(* What blocks is the file the engine says it has loaded: never the nothing
   that a clear timer or a failed load has left.                            *)
BlocksWithLoadedFile == enabled => filters.file = loadedFile /\ filters # Empty

(* In process, when the preferences rest so does the engine, in the state they
   ask for: blocking with the latest filters of the adblocker in use, or not
   blocking and with nothing loaded, whatever order the clear timer, the loads
   and the updates came in.  A failed load is the only excuse for not blocking;
   a load whose end nobody was told of leaves everything open.              *)
Converged == IF CanEnable
               THEN \/ enabled /\ filters = [file |-> adblocker, data |-> disk[adblocker]]
                    \/ loadFailed
               ELSE ~enabled /\ filters = Empty
Converges == <>[](outOfProcess \/ unheard \/ Converged)
=============================================================================
