----------------------------- MODULE UtilsPlugin -----------------------------
(***************************************************************************)
(* UtilsPluginManager and IECookieManager: the hidden plugin of a Firefox, *)
(* and IE's directories.                                                   *)
(*                                                                         *)
(* IE's cookies are to go into a directory of the Firefox profile.  The    *)
(* plugin takes them there if the registry says so when it starts; so the  *)
(* extension changes the user's setting before it installs the plugin, and *)
(* puts it back when the plugin has reported.  The setting belongs to the  *)
(* user, so several Firefoxes change it in turn, under a mutex of the      *)
(* system, and keep the user's own value beside it.                        *)
(*                                                                         *)
(* The plugin has a process of its own: it may crash and is installed      *)
(* again.  A Firefox may end at any time; the registry stays as it is, and *)
(* the mutex is abandoned.  Handlers run to their end on the main thread,  *)
(* but for the others the steps of a handler in the registry are apart.    *)
(* The setting for the cache is treated as the one for the cookies.        *)
(***************************************************************************)
EXTENDS Naturals, FiniteSets

CONSTANTS Firefoxes,
          User, Nothing,  \* the user's directory; no value in the registry
          MaxEnds,        \* bounds how often a Firefox ends,
          MaxLosses,      \* how often a plugin crashes or is reloaded;
          ReloadsFail,    \* whether it may crash while it is being reloaded,
          LateReloads,    \* or be reloaded while it is not initialized;
          PrefIgnored,    \* whether it may run out of process against the preference;
          RegistryFails   \* whether reads, and putting back, may fail in the registry

ASSUME UtilsPluginAssumption ==
  /\ User \notin Firefoxes /\ Nothing \notin Firefoxes \cup {User}
  /\ MaxEnds \in Nat /\ MaxLosses \in Nat
  /\ {ReloadsFail, LateReloads, PrefIgnored, RegistryFails} \subseteq BOOLEAN

Nobody == Nothing

VARIABLES
  setting,  \* the registry's "Cookies"
  backup,   \* "Cookies_fireie"
  mutex,    \* the Firefox that holds it
  at,       \* per Firefox: where its main thread is
  plugin,   \* per Firefox: the plugin element's state
  told,     \* per Firefox: the preferences its plugin was told
  prefs,    \* per Firefox: its preferences
  manager,  \* per Firefox: the flags of both managers, and the timers
  host,     \* per Firefox: is its plugin to run out of process, and does it?
  asking,   \* the Firefoxes that ask whether to reload
  ends, losses

registry == <<setting, backup, mutex>>
utilsVars == <<registry, at, plugin, told, prefs, manager, host, asking, ends, losses>>

\* _isPluginInitialized, _isRunningOOP, _isReloading, _bTmpDirChanged,
\* loadFailureHandled; the timers of _runDelayedPluginChecker and _reinstallPlugin.
NewManager == [initialized |-> FALSE, runningOOP |-> FALSE, reloading |-> FALSE,
               changed |-> FALSE, failed |-> FALSE, checker |-> FALSE, reinstall |-> FALSE]

\* "Firefox 43 no longer supports in-process plugins"
Hosts == {h \in [pref : BOOLEAN, oop : BOOLEAN] : h.oop # h.pref => h.oop /\ PrefIgnored}

\* Reading may yield nothing where there is a value; a value that is absent is
\* read as one that cannot be.
Reads(value) == {value} \cup (IF RegistryFails THEN {Nothing} ELSE {})
\* The value after a write of new that nobody looks at the success of.
Writes(old, new) == {new} \cup (IF RegistryFails THEN {old} ELSE {})

UtilsInit == /\ setting = User /\ backup = Nothing /\ mutex = Nobody
             /\ at = [p \in Firefoxes |-> "down"]
             /\ plugin = [p \in Firefoxes |-> "none"]
             /\ told = [p \in Firefoxes |-> Nothing]
             /\ prefs \in [Firefoxes -> BOOLEAN]
             /\ manager = [p \in Firefoxes |-> NewManager]
             /\ host \in [Firefoxes -> Hosts]
             /\ asking = {}
             /\ ends = 0 /\ losses = 0

Go(p, place)     == at' = [at EXCEPT ![p] = place]
Idle(p)          == at[p] = "idle"
\* Another plugin, or none: it has been told nothing yet.
BecomesOf(p, st) == plugin' = [plugin EXCEPT ![p] = st] /\ told' = [told EXCEPT ![p] = Nothing]
-----------------------------------------------------------------------------
\* lazyStartup(): _install() begins with changeIETempDirectorySetting().
Start(p) == /\ at[p] = "down"
            /\ Go(p, "change")
            /\ UNCHANGED <<registry, plugin, told, prefs, manager, host, asking, ends, losses>>

\* acquireMutex(): one that its holder has abandoned is as good as a free one.
Acquire(p) == /\ at[p] = "change" /\ ~manager[p].changed
              /\ mutex = Nobody
              /\ mutex' = p
              /\ Go(p, "backup")
              /\ UNCHANGED <<setting, backup, plugin, told, prefs, manager, host, asking, ends, losses>>

\* Not again; not when redirection is disabled; not without the mutex, be it that
\* another holds it for MUTEX_TIMEOUT or that it could not be made.
DoNotChange(p) == /\ at[p] = "change"
                  /\ Go(p, "install")
                  /\ UNCHANGED <<registry, plugin, told, prefs, manager, host, asking, ends, losses>>

\* Mutant: an old backup is overwritten.
BackUpAgain(p) == /\ at[p] = "backup"
                  /\ backup' = setting /\ Go(p, "redirect") /\ UNCHANGED manager
                  /\ UNCHANGED <<setting, mutex, plugin, told, prefs, host, asking, ends, losses>>

\* What a Firefox that ended too early has kept is the user's own value still.
\* When the value cannot be kept, the setting stays.  A value that could not be
\* read is kept as an empty one, which is none.
BackUp(p) ==
  /\ at[p] = "backup"
  /\ \E original \in Reads(setting), kept \in Reads(backup) :
       \/ /\ backup' = IF kept = Nothing THEN original ELSE backup
          /\ Go(p, "redirect") /\ UNCHANGED manager
       \/ /\ kept = Nothing /\ UNCHANGED backup
          /\ Go(p, "install") /\ manager' = [manager EXCEPT ![p].changed = TRUE]
  /\ UNCHANGED <<setting, mutex, plugin, told, prefs, host, asking, ends, losses>>

Redirect(p) == /\ at[p] = "redirect"
               /\ setting' \in {p, setting}
               /\ manager' = [manager EXCEPT ![p].changed = TRUE]
               /\ Go(p, "install")
               /\ UNCHANGED <<backup, mutex, plugin, told, prefs, host, asking, ends, losses>>

\* Mutant: nobody looks after a plugin that has been installed.
InstallUnchecked(p) == /\ at[p] = "install"
                       /\ BecomesOf(p, "alive")
                       /\ manager' = [manager EXCEPT ![p].runningOOP = host[p].pref]
                       /\ Go(p, "idle")
                       /\ UNCHANGED <<registry, prefs, host, asking, ends, losses>>

\* _installPlugin() and _runDelayedPluginChecker(), which arms its timer anew.
Install(p) == /\ at[p] = "install"
              /\ BecomesOf(p, "alive")
              /\ manager' = [manager EXCEPT ![p].checker = TRUE,
                                            ![p].runningOOP = host[p].pref]
              /\ Go(p, "idle")
              /\ UNCHANGED <<registry, prefs, host, asking, ends, losses>>

\* restoreIETempDirectorySetting(), begun and ended.
BeginRestore(p) == Go(p, IF manager[p].changed THEN "restore" ELSE "idle")

EndRestore(p) == /\ manager' = [manager EXCEPT ![p].changed = FALSE]
                 /\ mutex' = IF mutex = p THEN Nobody ELSE mutex
                 /\ Go(p, "idle")

Restore(p) == /\ at[p] = "restore"
              /\ \E kept \in Reads(backup) :
                   \/ /\ kept # Nothing
                      /\ setting' \in Writes(setting, kept)
                      /\ Go(p, "forget") /\ UNCHANGED <<mutex, manager>>
                   \/ kept = Nothing /\ EndRestore(p) /\ UNCHANGED setting
              /\ UNCHANGED <<backup, plugin, told, prefs, host, asking, ends, losses>>

Forget(p) == /\ at[p] = "forget"
             /\ backup' \in Writes(backup, Nothing) /\ EndRestore(p)
             /\ UNCHANGED <<setting, plugin, told, prefs, host, asking, ends, losses>>

MainThread(p) == \/ Acquire(p) \/ DoNotChange(p) \/ BackUp(p) \/ Redirect(p) \/ Install(p)
                 \/ Restore(p) \/ Forget(p)
-----------------------------------------------------------------------------
\* IEUtilsPluginInitialized: the handler that fireAfterInit() has put there sets the
\* preferences, notes where the plugin runs, and ends a reload.
OnInitialized(p) ==
  /\ Idle(p) /\ plugin[p] = "alive" /\ ~manager[p].initialized
  /\ manager' = [manager EXCEPT ![p].initialized = TRUE, ![p].reloading = FALSE,
                                ![p].runningOOP = host[p].oop]
  /\ told' = [told EXCEPT ![p] = prefs[p]]
  /\ UNCHANGED <<registry, at, plugin, prefs, host, asking, ends, losses>>

OnIEUserAgentReceived(p) ==
  /\ Idle(p) /\ plugin[p] = "alive" /\ manager[p].changed
  /\ BeginRestore(p)
  /\ UNCHANGED <<registry, plugin, told, prefs, manager, host, asking, ends, losses>>

\* loadFailureSubHandler(): once for each installation.
LoadFailure(p) ==
  IF manager[p].failed THEN UNCHANGED at ELSE BeginRestore(p)

\* PluginNotFound and the like.
OnPluginLoadFailure(p) ==
  /\ Idle(p) /\ plugin[p] = "alive" /\ ~manager[p].initialized
  /\ BecomesOf(p, "dead")
  /\ LoadFailure(p)
  /\ manager' = [manager EXCEPT ![p].failed = TRUE]
  /\ UNCHANGED <<registry, prefs, host, asking, ends, losses>>

\* "Check after 30 sec whether the plugin is initialized yet"
DelayedPluginChecker(p) ==
  /\ Idle(p) /\ manager[p].checker
  /\ IF manager[p].initialized \/ manager[p].reloading
       THEN manager' = [manager EXCEPT ![p].checker = FALSE] /\ UNCHANGED at
       ELSE /\ manager' = [manager EXCEPT ![p].checker = FALSE, ![p].failed = TRUE]
            /\ LoadFailure(p)
  /\ UNCHANGED <<registry, plugin, told, prefs, host, asking, ends, losses>>

\* reinstall(): the element is removed, and made again after 300 ms.
Reinstall(p, reloading) ==
  /\ manager' = [manager EXCEPT ![p].initialized = FALSE, ![p].reloading = reloading,
                                ![p].reinstall = TRUE]
  /\ BecomesOf(p, "none")

\* At intervals, and when Firefox says that a plugin has crashed: set up at the
\* start, if the preference says that the plugin runs out of process.
CheckPluginCrash(p) == /\ Idle(p) /\ host[p].pref
                       /\ manager[p].initialized /\ plugin[p] = "dead"
                       /\ Reinstall(p, manager[p].reloading)
                       /\ UNCHANGED <<registry, at, prefs, host, asking, ends, losses>>

\* Options: the user has changed what only a new process will see.  The question
\* is modal, with a message loop of its own.
AskReload(p) == /\ Idle(p) /\ p \notin asking /\ losses < MaxLosses
                /\ manager[p].runningOOP /\ manager[p].initialized
                /\ asking' = asking \cup {p}
                /\ UNCHANGED <<registry, at, plugin, told, prefs, manager, host, ends, losses>>

\* reloadPluginProcess(): without an element, what is installed next counts as
\* the reload.  Otherwise the process is told to end, and checkPluginCrash() has
\* the plugin installed again; but not one that was not initialized.
ReloadPluginProcess(p) ==
  \/ /\ ~manager[p].runningOOP
     /\ UNCHANGED <<manager, plugin, told, losses>>
  \/ /\ manager[p].runningOOP /\ plugin[p] = "none"
     /\ manager' = [manager EXCEPT ![p].reloading = TRUE]
     /\ UNCHANGED <<plugin, told, losses>>
  \/ /\ manager[p].runningOOP /\ plugin[p] # "none"
     /\ losses < MaxLosses
     /\ losses' = losses + 1
     /\ \/ manager[p].initialized /\ Reinstall(p, TRUE)
        \/ /\ ~manager[p].initialized /\ LateReloads
           /\ manager' = [manager EXCEPT ![p].reloading = TRUE]
           /\ BecomesOf(p, "dead")

\* The user says yes, or no.
AnswerReload(p) == /\ Idle(p) /\ p \in asking
                   /\ asking' = asking \ {p}
                   /\ \/ ReloadPluginProcess(p)
                      \/ UNCHANGED <<manager, plugin, told, losses>>
                   /\ UNCHANGED <<registry, at, prefs, host, ends>>

\* _reinstallPlugin()'s timer.
ReinstallPlugin(p) ==
  /\ Idle(p) /\ manager[p].reinstall
  /\ manager' = [manager EXCEPT ![p].reinstall = FALSE, ![p].failed = FALSE]
  /\ Go(p, "change")
  /\ UNCHANGED <<registry, plugin, told, prefs, host, asking, ends, losses>>

\* onPrefChanged(): a plugin that is not there, or not yet, is not told.
OnPrefChanged(p) ==
  /\ Idle(p)
  /\ prefs' = [prefs EXCEPT ![p] = ~@]
  /\ told' = IF plugin[p] = "alive" /\ manager[p].initialized
             THEN [told EXCEPT ![p] = prefs'[p]] ELSE told
  /\ UNCHANGED <<registry, at, plugin, manager, host, asking, ends, losses>>
-----------------------------------------------------------------------------
\* A plugin in Firefox's own process takes Firefox with it: End.
Crash(p) == /\ plugin[p] = "alive" /\ host[p].oop /\ losses < MaxLosses
            /\ manager[p].reloading => ReloadsFail
            /\ losses' = losses + 1
            /\ BecomesOf(p, "dead")
            /\ UNCHANGED <<registry, at, prefs, manager, host, asking, ends>>

\* A Firefox ends, in whatever way: nothing puts the setting back.
End(p) == /\ at[p] # "down" /\ ends < MaxEnds
          /\ ends' = ends + 1
          /\ Go(p, "down") /\ BecomesOf(p, "none")
          /\ manager' = [manager EXCEPT ![p] = NewManager]
          /\ mutex' = IF mutex = p THEN Nobody ELSE mutex
          /\ asking' = asking \ {p}
          /\ UNCHANGED <<setting, backup, prefs, host, losses>>

UtilsHandlers(p) == \/ OnIEUserAgentReceived(p) \/ OnPluginLoadFailure(p) \/ DelayedPluginChecker(p)
                    \/ OnInitialized(p) \/ CheckPluginCrash(p) \/ ReinstallPlugin(p)

UtilsNext == \E p \in Firefoxes :
          \/ Start(p) \/ MainThread(p) \/ UtilsHandlers(p)
          \/ AskReload(p) \/ AnswerReload(p) \/ OnPrefChanged(p) \/ Crash(p) \/ End(p)

\* The main thread goes on and timers fire; a plugin that stays alive reports.
UtilsFairness == \A p \in Firefoxes :
  /\ WF_utilsVars(MainThread(p))
  /\ WF_utilsVars(OnInitialized(p)) /\ WF_utilsVars(OnIEUserAgentReceived(p))
  /\ WF_utilsVars(DelayedPluginChecker(p)) /\ WF_utilsVars(CheckPluginCrash(p))
  /\ WF_utilsVars(ReinstallPlugin(p))

UtilsSpec == UtilsInit /\ [][UtilsNext]_utilsVars /\ UtilsFairness
-----------------------------------------------------------------------------
(* The user's setting is never lost: wherever a Firefox has ended, it is in place
   or in the backup, and the backup holds no directory of a Firefox.         *)
SettingSafe == /\ backup \in {Nothing, User}
               /\ backup = Nothing => setting = User

Works(p) == plugin[p] = "alive" /\ manager[p].initialized /\ told[p] = prefs[p]
GaveUp(p) == manager[p].failed /\ ~manager[p].initialized

(* Whatever crashes, fails to load or is reloaded when: in the end the plugin of
   a Firefox works, with the preferences of now, or the user has been told that
   it does not; and the Firefox keeps neither the directories nor the mutex.  *)
Recovers ==
  \A p \in Firefoxes :
    []<>(at[p] = "down" \/ /\ Works(p) \/ GaveUp(p)
                           /\ ~manager[p].changed /\ mutex # p)
=============================================================================
