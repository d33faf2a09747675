# Fire-IE: specifications and proofs

Fire-IE is a Firefox add-on that shows pages in tabs rendered by Internet
Explorer. It has two halves:

- the **plugin** (`src/plugin`, C++): a NPAPI plugin that hosts the IE control in
  a window per tab, intercepts IE's network traffic, and holds a filter engine
  that blocks what the user's adblocker would block in Firefox;
- the **extension** (`src/extension`, JavaScript): decides which pages go to which
  engine by lists of *rules*, keeps these up to date, and drives the plugin.

The specifications here model the parts of both halves in which the order of
steps matters: locks, queues, event hand-over, file replacement, retries. They
are checked with TLC on small instances, and each of their invariants is proved, for all
instances, with TLAPS. `PROJECT.json` maps each definition to the lines it models.

## How the system works

```
   Firefox main thread                             plugin (in process, or a process of its own)
   ------------------------------------------      ------------------------------------------------
   rules dialogs ---+                              network threads (urlmon)       loader threads
                    v                                  |            |                  |
   Synchronizer -> RuleStorage -> RuleListener         | shouldLoad | SetFirefoxCookie | asyncLoader
                    |    ^            |                v            |                  v
          patterns.ini  cache.js   matchers         AdBlockPlus --- s_mutex (ReaderWriterMutex)
                                                       ^            |                  |
   ABPObserver --- ABPLoad/Enable/Disable/Clear -------+            v    RunAsync      v
        ^                                               utils window's queue (IEHostWindow)
        +---------- IEABPFilterLoaded ... -- CPlugin <--- main thread: OnRunAsyncCall, OnTimer
   tabs, popups <-- IENewTab, progress ... -- CPlugin <--- content windows, popups
```

| Component | Code | State it keeps | What makes it correct | Module |
|---|---|---|---|---|
| Reader/writer lock | `plugin/Utils/RAIILock.cpp` | critical section, reader count, wait set, an event per sleeper | exclusion, no lost wake-up | `RWMutex`, implements `RWLock` |
| Filter engine | `plugin/abp/AdBlockPlus.cpp`, `Matcher.cpp` | enabled, loading, file names, filters, result cache | verdicts of one filter set, no stale cache, the unlocked reads are safe | `AbpEngine` |
| ABP observer | `modules/ABPObserver.jsm` | preferences, `_needReload`, `_pendingUpdate`, `_scheduledUpdate`, status, clear timer | keeps the engine's protocol, ends where the preferences ask | `AbpObserver` |
| Main-thread queue | `plugin/IEHostWindow.cpp` (RunAsync, RunAsyncTimeout) | function queue, timed queue, one Windows timer, a flag | every function runs, none twice | `MainThreadQueue` |
| Plugin events | `IEHostWindow.cpp` (RequirePlugin, SetPlugin, RunThrottled), `Plugin/plugin.cpp` | deferred events, throttle | order, at most one per delay, the last one shown | `PluginEvents` |
| Host windows | `IEHostWindow.cpp`, `plugin.cpp`, `HttpMonitor/MonitorSink.cpp` | window maps, waiting popups, deferred cookies | cookies and popups are neither lost nor handled twice | `HostWindows` |
| Find bar | `IEHostWindow.cpp` (the FB members) | a range per frame, the highlighted segments | the nearest visible match, the right status, exact highlights | `FindBar` |
| Mouse gestures | `plugin/BrowserHook/WindowMessageHook.cpp`, `GestureHandler*.cpp` | state and held messages of three handlers | each message gets to IE or to Firefox, whole and in order | `MessageHook` |
| Filter parser, keyword index, element hiding | `plugin/abp/AdBlockPlus.cpp` (INIParser), `FilterClasses.cpp`, `Matcher.cpp`, `ElemHideMatcher.cpp` | filter objects with their flags, the index, selectors per domain | what is blocked and hidden is what the file says | `FilterIndex` |
| Rule storage | `modules/RuleStorage.jsm`, `RuleListener.jsm` | subscriptions, links of the rules | matchers = the rules in force | `RuleStore` |
| JavaScript matcher | `modules/Matcher.jsm` | keyword index, its cached form, cached answers | answers as a scan would | `RuleMatcher`, driven by `RuleStore` |
| Rule files | `RuleStorage.jsm`, `RuleListener.jsm`, `content/rules-backup.js` | `patterns.ini`, backups, `cache.js`, isDirty | crashes cost one save, the cache never lies | `RuleFiles` |
| Synchronizer | `modules/Synchronizer.jsm` | executing URLs, errors, expiration, the fallback request | never stuck, rules are not lost with their list | `Synchronizer` |
| Utils plugin, IE directories | `modules/UtilsPluginManager.jsm`, `IECookieManager.jsm`, `WinMutex.jsm` | initialized, reloading, two timers; a registry setting under a system-wide mutex | the plugin comes back, the user's setting is restored | `UtilsPlugin` |
| Engine switching, content policy | `modules/AppIntegration.jsm`, `ContentPolicy.jsm`, `content/container.js` | engine per tab | a page ends in the engine its rules ask for | planned |
| Refresh detection | `IEHostWindow.cpp` (OnDownloadBegin/Complete) | counters of downloads | a refresh is told from a navigation | planned |
| URL monitor | `plugin/HttpMonitor` | sinks per request | (only the cookies, in `HostWindows`) | partly |

The hard behaviours are the threads of the plugin (network threads, loader
threads, the main thread, and message loops nested by dialogs), the asynchronous
border between the halves (an event may be on its way while its receiver changes
its mind), crashes and failures during a save, and downloads, timers and
clocks in the extension. `PROJECT.json` lists them under `hazards`, each at its line.

## The modules

**`RWLock`** is the abstract lock: a set of readers or one writer, taken and given
back at once. **`RWMutex`** is the code that implements it: `lockReader` and
`unlockReader` enter the critical section to count, `lockWriter` waits in a
monitor and *keeps* the critical section while it writes. An action is what
happens between two points at which another thread can run: `WaitPush` (put an
event in the wait set and leave), `WaitReturn` (the event is set),
`WaitReenter` (and the test of the `while` loop again). The code has a second
variant that uses Windows condition variables (`NT6_CONDITION`); the monitor is the one modelled.

**`AbpEngine`** has the filter engine over `RWLock`, as `RWMutex` implements it.
A filter set is abstracted to the file it was read from and what was in it, a
verdict to the filter set it was computed from, so that a verdict from half-loaded
or replaced filters is told apart. A lookup is four steps (the unlocked test of
`s_bEnabled`, the lock, the cache or the matchers, `putResultCache`), because a
loader may come between any two. `asyncLoader` is five, the last of which posts the
callback or, with no utils window, makes it itself (`LoadIsOver`). The engine's operations
may be called in any order that its client keeps to: no load while one is under way.
`EngineLost` is not a step of the engine: it is what is left when the plugin's process ends.

**`AbpObserver`** extends `AbpEngine` with the client that drives it. `EngineNext`
as an action property (`KeepsProtocol`) says that every step of the
composition is a step the engine allows, or the loss of the engine. `_updateStateCore` is
one action per way through it (`CoreFindsNone`, `CoreWaits`, `CoreDisables`, `CoreLoads`,
`CoreEnables`, `CoreRests`). `outOfProcess` is chosen at the start and says whether tasks may
run between the engine's event and its arrival, and whether the plugin may crash: it is
`up`, `lost` (its element is there, and calls throw) or `none` (between the removal of the
element and the next one, which schedules an update as `UtilsPluginManager` sets its
preferences). Each call to the engine is a `Try`: it reaches the engine, or it throws
because the process dies under it or is gone, and the `catch` sets the status.

**`MainThreadQueue`** keeps a stack of the functions that run: a function may open a
dialog, and its message loop dispatches the next message. The timed functions
share one timer; whoever changes the head of their queue has `ActivateTimer` run,
and `m_bActivateTimerScheduled` says that it will.

**`PluginEvents`** and **`HostWindows`** take a handler of the main thread as one
step, which `MainThreadQueue` justifies, and model what passes between a window and
Firefox: the events before and after `SetPlugin`, and the cookies and popups that
outlive the window they come from. `SetPlugin` makes one deferred call per step;
whether Firefox may raise another event meanwhile is the constant `Interrupted`. In the
same way, `Send` gives Firefox the deferred cookies of a window and `Clear` drops them, two steps of
`HostWindows`; whether the main thread may do something else between them is `Reentered`.
A timer of the throttle may fire up to `Threshold` early, as `IEHostWindow.h:357` has it.

**`FindBar`** has a page as a list of documents (its frames, in the order the code
visits them), each known by where the text matches and whether that match can be seen. A find
is one step; find previous is a loop, and each find forwards in it is one step.
IE's backward find is external and may return *any* match before the cursor, as the
comment in `FBFindPrevious` says of it.

**`MessageHook`** follows up to five mouse messages through the hook: which handlers
track them, who holds, swallows or forwards them, and what IE is given back. A message
sent to IE may start a message loop there, whose messages pass by the hook.

**`FilterIndex`** reads a filter file section by section, as `INIParser` does, adds the
filters left in any order (they come from a hash set), and answers. A filter is what its
text *says* (options in order, domains, words); `TypesOf` and `Domains` turn that
into flags and domains as the code does, and the properties compare the answers with `AsWritten`, a
definition from the text alone. Loads follow one another over the same filter objects.
Firefox's own setting for the DNT header, which decides first, is a parameter of the question.

**`RuleStore`** has one action per operation of `RuleStorage`, with all the listeners
it triggers. The point of the module is that the code keeps three views of the
same thing (the lists, the links of each rule back to its subscriptions, and the
matchers) by small adjustments: `NotifyAdded`, `NotifyRemoved` and the rest
translate `RuleListener`'s reaction to each notification. `Reload` ends with the removal of
the old special groups that are empty.

**`RuleMatcher`** is the matcher of the extension as operators on a record (the two indexes,
their cached form, the cache of answers). `RuleStore` holds one and drives it, so its
properties compare what is *answered*, not only what is held.

**`RuleFiles`** splits `saveToDisk` at each file operation, so that Firefox may end
or an operation fail between any two: write `patterns.ini-temp`, remove the oldest backup, rename the others
from the oldest to the newest, then `patterns.ini` itself, move the new file into its place.
Rules are a number that each change increases, a file is the rules it holds,
`cache.js` is rules with the time of modification they belong to.

**`Synchronizer`** follows one subscription. Times are relative to the clock, which
may be set back; `idle` alone counts time as it passes while automatic updates are on
(`SetAutoupdate`), and `NotStuck` bounds it.

**`UtilsPlugin`** has several Firefoxes of one user. Between the steps of a handler
that touch the registry or the mutex the others may run, and a Firefox may end. The
timers (30 s after an installation, 300 ms before a reinstallation, the regular
check for a crash) are flags and actions. Reloading takes two: `AskReload` opens the question of
the options dialog, which is modal but runs a message loop, and `AnswerReload` calls
`reloadPluginProcess` with whatever has become of the plugin by then. `host` says what the
preference asked for at the start and where Firefox runs its plugins in fact.

## What is checked

| Run | What it shows |
|---|---|
| `rw_mutex` | the lock excludes, loses no wake-up, serves every request once no more come, and implements `RWLock` |
| `abp_observer` | the observer keeps the engine's protocol and blocks with the filters the engine names, in one process or two; verdicts come from one filter set, the cache is never stale, the main thread may read with no lock; in one process it blocks only when the preferences permit it, and ends where they ask |
| `main_thread_queue` | two threads and dialogs against the queues and the shared timer: every function has a message or a timer, none runs twice, and timed ones run in the end |
| `plugin_events` | order of the events, spacing of the progress events, the last progress shown |
| `host_windows` | each cookie in one place and at Firefox in the end, popups owned or due to be removed |
| `find_bar` | finds in both directions select the nearest visible match with the right status, highlights are exact, find previous ends |
| `message_hook` | each mouse message gets to one side, gestures whole and in order, nothing is held once the buttons are up |
| `filter_index` | whatever was loaded before: lookups agree with a scan, blocking and hiding with what the file says |
| `rule_store` | after every order of operations the links are exact, and the matchers hold the rules in force and answer as a scan of them |
| `rule_files` | after failures and crashes at every step the cache is truthful and what was saved is still in a file; changes get saved |
| `synchronizer` | never stuck for long; a subscription that is gone keeps its rules |
| `utils_plugin` | two Firefoxes that end, crash and reload: the user's setting is never lost, and each plugin works again or is given up |

### Where the code stops short

Reading and checking showed cases in which the code does less than the properties
say. They are excluded by name: by a constant, so that setting it
otherwise makes TLC show the case,

- `QuickToggles = TRUE` (`AbpObserver`, `Converges`): a preference that goes off and on
  within one task starts the clear timer, and the update finds nothing to do, so
  nothing stops it: blocking ends a minute later with the preference on.
- `SlowLoads = TRUE` (`AbpObserver`, `BlocksWithLoadedFile`): the clear timer's 60
  seconds end while a load is under way.
- `UtilsFirst = NoWindow` (`HostWindows`, `CookiesKept`): cookies in the queue of the
  last utils window die with it.
- `Interrupted = TRUE` (`PluginEvents`, `EventsInOrder`): an event raised while `SetPlugin`
  makes the deferred calls overtakes those that are left.
- `Duplicates = TRUE` (`RuleStore`, `LinksExact`): a list that names a rule twice
  (`rules-backup.js:226`) is linked twice; removing the rule takes one link away.
- `SetBack = 8` (`Synchronizer`, `NotStuck`): after the clock is set back by more than two of the
  longest expirations less a shortest one, `lastDownload` is so far in the future that the test of
  the shortest expiration (`Synchronizer.jsm:314`) holds the retry off until the clock has caught up.
- `Reentered = TRUE` (`HostWindows`, `CookiesKept`): if the call that gives Firefox the cookies
  let the main thread go on, cookies that come meanwhile would be cleared unsent (`IEHostWindow.cpp:274`).
- `ReloadsFail = TRUE` (`UtilsPlugin`, `Recovers`): a plugin that crashes while it is being
  reloaded is not missed by anybody, because both checks leave a reload alone.
- `LateReloads = TRUE` (`UtilsPlugin`, `Recovers`): `options2.js:149` asks whether the plugin is
  initialized *before* the question to the user, and `reloadPluginProcess` does not ask again. A plugin
  that crashes during the question, and is installed again but not initialized when the answer
  comes, is ended for good: `_isReloading` is set, so neither `checkPluginCrash`
  (`UtilsPluginManager.jsm:555`) nor the 30-second check (`:306`) brings it back.
- `PrefIgnored = TRUE` (`UtilsPlugin`, `Recovers`): the check for crashes is set up at the start, if
  the *preference* says that the plugin runs out of process (`:192`); a Firefox that does so all the same,
  as the comment at `:347` says that later ones do, loses a crashed plugin.
- `RegistryFails = TRUE` (`UtilsPlugin`, `SettingSafe`): a setting that cannot be read is backed up
  as nothing and then redirected (`IECookieManager.jsm:441`), and one that cannot be written back loses
  its backup all the same (`:463`);

or by the property itself:

- `BlockingPermittedInProcess`: out of process, a preference may go off during a load; the
  update comes after the load has ended and before its event, finds nothing to do, and
  the event switches blocking on against the preference.
- `Converges` excuses a load whose end nobody hears of: with no utils window the loader makes the callback
  itself (`AdBlockPlus.cpp:478`) and fires no event, so the observer waits for one in vain (`unheard`).
- `NotSentRapidly` excuses the calls that were put off until `SetPlugin`, which are sent
  in one burst; `LastProgressShown` a change that falls into the sending of an
  earlier one, which `RunThrottled` forgets.
- `NothingLost` excuses restored rules: they are never saved unless something else changes.
- `FindsNearest` asks less of the *status* of find previous when the page has
  hidden matches: the jump back may then pass the head of the page and return.
- `EachToOne` and `WholeAndInOrder` excuse a change of the gestures enabled while one is being
  tracked and a left button that is up while a rocker gesture has begun with it: it went up
  elsewhere, or the message that began the gesture comes back too late (`odd`);
  `WholeAndInOrder` and `LetsGo` also a message loop inside IE (`nested`), and `LetsGo` a button
  that has gone up elsewhere (`missed`).
- `RulesReplaced` says that the subscription put in the place of one that is gone gets rules, not which, and
  excuses one that the user removes.
- `NotStuck` does not count time with automatic updates switched off.
- `VerdictsExact` excuses filters for DONOTTRACK *and* other types that `findKeyword` files
  under the word `donottrack` (`Matcher.cpp:83`), which other lookups do not look at.
- `BlocksAsWritten` and `HidesAsWritten` hold of files in which each list has its own
  `[Subscription]`, as Adblock Plus saves them. Otherwise a list falls to the flags of the one before, the
  first one to `subscriptionExcluded`, which is not initialized (`AdBlockPlus.cpp:255`).

Reading also showed that a checksum mismatch is reported as
`Synchronizer.checksumMismatch` (`Synchronizer.jsm:345`) and looked for as
`synchronize_checksum_mismatch` (`:395`): the branch that resets the error counter is
never taken. The model does what the code does: all errors count.

### Bounds

Every bound is a constant with a comment at its declaration.

- Threads: three for the lock, so that two sleepers or two readers meet a third
  thread. Two loaders and a network thread beside the main thread in the engine: two
  loads overlap, as they do when one is started from the other's callback.
- `MaxCacheEntries = 1` instead of 10000 (engine, two keys) and 1000 (rules, two URLs): the caches overflow.
- `Files`: two, one per adblocker. `MaxChanges = 3` changes of the environment: on, off and on again.
- Queue: two timed functions and one plain one; `Timeouts` is 1 to 3, whose
  order may differ from the order of the calls (no caller passes 0); functions due at one time may be in
  any order; dialogs nest to `MaxNesting = 2`.
- Events: `Delay = 3` ticks, of which a timer may be `Threshold = 1` early.
- Find bar: documents of `L = 3` positions with matches of `Size = 1`, four kinds of document in
  pages of up to three: matches before, at and after the cursor and in the frames on
  either side; one change of the page (`MaxLoads = 1`), to one with none, no match, or some.
- Mouse: `MaxInput = 5` messages: a gesture takes three, what comes next two;
  `MaxUpsets = 1` button that goes up elsewhere or change of the gestures enabled.
- Filters: 13 texts over three URLs and nested domains (`MCFilterIndex`), files of one list or
  two, each flag of a subscription, and filters disabled before, or disabled and enabled again.
- Rules: two rules in three subscriptions (one downloaded, two groups, one of which
  takes rules by default), at most two rules in each; the rules share a keyword.
- Files: two backups, three changes, three saves: every file has been through every name.
- Synchronizer: expirations of one or two ticks instead of one to four days, so that the
  shortest and the longest differ; two errors before the fallback instead of five; `SetBack = 1`
  tick, no more than the shortest expiration.
- Utils plugin: two Firefoxes, two ends and two losses of a plugin (crashes and reloads) in all, so that one
  may meet what the other left, and be met by it again.

The proofs do not depend on any of these.

### Fairness

Liveness is checked under weak fairness of threads that can run, of messages and
tasks that are queued, and of time. Five things are worth a word.

- In `AbpObserver` the main thread answers the browser between its own steps, which
  disables and enables the handlers in turn: strong fairness says that a
  task which is possible again and again is run.
- In `MainThreadQueue` a dialog is assumed to be closed in the end (`Return`).
- In `FindBar` a call runs to its end before the window handles another event.
- In `UtilsPlugin` the main thread goes on, timers fire, and a plugin that stays
  alive reports to Firefox; it need not stay alive. That the report of IE's user
  agent comes once the plugin has initialized is assumed of the plugin.
- No fairness is assumed of users, networks, crashes or failing files.

## What is proved

For any number of threads, files, keys, windows, cookies, events, messages, filters, rules, subscriptions,
backups, pages, frames and Firefoxes:

| Theorem | States | Assumes |
|---|---|---|
| `ThreadProofs!TypeCorrect`, `MutualExclusion`, `WakeupsKept` | `MutexSpec => []MutexTypeOK`, `[]Exclusion`, `[]NoLostWakeup` | |
| `ThreadProofs!Refinement` | `MutexSpec => ImplementsRWLock` | |
| `AbpProofs!TypeCorrect`, `StylesNeedNoLock`, `CacheNeverStale`, `VerdictsUnmixed`, `EnabledIdle` | of the engine alone: `[]EngineTypeOK`, `[]UnlockedReadsSafe`, `[]CacheCurrent`, `[]OneFilterSet`, `[]NoLoadWhileEnabled` | |
| `AbpProofs!ProtocolKept`, `EngineTogether` | of the engine under its observer, across crashes: `KeepsProtocol`, and the above | |
| `AbpProofs!BlocksWhenPermitted` | `[]BlockingPermittedInProcess` | |
| `AbpProofs!BlocksWithWhatIsLoaded` | `[]BlocksWithLoadedFile` | `~SlowLoads` |
| `ThreadProofs!NoneForgotten`, `RunOnce`, `TimerInTime` | `[]MessagePerCall`, `[]NoneRunTwice`, `[]TimerCoversHead` | |
| `PluginProofs!NoneOutOfOrder` | `[]EventsInOrder` | `~Interrupted` |
| `PluginProofs!Throttled` | `[]NotSentRapidly` | |
| `WindowProofs!PopupsCaredFor` | `[]PopupsOwned` | `UtilsFirst \in Windows` |
| `WindowProofs!CookiesOnce` | `[]CookiesKept` | `UtilsFirst \in Windows`, `~Reentered` |
| `WindowProofs!MessagesReachOne`, `MessagesStayInOrder`, `GesturesEnd` | `[]EachToOne`, `[]WholeAndInOrder`, `[]LetsGo` | |
| `FilterIndexProofs!LookupExact` | `[]VerdictsExact` | |
| `FilterIndexProofs!BlocksWhatIsWritten`, `HidesWhatIsWritten` | `[]BlocksAsWritten`, `[]HidesAsWritten` | |
| `RuleProofs!LinksAreExact`, `RulesAreInForce` | `[]LinksExact`, `[]RulesInForce` | `~Duplicates` |
| `RuleProofs!CacheNeverStale`, `SavedWhenClean`, `LastSaveSurvives` | `[]CacheTruthful`, `[]NothingLost`, `[]LastSaveKept` | |
| `RuleProofs!NeverStuck` | `[]NotStuck` | `MinExpiration + SetBack <= MaxIdle` |
| `FindBarProofs!HighlightsMatch`, `NearestIsFound` | `[]HighlightsExact`, `[]FindsNearest` | |
| `PluginProofs!UserSettingSafe`, `OneAtATime` | `[]SettingSafe`; no two Firefoxes change the setting at a time | `~RegistryFails` |

Beside what the last column says, the assumptions are those named `...Assumption` in
the modules, which TLC evaluates in every run. Each component has its inductive
invariant, built from named parts, with one lemma or step per action. `RuleProofs` holds the
proofs about `RuleStore`, `RuleMatcher`, `RuleFiles` and `Synchronizer`, `PluginProofs` those about
`PluginEvents` and `UtilsPlugin`, `WindowProofs` those about `HostWindows` and `MessageHook`, and
`ThreadProofs` those about `RWMutex` and `MainThreadQueue`.

*Loops.* A loop of the code over an array is a fold in the model. `FoldInduction` proves once
that what each round keeps holds in the end; its operator and its invariant are constants
of the module, so a proof about a certain loop instantiates it (`AddLoop`, `TypeLoop`, ...).
Underneath is only that a set of numbers has a least element.

*The lock.* Exclusion is not inductive: that nobody reads while a writer
writes depends on the reader count being the number of threads that are counted in,
and on the writer holding the critical section all the while. `NoLostWakeup`
depends on a sleeper's event being in the wait set, once, until it is set. The
refinement maps a reader to the time from the count in `lockReader` to the
count in `unlockReader`.

*The engine.* The comment at `AdBlockPlus.cpp:174` claims that the main thread
needs no lock. The proof shows why: filters are replaced only by a loader
between the start of a load and its callback, the engine is disabled when a load
starts and cannot be enabled before its callback has run on the main thread, and
the main thread looks for styles only while it is enabled. So the invariant ties
each loader's program point to `s_bLoading` and to the callbacks in the queue. The
cache needs more: a network thread holds the reader lock from its lookup to
`putResultCache`, and the filters change only under the writer lock, so what it
puts there was computed from the filters that are there still.

*The engine under its observer.* The engine's invariant is inductive for every step its
protocol allows, and for `EngineLost`, after which it is as at the start. That the observer takes no
other step follows from its tests of the engine's state, so the engine's invariant is part of
that of the two (`TwoInv`), and all that was proved of the engine
holds. Two layers are added: `Permitted` (in process, an engine that blocks against the
preferences has an update scheduled, and so has a load under way, or one pending),
and `Filled` (an enabled engine holds the file it names, since a load that has
succeeded filled the matchers with it and no clear timer has come since).

*The main-thread queue.* `m_bActivateTimerScheduled` is set just when there is one
activation, in one of four places: promised by a thread, in the queue, owed by a function
that runs, or begun. While it is set the timer need not cover the head; when it is
not, the timer was set for a head that has not become earlier since. Functions are
counted: the queue is as long as there are messages and threads about to post one.

*Events.* The deferred events go on where those sent end, with none missing, so making
the calls in order keeps the order. The throttle's invariant relates the time
since the last progress to the delays under way.

*Windows.* The first utils window stays at the head of the map of utils windows, so there is always
one that takes a dead window's cookies. A cookie is located by counting: at
most one window, at most one function in its queue.

*Mouse messages.* Two invariants. `GoneInv`, for `LetsGo`: as long as no message has passed by
the hook, what is given back ends with the latest message, so a button that is up in the input
is up in the last message the handlers have seen, and that ends every gesture. `OwnInv`, for the others: the
handlers are at rest, or a gesture has begun with the left button or with the right one, or one of them
has triggered. In each of these phases all who hold anything hold the same messages `K`, and `K` is with
IE too (left), with nobody (right), or gone to Firefox. Handlers are shown a message one by one,
and between two of them they disagree; the lemmas about the loop (`RestShown`, `LeftShown`,
`RightShown`) say what they have in common by then, and that in the end they agree again. For the
order, `K` and what is being sent back are the latest messages with none missing. The second
half of `odd` is there since a message posted back may come to the hook after its button has
gone up in a loop of IE's, which takes more messages than the bound of the run allows.

*The find bar.* Between two calls only the range of the current document has moved, and that of the
first one, where a find starts, not before something was looked for. So a find forwards,
which takes the documents in turn and the current one again at the end, meets every match of
the page once, from the cursor on: the documents it has passed over have no visible match ahead
(`PassedOver`), hence it ends at the next one (`FoundIsNext`), or at the first of all,
with the tail passed, when all are behind the cursor; if it ends nowhere there is none (`NothingAhead`).
Backwards nothing of the kind is so, since `findText` may return any match. Find previous goes
forwards from there, and the invariant (`OnWay`) says what it knows on its way: `S` is the
match it started from, `w` the one it is at, and unless all matches are before the cursor, the tail
counts as passed only while `w` is before `S`. When the match after `w` is
`S` itself, `w` is the one before `S` in the order of the page or, from the first, the last of all
(`WalkEnds`). That the *status* is right too needs the jump to pass the head of the
page just when it has to, which hidden matches can spoil (`Sure`). Highlights are never of a page newer
than the one searched, and a page newer than that one has none.

*Filters.* The matcher holds exactly the filters added so far, each under a keyword that
`findKeyword` may have chosen; a filter that matches a URL has all its candidates among the
URL's words. So a lookup by keyword meets every filter a scan would.

*Blocking and hiding.* `AsWritten` speaks of the text of a filter and of the sections of a file; the
code has objects with flags, kept from one load to the next. The invariant says what the parser
has read of the file in place, what that makes of each filter's flag, and what has been added.
The loops over a filter's options and domains are shown to mean what the text says: the
last option about a type decides, else the first of all options; the domain written last decides.
For hiding, the walk from a domain to those that enclose it stops where the selector is
decided, and the general style sheet has what no exception is made of.
The filters that `ABPObserver.jsm:173` adds to every file are assumed to come as lists, as they do.

*Rules in memory.* The code never counts: it adjusts links and matchers at each operation. The
invariant says what they must be at any moment (a link for each list that holds a rule; in the
matchers the active rules that are enabled in an enabled, known subscription), and that the two
indexes of a matcher mirror each other, with every cached answer the one a lookup would give. That
`removeRule` looks at the links *after* they have been adjusted, and `addRule` too, is what the
proof of each operation turns on. It fails with `Duplicates`, for the reason given above.

*Downloads.* `NotStuck` bounds `idle`, which the code does not have. While the subscription
waits, the time it has waited and the time left sum to no more than the longest expiration and an
hour; one setting back of the clock moves that bound to `MaxIdle`, once, as the next check cuts the time
left. Once nothing is left, `lastDownload` alone can hold the download off, and it lags behind `idle`
by no more than `SetBack`, which is where the assumption comes from.

*Rule files.* No two versions of `patterns.ini` have one time of modification, so that a
`cache.js` with the time of the present one was written for it. During a save
the newest rules are in the temporary file, and those saved last in `patterns.ini` or, while that is
missing, in the first backup.

*The shared setting.* Who has begun to change the setting and has not put it back holds the
mutex, so only its holder writes; the backup is written only when it is
empty, hence only with the user's own value.

Model-checked only: liveness, which is beyond the prover (`EveryRequestServed`, `Converges`,
`EveryTimerRuns`, `LastProgressShown`, `CookiesArrive`, `ChangesSaved`, `RulesReplaced`, `PreviousEnds`,
`Recovers`). All invariants and both refinements that the runs check are proved.

## What is not modelled

- IE itself, urlmon, and the COM adapters around them (`IEControlSite`,
  `PassthroughAPP`, `PluginApp`), the forwarding of keys and the patches of Windows functions
  (`BrowserHook`): what they do is Windows', of which this repository says too little.
- The user interface, preferences, presentation, and the vendored libraries.
- Undefined behaviour after a window is deleted under a network thread that has just
  looked it up (`SetFirefoxCookie`): `HostWindows` takes look-up and use as one step.
  The same for a reference into `m_vFBDocs` kept while a failing `duplicate()`
  empties it, for windows that close during `forwardAllOrigin`, and for a change of the gestures enabled
  in a message loop inside it (`GestureHandler.cpp:69`): disabling the handler that sends clears the
  messages it iterates over (`:101`). `SetEnabledGestures` waits until no such loop runs.
- Regular expressions and tokenizing (constants of `FilterIndex` and `RuleMatcher`), which of
  several equally good keywords is the longest in C++, how selectors are grouped for IE.
- The false alarm of the
  30-second check when it falls into the 300 ms before a reinstallation: the
  plugin is then reported to have failed and comes back all the same.
- Switching between the engines, the content policy and the refresh detection: planned.

## Plan

1. *(done)* Lock, engine, observer, queue, events, windows, find bar, mouse gestures, filter
   files and index, rules with their matcher, rule files, downloads, utils plugin.
2. *(done)* Proofs about the lock, the engine and its observer, the queue, events, windows, the
   mouse gestures, the filter index with what it blocks and hides, the find bar, the rules in memory
   and on disk, downloads and the shared setting.
3. `EngineSwitch`: a tab between the two engines, with the content policy and the
   user's manual choice; refresh detection.
4. `Synchronizer` composed with `RuleStore`: a download that ends after a restore.
