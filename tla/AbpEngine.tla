----------------------------- MODULE AbpEngine ------------------------------
(***************************************************************************)
(* plugin/abp: the filter engine.  AdBlockPlus.cpp holds two matchers that *)
(* every thread of the process shares, CombinedMatcher (Matcher.cpp) caches*)
(* verdicts, and s_mutex, a reader/writer lock (RWLock; RWMutex implements *)
(* it), protects both:                                                     *)
(*   - network threads ask shouldLoad / shouldSendDNTHeader under a        *)
(*     ReaderLock, but read s_bEnabled before they take it;                *)
(*   - a loader thread per loadFilterFile replaces the filters under a     *)
(*     WriterLock and posts filterLoadedCallback to the main thread;       *)
(*   - the main thread serves every call from the extension, and asks      *)
(*     getElemHideStyles with no lock at all.                              *)
(*                                                                         *)
(* A filter set is abstracted to the file it was read from and what was in *)
(* it; a verdict to the filter set it was computed from.                   *)
(***************************************************************************)
EXTENDS RWLock, Naturals, Sequences, FiniteSets

CONSTANTS Readers,         \* network threads
          Loaders,         \* threads for asyncLoader; bounds the loads under way
          Main,            \* the plugin's main thread
          Files, NoFile,   \* filter files; the empty pathname
          Data,            \* what a filter file and the additional filters may hold
          Keys,            \* lookups: location, content type, domain, third party
          MaxCacheEntries  \* CombinedMatcher::maxCacheEntries (10000 in the code)

Askers == Readers \cup {Main}

ASSUME EngineAssumption ==
  /\ Threads = Readers \cup Loaders \cup {Main}
  /\ Main \notin Readers /\ Main \notin Loaders /\ Readers \cap Loaders = {}
  /\ NoFile \notin Files
  /\ Keys # {}
  /\ MaxCacheEntries \in Nat \ {0}

\* What the two matchers hold: one complete filter set, or nothing.
FilterSets == [file : Files, data : Data]
Empty      == [file |-> NoFile]
Contents   == FilterSets \cup {Empty}

VARIABLES
  enabled,     \* s_bEnabled
  loading,     \* s_bLoading
  loadedFile,  \* s_strFilterFile
  loadingFile, \* s_strLoadingFile
  filters,     \* regexpMatcher and elemhideMatcher
  cache,       \* CombinedMatcher::resultCache
  pc,          \* where each thread is
  ask,         \* per asking thread: its lookup, and the filter sets it has used
  job,         \* per loader thread: what it was asked to load, or has read
  calls        \* filterLoadedCallback calls posted to the main thread (RunAsync)

flagVars    == <<enabled, loading, loadedFile, loadingFile>>
matcherVars == <<filters, cache>>
engineVars  == <<readers, writer, flagVars, matcherVars, pc, ask, job, calls>>

Goto(t, l) == pc' = [pc EXCEPT ![t] = l]
At(t, l)   == pc[t] = l
Tell(t, r) == ask' = [ask EXCEPT ![t] = r]

\* A thread that has no lookup under way, and at most two to make: shouldLoad
\* and getElemHideStyles ask about the document, then about the resource.
MaxLookups == 2
Lookup     == [key : Keys, left : 0..MaxLookups, found : Contents, used : SUBSET Contents]
NewLookup  == [key |-> CHOOSE k \in Keys : TRUE, left |-> MaxLookups,
               found |-> Empty, used |-> {}]

EngineInit ==
  /\ LockInit
  /\ enabled = FALSE /\ loading = FALSE
  /\ loadedFile = NoFile /\ loadingFile = NoFile
  /\ filters = Empty
  /\ cache = << >>
  /\ pc = [t \in Threads |-> "idle"]
  /\ ask = [t \in Askers |-> NewLookup]
  /\ job = [l \in Loaders |-> Empty]
  /\ calls = << >>
-----------------------------------------------------------------------------
\* Mutant: enable() without its guard.
EnableAlways == /\ At(Main, "idle")
                /\ enabled' = TRUE
                /\ UNCHANGED <<lockVars, loading, loadedFile, loadingFile, matcherVars,
                               pc, ask, job, calls>>

\* enable(): refused while a load is under way.
Enable == /\ At(Main, "idle")
          /\ enabled' = (enabled \/ ~loading)
          /\ UNCHANGED <<lockVars, loading, loadedFile, loadingFile, matcherVars,
                         pc, ask, job, calls>>

Disable == /\ At(Main, "idle")
           /\ enabled' = FALSE
           /\ UNCHANGED <<lockVars, loading, loadedFile, loadingFile, matcherVars,
                          pc, ask, job, calls>>

\* Mutant: clearFilters() leaves s_strFilterFile alone.
ClearFiltersKeepFile == /\ At(Main, "idle")
                        /\ enabled' = FALSE
                        /\ Goto(Main, "clearLock")
                        /\ UNCHANGED <<lockVars, loadedFile, loading, loadingFile,
                                       matcherVars, ask, job, calls>>

\* clearFilters(): the flags first, then the matchers under a WriterLock for
\* which the main thread waits.
ClearFilters == /\ At(Main, "idle")
                /\ enabled' = FALSE
                /\ loadedFile' = NoFile
                /\ Goto(Main, "clearLock")
                /\ UNCHANGED <<lockVars, loading, loadingFile, matcherVars, ask, job, calls>>

ClearLock == /\ At(Main, "clearLock")
             /\ AcquireWrite(Main)
             /\ Goto(Main, "clear")
             /\ UNCHANGED <<flagVars, matcherVars, ask, job, calls>>

\* Mutant: the cached verdicts survive.
ClearFiltersOnly == filters' = Empty /\ UNCHANGED cache

ClearFiltersInternal == filters' = Empty /\ cache' = << >>

Clear == /\ At(Main, "clear")
         /\ ClearFiltersInternal
         /\ ReleaseWrite(Main)
         /\ Goto(Main, "idle")
         /\ UNCHANGED <<flagVars, ask, job, calls>>

\* loadFilterFile(): disables, sets the flags, starts a loader thread.
LoadFilterFile(f) ==
  /\ At(Main, "idle")
  /\ enabled' = FALSE
  /\ loadingFile' = f
  /\ loading' = TRUE
  /\ \E l \in Loaders : /\ At(l, "idle")
                        /\ Goto(l, "open")
                        /\ job' = [job EXCEPT ![l] = [file |-> f]]
  /\ UNCHANGED <<lockVars, loadedFile, matcherVars, ask, calls>>

\* filterLoadedCallback(): the load is over.
LoadIsOver(loaded) == /\ loading' = FALSE
                      /\ loadedFile' = IF loaded THEN loadingFile ELSE loadedFile
                      /\ UNCHANGED <<enabled, loadingFile>>

\* It runs on the main thread, in the order of posting.
FilterLoadedCallback ==
  /\ At(Main, "idle")
  /\ calls # << >>
  /\ LoadIsOver(Head(calls))
  /\ calls' = Tail(calls)
  /\ UNCHANGED <<lockVars, matcherVars, pc, ask, job>>
-----------------------------------------------------------------------------
\* asyncLoader(): the file cannot be opened or read ...
OpenFails(l) == /\ At(l, "open")
                /\ job' = [job EXCEPT ![l] = Empty]
                /\ Goto(l, "post")
                /\ UNCHANGED <<lockVars, flagVars, matcherVars, ask, calls>>

\* ... or holds d.
ReadFile(l, d) == /\ At(l, "open")
                  /\ job' = [job EXCEPT ![l] = [file |-> @.file, data |-> d]]
                  /\ Goto(l, "lock")
                  /\ UNCHANGED <<lockVars, flagVars, matcherVars, ask, calls>>

LoaderLock(l) == /\ At(l, "lock")
                 /\ AcquireWrite(l)
                 /\ Goto(l, "clear")
                 /\ UNCHANGED <<flagVars, matcherVars, ask, job, calls>>

LoaderClear(l) == /\ At(l, "clear")
                  /\ ClearFiltersInternal
                  /\ Goto(l, "fill")
                  /\ UNCHANGED <<lockVars, flagVars, ask, job, calls>>

\* Every add() drops the cache; the lock is released with the last filter in.
LoaderFill(l) == /\ At(l, "fill")
                 /\ filters' = job[l]
                 /\ cache' = << >>
                 /\ ReleaseWrite(l)
                 /\ Goto(l, "post")
                 /\ UNCHANGED <<flagVars, ask, job, calls>>

\* The loader tells the main thread whether it has loaded the file; without a utils
\* window ("may never get to here", line 477) it calls filterLoadedCallback itself.
Post(l) == /\ At(l, "post")
           /\ \/ calls' = Append(calls, job[l] # Empty) /\ UNCHANGED flagVars
              \/ LoadIsOver(job[l] # Empty) /\ UNCHANGED calls
           /\ job' = [job EXCEPT ![l] = Empty]
           /\ Goto(l, "idle")
           /\ UNCHANGED <<lockVars, matcherVars, ask>>
-----------------------------------------------------------------------------
\* shouldLoad(), shouldSendDNTHeader(): s_bEnabled is read before the lock.
ShouldLoad(t) == /\ t \in Readers
                 /\ At(t, "idle")
                 /\ enabled
                 /\ Goto(t, "lock")
                 /\ UNCHANGED <<lockVars, flagVars, matcherVars, ask, job, calls>>

\* Mutant: shouldLoad() without its ReaderLock.
TakeNoLock(t) == /\ t \in Readers
                 /\ At(t, "lock")
                 /\ Goto(t, "ask")
                 /\ UNCHANGED <<lockVars, flagVars, matcherVars, ask, job, calls>>

TakeReaderLock(t) == /\ t \in Readers
                     /\ At(t, "lock")
                     /\ AcquireRead(t)
                     /\ Goto(t, "ask")
                     /\ UNCHANGED <<flagVars, matcherVars, ask, job, calls>>

\* getElemHideStyles(), on the main thread, without the lock.
GetElemHideStyles == /\ At(Main, "idle")
                     /\ enabled
                     /\ Goto(Main, "ask")
                     /\ UNCHANGED <<lockVars, flagVars, matcherVars, ask, job, calls>>

\* CombinedMatcher::matchesAny(): queryResultCache, and on a miss ...
QueryResultCache(t, k) ==
  /\ At(t, "ask")
  /\ ask[t].left > 0
  /\ IF k \in DOMAIN cache
       THEN /\ Tell(t, [ask[t] EXCEPT !.left = ask[t].left - 1,
                                      !.used = ask[t].used \cup {cache[k]}])
            /\ UNCHANGED pc
       ELSE /\ Tell(t, [ask[t] EXCEPT !.left = ask[t].left - 1, !.key = k])
            /\ Goto(t, "match")
  /\ UNCHANGED <<lockVars, flagVars, matcherVars, job, calls>>

\* ... matchesAnyInternal ...
MatchesAnyInternal(t) ==
  /\ At(t, "match")
  /\ Tell(t, [ask[t] EXCEPT !.found = filters, !.used = ask[t].used \cup {filters}])
  /\ Goto(t, "put")
  /\ UNCHANGED <<lockVars, flagVars, matcherVars, job, calls>>

\* ... and putResultCache, which empties a full cache first.
PutResultCache(t) ==
  LET kept == IF Cardinality(DOMAIN cache) >= MaxCacheEntries THEN {} ELSE DOMAIN cache
  IN /\ At(t, "put")
     /\ cache' = [k \in kept \cup {ask[t].key} |->
                    IF k = ask[t].key THEN ask[t].found ELSE cache[k]]
     /\ Goto(t, "ask")
     /\ UNCHANGED <<lockVars, flagVars, filters, ask, job, calls>>

\* The verdict is returned: after both lookups, or after the first when the
\* document is whitelisted.
Return(t) == /\ At(t, "ask")
             /\ ask[t].left < MaxLookups
             /\ Tell(t, NewLookup)
             /\ Goto(t, "idle")
             /\ IF t = Main THEN UNCHANGED lockVars ELSE ReleaseRead(t)
             /\ UNCHANGED <<flagVars, matcherVars, job, calls>>
-----------------------------------------------------------------------------
\* What a thread does of its own accord once it has been asked.
Asking(t) == \/ TakeReaderLock(t)
             \/ \E k \in Keys : QueryResultCache(t, k)
             \/ MatchesAnyInternal(t) \/ PutResultCache(t) \/ Return(t)

Loading(l) == \/ OpenFails(l) \/ \E d \in Data : ReadFile(l, d)
              \/ LoaderLock(l) \/ LoaderClear(l) \/ LoaderFill(l) \/ Post(l)

Clearing == ClearLock \/ Clear

\* The extension calls ABPLoad only when it has just seen ABPIsLoading false.
\* The engine relies on it; AbpObserver is shown to keep to it.
Called == \/ Enable \/ Disable \/ ClearFilters
          \/ \E f \in Files : ~loading /\ LoadFilterFile(f)

EngineNext == \/ Called
              \/ FilterLoadedCallback \/ Clearing \/ GetElemHideStyles
              \/ \E l \in Loaders : Loading(l)
              \/ \E t \in Readers : ShouldLoad(t)
              \/ \E t \in Askers : Asking(t)

EngineSpec == EngineInit /\ [][EngineNext]_engineVars

\* The engine is lost with the plugin's process; what replaces it begins anew.
EngineLost ==
  /\ readers' = {} /\ writer' = NoThread
  /\ enabled' = FALSE /\ loading' = FALSE
  /\ loadedFile' = NoFile /\ loadingFile' = NoFile
  /\ filters' = Empty /\ cache' = << >>
  /\ pc' = [t \in Threads |-> "idle"]
  /\ ask' = [t \in Askers |-> NewLookup]
  /\ job' = [l \in Loaders |-> Empty]
  /\ calls' = << >>
-----------------------------------------------------------------------------
Labels == {"idle", "open", "lock", "clear", "fill", "post", "ask", "match", "put",
           "clearLock"}

EngineTypeOK ==
  /\ LockTypeOK
  /\ enabled \in BOOLEAN /\ loading \in BOOLEAN
  /\ loadedFile \in Files \cup {NoFile} /\ loadingFile \in Files \cup {NoFile}
  /\ filters \in Contents
  /\ DOMAIN cache \subseteq Keys /\ Cardinality(DOMAIN cache) <= MaxCacheEntries
  /\ \A k \in DOMAIN cache : cache[k] \in Contents
  /\ pc \in [Threads -> Labels]
  /\ ask \in [Askers -> Lookup]
  /\ job \in [Loaders -> Contents \cup [file : Files]]
  /\ calls \in Seq(BOOLEAN)

(* "Don't need any lock here -- access is from main thread only" (line 174):
   while the main thread looks for styles no loader thread is writing.      *)
UnlockedReadsSafe == At(Main, "ask") \/ At(Main, "match") \/ At(Main, "put")
                       => writer \notin Loaders

(* A cached verdict is the one the filters in the matchers give now, whatever
   reader computed it before whatever reload.                               *)
CacheCurrent == \A k \in DOMAIN cache : cache[k] = filters

(* No verdict mixes two filter sets: a thread that asks twice, once about the
   document and once about the resource, is answered from the same filters. *)
OneFilterSet == \A t \in Askers : ask[t].used \subseteq {filters}

(* While blocking is enabled no load is under way, however enabling, clearing,
   loading and the loaders' callbacks interleave.                           *)
NoLoadWhileEnabled == enabled => \A l \in Loaders : At(l, "idle")
=============================================================================
