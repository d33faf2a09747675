------------------------------ MODULE AbpProofs ------------------------------
(***************************************************************************)
(* The filter engine and its observer, for any number of network threads,  *)
(* loader threads, filter files, lookups and cache entries.                *)
(*                                                                         *)
(* The argument about the engine has three layers: who holds the lock      *)
(* (Locks), what the flags say about the loads under way (Loads), and what *)
(* follows for the verdicts (Verdicts).  The observer keeps to the engine's*)
(* protocol, so that all of it holds of the two together, and two layers   *)
(* more say which filters the engine blocks with, and when it may.         *)
(***************************************************************************)
EXTENDS AbpObserver, SequenceTheorems, FiniteSetTheorems, TLAPS

Looking == {"ask", "match", "put"}

\* The types the argument needs.
Types == /\ pc \in [Threads -> Labels]
         /\ ask \in [Askers -> Lookup]
         /\ calls \in Seq(BOOLEAN)
         /\ enabled \in BOOLEAN /\ loading \in BOOLEAN
         /\ loadedFile \in Files \cup {NoFile} /\ loadingFile \in Files \cup {NoFile}

\* A loader that is about to fill the matchers has read a complete filter set.
Jobs == /\ job \in [Loaders -> Contents \cup [file : Files]]
        /\ \A l \in Loaders : /\ pc[l] = "open" => job[l] \in [file : Files]
                              /\ pc[l] \in {"lock", "clear", "fill"} => job[l] \in FilterSets
        /\ filters \in Contents

\* The cache never outgrows its limit.
Bounded == /\ DOMAIN cache \subseteq Keys
           /\ IsFiniteSet(DOMAIN cache)
           /\ Cardinality(DOMAIN cache) <= MaxCacheEntries

\* Who holds the lock: a reader while it looks, a loader while it replaces the
\* filters, the main thread while it clears them.
Locks == /\ readers \subseteq Readers
         /\ writer # NoThread => readers = {}
         /\ \A t \in Readers : t \in readers <=> pc[t] \in Looking
         /\ \A l \in Loaders : writer = l <=> pc[l] \in {"clear", "fill"}
         /\ writer = Main <=> pc[Main] = "clear"
         /\ \A t \in Readers : writer # t
         /\ writer \in Threads \cup {NoThread}

\* What s_bLoading says: exactly one load is running or reported while it is
\* set, none otherwise; and then nobody enables, and the main thread is not
\* looking for styles.
Running == {l \in Loaders : pc[l] # "idle"}
Loads == /\ \A l, m \in Running : l = m
         /\ Running # {} => loading /\ calls = << >>
         /\ calls # << >> => loading /\ Len(calls) = 1
         /\ loading => ~enabled /\ pc[Main] \notin Looking

\* What the asking threads have been told.
Verdicts == /\ CacheCurrent
            /\ OneFilterSet
            /\ \A t \in Askers : /\ pc[t] \notin Looking => ask[t].used = {}
                                 /\ pc[t] = "put" => ask[t].found = filters

(* The inductive invariant. *)
IInv == Types /\ Jobs /\ Bounded /\ Locks /\ Loads /\ Verdicts

-----------------------------------------------------------------------------
USE EngineAssumption, NoThreadAssumption DEF Askers, Goto, At, Tell, Looking

LEMMA InitIInv == EngineInit => IInv
  <1> SUFFICES ASSUME EngineInit PROVE IInv OBVIOUS
  <1>1. NewLookup \in Lookup /\ NewLookup.used = {}
    BY DEF NewLookup, Lookup, Contents, MaxLookups
  <1>2. Types
    <2>1. calls \in Seq(BOOLEAN) BY EmptySeq DEF EngineInit
    <2>2. pc \in [Threads -> Labels] /\ ask \in [Askers -> Lookup]
      BY <1>1 DEF EngineInit, Labels
    <2> QED BY <2>1, <2>2 DEF EngineInit, Types
  <1>3. Locks BY DEF EngineInit, LockInit, Locks
  <1>4. Loads BY DEF EngineInit, Loads, Running
  <1>5. Verdicts BY <1>1 DEF EngineInit, Verdicts, CacheCurrent, OneFilterSet
  <1>6. Jobs BY DEF EngineInit, Jobs, Contents
  <1>7. Bounded
    <2>1. DOMAIN cache = {} BY DEF EngineInit
    <2> QED BY <2>1, FS_EmptySet DEF Bounded
  <1> QED BY <1>2, <1>3, <1>4, <1>5, <1>6, <1>7 DEF IInv
-----------------------------------------------------------------------------
\* Calls of the extension that change flags only.
LEMMA FlagSteps == ASSUME IInv, Enable \/ Disable PROVE IInv'
  <1>1. Types' BY DEF IInv, Types, Enable, Disable
  <1>2. Locks' BY DEF IInv, Locks, Enable, Disable, lockVars
  <1>3. Loads' BY DEF IInv, Types, Loads, Running, Enable, Disable
  <1>4. Verdicts' BY DEF IInv, Verdicts, CacheCurrent, OneFilterSet, Enable, Disable, matcherVars
  <1>5. Jobs' /\ Bounded' BY DEF IInv, Jobs, Bounded, Enable, Disable, matcherVars
  <1> QED BY <1>1, <1>2, <1>3, <1>4, <1>5 DEF IInv

\* An empty cache is bounded.
LEMMA EmptyBounded == ASSUME cache' = << >> PROVE Bounded'
  <1>1. DOMAIN cache' = {} OBVIOUS
  <1> QED BY <1>1, FS_EmptySet DEF Bounded

LEMMA ClearSteps == ASSUME IInv, ClearFilters \/ ClearLock \/ Clear PROVE IInv'
  <1> USE DEF ClearFilters, ClearLock, Clear, flagVars, matcherVars, lockVars
  <1>1. Types' BY DEF IInv, Types, Labels
  <1>2. Locks' BY DEF IInv, Types, Locks, AcquireWrite, ReleaseWrite
  <1>3. Loads' BY DEF IInv, Types, Loads, Running
  <1>6. Jobs' BY DEF IInv, Types, Jobs, Contents, ClearFiltersInternal
  <1>4. CASE ClearFilters \/ ClearLock
    <2>2. Bounded' BY <1>4 DEF IInv, Bounded
    <2>1. Verdicts' BY <1>4 DEF IInv, Types, Verdicts, CacheCurrent, OneFilterSet
    <2> QED BY <1>1, <1>2, <1>3, <1>6, <2>1, <2>2 DEF IInv
  <1>5. CASE Clear
    <2>3. Bounded' BY <1>5, EmptyBounded DEF ClearFiltersInternal
    <2>1. \A t \in Askers : pc[t] \notin Looking
      BY <1>5 DEF IInv, Locks
    <2>2. Verdicts'
      BY <1>5, <2>1 DEF IInv, Types, Verdicts, CacheCurrent, OneFilterSet, ClearFiltersInternal
    <2> QED BY <1>1, <1>2, <1>3, <1>6, <2>2, <2>3 DEF IInv
  <1> QED BY <1>4, <1>5

\* A load starts only when none is running: the protocol of the extension.
LEMMA LoadStep == ASSUME IInv, NEW f \in Files, ~loading, LoadFilterFile(f) PROVE IInv'
  <1> USE DEF LoadFilterFile, matcherVars, lockVars
  <1>0. PICK l \in Loaders : /\ At(l, "idle") /\ Goto(l, "open")
                             /\ job' = [job EXCEPT ![l] = [file |-> f]]
    OBVIOUS
  <1>1. Types' BY <1>0 DEF IInv, Types, Labels
  <1>2. Locks' BY <1>0 DEF IInv, Types, Locks
  <1>3. Loads'
    <2>1. Running = {} /\ calls = << >> BY DEF IInv, Loads
    <2>2. Running' = {l} BY <1>0, <2>1 DEF IInv, Types, Running
    <2> QED BY <1>0, <2>1, <2>2 DEF IInv, Types, Loads
  <1>4. Verdicts' BY <1>0 DEF IInv, Types, Verdicts, CacheCurrent, OneFilterSet
  <1>5. Jobs' BY <1>0 DEF IInv, Types, Jobs
  <1>6. Bounded' BY DEF IInv, Bounded
  <1> QED BY <1>1, <1>2, <1>3, <1>4, <1>5, <1>6 DEF IInv

\* The queue holds one report at most, so serving one empties it.
LEMMA TailOfOne ==
  ASSUME NEW S, NEW s \in Seq(S), Len(s) = 1
  PROVE  Tail(s) \in Seq(S) /\ Tail(s) = << >>
  <1>1. s # << >> BY EmptySeq
  <1>2. Tail(s) \in Seq(S) /\ Len(Tail(s)) = Len(s) - 1 BY <1>1, HeadTailProperties
  <1> HIDE <1>1
  <1>3. Len(Tail(s)) = 0 BY <1>2
  <1> QED BY <1>2, <1>3, EmptySeq

LEMMA CallbackStep == ASSUME IInv, FilterLoadedCallback PROVE IInv'
  <1> USE DEF FilterLoadedCallback, LoadIsOver, matcherVars, lockVars
  <1>0. calls' \in Seq(BOOLEAN) /\ calls' = << >>
    <2>1. calls \in Seq(BOOLEAN) /\ Len(calls) = 1 BY DEF IInv, Types, Loads
    <2>2. calls' = Tail(calls) OBVIOUS
    <2> QED BY <2>1, <2>2, TailOfOne
  <1>1. Types'
    <2>1. calls' \in Seq(BOOLEAN) BY <1>0
    <2>2. loading' \in BOOLEAN OBVIOUS
    <2>3. loadedFile' \in Files \cup {NoFile} BY DEF IInv, Types
    <2> QED BY <2>1, <2>2, <2>3 DEF IInv, Types
  <1>2. Locks' BY DEF IInv, Locks
  <1>3. Loads'
    <2>1. Running = {} BY DEF IInv, Loads
    <2> QED BY <1>0, <2>1 DEF Loads, Running
  <1>4. Verdicts' BY DEF IInv, Verdicts, CacheCurrent, OneFilterSet
  <1>5. Jobs' /\ Bounded' BY DEF IInv, Jobs, Bounded
  <1> QED BY <1>1, <1>2, <1>3, <1>4, <1>5 DEF IInv

-----------------------------------------------------------------------------
\* While a loader runs the flags keep the main thread from looking.
LEMMA RunningAlone ==
  ASSUME IInv, NEW l \in Loaders, pc[l] # "idle"
  PROVE  /\ Running = {l} /\ loading /\ ~enabled /\ calls = << >>
         /\ pc[Main] \notin Looking
  BY DEF IInv, Loads, Running

\* A loader that holds the lock holds it against every asking thread.
LEMMA NobodyLooks ==
  ASSUME IInv, NEW l \in Loaders, pc[l] \in {"clear", "fill"}
  PROVE  \A t \in Askers : pc[t] \notin Looking /\ ask[t].used = {}
  <1>1. writer = l /\ readers = {} BY DEF IInv, Locks
  <1>2. \A t \in Readers : pc[t] \notin Looking BY <1>1 DEF IInv, Locks
  <1>3. pc[Main] \notin Looking BY RunningAlone
  <1> QED BY <1>2, <1>3 DEF IInv, Verdicts

LEMMA LoaderSteps ==
  ASSUME IInv, NEW l \in Loaders, Loading(l)
  PROVE  IInv'
  <1> USE DEF flagVars, matcherVars, lockVars
  <1>1. CASE OpenFails(l) \/ \E d \in Data : ReadFile(l, d)
    <2>1. /\ pc[l] = "open"
          /\ \E next \in {"post", "lock"} : pc' = [pc EXCEPT ![l] = next]
          /\ UNCHANGED <<lockVars, flagVars, matcherVars, ask, calls>>
      BY <1>1 DEF OpenFails, ReadFile
    <2>2. Types' BY <2>1 DEF IInv, Types, Labels
    <2>6. pc'[l] \in {"post", "lock"} /\ \A t \in Threads \ {l} : pc'[t] = pc[t]
      BY <2>1 DEF IInv, Types
    <2>3. Locks' BY <2>1, <2>6 DEF IInv, Locks
    <2>4. Loads'
      <3>1. Running' = Running BY <2>1, <2>6 DEF Running
      <3> QED BY <2>1, <2>6, <3>1 DEF IInv, Loads
    <2>5. Verdicts' BY <2>1 DEF IInv, Types, Verdicts, CacheCurrent, OneFilterSet
    <2>7. Jobs'
      <3>1. CASE OpenFails(l)
        BY <3>1 DEF OpenFails, IInv, Types, Jobs, Contents
      <3>2. ASSUME NEW d \in Data, ReadFile(l, d) PROVE Jobs'
        <4>1. job[l].file \in Files BY <2>1 DEF IInv, Jobs
        <4>2. [file |-> job[l].file, data |-> d] \in FilterSets BY <4>1 DEF FilterSets
        <4> QED BY <3>2, <4>2 DEF ReadFile, IInv, Types, Jobs, Contents
      <3> QED BY <1>1, <3>1, <3>2
    <2>8. Bounded' BY <2>1 DEF IInv, Bounded
    <2> QED BY <2>2, <2>3, <2>4, <2>5, <2>7, <2>8 DEF IInv
  <1>2. CASE LoaderLock(l)
    <2> USE <1>2 DEF LoaderLock, AcquireWrite
    <2>1. Types' BY DEF IInv, Types, Labels
    <2>2. Locks' BY DEF IInv, Types, Locks
    <2>3. Loads'
      <3>1. Running' = Running BY DEF IInv, Types, Running
      <3> QED BY <3>1 DEF IInv, Types, Loads
    <2>4. Verdicts' BY DEF IInv, Types, Verdicts, CacheCurrent, OneFilterSet
    <2>5. Jobs' /\ Bounded' BY DEF IInv, Types, Jobs, Bounded
    <2> QED BY <2>1, <2>2, <2>3, <2>4, <2>5 DEF IInv
  <1>3. CASE LoaderClear(l) \/ LoaderFill(l)
    <2> USE <1>3 DEF LoaderClear, LoaderFill
    <2>1. Types' BY DEF IInv, Types, Labels
    <2>2. Locks' BY DEF IInv, Types, Locks, ReleaseWrite
    <2>3. Loads'
      <3>1. Running' = Running BY DEF IInv, Types, Running
      <3> QED BY <3>1 DEF IInv, Types, Loads
    <2>4. Verdicts'
      <3>1. cache' = << >> BY DEF ClearFiltersInternal
      <3>2. \A t \in Askers : pc'[t] = pc[t] /\ ask'[t] = ask[t]
        BY DEF IInv, Types
      <3> QED BY <3>1, <3>2, NobodyLooks DEF Verdicts, CacheCurrent, OneFilterSet
    <2>5. Jobs' BY DEF IInv, Types, Jobs, Contents, ClearFiltersInternal
    <2>6. Bounded' BY EmptyBounded DEF ClearFiltersInternal
    <2> QED BY <2>1, <2>2, <2>3, <2>4, <2>5, <2>6 DEF IInv
  <1>4. CASE Post(l)
    <2> USE <1>4 DEF Post
    <2>0. calls = << >> /\ loading /\ ~enabled /\ Running = {l} /\ pc[Main] \notin Looking
      BY RunningAlone
    <2>1. /\ calls' \in Seq(BOOLEAN) /\ enabled' = enabled
          /\ \/ Len(calls') = 1 /\ loading' = loading /\ loadedFile' = loadedFile
             \/ /\ calls' = << >> /\ loading' = FALSE
                /\ loadedFile' \in {loadedFile, loadingFile}
          /\ loadingFile' = loadingFile
      <3>1. CASE calls' = Append(calls, job[l] # Empty) /\ UNCHANGED flagVars
        <4>1. (job[l] # Empty) \in BOOLEAN OBVIOUS
        <4>2. calls \in Seq(BOOLEAN) /\ Len(calls) = 0 BY <2>0, EmptySeq
        <4> QED BY <3>1, <4>1, <4>2, AppendProperties
      <3>2. CASE LoadIsOver(job[l] # Empty) /\ UNCHANGED calls
        BY <2>0, <3>2, EmptySeq DEF LoadIsOver
      <3> QED BY <3>1, <3>2
    <2>2. Types' BY <2>1 DEF IInv, Types, Labels
    <2>3. Locks' BY DEF IInv, Types, Locks
    <2>4. Loads'
      <3>1. Running' = {} BY <2>0 DEF IInv, Types, Running
      <3>2. pc'[Main] = pc[Main] BY DEF IInv, Types
      <3>3. calls' # << >> => loading' /\ Len(calls') = 1 BY <2>0, <2>1
      <3> QED BY <2>0, <2>1, <3>1, <3>2, <3>3 DEF Loads
    <2>5. Verdicts' BY DEF IInv, Types, Verdicts, CacheCurrent, OneFilterSet
    <2>6. Jobs' BY DEF IInv, Types, Jobs, Contents
    <2>7. Bounded' BY DEF IInv, Bounded
    <2> QED BY <2>2, <2>3, <2>4, <2>5, <2>6, <2>7 DEF IInv
  <1> QED BY <1>1, <1>2, <1>3, <1>4 DEF Loading

-----------------------------------------------------------------------------
\* Entering and leaving a lookup: ShouldLoad, TakeReaderLock, GetElemHideStyles
\* and Return.
LEMMA EntrySteps ==
  ASSUME IInv, NEW t \in Askers,
         \/ ShouldLoad(t) \/ TakeReaderLock(t) \/ Return(t)
         \/ t = Main /\ GetElemHideStyles
  PROVE  IInv'
  <1> USE DEF ShouldLoad, TakeReaderLock, Return, GetElemHideStyles,
              flagVars, matcherVars, lockVars
  <1>0. NewLookup \in Lookup /\ NewLookup.used = {}
    BY DEF NewLookup, Lookup, Contents, MaxLookups
  <1>1. Types' BY <1>0 DEF IInv, Types, Labels
  <1>2. Locks' BY DEF IInv, Types, Locks, AcquireRead, ReleaseRead
  <1>3. Loads'
    <2>1. Running' = Running BY DEF IInv, Types, Running
    <2> QED BY <2>1 DEF IInv, Types, Loads
  <1>4. Verdicts' BY <1>0 DEF IInv, Types, Verdicts, CacheCurrent, OneFilterSet
  <1>5. Jobs' /\ Bounded' BY DEF IInv, Types, Jobs, Bounded
  <1> QED BY <1>1, <1>2, <1>3, <1>4, <1>5 DEF IInv

\* What a lookup in the cache, and one in the matchers, leave of a record.
LEMMA OneLookupLess ==
  ASSUME NEW a \in Lookup, a.left > 0, NEW k \in Keys, NEW f \in Contents
  PROVE  /\ [a EXCEPT !.left = a.left - 1, !.used = a.used \cup {f}] \in Lookup
         /\ [a EXCEPT !.left = a.left - 1, !.used = a.used \cup {f}].used = a.used \cup {f}
         /\ [a EXCEPT !.left = a.left - 1, !.key = k] \in Lookup
         /\ [a EXCEPT !.left = a.left - 1, !.key = k].used = a.used
  <1>1. a.left - 1 \in 0..MaxLookups BY DEF Lookup, MaxLookups
  <1>2. a.used \cup {f} \in SUBSET Contents BY DEF Lookup
  <1> QED BY <1>1, <1>2 DEF Lookup

LEMMA LookupAnswered ==
  ASSUME NEW a \in Lookup, NEW f \in Contents
  PROVE  /\ [a EXCEPT !.found = f, !.used = a.used \cup {f}] \in Lookup
         /\ [a EXCEPT !.found = f, !.used = a.used \cup {f}].found = f
         /\ [a EXCEPT !.found = f, !.used = a.used \cup {f}].used = a.used \cup {f}
  BY DEF Lookup

\* A lookup in the cache or in the matchers, under whatever protects it.
LEMMA LookupSteps ==
  ASSUME IInv, NEW t \in Askers,
         \/ \E k \in Keys : QueryResultCache(t, k)
         \/ MatchesAnyInternal(t) \/ PutResultCache(t)
  PROVE  IInv'
  <1> USE DEF flagVars, matcherVars, lockVars
  <1>1. /\ pc[t] \in Looking /\ pc' \in [Threads -> Labels]
        /\ pc'[t] \in Looking /\ \A u \in Threads \ {t} : pc'[u] = pc[u]
        /\ UNCHANGED <<lockVars, flagVars, filters, calls>>
    BY DEF IInv, Types, Labels, QueryResultCache, MatchesAnyInternal, PutResultCache
  <1>2. Locks' BY <1>1 DEF IInv, Locks
  <1>3. Loads'
    <2>1. Running' = Running BY <1>1 DEF Running
    <2> QED BY <1>1, <2>1 DEF IInv, Loads
  <1>4. Jobs'
    <2>1. \A l \in Loaders : pc'[l] = pc[l] BY <1>1
    <2> QED BY <1>1, <2>1 DEF IInv, Jobs, QueryResultCache, MatchesAnyInternal, PutResultCache
  <1>5. ASSUME NEW k \in Keys, QueryResultCache(t, k) PROVE Types' /\ Bounded' /\ Verdicts'
    <2> USE <1>5 DEF QueryResultCache
    <2>0. ask[t] \in Lookup /\ filters \in Contents /\ ask[t].left > 0
      BY DEF IInv, Types, Jobs
    <2>1. k \in DOMAIN cache => cache[k] = filters
      BY DEF IInv, Verdicts, CacheCurrent
    <2>2. PICK r \in Lookup : /\ ask' = [ask EXCEPT ![t] = r]
                             /\ r.used \subseteq ask[t].used \cup {filters}
      <3>1. CASE k \in DOMAIN cache
        <4> DEFINE hit == [ask[t] EXCEPT !.left = ask[t].left - 1,
                                         !.used = ask[t].used \cup {filters}]
        <4>1. hit \in Lookup /\ hit.used = ask[t].used \cup {filters} BY <2>0, OneLookupLess
        <4>2. ask' = [ask EXCEPT ![t] = hit] BY <3>1, <2>1
        <4> QED BY <4>1, <4>2
      <3>2. CASE k \notin DOMAIN cache
        <4> DEFINE miss == [ask[t] EXCEPT !.left = ask[t].left - 1, !.key = k]
        <4>1. miss \in Lookup /\ miss.used = ask[t].used BY <2>0, OneLookupLess
        <4>2. ask' = [ask EXCEPT ![t] = miss] BY <3>2
        <4> HIDE DEF miss
        <4> QED BY <4>1, <4>2
      <3> QED BY <3>1, <3>2
    <2>3. ask' \in [Askers -> Lookup] BY <2>2 DEF IInv, Types
    <2>4. \A u \in Askers : ask'[u].used \subseteq ask[u].used \cup {filters}
      BY <2>2 DEF IInv, Types
    <2>5. \A u \in Askers : u # t => ask'[u] = ask[u] BY <2>2 DEF IInv, Types
    <2>6. pc'[t] # "put" /\ cache' = cache BY DEF IInv, Types
    <2>7. Verdicts'
      <3>1. CacheCurrent' /\ OneFilterSet'
        BY <1>1, <2>4, <2>6 DEF IInv, Verdicts, CacheCurrent, OneFilterSet
      <3>2. ASSUME NEW u \in Askers
            PROVE  /\ pc'[u] \notin Looking => ask'[u].used = {}
                   /\ pc'[u] = "put" => ask'[u].found = filters'
        <4>1. CASE u = t BY <4>1, <1>1, <2>6
        <4>2. CASE u # t BY <4>2, <1>1, <2>5 DEF IInv, Verdicts
        <4> QED BY <4>1, <4>2
      <3> QED BY <3>1, <3>2 DEF Verdicts
    <2>8. Types' BY <1>1, <2>3 DEF IInv, Types
    <2> QED BY <2>6, <2>7, <2>8 DEF IInv, Bounded
  <1>6. ASSUME MatchesAnyInternal(t) PROVE Types' /\ Bounded' /\ Verdicts'
    <2> USE <1>6 DEF MatchesAnyInternal
    <2>0. ask[t] \in Lookup /\ filters \in Contents
      BY DEF IInv, Types, Jobs
    <2>1. PICK r \in Lookup : /\ ask' = [ask EXCEPT ![t] = r]
                             /\ r.found = filters
                             /\ r.used = ask[t].used \cup {filters}
      BY <2>0, LookupAnswered
    <2>3. cache' = cache /\ filters' = filters OBVIOUS
    <2> HIDE <1>6 DEF MatchesAnyInternal
    <2>2. ask' \in [Askers -> Lookup] /\ ask'[t] = r
          /\ \A u \in Askers : u # t => ask'[u] = ask[u]
      BY <2>1 DEF IInv, Types
    <2>4. Verdicts' BY <1>1, <2>1, <2>2, <2>3 DEF IInv, Verdicts, CacheCurrent, OneFilterSet
    <2>5. Types' BY <1>1, <2>2 DEF IInv, Types
    <2> QED BY <2>3, <2>4, <2>5 DEF IInv, Bounded
  <1>7. ASSUME PutResultCache(t) PROVE Types' /\ Bounded' /\ Verdicts'
    <2> USE <1>7 DEF PutResultCache
    <2>1. pc[t] = "put" /\ pc'[t] = "ask" /\ ask' = ask BY DEF IInv, Types
    <2>2. ask[t].found = filters BY <2>1 DEF IInv, Verdicts
    <2>3. CacheCurrent' BY <2>2 DEF IInv, Verdicts, CacheCurrent
    <2>4. Verdicts' BY <1>1, <2>1, <2>3 DEF IInv, Verdicts, OneFilterSet
    <2>5. Bounded'
      <3> DEFINE kept == IF Cardinality(DOMAIN cache) >= MaxCacheEntries
                           THEN {} ELSE DOMAIN cache
      <3>1. DOMAIN cache' = kept \cup {ask[t].key} OBVIOUS
      <3>2. IsFiniteSet(kept) /\ Cardinality(kept) < MaxCacheEntries
        BY FS_EmptySet, FS_CardinalityType DEF IInv, Bounded
      <3>3. kept \subseteq Keys /\ ask[t].key \in Keys
        BY DEF IInv, Bounded, Types, Lookup
      <3> HIDE DEF kept
      <3>4. Cardinality(kept) \in Nat BY <3>2, FS_CardinalityType
      <3>5. /\ IsFiniteSet(kept \cup {ask[t].key})
            /\ \/ Cardinality(kept \cup {ask[t].key}) = Cardinality(kept)
               \/ Cardinality(kept \cup {ask[t].key}) = Cardinality(kept) + 1
        BY <3>2, FS_AddElement
      <3>6. Cardinality(kept \cup {ask[t].key}) <= MaxCacheEntries
        BY <3>2, <3>4, <3>5
      <3> QED BY <3>1, <3>3, <3>5, <3>6 DEF Bounded
    <2> QED BY <1>1, <2>1, <2>4, <2>5 DEF IInv, Types
  <1> QED BY <1>2, <1>3, <1>4, <1>5, <1>6, <1>7 DEF IInv
-----------------------------------------------------------------------------
LEMMA EngineKeeps == ASSUME IInv, [EngineNext]_engineVars PROVE IInv'
  <1>1. CASE Called
    BY <1>1, FlagSteps, ClearSteps, LoadStep DEF Called
  <1>2. CASE FilterLoadedCallback BY <1>2, CallbackStep
  <1>3. CASE Clearing BY <1>3, ClearSteps DEF Clearing
  <1>4. ASSUME NEW l \in Loaders, Loading(l) PROVE IInv'
    BY <1>4, LoaderSteps
  <1>5. ASSUME NEW t \in Askers, ShouldLoad(t) \/ (t = Main /\ GetElemHideStyles)
        PROVE  IInv'
    BY <1>5, EntrySteps
  <1>6. ASSUME NEW t \in Askers, Asking(t) PROVE IInv'
    BY <1>6, EntrySteps, LookupSteps DEF Asking
  <1>7. CASE UNCHANGED engineVars
    <2> USE <1>7 DEF engineVars, flagVars, matcherVars
    <2>1. Types' /\ Jobs' /\ Bounded' BY DEF IInv, Types, Jobs, Bounded
    <2>2. Locks' /\ Loads' BY DEF IInv, Locks, Loads, Running
    <2>3. Verdicts' BY DEF IInv, Verdicts, CacheCurrent, OneFilterSet
    <2> QED BY <2>1, <2>2, <2>3 DEF IInv
  <1>8. Main \in Askers /\ Readers \subseteq Askers OBVIOUS
  <1> QED BY <1>1, <1>2, <1>3, <1>4, <1>5, <1>6, <1>7, <1>8 DEF EngineNext

\* So does the loss of the engine.
LEMMA LossKeeps == EngineLost => IInv'
  <1>1. EngineLost => EngineInit' BY DEF EngineLost, EngineInit, LockInit
  <1>2. (EngineInit => IInv)' BY InitIInv, PTL
  <1> QED BY <1>1, <1>2

(* The three layers hold in every reachable state. *)
THEOREM Inductive == EngineSpec => []IInv
  <1>1. EngineInit => IInv BY InitIInv
  <1>2. IInv /\ [EngineNext]_engineVars => IInv' BY EngineKeeps
  <1> QED BY <1>1, <1>2, PTL DEF EngineSpec

(* Type correctness; in particular the verdict cache keeps to its limit. *)
THEOREM TypeCorrect == EngineSpec => []EngineTypeOK
  <1>1. IInv => EngineTypeOK
    BY DEF IInv, Types, Jobs, Bounded, Locks, Verdicts, CacheCurrent,
           EngineTypeOK, LockTypeOK
  <1> QED BY <1>1, Inductive, PTL

(* getElemHideStyles needs no lock, as its comment claims: while the main
   thread looks for styles no loader thread holds the lock.                 *)
THEOREM StylesNeedNoLock == EngineSpec => []UnlockedReadsSafe
  <1>1. IInv => UnlockedReadsSafe
    <2> SUFFICES ASSUME IInv, pc[Main] \in Looking, writer \in Loaders PROVE FALSE
      BY DEF UnlockedReadsSafe
    <2>1. pc[writer] # "idle" BY DEF IInv, Locks
    <2> QED BY <2>1, RunningAlone
  <1> QED BY <1>1, Inductive, PTL

(* The verdict cache never outlives the filters it was computed from. *)
THEOREM CacheNeverStale == EngineSpec => []CacheCurrent
  <1>1. IInv => CacheCurrent BY DEF IInv, Verdicts
  <1> QED BY <1>1, Inductive, PTL

(* Both lookups of a thread are answered from the same filters. *)
THEOREM VerdictsUnmixed == EngineSpec => []OneFilterSet
  <1>1. IInv => OneFilterSet BY DEF IInv, Verdicts
  <1> QED BY <1>1, Inductive, PTL

(* Nothing blocks while filters are being replaced. *)
THEOREM EnabledIdle == EngineSpec => []NoLoadWhileEnabled
  <1>1. IInv => NoLoadWhileEnabled
    BY RunningAlone DEF NoLoadWhileEnabled
  <1> QED BY <1>1, Inductive, PTL

-----------------------------------------------------------------------------
\* The observer's own variables.
Prefs == /\ outOfProcess \in BOOLEAN
         /\ installed \in BOOLEAN /\ adblocker \in Files /\ allowed \in BOOLEAN
         /\ pendingUpdate \in BOOLEAN /\ scheduledUpdate \in BOOLEAN
         /\ events \in Seq(BOOLEAN) /\ Len(events) <= 1
         /\ ~outOfProcess => plugin = "up"

\* What a file holds is the number of the change that saved it.
Saved == /\ changes \in 0..MaxChanges
         /\ disk \in [Files -> 0..changes]

LEMMA InitObserver == Init => Prefs /\ Saved
  <1> SUFFICES ASSUME Init PROVE Prefs /\ Saved OBVIOUS
  <1>1. events \in Seq(BOOLEAN) /\ Len(events) <= 1 BY EmptySeq DEF Init
  <1>2. Prefs BY <1>1 DEF Init, Prefs
  <1>3. Saved BY ObserverAssumption DEF Init, Saved
  <1> QED BY <1>2, <1>3

\* What is left of at most one event.
LEMMA EventTail ==
  ASSUME events \in Seq(BOOLEAN), Len(events) <= 1, events # << >>
  PROVE  Tail(events) = << >> /\ Tail(events) \in Seq(BOOLEAN)
  <1>1. Len(events) \in Nat /\ Len(events) # 0 BY EmptySeq
  <1>2. Len(events) = 1
    <2> DEFINE n == Len(events)
    <2>1. n \in Nat /\ n # 0 /\ n <= 1 BY <1>1
    <2> HIDE DEF n
    <2>2. n = 1 BY <2>1
    <2> QED BY <2>2 DEF n
  <1> QED BY <1>2, TailOfOne

LEMMA PrefsStep == ASSUME IInv, Prefs, Next PROVE Prefs'
  <1>0. calls # << >> => Head(calls) \in BOOLEAN BY DEF IInv, Types
  <1>1. events' \in Seq(BOOLEAN) /\ Len(events') <= 1
    <2>1. \/ events' = events
          \/ events' = << >>
          \/ events # << >> /\ events' = Tail(events)
          \/ calls # << >> /\ events = << >> /\ events' = Append(events, Head(calls))
      BY DEF Next, UpdateStateCore, OnABPFilterLoaded, OnABPLoadFailure, ClearTimer, OnPrefChanged,
             OnABPDisable, ReloadUpdate, OnABPEnable, Callback, FilterLoadedCallback, FinishClear,
             Load, Block, PluginCrash, RemovePlugin, InstallPlugin, observerVars
    <2>3. << >> \in Seq(BOOLEAN) /\ Len(<< >>) <= 1 BY EmptySeq
    <2>2. Append(<< >>, Head(calls)) = <<Head(calls)>> OBVIOUS
    <2>4. CASE events' = << >> BY <2>3, <2>4
    <2> QED BY <1>0, <2>1, <2>2, <2>4, EventTail DEF Prefs
  <1>2. installed' \in BOOLEAN /\ allowed' \in BOOLEAN /\ adblocker' \in Files /\ outOfProcess' \in BOOLEAN
    BY DEF Prefs, Next, UpdateStateCore, OnABPFilterLoaded, OnABPLoadFailure, ClearTimer, OnPrefChanged,
           OnABPDisable, ReloadUpdate, OnABPEnable, Callback, FinishClear, Load, Block, PluginCrash,
           RemovePlugin, InstallPlugin, observerVars, prefVars
  <1>3. pendingUpdate' \in BOOLEAN /\ scheduledUpdate' \in BOOLEAN
    BY DEF Prefs, Next, UpdateStateCore, CoreFindsNone, CoreWaits, CoreDisables, CoreLoads, CoreEnables,
           CoreRests, OnABPFilterLoaded, OnABPLoadFailure, ClearTimer, OnPrefChanged, OnABPDisable,
           ReloadUpdate, OnABPEnable, UpdateState, Callback, FinishClear, Load, Block, PluginCrash,
           RemovePlugin, InstallPlugin, observerVars, updateVars
  <1>4. ~outOfProcess' => plugin' = "up"
    <2>1. outOfProcess' = outOfProcess
      BY DEF Next, UpdateStateCore, OnABPFilterLoaded, OnABPLoadFailure, ClearTimer, OnPrefChanged,
             OnABPDisable, ReloadUpdate, OnABPEnable, Callback, FinishClear, Load, Block, PluginCrash,
             RemovePlugin, InstallPlugin, observerVars, prefVars
    <2>2. plugin' = plugin \/ outOfProcess \/ plugin # "up"
      BY DEF Next, UpdateStateCore, CoreFindsNone, CoreWaits, CoreDisables, CoreLoads, CoreEnables,
             CoreRests, OnABPFilterLoaded, OnABPLoadFailure, ClearTimer, Try, Reaches, Throws, PluginDies,
             OnPrefChanged, OnABPDisable, ReloadUpdate, OnABPEnable, Callback, FinishClear, Load, Block,
             PluginCrash, RemovePlugin, InstallPlugin, observerVars, hostVars
    <2> QED BY <2>1, <2>2 DEF Prefs
  <1> QED BY <1>1, <1>2, <1>3, <1>4 DEF Prefs

LEMMA SavedStep == ASSUME Prefs, Saved, Next PROVE Saved'
  <1> DEFINE Counts == /\ changes' = changes \/ (changes < MaxChanges /\ changes' = changes + 1)
                       /\ disk' = disk
  <1>1. CASE UpdateStateCore \/ OnABPFilterLoaded \/ ClearTimer
    <2>1. Counts
      BY <1>1 DEF UpdateStateCore, CoreFindsNone, CoreWaits, CoreDisables, CoreLoads, CoreEnables,
                  CoreRests, OnABPFilterLoaded, ClearTimer, Try, Reaches, Throws, PluginDies, Change,
                  prefVars, hostVars
    <2> QED BY <2>1, ObserverAssumption DEF Prefs, Saved
  <1>2. CASE ~(UpdateStateCore \/ OnABPFilterLoaded \/ ClearTimer)
    <2>1. \/ Counts
          \/ /\ changes < MaxChanges /\ changes' = changes + 1
             /\ disk' = [disk EXCEPT ![adblocker] = @ + 1]
      BY <1>2 DEF Next, OnABPLoadFailure, OnPrefChanged, OnABPDisable, ReloadUpdate, OnABPEnable,
                  Change, Callback, FinishClear, Load, Block, PluginDies, PluginCrash, RemovePlugin,
                  InstallPlugin, observerVars, prefVars, hostVars
    <2> QED BY <2>1, ObserverAssumption DEF Prefs, Saved
  <1> QED BY <1>1, <1>2

\* Every step of the two together is a step of the engine, its loss, or neither.
EngineMoves == [EngineNext \/ EngineLost]_engineVars

LEMMA EngineStep == ASSUME IInv, Prefs, Saved, Next PROVE EngineMoves
  <1> USE DEF EngineMoves
  <1>0. Throws => EngineLost \/ UNCHANGED engineVars BY DEF Throws, PluginDies
  <1>1. CASE UpdateStateCore
    BY <1>0, <1>1 DEF UpdateStateCore, CoreFindsNone, CoreWaits, CoreDisables, CoreLoads, CoreEnables,
                      CoreRests, Try, Reaches, EngineNext, Called, Prefs
  <1>2. CASE OnABPFilterLoaded
    BY <1>0, <1>2 DEF OnABPFilterLoaded, Try, Reaches, EngineNext, Called
  <1>3. CASE ClearTimer \/ Callback \/ FinishClear
    BY <1>0, <1>3 DEF ClearTimer, Reaches, Callback, FinishClear, EngineNext, Called
  <1>4. CASE OnABPLoadFailure \/ OnPrefChanged \/ OnABPDisable \/ ReloadUpdate
    BY <1>4 DEF OnABPLoadFailure, OnPrefChanged, OnABPDisable, ReloadUpdate
  <1>8. CASE PluginCrash \/ RemovePlugin \/ InstallPlugin
    BY <1>8 DEF PluginCrash, PluginDies, RemovePlugin, InstallPlugin
  <1>5. ASSUME NEW f \in Files, OnABPEnable(f) PROVE EngineMoves
    BY <1>5 DEF OnABPEnable
  <1>6. ASSUME NEW l \in Loaders, Load(l) PROVE EngineMoves
    <2>1. ASSUME ReadFile(l, disk[job[l].file]) PROVE Loading(l)
      <3>1. job[l].file \in Files BY <2>1 DEF ReadFile, IInv, Jobs
      <3>2. disk[job[l].file] \in Data BY <3>1, ObserverAssumption DEF Saved
      <3> QED BY <2>1, <3>2 DEF Loading
    <2> QED BY <1>6, <2>1 DEF Load, Loading, EngineNext
  <1>7. ASSUME NEW t \in Askers, Block(t) PROVE EngineMoves
    BY <1>7 DEF Block, ShouldLoad, EngineNext
  <1> QED BY <1>1, <1>2, <1>3, <1>4, <1>5, <1>6, <1>7, <1>8 DEF Next

-----------------------------------------------------------------------------
\* In the browser's process: blocking that is forbidden is about to be switched off,
\* and a load that could switch it on again is to be looked at first.
Permitted ==
  ~outOfProcess =>
    /\ enabled /\ ~CanEnable => scheduledUpdate
    /\ loading \/ events # << >> => CanEnable \/ scheduledUpdate \/ pendingUpdate

LEMMA PermittedStep == ASSUME IInv, Prefs, Permitted, Next PROVE Permitted'
  <1>0. /\ loading => ~enabled
        /\ calls # << >> => loading
    BY DEF IInv, Loads
  <1>10. CASE outOfProcess
    <2>1. outOfProcess'
      BY <1>10 DEF Next, UpdateStateCore, OnABPFilterLoaded, OnABPLoadFailure, ClearTimer, OnPrefChanged,
                   OnABPDisable, ReloadUpdate, OnABPEnable, Callback, FinishClear, Load, Block,
                   PluginCrash, RemovePlugin, InstallPlugin, observerVars, prefVars
    <2> QED BY <2>1 DEF Permitted
  <1> SUFFICES ASSUME ~outOfProcess PROVE Permitted' BY <1>10
  <1>11. plugin = "up" /\ ~PluginDies /\ ~Throws BY DEF Prefs, PluginDies, Throws
  <1>1. CASE UpdateStateCore
    <2> USE <1>0, <1>1, <1>11 DEF UpdateStateCore, Browser, Permitted, CanEnable, prefVars, Try, Reaches
    <2>1. CASE CoreWaits BY <2>1 DEF CoreWaits, engineVars, flagVars
    <2>2. CASE CoreDisables BY <2>2 DEF CoreDisables, Disable
    <2>3. CASE CoreLoads BY <2>3 DEF CoreLoads, LoadFilterFile
    <2>4. CASE CoreEnables BY <2>4 DEF CoreEnables, Enable
    <2>5. CASE CoreRests BY <2>5 DEF CoreRests, engineVars, flagVars
    <2> QED BY <2>1, <2>2, <2>3, <2>4, <2>5
  <1>2. CASE OnABPFilterLoaded
    <2>1. events # << >> /\ events' = Tail(events) /\ events' = << >>
      BY <1>2, EventTail DEF OnABPFilterLoaded, Prefs
    <2>2. CASE pendingUpdate
      BY <1>0, <1>2, <2>1, <2>2
      DEF OnABPFilterLoaded, UpdateState, Permitted, CanEnable, prefVars, engineVars, flagVars
    <2>3. CASE ~pendingUpdate
      BY <1>0, <1>2, <1>11, <2>1, <2>3
      DEF OnABPFilterLoaded, Try, Reaches, Enable, Permitted, CanEnable, prefVars, updateVars
    <2> QED BY <2>2, <2>3
  <1>3. CASE OnABPLoadFailure
    <2>1. events # << >> /\ events' = << >>
      BY <1>3, EventTail DEF OnABPLoadFailure, Prefs
    <2> QED
      BY <1>0, <1>3, <2>1 DEF OnABPLoadFailure, Permitted, CanEnable, prefVars, engineVars, flagVars
  <1>4. CASE ClearTimer
    BY <1>4, <1>11 DEF ClearTimer, Reaches, ClearFilters, Permitted, CanEnable, prefVars, updateVars
  <1>5. CASE OnPrefChanged \/ OnABPDisable \/ ReloadUpdate
    BY <1>5 DEF OnPrefChanged, OnABPDisable, ReloadUpdate, UpdateState, Permitted, CanEnable,
                engineVars, flagVars
  <1>6. ASSUME NEW f \in Files, OnABPEnable(f) PROVE Permitted'
    BY <1>6 DEF OnABPEnable, UpdateState, Permitted, CanEnable, engineVars, flagVars
  <1>7. CASE Callback
    BY <1>0, <1>7 DEF Callback, FilterLoadedCallback, LoadIsOver, Permitted, CanEnable, prefVars,
                      updateVars
  <1>12. CASE PluginCrash \/ RemovePlugin \/ InstallPlugin
    BY <1>11, <1>12 DEF PluginCrash, RemovePlugin, InstallPlugin
  <1>8. CASE FinishClear \/ \E l \in Loaders : Load(l)
    <2>1. UNCHANGED <<enabled, installed, allowed, outOfProcess, scheduledUpdate, pendingUpdate, events>>
          /\ loading' \in {loading, FALSE}
      BY <1>8 DEF FinishClear, Clearing, ClearLock, Clear, Load, OpenFails, ReadFile, LoaderLock,
                  LoaderClear, LoaderFill, Post, LoadIsOver, observerVars, prefVars, updateVars, flagVars
    <2> QED BY <2>1 DEF Permitted, CanEnable
  <1>9. ASSUME NEW t \in Askers, Block(t) PROVE Permitted'
    <2>1. UNCHANGED <<enabled, loading, installed, allowed, outOfProcess, scheduledUpdate,
                      pendingUpdate, events>>
      BY <1>9 DEF Block, ShouldLoad, Asking, GetElemHideStyles, TakeReaderLock, QueryResultCache,
                  MatchesAnyInternal, PutResultCache, Return, observerVars, prefVars, updateVars,
                  flagVars
    <2> QED BY <2>1 DEF Permitted, CanEnable
  <1> QED BY <1>1, <1>2, <1>3, <1>4, <1>5, <1>6, <1>7, <1>8, <1>9, <1>12 DEF Next
-----------------------------------------------------------------------------
\* What the matchers hold is the file that is said to be loaded, until a loader that has
\* read another replaces it; then that is the file that will be.
Kept == loadedFile # NoFile => filters.file = loadedFile

Filled ==
  /\ enabled => loadedFile # NoFile
  /\ plugin = "up" /\ events # << >> /\ Head(events) => loadedFile # NoFile
  /\ plugin = "none" => events = << >>
  /\ plugin # "up" => ~loading
  /\ ~loading => Kept
  /\ loading => loadingFile \in Files
  /\ pc[Main] \in {"clearLock", "clear"} => ~loading /\ loadedFile = NoFile
  /\ \A l \in Loaders :
       /\ pc[l] \in {"open", "lock", "clear", "fill"} => job[l].file = loadingFile
       /\ pc[l] \in {"open", "lock", "clear"} => Kept
       /\ pc[l] = "post" => IF job[l] = Empty THEN Kept ELSE filters.file = loadingFile
  /\ calls # << >> => IF Head(calls) THEN filters.file = loadingFile ELSE Kept

LEMMA FilledSame ==
  ASSUME Filled,
         UNCHANGED <<enabled, loading, loadedFile, loadingFile, filters, job, calls, events, plugin>>,
         \A l \in Loaders : pc'[l] = pc[l],
         pc'[Main] \in {"clearLock", "clear"} => pc[Main] \in {"clearLock", "clear"}
  PROVE  Filled'
  BY DEF Filled, Kept

\* The loss of the engine leaves nothing that could be wrong.
LEMMA FilledLost ==
  ASSUME EngineLost, plugin' = "lost" PROVE Filled'
  <1>1. calls' = << >> /\ ~enabled' /\ ~loading' /\ loadedFile' = NoFile
        /\ pc'[Main] = "idle" /\ \A l \in Loaders : pc'[l] = "idle"
    BY DEF EngineLost
  <1> QED BY <1>1 DEF Filled, Kept

LEMMA FilledStep == ASSUME ~SlowLoads, IInv, Prefs, Filled, Next PROVE Filled'
  <1>0. /\ ~loading => Running = {} /\ calls = << >>
        /\ pc \in [Threads -> Labels]
        /\ loading => ~enabled
        /\ calls # << >> => Running = {}
        /\ adblocker \in Files
    BY DEF IInv, Types, Loads, Prefs
  <1>10. CASE PluginDies BY <1>10, FilledLost DEF PluginDies
  <1>11. Throws => PluginDies \/ UNCHANGED <<engineVars, hostVars>> BY DEF Throws
  <1>1. CASE UpdateStateCore
    <2>1. events' = events BY <1>1 DEF UpdateStateCore
    <2>6. CASE UNCHANGED <<engineVars, hostVars>>
      BY <2>1, <2>6, FilledSame DEF engineVars, flagVars, matcherVars, hostVars
    <2>2. CASE CoreFindsNone \/ CoreWaits \/ CoreRests
      BY <2>2, <2>6 DEF CoreFindsNone, CoreWaits, CoreRests
    <2>3. CASE CoreDisables /\ Reaches(Disable)
      BY <2>1, <2>3 DEF Reaches, Disable, Filled, Kept, matcherVars, hostVars
    <2>4. CASE CoreEnables /\ Reaches(Enable)
      BY <1>0, <2>1, <2>4 DEF CoreEnables, Reaches, Enable, Filled, Kept, matcherVars, hostVars
    <2>5. CASE CoreLoads /\ Reaches(LoadFilterFile(adblocker))
      <3>1. /\ ~loading /\ loading' /\ ~enabled' /\ loadingFile' = adblocker
            /\ UNCHANGED <<loadedFile, filters, calls>> /\ pc[Main] = "idle"
            /\ plugin = "up" /\ plugin' = plugin
        BY <2>5 DEF CoreLoads, Reaches, LoadFilterFile, matcherVars, hostVars
      <3>2. PICK l \in Loaders : /\ pc' = [pc EXCEPT ![l] = "open"]
                                 /\ job' = [job EXCEPT ![l] = [file |-> adblocker]]
        BY <2>5 DEF Reaches, LoadFilterFile
      <3>3. \A m \in Loaders : pc[m] = "idle" BY <1>0, <3>1 DEF Running
      <3>4. \A m \in Loaders : pc'[m] = IF m = l THEN "open" ELSE "idle"
        BY <1>0, <3>2, <3>3
      <3>5. job'[l].file = adblocker /\ pc'[Main] = "idle"
        BY <1>0, <3>1, <3>2 DEF IInv, Jobs
      <3>6. Kept' BY <3>1 DEF Filled, Kept
      <3> QED BY <1>0, <2>1, <3>1, <3>4, <3>5, <3>6 DEF Filled
    <2>7. CASE Throws BY <1>10, <1>11, <2>6, <2>7
    <2> QED
      BY <1>1, <2>2, <2>3, <2>4, <2>5, <2>7
      DEF UpdateStateCore, CoreDisables, CoreEnables, CoreLoads, Try
  <1>2. CASE OnABPFilterLoaded
    <2>1. events # << >> /\ Head(events) /\ events' = << >>
      BY <1>2, EventTail DEF OnABPFilterLoaded, Prefs
    <2>2. CASE UNCHANGED <<engineVars, hostVars>>
      BY <2>1, <2>2 DEF Filled, Kept, engineVars, flagVars, matcherVars, hostVars
    <2>3. CASE Reaches(Enable)
      BY <2>1, <2>3 DEF Reaches, Enable, Filled, Kept, matcherVars, hostVars
    <2> QED BY <1>2, <1>10, <1>11, <2>2, <2>3 DEF OnABPFilterLoaded, Try
  <1>3. CASE OnABPLoadFailure
    <2>1. events' = << >> /\ UNCHANGED <<engineVars, hostVars>>
      BY <1>3, EventTail DEF OnABPLoadFailure, Prefs
    <2> QED BY <2>1 DEF Filled, Kept, engineVars, flagVars, matcherVars, hostVars
  <1>4. CASE ClearTimer
    <2>1. ~loading /\ events = << >> /\ events' = events BY <1>4 DEF ClearTimer
    <2>2. CASE UNCHANGED <<engineVars, hostVars>>
      BY <2>1, <2>2, FilledSame DEF engineVars, flagVars, matcherVars, hostVars
    <2>3. CASE Reaches(ClearFilters)
      <3>1. /\ ~enabled' /\ loadedFile' = NoFile
            /\ UNCHANGED <<loading, loadingFile, filters, job, calls, plugin>>
            /\ pc' = [pc EXCEPT ![Main] = "clearLock"]
        BY <2>3 DEF Reaches, ClearFilters, matcherVars, hostVars
      <3>2. calls = << >> /\ \A l \in Loaders : pc'[l] = "idle"
        BY <1>0, <2>1, <3>1 DEF Running
      <3> QED BY <2>1, <3>1, <3>2 DEF Filled, Kept
    <2> QED BY <1>4, <1>10, <1>11, <2>2, <2>3 DEF ClearTimer
  <1>12. CASE RemovePlugin \/ InstallPlugin
    <2>1. /\ UNCHANGED engineVars
          /\ events' = << >> \/ (plugin = "none" /\ events' = events)
          /\ plugin # "up"
      BY <1>12 DEF RemovePlugin, InstallPlugin
    <2>2. events' = << >> /\ ~loading BY <2>1 DEF Filled
    <2> QED BY <2>1, <2>2 DEF Filled, Kept, engineVars, flagVars, matcherVars
  <1>5. CASE OnPrefChanged \/ OnABPDisable \/ ReloadUpdate \/ \E f \in Files : OnABPEnable(f)
    <2>1. UNCHANGED <<engineVars, events, plugin>>
      BY <1>5 DEF OnPrefChanged, OnABPDisable, ReloadUpdate, OnABPEnable
    <2> QED BY <2>1, FilledSame DEF engineVars, flagVars, matcherVars
  <1>6. CASE Callback
    <2>1. /\ calls # << >> /\ ~loading' /\ calls' = Tail(calls) /\ events' = Append(events, Head(calls))
          /\ events = << >> /\ loadedFile' = (IF Head(calls) THEN loadingFile ELSE loadedFile)
          /\ UNCHANGED <<enabled, loadingFile, filters, pc, job, plugin>> /\ pc[Main] = "idle"
      BY <1>6 DEF Callback, FilterLoadedCallback, LoadIsOver, matcherVars, hostVars
    <2>2. loading /\ ~enabled /\ calls' = << >>
      <3>1. calls \in Seq(BOOLEAN) /\ Len(calls) = 1 /\ loading BY <2>1 DEF IInv, Types, Loads
      <3> QED BY <1>0, <2>1, <3>1, TailOfOne
    <2>3. Head(events') = Head(calls)
      <3>1. events' = Append(<< >>, Head(calls)) BY <2>1
      <3>2. Append(<< >>, Head(calls)) = <<Head(calls)>> OBVIOUS
      <3>3. Head(<<Head(calls)>>) = Head(calls) OBVIOUS
      <3> QED BY <3>1, <3>2, <3>3
    <2>4. \A l \in Loaders : pc'[l] = "idle" BY <1>0, <2>1 DEF Running
    <2>5. Kept' BY <2>1 DEF Filled, Kept
    <2>6. Head(calls) => loadedFile' # NoFile BY <2>1, <2>2 DEF Filled
    <2> QED BY <2>1, <2>2, <2>3, <2>4, <2>5, <2>6 DEF Filled
  <1>7. CASE FinishClear
    <2>1. events' = events /\ plugin' = plugin BY <1>7 DEF FinishClear, observerVars, hostVars
    <2>2. CASE ClearLock
      BY <1>0, <2>1, <2>2, FilledSame DEF ClearLock, flagVars, matcherVars
    <2>3. CASE Clear
      <3>1. /\ ~loading /\ loadedFile = NoFile /\ pc' = [pc EXCEPT ![Main] = "idle"]
            /\ UNCHANGED <<enabled, loading, loadedFile, loadingFile, job, calls>>
        BY <2>3 DEF Clear, Filled, flagVars
      <3>2. calls = << >> /\ \A l \in Loaders : pc'[l] = "idle"
        BY <1>0, <3>1 DEF Running
      <3> QED BY <1>0, <2>1, <3>1, <3>2 DEF Filled, Kept
    <2> QED BY <1>7, <2>2, <2>3 DEF FinishClear, Clearing
  <1>8. ASSUME NEW l \in Loaders, Load(l) PROVE Filled'
    <2>1. /\ events' = events /\ plugin' = plugin
          /\ pc[l] # "post" => UNCHANGED flagVars
          /\ \E m \in Labels : pc' = [pc EXCEPT ![l] = m]
      BY <1>8 DEF Load, OpenFails, ReadFile, LoaderLock, LoaderClear, LoaderFill, Post, Labels
    <2>2. pc[l] # "idle"
      BY <1>8 DEF Load, OpenFails, ReadFile, LoaderLock, LoaderClear, LoaderFill, Post
    <2>3. /\ \A m \in Loaders : m # l => pc'[m] = "idle"
          /\ loading /\ calls = << >> /\ pc'[Main] = pc[Main]
      BY <1>0, <2>1, <2>2, RunningAlone DEF Running
    <2>4. /\ job \in [Loaders -> Contents \cup [file : Files]]
          /\ pc[l] = "open" => job[l] \in [file : Files]
          /\ pc[l] \in {"lock", "clear", "fill"} => job[l] \in FilterSets
      BY DEF IInv, Jobs
    <2>11. plugin' = "up" /\ events' = events BY <2>1, <2>3 DEF Filled
    <2>12. pc[l] # "post" => /\ ~enabled' /\ loading'
                             /\ loadedFile' = loadedFile /\ loadingFile' = loadingFile
      BY <1>0, <2>1, <2>3 DEF flagVars
    <2> USE DEF flagVars, matcherVars
    <2>5. CASE OpenFails(l)
      <3>1. pc[l] = "open" /\ pc'[l] = "post" /\ job'[l] = Empty /\ UNCHANGED <<filters, calls>>
        BY <1>0, <2>4, <2>5 DEF OpenFails
      <3> QED BY <2>3, <2>11, <2>12, <3>1 DEF Filled, Kept
    <2>6. CASE ReadFile(l, disk[job[l].file])
      <3>1. /\ pc[l] = "open" /\ pc'[l] = "lock" /\ job'[l].file = job[l].file
            /\ UNCHANGED <<filters, calls>>
        BY <1>0, <2>4, <2>6 DEF ReadFile
      <3> QED BY <2>3, <2>11, <2>12, <3>1 DEF Filled, Kept
    <2>7. CASE LoaderLock(l)
      <3>1. pc[l] = "lock" /\ pc'[l] = "clear" /\ UNCHANGED <<filters, calls, job>>
        BY <1>0, <2>7 DEF LoaderLock
      <3> QED BY <2>3, <2>11, <2>12, <3>1 DEF Filled, Kept
    <2>8. CASE LoaderClear(l)
      <3>1. pc[l] = "clear" /\ pc'[l] = "fill" /\ UNCHANGED <<calls, job>>
        BY <1>0, <2>8 DEF LoaderClear
      <3> QED BY <2>3, <2>11, <2>12, <3>1 DEF Filled, Kept
    <2>9. CASE LoaderFill(l)
      <3>1. pc[l] = "fill" /\ pc'[l] = "post" /\ filters' = job[l] /\ UNCHANGED <<calls, job>>
        BY <1>0, <2>9 DEF LoaderFill
      <3>2. job[l] # Empty
        BY <2>4, <3>1 DEF FilterSets, Empty
      <3> QED BY <2>3, <2>11, <2>12, <3>1, <3>2 DEF Filled, Kept
    <2>10. CASE Post(l)
      <3>1. pc[l] = "post" /\ pc'[l] = "idle" /\ filters' = filters
        BY <1>0, <2>10 DEF Post
      <3>2. CASE calls' = Append(calls, job[l] # Empty) /\ UNCHANGED flagVars
        <4>1. Head(calls') = (job[l] # Empty) BY <2>3, <3>2
        <4> QED BY <2>1, <2>3, <3>1, <3>2, <4>1 DEF Filled, Kept
      <3>3. CASE LoadIsOver(job[l] # Empty) /\ UNCHANGED calls
        BY <1>0, <2>1, <2>3, <3>1, <3>3 DEF LoadIsOver, Filled, Kept
      <3> QED BY <2>10, <3>2, <3>3 DEF Post
    <2> QED BY <1>8, <2>5, <2>6, <2>7, <2>8, <2>9, <2>10 DEF Load
  <1>9. ASSUME NEW t \in Askers, Block(t) PROVE Filled'
    <2>1. /\ UNCHANGED <<enabled, loading, loadedFile, loadingFile, filters, job, calls, events, plugin>>
          /\ \/ pc' = pc
             \/ \E m \in {"idle", "lock", "ask", "match", "put"} : pc' = [pc EXCEPT ![t] = m]
      BY <1>9 DEF Block, ShouldLoad, Asking, GetElemHideStyles, TakeReaderLock, QueryResultCache,
                  MatchesAnyInternal, PutResultCache, Return, observerVars, hostVars, flagVars,
                  matcherVars
    <2>2. /\ \A l \in Loaders : pc'[l] = pc[l]
          /\ pc'[Main] \in {"clearLock", "clear"} => pc[Main] \in {"clearLock", "clear"}
      BY <1>0, <2>1
    <2> QED BY <2>1, <2>2, FilledSame
  <1>13. CASE PluginCrash BY <1>10, <1>13 DEF PluginCrash
  <1> QED BY <1>1, <1>2, <1>3, <1>4, <1>5, <1>6, <1>7, <1>8, <1>9, <1>12, <1>13 DEF Next
-----------------------------------------------------------------------------
TwoInv == IInv /\ Prefs /\ Saved /\ Permitted

\* The engine's invariant, and the observer's, of the two together.
THEOREM InductiveTwo == Spec => []TwoInv
  <1>1. Init => TwoInv
    BY InitIInv, InitObserver DEF Init, EngineInit, TwoInv, Permitted
  <1>2. TwoInv /\ [Next]_vars => TwoInv'
    <2> SUFFICES ASSUME TwoInv, [Next]_vars PROVE TwoInv' OBVIOUS
    <2>1. CASE Next
      <3>1. IInv' BY <2>1, EngineStep, EngineKeeps, LossKeeps DEF TwoInv, EngineMoves
      <3> QED BY <2>1, <3>1, PrefsStep, SavedStep, PermittedStep DEF TwoInv
    <2>2. CASE UNCHANGED vars
      <3>1. IInv' BY <2>2, EngineKeeps DEF TwoInv, vars
      <3> QED
        BY <2>2, <3>1 DEF vars, observerVars, prefVars, updateVars, hostVars, engineVars, flagVars,
                          TwoInv, Prefs, Saved, Permitted, CanEnable
    <2> QED BY <2>1, <2>2
  <1> QED BY <1>1, <1>2, PTL DEF Spec

(* Whatever is pending, scheduled or in flight, the observer never starts a load
   while one is under way, nor does anything else that the engine does not expect:
   until the plugin's process is lost, which begins everything anew, the two together
   implement the engine by itself. *)
THEOREM ProtocolKept == Spec => KeepsProtocol
  <1>1. TwoInv /\ [Next]_vars => [EngineNext \/ EngineLost]_engineVars
    BY EngineStep DEF TwoInv, vars, EngineMoves
  <1> QED BY <1>1, InductiveTwo, PTL DEF Spec, KeepsProtocol

(* So what the engine promises by itself it promises the browser, across crashes too. *)
THEOREM EngineTogether == Spec => [](UnlockedReadsSafe /\ CacheCurrent /\ OneFilterSet)
  <1>1. TwoInv => UnlockedReadsSafe
    <2> SUFFICES ASSUME IInv, pc[Main] \in Looking, writer \in Loaders PROVE FALSE
      BY DEF TwoInv, UnlockedReadsSafe
    <2>1. pc[writer] # "idle" BY DEF IInv, Locks
    <2> QED BY <2>1, RunningAlone
  <1>2. TwoInv => CacheCurrent /\ OneFilterSet BY DEF TwoInv, IInv, Verdicts
  <1> QED BY <1>1, <1>2, InductiveTwo, PTL

(* In the browser's process, blocking that the preferences forbid is about to be
   switched off, however late the load it belongs to is reported. *)
THEOREM BlocksWhenPermitted == Spec => []BlockingPermittedInProcess
  <1>1. TwoInv => BlockingPermittedInProcess
    BY DEF TwoInv, Permitted, BlockingPermittedInProcess, BlockingPermitted
  <1> QED BY <1>1, InductiveTwo, PTL

(* What blocks is what the engine says it has loaded, in whatever order the clear
   timer, loads that fail or end late, and their events come; given that no load
   outlasts the clear timer's minute. *)
THEOREM BlocksWithWhatIsLoaded ==
  ASSUME ~SlowLoads
  PROVE  Spec => []BlocksWithLoadedFile
  <1>1. Init => Filled
    BY DEF Init, EngineInit, Filled, Kept
  <1>2. TwoInv /\ Filled /\ [Next]_vars => Filled'
    <2>1. CASE UNCHANGED vars
      BY <2>1, FilledSame DEF vars, observerVars, hostVars, engineVars, flagVars, matcherVars
    <2> QED BY <2>1, FilledStep DEF TwoInv
  <1>3. TwoInv /\ Filled => BlocksWithLoadedFile
    <2> SUFFICES ASSUME TwoInv, Filled, enabled PROVE filters.file = loadedFile /\ filters # Empty
      BY DEF BlocksWithLoadedFile
    <2>1. filters.file = loadedFile /\ loadedFile # NoFile
      BY DEF TwoInv, IInv, Loads, Filled, Kept
    <2>2. Empty.file = NoFile BY DEF Empty
    <2> QED BY <2>1, <2>2
  <1> QED BY <1>1, <1>2, <1>3, InductiveTwo, PTL DEF Spec
=============================================================================
