---------------------------- MODULE ThreadProofs -----------------------------
(***************************************************************************)
(* Proofs about what the plugin's threads share.                           *)
(*                                                                         *)
(* RWMutex, for every finite set of threads: type correctness, mutual      *)
(* exclusion, that no wake-up is lost, and that every step of the mutex is *)
(* a step of the abstract reader/writer lock or changes nothing the        *)
(* abstract lock can see.                                                  *)
(*                                                                         *)
(* MainThreadQueue, for any number of threads and functions, whatever      *)
(* dialogs are opened one within another: no function is forgotten in the  *)
(* queues, none is run twice, and the shared timer never waits longer than *)
(* the earliest timed function.                                            *)
(***************************************************************************)
EXTENDS RWMutex, MainThreadQueue, FiniteSetTheorems, TLAPS

(***************************************************************************)
(* The reader/writer lock.                                                 *)
(***************************************************************************)
\* The critical section belongs to the thread whose code is inside it.
OwnerInside == \A t \in Lockers : cs = t <=> stage[t] \in Inside

\* m_nReaderCount counts the threads that hold a reader lock.
Counted == readerCount = Cardinality(readersBar)

\* A writer has found no reader, and none can have come since.
WriterFoundNone == \A t \in Lockers : stage[t] = "writing" => readerCount = 0

\* A thread that sleeps is queued or has been signalled, and somebody is
\* left to signal the queue.
SleepersQueued == /\ \A t \in Lockers : stage[t] = "wait" => t \in Waiters \cup signalled
                  /\ Waiters # {} => readerCount # 0

(* The inductive invariant. *)
MutexInv == MutexTypeOK /\ OwnerInside /\ Counted /\ WriterFoundNone /\ SleepersQueued

-----------------------------------------------------------------------------
\* The readers are finitely many, so counting them makes sense.
LEMMA ReadersFinite == IsFiniteSet(readersBar) /\ Cardinality(readersBar) \in Nat
  <1>1. readersBar \subseteq Lockers BY DEF readersBar
  <1>2. IsFiniteSet(readersBar) BY <1>1, LockersAssumption, FS_Subset
  <1> QED BY <1>2, FS_CardinalityType

\* The readers a zero count stands for: none at all.
LEMMA NoReaders == ASSUME Counted PROVE readerCount = 0 <=> readersBar = {}
  BY ReadersFinite, FS_EmptySet DEF Counted

\* Appending to the queue adds one waiter.
LEMMA WaitersAppend ==
  ASSUME NEW s \in Seq(Lockers), NEW t \in Lockers
  PROVE  LET r == Append(s, t)
         IN {r[i] : i \in 1..Len(r)} = {s[i] : i \in 1..Len(s)} \cup {t}
  <1> DEFINE r == Append(s, t)
  <1>1. Len(r) = Len(s) + 1 /\ Len(s) \in Nat OBVIOUS
  <1>2. \A i \in 1..Len(s) : r[i] = s[i] OBVIOUS
  <1>3. r[Len(s) + 1] = t OBVIOUS
  <1>4. 1..Len(r) = 1..Len(s) \cup {Len(s) + 1} BY <1>1
  <1> HIDE DEF r
  <1>5. {r[i] : i \in 1..Len(r)} = {s[i] : i \in 1..Len(s)} \cup {t}
    BY <1>2, <1>3, <1>4
  <1> QED BY <1>5 DEF r

\* At first nobody is in the critical section, counted or asleep.
LEMMA MutexStarts == MutexInit => MutexInv
  <1> SUFFICES ASSUME MutexInit PROVE MutexInv OBVIOUS
  <1>1. MutexTypeOK BY DEF MutexInit, MutexTypeOK, Stages
  <1>2. OwnerInside BY LockersAssumption DEF MutexInit, OwnerInside, Inside
  <1>3. readersBar = {} BY DEF MutexInit, readersBar, Holding
  <1>4. Counted BY <1>3, FS_EmptySet DEF MutexInit, Counted
  <1>5. WriterFoundNone /\ SleepersQueued
    BY DEF MutexInit, WriterFoundNone, SleepersQueued, Waiters
  <1> QED BY <1>1, <1>2, <1>4, <1>5 DEF MutexInv

\* Every step keeps the types; a reader that counts itself out was counted.
LEMMA MutexTypeStep == ASSUME MutexInv, [MutexNext]_vars PROVE MutexTypeOK'
  <1> USE DEF MutexInv, MutexTypeOK, Stages, Inside, Holding, Reach, Enter, Leave
  <1>1. ASSUME NEW t \in Lockers, UnlockReader(t) PROVE MutexTypeOK'
    <2>1. t \in readersBar BY <1>1 DEF UnlockReader, readersBar
    <2>2. readerCount # 0 BY <2>1, NoReaders
    <2>3. readerCount' \in Nat BY <1>1, <2>2 DEF UnlockReader
    <2>4. Waiters \subseteq Lockers BY DEF Waiters
    <2>5. << >> \in Seq(Lockers) OBVIOUS
    <2>6. waitSet' \in Seq(Lockers) /\ signalled' \subseteq Lockers
      BY <1>1, <2>4, <2>5 DEF UnlockReader, NotifyAll
    <2> QED BY <1>1, <2>3, <2>6 DEF UnlockReader
  <1>2. ASSUME NEW t \in Lockers, CallReader(t) \/ CallWriter(t) PROVE MutexTypeOK'
    BY <1>2 DEF CallReader, CallWriter
  <1>3. ASSUME NEW t \in Lockers, Step(t), ~UnlockReader(t) PROVE MutexTypeOK'
    <2>1. CASE EnterReader(t) \/ LockReader(t) \/ DoneReading(t) \/ EnterUnlockReader(t)
      BY <2>1 DEF EnterReader, LockReader, DoneReading, EnterUnlockReader
    <2>2. CASE EnterWriter(t) \/ LockWriter(t) \/ WaitReturn(t) \/ WaitReenter(t)
                \/ UnlockWriter(t)
      BY <2>2 DEF EnterWriter, LockWriter, WaitReturn, WaitReenter, UnlockWriter
    <2>3. CASE WaitPush(t)
      BY <2>3 DEF WaitPush
    <2> QED BY <1>3, <2>1, <2>2, <2>3 DEF Step
  <1>4. CASE StopRequests \/ Served \/ UNCHANGED vars
    BY <1>4 DEF StopRequests, Served, vars
  <1> QED BY <1>1, <1>2, <1>3, <1>4 DEF MutexNext

\* The critical section changes hands only through Enter and Leave.
LEMMA OwnerStep == ASSUME MutexInv, [MutexNext]_vars PROVE OwnerInside'
  <1> USE LockersAssumption DEF MutexInv, MutexTypeOK, OwnerInside, Inside, Reach, Enter, Leave
  <1>1. ASSUME NEW t \in Lockers, CallReader(t) \/ CallWriter(t) PROVE OwnerInside'
    BY <1>1 DEF CallReader, CallWriter
  <1>2. ASSUME NEW t \in Lockers, Step(t) PROVE OwnerInside'
    <2>1. CASE EnterReader(t) \/ LockReader(t)
      BY <2>1 DEF EnterReader, LockReader
    <2>2. CASE DoneReading(t) \/ EnterUnlockReader(t) \/ UnlockReader(t)
      BY <2>2 DEF DoneReading, EnterUnlockReader, UnlockReader
    <2>3. CASE EnterWriter(t) \/ LockWriter(t) \/ WaitPush(t)
      BY <2>3 DEF EnterWriter, LockWriter, WaitPush
    <2>4. CASE WaitReturn(t) \/ WaitReenter(t) \/ UnlockWriter(t)
      BY <2>4 DEF WaitReturn, WaitReenter, UnlockWriter
    <2> QED BY <1>2, <2>1, <2>2, <2>3, <2>4 DEF Step
  <1>3. CASE StopRequests \/ Served \/ UNCHANGED vars
    BY <1>3 DEF StopRequests, Served, vars
  <1> QED BY <1>1, <1>2, <1>3 DEF MutexNext

\* A step either counts one reader in, or one out, or leaves both the counter
\* and the set of readers alone.
LEMMA ReadersStep ==
  ASSUME MutexInv, [MutexNext]_vars
  PROVE  \/ \E t \in Lockers : /\ LockReader(t)
                              /\ t \notin readersBar
                              /\ readersBar' = readersBar \cup {t}
         \/ \E t \in Lockers : /\ UnlockReader(t)
                              /\ t \in readersBar
                              /\ readersBar' = readersBar \ {t}
         \/ readersBar' = readersBar /\ readerCount' = readerCount
  <1> USE DEF MutexInv, MutexTypeOK, readersBar, Holding, Reach
  <1>1. ASSUME NEW t \in Lockers, LockReader(t)
        PROVE  t \notin readersBar /\ readersBar' = readersBar \cup {t}
    BY <1>1 DEF LockReader
  <1>2. ASSUME NEW t \in Lockers, UnlockReader(t)
        PROVE  t \in readersBar /\ readersBar' = readersBar \ {t}
    BY <1>2 DEF UnlockReader
  <1>3. ASSUME NEW t \in Lockers, CallReader(t) \/ CallWriter(t)
        PROVE  readersBar' = readersBar /\ readerCount' = readerCount
    BY <1>3 DEF CallReader, CallWriter
  <1>4. ASSUME NEW t \in Lockers, Step(t), ~LockReader(t), ~UnlockReader(t)
        PROVE  readersBar' = readersBar /\ readerCount' = readerCount
    <2>1. CASE EnterReader(t) \/ DoneReading(t) \/ EnterUnlockReader(t)
      BY <2>1 DEF EnterReader, DoneReading, EnterUnlockReader
    <2>2. CASE EnterWriter(t) \/ LockWriter(t) \/ WaitPush(t)
      BY <2>2 DEF EnterWriter, LockWriter, WaitPush
    <2>3. CASE WaitReturn(t) \/ WaitReenter(t) \/ UnlockWriter(t)
      BY <2>3 DEF WaitReturn, WaitReenter, UnlockWriter
    <2> QED BY <1>4, <2>1, <2>2, <2>3 DEF Step
  <1>5. CASE StopRequests \/ Served \/ UNCHANGED vars
    BY <1>5 DEF StopRequests, Served, vars
  <1> QED BY <1>1, <1>2, <1>3, <1>4, <1>5 DEF MutexNext

\* The reader count stays the number of readers.
LEMMA CountedStep == ASSUME MutexInv, [MutexNext]_vars PROVE Counted'
  <1>0. IsFiniteSet(readersBar) /\ Cardinality(readersBar) \in Nat BY ReadersFinite
  <1>1. ASSUME NEW t \in Lockers, LockReader(t), t \notin readersBar,
               readersBar' = readersBar \cup {t}
        PROVE  Counted'
    <2>1. Cardinality(readersBar') = Cardinality(readersBar) + 1
      BY <1>0, <1>1, FS_AddElement
    <2> QED BY <1>1, <2>1 DEF MutexInv, Counted, LockReader
  <1>2. ASSUME NEW t \in Lockers, UnlockReader(t), t \in readersBar,
               readersBar' = readersBar \ {t}
        PROVE  Counted'
    <2>1. Cardinality(readersBar') = Cardinality(readersBar) - 1
      BY <1>0, <1>2, FS_RemoveElement
    <2> QED BY <1>2, <2>1 DEF MutexInv, Counted, UnlockReader
  <1>3. CASE readersBar' = readersBar /\ readerCount' = readerCount
    BY <1>3 DEF MutexInv, Counted
  <1> QED BY <1>1, <1>2, <1>3, ReadersStep

\* Nobody counts itself in while a writer owns the critical section.
LEMMA WriterStep == ASSUME MutexInv, [MutexNext]_vars PROVE WriterFoundNone'
  <1> USE LockersAssumption
      DEF MutexInv, MutexTypeOK, OwnerInside, Inside, WriterFoundNone, Reach, Enter, Leave
  <1>1. ASSUME NEW t \in Lockers, CallReader(t) \/ CallWriter(t) PROVE WriterFoundNone'
    BY <1>1 DEF CallReader, CallWriter
  <1>2. ASSUME NEW t \in Lockers, Step(t) PROVE WriterFoundNone'
    <2>1. CASE LockReader(t) \/ UnlockReader(t)
      BY <2>1 DEF LockReader, UnlockReader
    <2>2. CASE EnterReader(t) \/ DoneReading(t) \/ EnterUnlockReader(t)
      BY <2>2 DEF EnterReader, DoneReading, EnterUnlockReader
    <2>3. CASE EnterWriter(t) \/ LockWriter(t) \/ WaitPush(t)
      BY <2>3 DEF EnterWriter, LockWriter, WaitPush
    <2>4. CASE WaitReturn(t) \/ WaitReenter(t) \/ UnlockWriter(t)
      BY <2>4 DEF WaitReturn, WaitReenter, UnlockWriter
    <2> QED BY <1>2, <2>1, <2>2, <2>3, <2>4 DEF Step
  <1>3. CASE StopRequests \/ Served \/ UNCHANGED vars
    BY <1>3 DEF StopRequests, Served, vars
  <1> QED BY <1>1, <1>2, <1>3 DEF MutexNext

\* A sleeper stays queued until it is signalled, and the last reader signals
\* the whole queue.
LEMMA SleepersStep == ASSUME MutexInv, [MutexNext]_vars PROVE SleepersQueued'
  <1> USE DEF MutexInv, MutexTypeOK, SleepersQueued, Reach
  <1>1. ASSUME NEW t \in Lockers, CallReader(t) \/ CallWriter(t) PROVE SleepersQueued'
    BY <1>1 DEF CallReader, CallWriter, Waiters
  <1>2. ASSUME NEW t \in Lockers, LockReader(t) PROVE SleepersQueued'
    BY <1>2 DEF LockReader, Waiters
  <1>3. ASSUME NEW t \in Lockers, UnlockReader(t) PROVE SleepersQueued'
    <2>1. CASE readerCount - 1 = 0
      <3>1. Waiters' = {} BY <1>3, <2>1 DEF UnlockReader, NotifyAll, Waiters
      <3>2. Waiters \cup signalled = signalled'
        BY <1>3, <2>1 DEF UnlockReader, NotifyAll
      <3> QED BY <1>3, <3>1, <3>2 DEF UnlockReader
    <2>2. CASE readerCount - 1 # 0
      <3>1. Waiters' = Waiters /\ signalled' = signalled /\ readerCount' # 0
        BY <1>3, <2>2 DEF UnlockReader, Waiters
      <3> QED BY <1>3, <3>1 DEF UnlockReader
    <2> QED BY <2>1, <2>2
  <1>4. ASSUME NEW t \in Lockers, WaitPush(t) PROVE SleepersQueued'
    <2>1. Waiters' = Waiters \cup {t}
      BY <1>4, WaitersAppend DEF WaitPush, Waiters
    <2> QED BY <1>4, <2>1 DEF WaitPush
  <1>5. ASSUME NEW t \in Lockers, WaitReturn(t) PROVE SleepersQueued'
    <2>1. Waiters' = Waiters BY <1>5 DEF WaitReturn, Waiters
    <2> QED BY <1>5, <2>1 DEF WaitReturn
  <1>6. ASSUME NEW t \in Lockers,
               \/ EnterReader(t) \/ DoneReading(t) \/ EnterUnlockReader(t)
               \/ EnterWriter(t) \/ LockWriter(t) \/ WaitReenter(t)
               \/ UnlockWriter(t)
        PROVE  SleepersQueued'
    <2>1. /\ Waiters' = Waiters /\ signalled' = signalled
          /\ readerCount' = readerCount
      BY <1>6 DEF EnterReader, DoneReading, EnterUnlockReader, EnterWriter,
                  LockWriter, WaitReenter, UnlockWriter, Waiters
    <2>2. \A u \in Lockers : stage'[u] = "wait" => stage[u] = "wait"
      BY <1>6 DEF EnterReader, DoneReading, EnterUnlockReader, EnterWriter,
                  LockWriter, WaitReenter, UnlockWriter
    <2> QED BY <2>1, <2>2
  <1>7. CASE StopRequests \/ Served \/ UNCHANGED vars
    BY <1>7 DEF StopRequests, Served, vars, Waiters
  <1> QED BY <1>1, <1>2, <1>3, <1>4, <1>5, <1>6, <1>7 DEF MutexNext, Step

-----------------------------------------------------------------------------
(* The invariant of lockReader .. unlockWriter holds in every reachable state. *)
THEOREM MutexInductive == MutexSpec => []MutexInv
  <1>1. MutexInit => MutexInv BY MutexStarts
  <1>2. MutexInv /\ [MutexNext]_vars => MutexInv'
    BY MutexTypeStep, OwnerStep, CountedStep, WriterStep, SleepersStep DEF MutexInv
  <1> QED BY <1>1, <1>2, PTL DEF MutexSpec

(* Type correctness; in particular m_nReaderCount never falls below zero. *)
THEOREM TypeCorrect == MutexSpec => []MutexTypeOK
  <1>1. MutexInv => MutexTypeOK BY DEF MutexInv
  <1> QED BY <1>1, MutexInductive, PTL

(* For any number of threads a writer excludes all readers and all other
   writers. *)
THEOREM MutualExclusion == MutexSpec => []Exclusion
  <1>1. MutexInv => Exclusion
    <2> SUFFICES ASSUME MutexInv, NEW t \in Lockers, NEW u \in Lockers,
                        stage[t] = "writing", u # t
                 PROVE  stage[u] \notin Holding \cup {"writing"}
      BY DEF Exclusion
    <2>1. readersBar = {} BY NoReaders DEF MutexInv, WriterFoundNone
    <2>2. stage[u] \notin Holding BY <2>1 DEF readersBar
    <2>3. stage[u] # "writing" BY DEF MutexInv, OwnerInside, Inside
    <2> QED BY <2>2, <2>3
  <1> QED BY <1>1, MutexInductive, PTL

(* For any number of threads, a writer asleep in Monitor::wait has been
   signalled or is queued while a reader is left that will signal it. *)
THEOREM WakeupsKept == MutexSpec => []NoLostWakeup
  <1>1. MutexInv => NoLostWakeup
    <2> SUFFICES ASSUME MutexInv, NEW t \in Lockers, stage[t] = "wait", t \notin signalled
                 PROVE  t \in Waiters /\ \E u \in Lockers : stage[u] \in Holding
      BY DEF NoLostWakeup
    <2>1. t \in Waiters BY DEF MutexInv, SleepersQueued
    <2>2. readersBar # {} BY <2>1, NoReaders DEF MutexInv, SleepersQueued
    <2> QED BY <2>1, <2>2 DEF readersBar
  <1> QED BY <1>1, MutexInductive, PTL

-----------------------------------------------------------------------------
\* The writer of the abstract lock, without the CHOOSE: now and after a step.
LEMMA WriterBar ==
  ASSUME MutexInv
  PROVE  /\ \A t \in Lockers : stage[t] = "writing" => writerBar = t
         /\ (\A t \in Lockers : stage[t] # "writing") => writerBar = NoThread
  <1>1. \A t, u \in Lockers : stage[t] = "writing" /\ stage[u] = "writing" => t = u
    BY DEF MutexInv, OwnerInside, Inside
  <1> QED BY <1>1 DEF writerBar

\* The writer of the abstract lock after a step.
LEMMA WriterBarNext ==
  ASSUME MutexInv'
  PROVE  /\ \A t \in Lockers : stage'[t] = "writing" => writerBar' = t
         /\ (\A t \in Lockers : stage'[t] # "writing") => writerBar' = NoThread
  <1>1. \A t, u \in Lockers : stage'[t] = "writing" /\ stage'[u] = "writing" => t = u
    BY DEF MutexInv, OwnerInside, Inside
  <1> QED BY <1>1 DEF writerBar

\* Moves of a thread that neither start nor end a scope of the abstract lock.
LEMMA Stutters ==
  ASSUME MutexInv, MutexInv', readersBar' = readersBar,
         \A t \in Lockers : stage'[t] = "writing" <=> stage[t] = "writing"
  PROVE  UNCHANGED <<readersBar, writerBar>>
  <1>1. CASE \E t \in Lockers : stage[t] = "writing"
    <2>1. PICK t \in Lockers : stage[t] = "writing" BY <1>1
    <2>2. writerBar = t BY <2>1, WriterBar
    <2>3. writerBar' = t BY <2>1, WriterBarNext
    <2> QED BY <2>2, <2>3
  <1>2. CASE \A t \in Lockers : stage[t] # "writing"
    <2>1. writerBar = NoThread BY <1>2, WriterBar
    <2>2. writerBar' = NoThread BY <1>2, WriterBarNext
    <2> QED BY <2>1, <2>2
  <1> QED BY <1>1, <1>2

\* Counting a reader in, or out, is taking, or giving back, the abstract lock.
LEMMA ReaderSteps ==
  ASSUME MutexInv, MutexInv', NEW t \in Lockers, LockReader(t) \/ UnlockReader(t)
  PROVE  Abs!AcquireRead(t) \/ Abs!ReleaseRead(t)
  <1>1. cs = t /\ \A u \in Lockers : stage[u] # "writing"
    BY DEF MutexInv, OwnerInside, Inside, LockReader, UnlockReader
  <1>2. \A u \in Lockers : stage'[u] # "writing"
    BY <1>1 DEF MutexInv, MutexTypeOK, Reach, LockReader, UnlockReader
  <1>3. writerBar = NoThread /\ writerBar' = NoThread
    BY <1>1, <1>2, WriterBar, WriterBarNext
  <1>4. CASE LockReader(t)
    <2>1. t \notin readersBar /\ readersBar' = readersBar \cup {t}
      BY <1>4 DEF MutexInv, MutexTypeOK, LockReader, Reach, readersBar, Holding
    <2> QED BY <1>3, <2>1 DEF Abs!AcquireRead
  <1>5. CASE UnlockReader(t)
    <2>1. t \in readersBar /\ readersBar' = readersBar \ {t}
      BY <1>5 DEF MutexInv, MutexTypeOK, UnlockReader, Reach, readersBar, Holding
    <2> QED BY <1>3, <2>1 DEF Abs!ReleaseRead
  <1> QED BY <1>4, <1>5

\* So is finding no reader for a writer, and leaving the critical section.
LEMMA WriterSteps ==
  ASSUME MutexInv, MutexInv', NEW t \in Lockers, LockWriter(t) \/ UnlockWriter(t)
  PROVE  Abs!AcquireWrite(t) \/ Abs!ReleaseWrite(t)
  <1>1. readersBar' = readersBar
    BY DEF MutexInv, MutexTypeOK, LockWriter, UnlockWriter, Reach, readersBar, Holding
  <1>2. cs = t /\ \A u \in Lockers : u # t => stage[u] # "writing"
    BY DEF MutexInv, OwnerInside, Inside, LockWriter, UnlockWriter
  <1>3. CASE LockWriter(t)
    <2>1. readersBar = {} BY <1>3, NoReaders DEF MutexInv, LockWriter
    <2>2. writerBar = NoThread BY <1>2, <1>3, WriterBar DEF LockWriter
    <2>3. stage'[t] = "writing" BY <1>3 DEF MutexInv, MutexTypeOK, LockWriter, Reach
    <2>4. writerBar' = t BY <2>3, WriterBarNext
    <2> QED BY <1>1, <2>1, <2>2, <2>4 DEF Abs!AcquireWrite
  <1>4. CASE UnlockWriter(t)
    <2>1. writerBar = t BY <1>4, WriterBar DEF UnlockWriter
    <2>2. \A u \in Lockers : stage'[u] # "writing"
      BY <1>2, <1>4 DEF MutexInv, MutexTypeOK, UnlockWriter, Reach
    <2>3. writerBar' = NoThread BY <2>2, WriterBarNext
    <2> QED BY <1>1, <2>1, <2>3 DEF Abs!ReleaseWrite
  <1> QED BY <1>3, <1>4

(* The code of ReaderWriterMutex implements the abstract reader/writer lock:
   what AbpEngine assumes about s_mutex is what RAIILock.cpp does. *)
THEOREM Refinement == MutexSpec => ImplementsRWLock
  <1>1. MutexInit => Abs!LockInit
    <2> SUFFICES ASSUME MutexInit PROVE Abs!LockInit OBVIOUS
    <2>1. readersBar = {} BY DEF MutexInit, readersBar, Holding
    <2>2. writerBar = NoThread BY DEF MutexInit, writerBar
    <2> QED BY <2>1, <2>2 DEF Abs!LockInit
  <1>2. ASSUME MutexInv, MutexInv', [MutexNext]_vars PROVE [Abs!LockNext]_(Abs!lockVars)
    <2> SUFFICES \/ UNCHANGED <<readersBar, writerBar>>
                 \/ \E t \in Lockers : \/ Abs!AcquireRead(t) \/ Abs!ReleaseRead(t)
                                       \/ Abs!AcquireWrite(t) \/ Abs!ReleaseWrite(t)
      BY DEF Abs!LockNext, Abs!lockVars
    <2>1. CASE \E t \in Lockers : LockReader(t) \/ UnlockReader(t)
      BY <1>2, <2>1, ReaderSteps
    <2>2. CASE \E t \in Lockers : LockWriter(t) \/ UnlockWriter(t)
      BY <1>2, <2>2, WriterSteps
    <2>3. CASE ~ \E t \in Lockers : \/ LockReader(t) \/ UnlockReader(t)
                                   \/ LockWriter(t) \/ UnlockWriter(t)
      <3>1. readersBar' = readersBar BY <1>2, <2>3, ReadersStep
      <3>2. \A u \in Lockers : stage'[u] = "writing" <=> stage[u] = "writing"
        <4> USE DEF MutexInv, MutexTypeOK, Reach
        <4>1. ASSUME NEW t \in Lockers, CallReader(t) \/ CallWriter(t)
              PROVE  \A u \in Lockers : stage'[u] = "writing" <=> stage[u] = "writing"
          BY <1>2, <4>1 DEF CallReader, CallWriter
        <4>2. ASSUME NEW t \in Lockers,
                     \/ EnterReader(t) \/ DoneReading(t) \/ EnterUnlockReader(t)
                     \/ EnterWriter(t) \/ WaitPush(t) \/ WaitReturn(t) \/ WaitReenter(t)
              PROVE  \A u \in Lockers : stage'[u] = "writing" <=> stage[u] = "writing"
          BY <1>2, <4>2 DEF EnterReader, DoneReading, EnterUnlockReader, EnterWriter,
                            WaitPush, WaitReturn, WaitReenter
        <4>3. CASE StopRequests \/ Served \/ UNCHANGED vars
          BY <4>3 DEF StopRequests, Served, vars
        <4> QED BY <1>2, <2>3, <4>1, <4>2, <4>3 DEF MutexNext, Step
      <3> QED BY <1>2, <3>1, <3>2, Stutters
    <2> QED BY <2>1, <2>2, <2>3
  <1> QED BY <1>1, <1>2, MutexInductive, PTL DEF MutexSpec, ImplementsRWLock, Abs!LockSpec
-----------------------------------------------------------------------------
(***************************************************************************)
(* The main thread's queues.                                               *)
(***************************************************************************)
Labels  == {"idle", "post", "activate", "activateTimer", "setTimer", "timeoutCall"}
Waits   == [fn : Timed, left : Nat]
Frames  == [fn : Funcs, owes : BOOLEAN]

QueuesOK == /\ funcs \in Seq(Calls \cup {Activate})
            /\ timeouts \in Seq(Waits)
            /\ stack \in Seq(Frames)

FlagsOK == /\ scheduled \in BOOLEAN /\ wmTimer \in BOOLEAN
           /\ pc \in [Threads -> Labels]

NumbersOK == messages \in Nat /\ timer \in Nat \cup {Off} /\ wait \in Nat

TypeOK == QueuesOK /\ FlagsOK /\ NumbersOK

\* No function is twice in a queue or among those that run, or both.
Once ==
  /\ \A i, j \in DOMAIN funcs : i # j => funcs[i] # funcs[j] \/ funcs[i] = Activate
  /\ \A i, j \in DOMAIN timeouts : i # j => timeouts[i].fn # timeouts[j].fn
  /\ \A i, j \in DOMAIN stack : i # j => stack[i].fn # stack[j].fn
  /\ \A i \in DOMAIN stack, j \in DOMAIN funcs : stack[i].fn # funcs[j]
  /\ \A i \in DOMAIN stack, j \in DOMAIN timeouts : stack[i].fn # timeouts[j].fn

\* An activation of the timer is on its way just if m_bActivateTimerScheduled says
\* so, and one only.
Promised(t) == At(t, "activate")
InQueue(i)  == funcs[i] = Activate
Owed(i)     == stack[i].owes
Begun       == At(Main, "activateTimer")

SomePromised == \E t \in Threads : Promised(t)
SomeQueued   == \E i \in DOMAIN funcs : InQueue(i)
SomeOwed     == \E i \in DOMAIN stack : Owed(i)

OnePromised == \A t, u \in Threads : Promised(t) /\ Promised(u) => t = u
OneQueued   == \A i, j \in DOMAIN funcs : InQueue(i) /\ InQueue(j) => i = j
OneOwed     == \A i, j \in DOMAIN stack : Owed(i) /\ Owed(j) => i = j

Apart == /\ ~(SomePromised /\ (SomeQueued \/ SomeOwed \/ Begun))
         /\ ~(SomeQueued /\ (SomeOwed \/ Begun))
         /\ ~(SomeOwed /\ Begun)

OnItsWay == SomePromised \/ SomeQueued \/ SomeOwed \/ Begun

Activated == /\ scheduled <=> OnItsWay
             /\ OnePromised /\ OneQueued /\ OneOwed /\ Apart

\* The timer is set early enough, or about to be.
Covered ==
  \/ timeouts = << >>
  \/ scheduled
  \/ At(Main, "timeoutCall")
  \/ IF At(Main, "setTimer") THEN wait <= Head(timeouts).left
                             ELSE timer # Off /\ timer <= Head(timeouts).left

IInv == TypeOK /\ MessagePerCall /\ Once /\ Activated /\ Covered

-----------------------------------------------------------------------------
\* What the operations on sequences do to their elements.
LEMMA AppendFacts ==
  ASSUME NEW S, NEW s \in Seq(S), NEW e \in S
  PROVE  /\ Append(s, e) \in Seq(S)
         /\ Len(s) \in Nat /\ DOMAIN s = 1..Len(s) /\ Len(Append(s, e)) = Len(s) + 1
         /\ DOMAIN Append(s, e) = 1..(Len(s) + 1)
         /\ \A i \in 1..Len(s) : Append(s, e)[i] = s[i]
         /\ Append(s, e)[Len(s) + 1] = e
  OBVIOUS

\* The elements of a sequence without its first one,
LEMMA TailFacts ==
  ASSUME NEW S, NEW s \in Seq(S), s # << >>
  PROVE  /\ Tail(s) \in Seq(S) /\ Head(s) \in S /\ Head(s) = s[1]
         /\ Len(s) \in Nat \ {0} /\ DOMAIN s = 1..Len(s) /\ Len(Tail(s)) = Len(s) - 1
         /\ DOMAIN Tail(s) = 1..(Len(s) - 1)
         /\ \A i \in 1..(Len(s) - 1) : Tail(s)[i] = s[i + 1]
  OBVIOUS

\* without its last one,
LEMMA FrontFacts ==
  ASSUME NEW S, NEW s \in Seq(S), s # << >>
  PROVE  /\ Front(s) \in Seq(S) /\ Last(s) \in S /\ Last(s) = s[Len(s)]
         /\ Len(s) \in Nat \ {0} /\ DOMAIN s = 1..Len(s)
         /\ DOMAIN Front(s) = 1..(Len(s) - 1)
         /\ \A i \in 1..(Len(s) - 1) : Front(s)[i] = s[i]
  BY DEF Front, Last

\* and with one more.
LEMMA InsertFacts ==
  ASSUME NEW S, NEW s \in Seq(S), NEW e \in S, NEW k \in 1..(Len(s) + 1)
  PROVE  /\ InsertAt(s, k, e) \in Seq(S)
         /\ Len(s) \in Nat /\ DOMAIN s = 1..Len(s)
         /\ DOMAIN InsertAt(s, k, e) = 1..(Len(s) + 1)
         /\ \A i \in 1..(Len(s) + 1) :
              InsertAt(s, k, e)[i] = IF i < k THEN s[i] ELSE IF i = k THEN e ELSE s[i - 1]
<1> DEFINE a == SubSeq(s, 1, k - 1)
           b == SubSeq(s, k, Len(s))
<1>1. /\ a \in Seq(S) /\ Len(a) = k - 1 /\ \A i \in 1..(k - 1) : a[i] = s[i]
      /\ Len(s) \in Nat /\ DOMAIN s = 1..Len(s)
  OBVIOUS
<1>2. b \in Seq(S) /\ Len(b) = Len(s) - k + 1 /\ \A i \in 1..(Len(s) - k + 1) : b[i] = s[k + i - 1]
  OBVIOUS
<1>3. InsertAt(s, k, e) = a \o <<e>> \o b
  BY DEF InsertAt
<1> HIDE DEF a, b
<1>4. /\ a \o <<e>> \in Seq(S) /\ Len(a \o <<e>>) = k
      /\ \A i \in 1..k : (a \o <<e>>)[i] = IF i < k THEN s[i] ELSE e
  BY <1>1
<1> DEFINE c == a \o <<e>>
<1> HIDE DEF c
<1>5. /\ c \o b \in Seq(S) /\ Len(c \o b) = Len(s) + 1
      /\ \A i \in 1..(Len(s) + 1) : (c \o b)[i] = IF i <= k THEN c[i] ELSE b[i - k]
  <2>1. c \in Seq(S) /\ Len(c) = k /\ b \in Seq(S) /\ k \in Nat
    BY <1>1, <1>2, <1>4 DEF c
  <2>2. c \o b \in Seq(S) /\ Len(c \o b) = Len(c) + Len(b)
    BY <2>1
  <2>3. \A i \in 1..(Len(c) + Len(b)) :
          (c \o b)[i] = IF i <= Len(c) THEN c[i] ELSE b[i - Len(c)]
    BY <2>1
  <2>4. Len(c) + Len(b) = Len(s) + 1
    BY <1>1, <1>2, <2>1
  <2> QED  BY <2>1, <2>2, <2>3, <2>4
<1>6. \A i \in 1..(Len(s) + 1) :
        (c \o b)[i] = IF i < k THEN s[i] ELSE IF i = k THEN e ELSE s[i - 1]
  <2> SUFFICES ASSUME NEW i \in 1..(Len(s) + 1)
               PROVE  (c \o b)[i] = IF i < k THEN s[i] ELSE IF i = k THEN e ELSE s[i - 1]
    OBVIOUS
  <2>1. CASE i <= k
    <3>1. i \in 1..k /\ c[i] = IF i < k THEN s[i] ELSE e
      BY <1>1, <1>4, <2>1 DEF c
    <3> QED  BY <1>5, <2>1, <3>1
  <2>2. CASE ~(i <= k)
    <3>1. i - k \in 1..(Len(s) - k + 1) /\ k + (i - k) - 1 = i - 1 /\ ~(i < k) /\ i # k
      BY <1>1, <2>2
    <3>2. b[i - k] = s[i - 1]
      BY <1>2, <3>1
    <3> QED  BY <1>5, <2>2, <3>1, <3>2
  <2> QED  BY <2>1, <2>2
<1>7. InsertAt(s, k, e) = c \o b
  BY <1>3 DEF c
<1>8. DOMAIN (c \o b) = 1..(Len(s) + 1)
  BY <1>5
<1> QED  BY <1>1, <1>5, <1>6, <1>7, <1>8, Zenon

\* At first nothing is queued.
LEMMA InitIInv == Init => IInv
<1> SUFFICES ASSUME Init PROVE IInv
  OBVIOUS
<1>1. TypeOK
  <2>1. QueuesOK
    BY DEF Init, QueuesOK
  <2>2. FlagsOK
    BY DEF Init, FlagsOK, Labels
  <2>3. NumbersOK
    BY DEF Init, NumbersOK, Off
  <2> QED  BY <2>1, <2>2, <2>3 DEF TypeOK
<1>2. MessagePerCall
  <2>1. {t \in Threads : At(t, "post")} = {}
    BY DEF Init, At
  <2> QED  BY <2>1, FS_EmptySet DEF Init, MessagePerCall
<1>3. DOMAIN funcs = {} /\ DOMAIN timeouts = {} /\ DOMAIN stack = {}
  BY DEF Init
<1>4. Once
  BY <1>3 DEF Once
<1>5. Activated
  <2>1. ~SomePromised /\ OnePromised /\ ~Begun
    BY DEF Init, SomePromised, OnePromised, Promised, Begun, At, Threads
  <2>2. ~SomeQueued /\ OneQueued /\ ~SomeOwed /\ OneOwed
    BY <1>3 DEF SomeQueued, OneQueued, SomeOwed, OneOwed
  <2>3. ~scheduled
    BY DEF Init
  <2> QED  BY <2>1, <2>2, <2>3 DEF Activated, OnItsWay, Apart
<1>6. Covered
  BY DEF Init, Covered
<1> QED  BY <1>1, <1>2, <1>4, <1>5, <1>6 DEF IInv

\* The head of the queue, which messages rely on.
LEMMA MessageHasCall ==
  ASSUME TypeOK, MessagePerCall, messages > 0
  PROVE  funcs # << >>
<1>1. IsFiniteSet(Threads)
  BY QueueAssumption, FS_AddElement, FS_Union, FS_Singleton DEF Threads
<1>2. Cardinality({t \in Threads : At(t, "post")}) \in Nat
  BY <1>1, FS_Subset, FS_CardinalityType
<1> QED  BY <1>2 DEF TypeOK, NumbersOK, MessagePerCall

\* Every step keeps the types.
LEMMA TypeStep ==
  ASSUME TypeOK, MessagePerCall, Next
  PROVE  TypeOK'
<1>0. /\ funcs \in Seq(Calls \cup {Activate}) /\ timeouts \in Seq(Waits) /\ stack \in Seq(Frames)
      /\ Main \in Threads
  BY DEF TypeOK, QueuesOK, Threads
<1>1. FlagsOK'
  BY DEF TypeOK, FlagsOK, Labels, Threads, Next, Asks, Follows, Dispatch, MainStep, Request, RunAsync,
         RunAsyncTimeout, PostMessage, RequestActivation, OnRunAsyncCall, OnTimer, ActivateTimer,
         SetTimer, OnRunAsyncTimeoutCall, Return, Tick, TimerFires, Goto
<1>2. funcs' \in Seq(Calls \cup {Activate})
  <2>1. ASSUME NEW f \in Calls \cup {Activate}, funcs' = Append(funcs, f)
        PROVE  funcs' \in Seq(Calls \cup {Activate})
    BY <1>0, <2>1
  <2>2. CASE OnRunAsyncCall
    BY <1>0, <2>2, MessageHasCall, TailFacts DEF OnRunAsyncCall
  <2> QED
    BY <1>0, <2>1, <2>2
    DEF Next, Asks, Follows, Dispatch, MainStep, Request, RunAsync, RunAsyncTimeout, PostMessage,
        RequestActivation, OnTimer, ActivateTimer, SetTimer, OnRunAsyncTimeoutCall, Return, Tick,
        TimerFires
<1>3. timeouts' \in Seq(Waits)
  <2>1. ASSUME NEW t \in Threads, NEW f \in Timed, NEW d \in Timeouts, RunAsyncTimeout(t, f, d)
        PROVE  timeouts' \in Seq(Waits)
    <3>1. [fn |-> f, left |-> d] \in Waits
      BY QueueAssumption DEF Waits
    <3>2. PICK k \in 1..(Len(timeouts) + 1) : timeouts' = InsertAt(timeouts, k, [fn |-> f, left |-> d])
      BY <2>1 DEF RunAsyncTimeout, Place
    <3> QED  BY <1>0, <3>1, <3>2, InsertFacts
  <2>2. CASE OnRunAsyncTimeoutCall
    <3>1. timeouts' = timeouts \/ (timeouts # << >> /\ timeouts' = Tail(timeouts))
      BY <2>2 DEF OnRunAsyncTimeoutCall
    <3> QED  BY <1>0, <3>1, TailFacts
  <2>3. CASE Tick
    <3>1. \A i \in DOMAIN timeouts :
            [timeouts[i] EXCEPT !.left = IF @ = 0 THEN 0 ELSE @ - 1] \in Waits
      <4> TAKE i \in DOMAIN timeouts
      <4>1. timeouts[i] \in Waits
        BY <1>0
      <4> QED  BY <4>1 DEF Waits
    <3>2. DOMAIN timeouts = 1..Len(timeouts) /\ Len(timeouts) \in Nat
      BY <1>0
    <3> QED  BY <2>3, <3>1, <3>2 DEF Tick
  <2> QED
    BY <1>0, <2>1, <2>2, <2>3
    DEF Next, Asks, Follows, Dispatch, MainStep, Request, RunAsync, PostMessage,
        RequestActivation, OnRunAsyncCall, OnTimer, ActivateTimer, SetTimer, Return, TimerFires
<1>4. stack' \in Seq(Frames)
  <2>1. ASSUME NEW f \in Funcs, NEW o \in BOOLEAN, Call(f, o)
        PROVE  stack' \in Seq(Frames)
    <3>1. [fn |-> f, owes |-> o] \in Frames
      BY DEF Frames
    <3> QED  BY <1>0, <2>1, <3>1, AppendFacts DEF Call
  <2>2. CASE OnRunAsyncCall
    <3>1. Head(funcs) # Activate => Head(funcs) \in Funcs
      BY <1>0, <2>2, MessageHasCall, TailFacts DEF OnRunAsyncCall, Funcs
    <3> QED  BY <1>0, <2>1, <2>2, <3>1 DEF OnRunAsyncCall
  <2>3. CASE OnRunAsyncTimeoutCall
    <3>1. timeouts # << >> => Head(timeouts).fn \in Funcs
      <4>1. timeouts # << >> => Head(timeouts) \in Waits
        BY <1>0, TailFacts
      <4> QED  BY <4>1 DEF Waits, Funcs
    <3>2. \/ UNCHANGED stack
          \/ timeouts # << >> /\ \E o \in BOOLEAN : Call(Head(timeouts).fn, o)
      BY <2>3 DEF OnRunAsyncTimeoutCall, TypeOK, FlagsOK
    <3> QED  BY <1>0, <2>1, <3>1, <3>2
  <2>4. CASE Return
    BY <1>0, <2>4, FrontFacts DEF Return
  <2> QED
    BY <1>0, <2>2, <2>3, <2>4
    DEF Next, Asks, Follows, Dispatch, MainStep, Request, RunAsync, RunAsyncTimeout, PostMessage,
        RequestActivation, OnTimer, ActivateTimer, SetTimer, Tick, TimerFires
<1>5. NumbersOK'
  <2>1. messages' \in Nat
    <3>1. \/ messages' = messages \/ messages' = messages + 1
          \/ messages > 0 /\ messages' = messages - 1
      BY DEF Next, Asks, Follows, Dispatch, MainStep, Request, RunAsync, RunAsyncTimeout,
         PostMessage, RequestActivation, OnRunAsyncCall, OnTimer, ActivateTimer, SetTimer,
         OnRunAsyncTimeoutCall, Return, Tick, TimerFires
    <3> QED  BY <3>1 DEF TypeOK, NumbersOK
  <2>2. wait' \in Nat
    <3>1. timeouts # << >> => Head(timeouts).left \in Nat
      <4>1. timeouts # << >> => Head(timeouts) \in Waits
        BY <1>0, TailFacts
      <4> QED  BY <4>1 DEF Waits
    <3> QED
      BY <3>1
      DEF TypeOK, NumbersOK, Next, Asks, Follows, Dispatch, MainStep, Request, RunAsync,
         RunAsyncTimeout, PostMessage, RequestActivation, OnRunAsyncCall, OnTimer, ActivateTimer,
         SetTimer, OnRunAsyncTimeoutCall, Return, Tick, TimerFires
  <2>3. timer' \in Nat \cup {Off}
    <3>1. \/ timer' = timer \/ timer' = Off \/ timer' = wait
          \/ timer \notin {0, Off} /\ timer' = timer - 1
      BY DEF Next, Asks, Follows, Dispatch, MainStep, Request, RunAsync, RunAsyncTimeout,
         PostMessage, RequestActivation, OnRunAsyncCall, OnTimer, ActivateTimer, SetTimer,
         OnRunAsyncTimeoutCall, Return, Tick, TimerFires
    <3> QED  BY <3>1 DEF TypeOK, NumbersOK, Off
  <2> QED  BY <2>1, <2>2, <2>3 DEF NumbersOK
<1> QED  BY <1>1, <1>2, <1>3, <1>4, <1>5 DEF TypeOK, QueuesOK

-----------------------------------------------------------------------------
\* A message for each function: the threads that have queued one and not yet
\* posted its message are the difference.
LEMMA MessagesStep ==
  ASSUME TypeOK, MessagePerCall, Next
  PROVE  MessagePerCall'
<1> DEFINE P == {t \in Threads : At(t, "post")}
<1>0. /\ funcs \in Seq(Calls \cup {Activate}) /\ messages \in Nat /\ Main \in Threads
      /\ pc \in [Threads -> Labels]
  BY DEF TypeOK, QueuesOK, FlagsOK, NumbersOK, Threads
<1>1. IsFiniteSet(P) /\ Cardinality(P) \in Nat
  <2>1. IsFiniteSet(Threads)
    BY QueueAssumption, FS_Union, FS_Singleton DEF Threads
  <2> QED  BY <2>1, FS_Subset, FS_CardinalityType
<1>2. Len(funcs) = messages + Cardinality(P)
  BY DEF MessagePerCall
<1>3. ASSUME NEW t \in Threads, NEW f \in Calls \cup {Activate}, ~At(t, "post"),
             RunAsync(t, f), messages' = messages
      PROVE  MessagePerCall'
  <2>1. P' = P \cup {t}
    BY <1>0, <1>3 DEF RunAsync, Goto, At
  <2>2. Cardinality(P') = Cardinality(P) + 1
    BY <1>1, <1>3, <2>1, FS_AddElement
  <2>3. Len(funcs') = Len(funcs) + 1
    BY <1>0, <1>3, AppendFacts DEF RunAsync
  <2> QED  BY <1>0, <1>1, <1>2, <1>3, <2>2, <2>3 DEF MessagePerCall
<1>4. ASSUME NEW t \in Threads, PostMessage(t)
      PROVE  MessagePerCall'
  <2>1. P' = P \ {t} /\ t \in P
    BY <1>0, <1>4 DEF PostMessage, Goto, At
  <2>2. Cardinality(P') = Cardinality(P) - 1
    BY <1>1, <2>1, FS_RemoveElement
  <2>3. messages' = messages + 1 /\ funcs' = funcs
    BY <1>4 DEF PostMessage
  <2> QED  BY <1>0, <1>1, <1>2, <2>2, <2>3 DEF MessagePerCall
<1>5. CASE OnRunAsyncCall
  <2>1. P' = P
    BY <1>0, <1>5 DEF OnRunAsyncCall, InLoop, Goto, At
  <2>2. Len(funcs') = Len(funcs) - 1
    BY <1>0, <1>5, MessageHasCall, TailFacts DEF OnRunAsyncCall
  <2>3. messages' = messages - 1
    BY <1>5 DEF OnRunAsyncCall
  <2> DEFINE c == Cardinality(P)
  <2>4. c \in Nat /\ messages \in Nat /\ Len(funcs) = messages + c
    BY <1>0, <1>1, <1>2
  <2>5. Cardinality(P') = c
    BY <2>1
  <2> HIDE DEF c
  <2>6. Len(funcs') = messages' + c
    BY <2>2, <2>3, <2>4
  <2> HIDE DEF P
  <2>7. Len(funcs') = messages' + Cardinality(P')
    BY <2>5, <2>6
  <2> QED  BY <2>7 DEF MessagePerCall, P
<1>6. ASSUME UNCHANGED <<funcs, messages>>, \A t \in Threads : At(t, "post")' <=> At(t, "post")
      PROVE  MessagePerCall'
  <2>1. P' = P
    BY <1>6
  <2> QED  BY <1>2, <1>6, <2>1 DEF MessagePerCall
<1>7. ASSUME NEW t \in Threads, Asks(t)
      PROVE  MessagePerCall'
  <2>1. ASSUME NEW f \in Calls, Request(t, f)
        PROVE  MessagePerCall'
    BY <1>3, <2>1 DEF Request, At
  <2>2. ASSUME NEW f \in Timed, NEW d \in Timeouts, RunAsyncTimeout(t, f, d)
        PROVE  MessagePerCall'
    <3>1. \A u \in Threads : At(u, "post")' <=> At(u, "post")
      BY <1>0, <2>2 DEF RunAsyncTimeout, Goto, At
    <3> QED  BY <1>6, <2>2, <3>1 DEF RunAsyncTimeout
  <2> QED  BY <1>7, <2>1, <2>2 DEF Asks
<1>8. ASSUME NEW t \in Threads, RequestActivation(t)
      PROVE  MessagePerCall'
  BY <1>3, <1>8 DEF RequestActivation, At
<1>9. CASE OnTimer \/ ActivateTimer \/ SetTimer \/ OnRunAsyncTimeoutCall \/ Return \/ Tick \/ TimerFires
  <2>1. UNCHANGED <<funcs, messages>>
    BY <1>9 DEF OnTimer, ActivateTimer, SetTimer, OnRunAsyncTimeoutCall, Return, Tick, TimerFires
  <2>2. \/ pc' = pc
        \/ ~At(Main, "post") /\ \E l \in Labels \ {"post"} : pc' = [pc EXCEPT ![Main] = l]
    BY <1>9 DEF OnTimer, ActivateTimer, SetTimer, OnRunAsyncTimeoutCall, Return, Tick, TimerFires,
                InLoop, Goto, At, Labels
  <2>3. \A t \in Threads : At(t, "post")' <=> At(t, "post")
    BY <1>0, <2>2 DEF At
  <2> QED  BY <1>6, <2>1, <2>3
<1> QED
  BY <1>4, <1>5, <1>7, <1>8, <1>9 DEF Next, Follows, Dispatch, MainStep

-----------------------------------------------------------------------------
\* None twice.
LEMMA OnceStep ==
  ASSUME TypeOK, MessagePerCall, Once, Next
  PROVE  Once'
<1>0. /\ funcs \in Seq(Calls \cup {Activate}) /\ timeouts \in Seq(Waits) /\ stack \in Seq(Frames)
      /\ Calls \cap Timed = {} /\ Activate \notin Calls \cup Timed
  BY QueueAssumption DEF TypeOK, QueuesOK, Funcs
<1>1. /\ \A i \in DOMAIN funcs : funcs[i] \in Calls \cup {Activate}
      /\ \A i \in DOMAIN timeouts : timeouts[i].fn \in Timed
      /\ \A i \in DOMAIN stack : stack[i].fn \in Funcs
  <2>1. \A i \in DOMAIN timeouts : timeouts[i] \in Waits
    BY <1>0
  <2>2. \A i \in DOMAIN stack : stack[i] \in Frames
    BY <1>0
  <2> QED  BY <1>0, <2>1, <2>2 DEF Waits, Frames
<1>2. ASSUME UNCHANGED <<timeouts, stack>>, NEW f \in Calls \cup {Activate},
             funcs' = Append(funcs, f),
             f # Activate => ~Queued(f) /\ ~Running(f)
      PROVE  Once'
  <2>1. /\ DOMAIN funcs = 1..Len(funcs) /\ DOMAIN funcs' = 1..(Len(funcs) + 1) /\ Len(funcs) \in Nat
        /\ \A i \in 1..Len(funcs) : funcs'[i] = funcs[i]
        /\ funcs'[Len(funcs) + 1] = f
    BY <1>0, <1>2, AppendFacts
  <2>2. \A i \in DOMAIN funcs' :
          \/ i \in DOMAIN funcs /\ funcs'[i] = funcs[i]
          \/ i = Len(funcs) + 1 /\ funcs'[i] = f
    BY <2>1
  <2>3. f # Activate => /\ \A i \in DOMAIN funcs : funcs[i] # f
                       /\ \A i \in DOMAIN stack : stack[i].fn # f
    BY <1>2 DEF Queued, Running
  <2>4. \A i \in DOMAIN stack : stack[i].fn # Activate
    BY <1>0, <1>1 DEF Funcs
  <2>5. \A i, j \in DOMAIN funcs' : i # j => funcs'[i] # funcs'[j] \/ funcs'[i] = Activate
    BY <2>2, <2>3 DEF Once
  <2>6. \A i \in DOMAIN stack, j \in DOMAIN funcs' : stack[i].fn # funcs'[j]
    BY <2>2, <2>3, <2>4 DEF Once
  <2> QED  BY <1>2, <2>5, <2>6 DEF Once
<1>3. ASSUME NEW t \in Threads, NEW f \in Timed, NEW d \in Timeouts, RunAsyncTimeout(t, f, d)
      PROVE  Once'
  <2> DEFINE e == [fn |-> f, left |-> d]
  <2>1. e \in Waits /\ e.fn = f
    BY QueueAssumption DEF Waits
  <2> HIDE DEF e
  <2>2. UNCHANGED <<funcs, stack>> /\ ~Waiting(f) /\ ~Running(f)
    BY <1>3 DEF RunAsyncTimeout
  <2>3. PICK k \in 1..(Len(timeouts) + 1) : timeouts' = InsertAt(timeouts, k, e)
    BY <1>3 DEF RunAsyncTimeout, Place, e
  <2>4. /\ DOMAIN timeouts = 1..Len(timeouts) /\ DOMAIN timeouts' = 1..(Len(timeouts) + 1)
        /\ Len(timeouts) \in Nat
        /\ \A i \in 1..(Len(timeouts) + 1) :
             timeouts'[i] = IF i < k THEN timeouts[i] ELSE IF i = k THEN e ELSE timeouts[i - 1]
    <3> DEFINE u == InsertAt(timeouts, k, e)
    <3>1. /\ DOMAIN timeouts = 1..Len(timeouts) /\ DOMAIN u = 1..(Len(timeouts) + 1)
          /\ Len(timeouts) \in Nat
          /\ \A i \in 1..(Len(timeouts) + 1) :
               u[i] = IF i < k THEN timeouts[i] ELSE IF i = k THEN e ELSE timeouts[i - 1]
      BY <1>0, <2>1, InsertFacts
    <3> QED  BY <2>3, <3>1
  <2> DEFINE old(i) == IF i < k THEN i ELSE i - 1
  <2>5. \A i \in DOMAIN timeouts' :
          i # k => old(i) \in DOMAIN timeouts /\ timeouts'[i] = timeouts[old(i)]
    BY <2>4
  <2>6. \A i, j \in DOMAIN timeouts' : i # k /\ j # k /\ i # j => old(i) # old(j)
    BY <2>4
  <2>7. timeouts'[k] = e
    BY <2>4
  <2> HIDE DEF old
  <2>8. \A i \in DOMAIN timeouts : timeouts[i].fn # f
    BY <2>2 DEF Waiting
  <2>9. \A i \in DOMAIN stack : stack[i].fn # f
    BY <2>2 DEF Running
  <2>10. \A i, j \in DOMAIN timeouts' : i # j => timeouts'[i].fn # timeouts'[j].fn
    <3> SUFFICES ASSUME NEW i \in DOMAIN timeouts', NEW j \in DOMAIN timeouts', i # j
                 PROVE  timeouts'[i].fn # timeouts'[j].fn
      OBVIOUS
    <3>1. CASE i = k \/ j = k
      BY <2>1, <2>5, <2>7, <2>8, <3>1
    <3>2. CASE i # k /\ j # k
      BY <2>5, <2>6, <3>2 DEF Once
    <3> QED  BY <3>1, <3>2
  <2>11. \A i \in DOMAIN stack, j \in DOMAIN timeouts' : stack[i].fn # timeouts'[j].fn
    BY <2>1, <2>5, <2>7, <2>9 DEF Once
  <2> QED  BY <2>2, <2>10, <2>11 DEF Once
<1>4. ASSUME NEW f \in Funcs, NEW o \in BOOLEAN, Call(f, o),
             \A i \in DOMAIN stack : stack[i].fn # f,
             \A j \in DOMAIN funcs' : funcs'[j] # f,
             \A j \in DOMAIN timeouts' : timeouts'[j].fn # f,
             \A i \in DOMAIN stack, j \in DOMAIN funcs' : stack[i].fn # funcs'[j],
             \A i \in DOMAIN stack, j \in DOMAIN timeouts' : stack[i].fn # timeouts'[j].fn
      PROVE  /\ \A i, j \in DOMAIN stack' : i # j => stack'[i].fn # stack'[j].fn
             /\ \A i \in DOMAIN stack', j \in DOMAIN funcs' : stack'[i].fn # funcs'[j]
             /\ \A i \in DOMAIN stack', j \in DOMAIN timeouts' : stack'[i].fn # timeouts'[j].fn
  <2> DEFINE e == [fn |-> f, owes |-> o]
  <2>1. e \in Frames /\ e.fn = f /\ stack' = Append(stack, e)
    BY <1>4 DEF Frames, Call
  <2> HIDE DEF e
  <2>2. /\ DOMAIN stack = 1..Len(stack) /\ DOMAIN stack' = 1..(Len(stack) + 1) /\ Len(stack) \in Nat
        /\ \A i \in 1..Len(stack) : stack'[i] = stack[i]
        /\ stack'[Len(stack) + 1] = e
    BY <1>0, <2>1, AppendFacts
  <2>3. \A i \in DOMAIN stack' :
          \/ i \in DOMAIN stack /\ stack'[i].fn = stack[i].fn
          \/ i = Len(stack) + 1 /\ stack'[i].fn = f
    BY <2>1, <2>2
  <2> QED  BY <1>4, <2>3 DEF Once
<1>5. CASE OnRunAsyncCall
  <2>1. funcs # << >> /\ funcs' = Tail(funcs) /\ timeouts' = timeouts
    BY <1>5, MessageHasCall DEF OnRunAsyncCall
  <2>2. /\ Head(funcs) = funcs[1] /\ 1 \in DOMAIN funcs
        /\ \A i \in DOMAIN funcs' : i + 1 \in DOMAIN funcs /\ i + 1 # 1 /\ funcs'[i] = funcs[i + 1]
        /\ \A i, j \in DOMAIN funcs' : i # j => i + 1 # j + 1
    BY <1>0, <2>1, TailFacts
  <2>3. \A i, j \in DOMAIN funcs' : i # j => funcs'[i] # funcs'[j] \/ funcs'[i] = Activate
    BY <2>2 DEF Once
  <2>4. \A i \in DOMAIN stack, j \in DOMAIN funcs' : stack[i].fn # funcs'[j]
    BY <2>2 DEF Once
  <2>5. CASE Head(funcs) = Activate
    <3>1. stack' = stack
      BY <1>5, <2>5 DEF OnRunAsyncCall
    <3> QED  BY <2>1, <2>3, <2>4, <3>1 DEF Once
  <2>6. CASE Head(funcs) # Activate
    <3>1. Call(Head(funcs), FALSE) /\ Head(funcs) \in Calls
      BY <1>1, <1>5, <2>2, <2>6 DEF OnRunAsyncCall
    <3>2. \A i \in DOMAIN stack : stack[i].fn # Head(funcs)
      BY <2>2 DEF Once
    <3>3. \A j \in DOMAIN funcs' : funcs'[j] # Head(funcs)
      BY <2>2, <2>6 DEF Once
    <3>4. \A j \in DOMAIN timeouts' : timeouts'[j].fn # Head(funcs)
      BY <1>0, <1>1, <2>1, <3>1
    <3>5. \A i \in DOMAIN stack, j \in DOMAIN timeouts' : stack[i].fn # timeouts'[j].fn
      BY <2>1 DEF Once
    <3>6. Head(funcs) \in Funcs
      BY <3>1 DEF Funcs
    <3> QED  BY ZenonT(30), <1>4, <2>1, <2>3, <2>4, <3>1, <3>2, <3>3, <3>4, <3>5, <3>6 DEF Once
  <2> QED  BY <2>5, <2>6
<1>6. CASE OnRunAsyncTimeoutCall
  <2>1. CASE UNCHANGED <<timeouts, stack>>
    BY <1>6, <2>1 DEF OnRunAsyncTimeoutCall, Once
  <2>2. CASE timeouts # << >> /\ timeouts' = Tail(timeouts) /\ \E o \in BOOLEAN : Call(Head(timeouts).fn, o)
    <3>1. /\ Head(timeouts) = timeouts[1] /\ 1 \in DOMAIN timeouts
          /\ \A i \in DOMAIN timeouts' :
               i + 1 \in DOMAIN timeouts /\ i + 1 # 1 /\ timeouts'[i] = timeouts[i + 1]
          /\ \A i, j \in DOMAIN timeouts' : i # j => i + 1 # j + 1
      BY <1>0, <2>2, TailFacts
    <3>2. funcs' = funcs
      BY <1>6 DEF OnRunAsyncTimeoutCall
    <3>3. \A i, j \in DOMAIN timeouts' : i # j => timeouts'[i].fn # timeouts'[j].fn
      BY <3>1 DEF Once
    <3>4. \A i \in DOMAIN stack, j \in DOMAIN timeouts' : stack[i].fn # timeouts'[j].fn
      BY <3>1 DEF Once
    <3> DEFINE f == Head(timeouts).fn
    <3>5. f \in Timed /\ f \in Funcs
      BY <1>1, <3>1 DEF Funcs
    <3>6. \A i \in DOMAIN stack : stack[i].fn # f
      BY <3>1 DEF Once
    <3>7. \A j \in DOMAIN timeouts' : timeouts'[j].fn # f
      BY <3>1 DEF Once
    <3>8. \A j \in DOMAIN funcs' : funcs'[j] # f
      BY <1>0, <1>1, <3>2, <3>5
    <3>9. \A i \in DOMAIN stack, j \in DOMAIN funcs' : stack[i].fn # funcs'[j]
      BY <3>2 DEF Once
    <3>10. PICK o \in BOOLEAN : Call(f, o)
      BY <2>2
    <3> HIDE DEF f
    <3> QED  BY <1>4, <3>2, <3>3, <3>4, <3>5, <3>6, <3>7, <3>8, <3>9, <3>10 DEF Once
  <2> QED
    BY <1>6, <2>1, <2>2 DEF OnRunAsyncTimeoutCall, TypeOK, FlagsOK
<1>7. CASE Return
  <2>1. stack # << >> /\ stack' = Front(stack) /\ UNCHANGED <<funcs, timeouts>>
    BY <1>7 DEF Return
  <2>2. \A i \in DOMAIN stack' : i \in DOMAIN stack /\ stack'[i] = stack[i]
    <3>1. /\ Len(stack) \in Nat /\ DOMAIN stack = 1..Len(stack)
          /\ DOMAIN stack' = 1..(Len(stack) - 1)
          /\ \A i \in 1..(Len(stack) - 1) : stack'[i] = stack[i]
      BY <1>0, <2>1, FrontFacts
    <3> QED  BY <3>1
  <2> QED  BY <2>1, <2>2 DEF Once
<1>8. CASE Tick
  <2>1. /\ UNCHANGED <<funcs, stack>> /\ DOMAIN timeouts' = DOMAIN timeouts
        /\ timeouts' = [i \in DOMAIN timeouts |->
                          [timeouts[i] EXCEPT !.left = IF @ = 0 THEN 0 ELSE @ - 1]]
    BY <1>8 DEF Tick
  <2>2. \A i \in DOMAIN timeouts : timeouts'[i].fn = timeouts[i].fn
    <3>1. \A i \in DOMAIN timeouts : timeouts[i] \in Waits
      BY <1>0
    <3> QED  BY <2>1, <3>1 DEF Waits
  <2> QED  BY <2>1, <2>2 DEF Once
<1>9. CASE UNCHANGED <<funcs, timeouts, stack>>
  BY <1>9 DEF Once
<1>10. ASSUME NEW t \in Threads, Asks(t) \/ Follows(t)
       PROVE  Once'
  <2>1. ASSUME NEW f \in Calls, Request(t, f)
        PROVE  Once'
    BY <1>2, <2>1 DEF Request, RunAsync
  <2>2. CASE RequestActivation(t)
    BY <1>2, <2>2 DEF RequestActivation, RunAsync
  <2>3. CASE PostMessage(t)
    BY <1>9, <2>3 DEF PostMessage
  <2> QED  BY <1>3, <1>10, <2>1, <2>2, <2>3 DEF Asks, Follows
<1> QED
  BY <1>5, <1>6, <1>7, <1>8, <1>9, <1>10
  DEF Next, Dispatch, MainStep, OnTimer, ActivateTimer, SetTimer, TimerFires

-----------------------------------------------------------------------------
\* Where an activation of the timer may be, through what happens there.
LEMMA PromisedMoves ==
  ASSUME pc \in [Threads -> Labels], NEW t \in Threads, NEW l \in Labels,
         pc' = [pc EXCEPT ![t] = l], OnePromised
  PROVE  /\ pc[t] # "activate" /\ l # "activate" =>
              OnePromised' /\ (SomePromised' <=> SomePromised)
         /\ ~SomePromised /\ l = "activate" => OnePromised' /\ SomePromised'
         /\ pc[t] = "activate" /\ l # "activate" =>
              OnePromised' /\ SomePromised /\ ~SomePromised'
<1>1. \A u \in Threads : pc'[u] = IF u = t THEN l ELSE pc[u]
  OBVIOUS
<1> QED  BY <1>1 DEF OnePromised, SomePromised, Promised, At

\* How the one activation in the queue comes and goes,
LEMMA QueuedMoves ==
  ASSUME funcs \in Seq(Calls \cup {Activate}), OneQueued
  PROVE  /\ \A f \in Calls : funcs' = Append(funcs, f) =>
              OneQueued' /\ (SomeQueued' <=> SomeQueued)
         /\ ~SomeQueued /\ funcs' = Append(funcs, Activate) => OneQueued' /\ SomeQueued'
         /\ funcs # << >> /\ Head(funcs) # Activate /\ funcs' = Tail(funcs) =>
              OneQueued' /\ (SomeQueued' <=> SomeQueued)
         /\ funcs # << >> /\ Head(funcs) = Activate /\ funcs' = Tail(funcs) =>
              OneQueued' /\ SomeQueued /\ ~SomeQueued'
<1>1. \A f \in Calls : f # Activate
  BY QueueAssumption DEF Funcs
<1>2. ASSUME NEW f \in Calls \cup {Activate}, funcs' = Append(funcs, f)
      PROVE  /\ \A i \in DOMAIN funcs : i \in DOMAIN funcs' /\ funcs'[i] = funcs[i]
             /\ \E k \in DOMAIN funcs' :
                  /\ k \notin DOMAIN funcs /\ funcs'[k] = f
                  /\ \A i \in DOMAIN funcs' : i = k \/ i \in DOMAIN funcs
  <2>1. /\ DOMAIN funcs = 1..Len(funcs) /\ DOMAIN funcs' = 1..(Len(funcs) + 1) /\ Len(funcs) \in Nat
        /\ \A i \in 1..Len(funcs) : funcs'[i] = funcs[i]
        /\ funcs'[Len(funcs) + 1] = f
    BY <1>2, AppendFacts
  <2> QED  BY <2>1
<1>3. ASSUME funcs # << >>, funcs' = Tail(funcs)
      PROVE  /\ Head(funcs) = funcs[1] /\ 1 \in DOMAIN funcs
             /\ \A i \in DOMAIN funcs' : i + 1 \in DOMAIN funcs /\ i + 1 # 1 /\ funcs'[i] = funcs[i + 1]
             /\ \A i, j \in DOMAIN funcs' : i # j => i + 1 # j + 1
             /\ \A i \in DOMAIN funcs : i # 1 => \E j \in DOMAIN funcs' : funcs'[j] = funcs[i]
  <2>1. /\ Len(funcs) \in Nat \ {0} /\ DOMAIN funcs = 1..Len(funcs) /\ Head(funcs) = funcs[1]
        /\ DOMAIN funcs' = 1..(Len(funcs) - 1)
        /\ \A i \in 1..(Len(funcs) - 1) : funcs'[i] = funcs[i + 1]
    BY <1>3, TailFacts
  <2>2. \A i \in DOMAIN funcs : i # 1 => i - 1 \in DOMAIN funcs' /\ (i - 1) + 1 = i
    BY <2>1
  <2> QED  BY <2>1, <2>2
<1>4. ASSUME NEW f \in Calls, funcs' = Append(funcs, f)
      PROVE  OneQueued' /\ (SomeQueued' <=> SomeQueued)
  BY <1>1, <1>2, <1>4 DEF OneQueued, SomeQueued, InQueue
<1>5. ASSUME ~SomeQueued, funcs' = Append(funcs, Activate)
      PROVE  OneQueued' /\ SomeQueued'
  BY <1>2, <1>5 DEF OneQueued, SomeQueued, InQueue
<1>6. ASSUME funcs # << >>, Head(funcs) # Activate, funcs' = Tail(funcs)
      PROVE  OneQueued' /\ (SomeQueued' <=> SomeQueued)
  <2>1. OneQueued'
    BY <1>3, <1>6 DEF OneQueued, InQueue
  <2>2. SomeQueued' => SomeQueued
    BY <1>3, <1>6 DEF SomeQueued, InQueue
  <2>3. ASSUME NEW i \in DOMAIN funcs, InQueue(i)
        PROVE  SomeQueued'
    <3>1. i # 1
      BY <1>3, <1>6, <2>3 DEF InQueue
    <3>2. PICK j \in DOMAIN funcs' : funcs'[j] = funcs[i]
      BY <1>3, <1>6, <3>1
    <3> QED  BY <2>3, <3>2 DEF SomeQueued, InQueue
  <2> QED  BY <2>1, <2>2, <2>3 DEF SomeQueued
<1>7. ASSUME funcs # << >>, Head(funcs) = Activate, funcs' = Tail(funcs)
      PROVE  OneQueued' /\ SomeQueued /\ ~SomeQueued'
  BY <1>3, <1>7 DEF OneQueued, SomeQueued, InQueue
<1> QED  BY <1>4, <1>5, <1>6, <1>7

\* and the one that a function on the stack owes.
LEMMA OwedMoves ==
  ASSUME stack \in Seq(Frames), OneOwed
  PROVE  /\ \A f \in Funcs : Call(f, FALSE) => OneOwed' /\ (SomeOwed' <=> SomeOwed)
         /\ \A f \in Funcs : ~SomeOwed /\ Call(f, TRUE) => OneOwed' /\ SomeOwed'
         /\ stack # << >> /\ ~Last(stack).owes /\ stack' = Front(stack) =>
              OneOwed' /\ (SomeOwed' <=> SomeOwed)
         /\ stack # << >> /\ Last(stack).owes /\ stack' = Front(stack) =>
              OneOwed' /\ SomeOwed /\ ~SomeOwed'
<1>1. ASSUME NEW f \in Funcs, NEW o \in BOOLEAN, Call(f, o)
      PROVE  /\ \A i \in DOMAIN stack : i \in DOMAIN stack' /\ stack'[i].owes = stack[i].owes
             /\ \E k \in DOMAIN stack' :
                  /\ k \notin DOMAIN stack /\ stack'[k].owes = o
                  /\ \A i \in DOMAIN stack' : i = k \/ i \in DOMAIN stack
  <2> DEFINE e == [fn |-> f, owes |-> o]
  <2>1. e \in Frames /\ e.owes = o /\ stack' = Append(stack, e)
    BY <1>1 DEF Frames, Call
  <2> HIDE DEF e
  <2>2. /\ DOMAIN stack = 1..Len(stack) /\ DOMAIN stack' = 1..(Len(stack) + 1) /\ Len(stack) \in Nat
        /\ \A i \in 1..Len(stack) : stack'[i] = stack[i]
        /\ stack'[Len(stack) + 1] = e
    BY <2>1, AppendFacts
  <2> QED  BY <2>1, <2>2
<1>2. ASSUME stack # << >>, stack' = Front(stack)
      PROVE  \E k \in DOMAIN stack :
               /\ Last(stack) = stack[k] /\ k \notin DOMAIN stack'
               /\ \A i \in DOMAIN stack' : i \in DOMAIN stack /\ stack'[i] = stack[i]
               /\ \A i \in DOMAIN stack : i = k \/ i \in DOMAIN stack'
  <2>1. /\ Len(stack) \in Nat \ {0} /\ DOMAIN stack = 1..Len(stack) /\ Last(stack) = stack[Len(stack)]
        /\ DOMAIN stack' = 1..(Len(stack) - 1)
        /\ \A i \in 1..(Len(stack) - 1) : stack'[i] = stack[i]
    BY <1>2, FrontFacts
  <2> QED  BY <2>1
<1>3. ASSUME NEW f \in Funcs, Call(f, FALSE)
      PROVE  OneOwed' /\ (SomeOwed' <=> SomeOwed)
  BY <1>1, <1>3 DEF OneOwed, SomeOwed, Owed
<1>4. ASSUME NEW f \in Funcs, ~SomeOwed, Call(f, TRUE)
      PROVE  OneOwed' /\ SomeOwed'
  BY <1>1, <1>4 DEF OneOwed, SomeOwed, Owed
<1>5. ASSUME stack # << >>, ~Last(stack).owes, stack' = Front(stack)
      PROVE  OneOwed' /\ (SomeOwed' <=> SomeOwed)
  BY <1>2, <1>5 DEF OneOwed, SomeOwed, Owed
<1>6. ASSUME stack # << >>, Last(stack).owes, stack' = Front(stack)
      PROVE  OneOwed' /\ SomeOwed /\ ~SomeOwed'
  BY <1>2, <1>6 DEF OneOwed, SomeOwed, Owed
<1> QED  BY <1>3, <1>4, <1>5, <1>6

\* While m_bActivateTimerScheduled is set there is one activation, and only then.
LEMMA ActivatedStep ==
  ASSUME TypeOK, MessagePerCall, Activated, Next
  PROVE  Activated'
<1>0. /\ pc \in [Threads -> Labels] /\ Main \in Threads /\ scheduled \in BOOLEAN
      /\ funcs \in Seq(Calls \cup {Activate}) /\ timeouts \in Seq(Waits) /\ stack \in Seq(Frames)
      /\ OnePromised /\ OneQueued /\ OneOwed /\ Apart /\ (scheduled <=> OnItsWay)
  BY DEF TypeOK, QueuesOK, FlagsOK, Threads, Activated
<1>1. ASSUME funcs' = funcs
      PROVE  OneQueued' /\ (SomeQueued' <=> SomeQueued)
  BY <1>0, <1>1 DEF OneQueued, SomeQueued, InQueue
<1>2. ASSUME stack' = stack
      PROVE  OneOwed' /\ (SomeOwed' <=> SomeOwed)
  BY <1>0, <1>2 DEF OneOwed, SomeOwed, Owed
<1>3. ASSUME pc' = pc
      PROVE  OnePromised' /\ (SomePromised' <=> SomePromised) /\ (Begun' <=> Begun)
  BY <1>0, <1>3 DEF OnePromised, SomePromised, Promised, Begun, At
<1>4. ASSUME NEW t \in Threads, NEW l \in Labels \ {"activate", "activateTimer"}, Goto(t, l),
             ~At(t, "activate"), ~At(t, "activateTimer")
      PROVE  OnePromised' /\ (SomePromised' <=> SomePromised) /\ (Begun' <=> Begun)
  BY <1>0, <1>4, PromisedMoves DEF Begun, Goto, At
<1>5. ASSUME NEW t \in Threads, Goto(t, "activate"), ~At(t, "activate"), ~At(t, "activateTimer"),
             ~SomePromised
      PROVE  OnePromised' /\ SomePromised' /\ (Begun' <=> Begun)
  BY <1>0, <1>5, PromisedMoves DEF Begun, Goto, At, Labels
\* Nothing changes but the places that are no places of an activation.
<1>6. ASSUME scheduled' = scheduled, OnePromised', OneQueued', OneOwed',
             SomePromised' <=> SomePromised, SomeQueued' <=> SomeQueued,
             SomeOwed' <=> SomeOwed, Begun' <=> Begun
      PROVE  Activated'
  BY <1>0, <1>6 DEF Activated, OnItsWay, Apart
<1>7. ASSUME NEW t \in Threads, Asks(t)
      PROVE  Activated'
  <2>1. ASSUME NEW f \in Calls, Request(t, f)
        PROVE  Activated'
    <3>1. Goto(t, "post") /\ At(t, "idle") /\ funcs' = Append(funcs, f) /\ UNCHANGED <<scheduled, stack>>
      BY <2>1 DEF Request, RunAsync
    <3> QED  BY <1>0, <1>2, <1>4, <1>6, <3>1, QueuedMoves DEF At, Labels
  <2>2. ASSUME NEW f \in Timed, NEW d \in Timeouts, RunAsyncTimeout(t, f, d)
        PROVE  Activated'
    <3>1. /\ At(t, "idle") /\ UNCHANGED <<funcs, stack>>
          /\ \/ scheduled' = scheduled /\ Goto(t, "idle")
             \/ ~scheduled /\ scheduled' = TRUE /\ Goto(t, "activate")
      BY <1>0, <2>2 DEF RunAsyncTimeout
    <3>2. CASE scheduled' = scheduled /\ Goto(t, "idle")
      BY <1>0, <1>1, <1>2, <1>4, <1>6, <3>1, <3>2 DEF At, Labels
    <3>3. CASE ~scheduled /\ scheduled' = TRUE /\ Goto(t, "activate")
      BY <1>0, <1>1, <1>2, <1>5, <3>1, <3>3 DEF At, Activated, OnItsWay, Apart
    <3> QED  BY <3>1, <3>2, <3>3
  <2> QED  BY <1>7, <2>1, <2>2 DEF Asks
<1>8. ASSUME NEW t \in Threads, PostMessage(t)
      PROVE  Activated'
  <2>1. Goto(t, "idle") /\ At(t, "post") /\ UNCHANGED <<funcs, scheduled, stack>>
    BY <1>8 DEF PostMessage
  <2> QED  BY <1>0, <1>1, <1>2, <1>4, <1>6, <2>1 DEF At, Labels
\* From the thread that has promised it to the queue.
<1>9. ASSUME NEW t \in Threads, RequestActivation(t)
      PROVE  Activated'
  <2>1. /\ Goto(t, "post") /\ At(t, "activate") /\ funcs' = Append(funcs, Activate)
        /\ UNCHANGED <<scheduled, stack>>
    BY <1>9 DEF RequestActivation, RunAsync
  <2>2. OnePromised' /\ SomePromised /\ ~SomePromised'
    BY <1>0, <2>1, PromisedMoves DEF Goto, At, Labels
  <2>3. Begun' <=> Begun
    BY <1>0, <2>1 DEF Goto, At, Begun
  <2>4. ~SomeQueued /\ ~SomeOwed /\ ~Begun
    BY <1>0, <2>2 DEF Apart
  <2>5. OneQueued' /\ SomeQueued'
    BY <1>0, <2>1, <2>4, QueuedMoves
  <2> QED  BY <1>0, <1>2, <2>1, <2>2, <2>3, <2>4, <2>5 DEF Activated, OnItsWay, Apart
\* From the queue to ActivateTimer.
<1>10. CASE OnRunAsyncCall
  <2>1. /\ funcs # << >> /\ funcs' = Tail(funcs) /\ At(Main, "idle") /\ scheduled' = scheduled
        /\ IF Head(funcs) = Activate THEN Goto(Main, "activateTimer") /\ stack' = stack
                                     ELSE Call(Head(funcs), FALSE) /\ pc' = pc
    BY <1>10, MessageHasCall DEF OnRunAsyncCall, InLoop
  <2>2. CASE Head(funcs) = Activate
    <3>1. OneQueued' /\ SomeQueued /\ ~SomeQueued'
      BY <1>0, <2>1, <2>2, QueuedMoves
    <3>2. OnePromised' /\ (SomePromised' <=> SomePromised) /\ Begun'
      BY <1>0, <2>1, <2>2, PromisedMoves DEF Begun, Goto, At, Labels
    <3> QED  BY <1>0, <1>2, <2>1, <2>2, <3>1, <3>2 DEF Activated, OnItsWay, Apart
  <2>3. CASE Head(funcs) # Activate
    <3>1. Head(funcs) \in Funcs
      BY <1>0, <2>1, <2>3, TailFacts DEF Funcs
    <3>2. OneQueued' /\ (SomeQueued' <=> SomeQueued)
      BY <1>0, <2>1, <2>3, QueuedMoves
    <3>3. OneOwed' /\ (SomeOwed' <=> SomeOwed)
      BY <1>0, <2>1, <2>3, <3>1, OwedMoves
    <3> QED  BY <1>3, <1>6, <2>1, <2>3, <3>2, <3>3
  <2> QED  BY <2>2, <2>3
\* ActivateTimer is over.
<1>11. CASE ActivateTimer
  <2>1. /\ At(Main, "activateTimer") /\ scheduled' = FALSE /\ UNCHANGED <<funcs, stack>>
        /\ \E l \in {"idle", "timeoutCall", "setTimer"} : Goto(Main, l)
    BY <1>11 DEF ActivateTimer
  <2>2. OnePromised' /\ (SomePromised' <=> SomePromised) /\ ~Begun'
    BY <1>0, <2>1, PromisedMoves DEF Begun, Goto, At, Labels
  <2>3. Begun
    BY <2>1 DEF Begun
  <2> QED  BY <1>0, <1>1, <1>2, <2>1, <2>2, <2>3 DEF Activated, OnItsWay, Apart
<1>12. CASE SetTimer \/ OnTimer
  <2>1. /\ \/ At(Main, "setTimer") /\ Goto(Main, "idle")
           \/ At(Main, "idle") /\ Goto(Main, "timeoutCall")
        /\ UNCHANGED <<funcs, scheduled, stack>>
    BY <1>12 DEF SetTimer, OnTimer, InLoop
  <2> QED  BY <1>0, <1>1, <1>2, <1>4, <1>6, <2>1 DEF At, Labels
\* The next function in the queue needs the timer.
<1>13. CASE OnRunAsyncTimeoutCall
  <2> DEFINE owes == ~scheduled /\ timeouts' # << >>
  <2>1. /\ At(Main, "timeoutCall") /\ funcs' = funcs /\ scheduled' = (scheduled \/ owes)
        /\ \/ /\ timeouts # << >> /\ Call(Head(timeouts).fn, owes)
              /\ Goto(Main, "idle")
           \/ stack' = stack /\ Goto(Main, IF owes THEN "activate" ELSE "idle")
    BY <1>13 DEF OnRunAsyncTimeoutCall
  <2>2. owes \in BOOLEAN
    BY <1>0
  <2> HIDE DEF owes
  <2>3. owes => ~OnItsWay
    BY <1>0 DEF owes
  <2>4. CASE timeouts # << >> /\ Call(Head(timeouts).fn, owes) /\ Goto(Main, "idle")
    <3>1. Head(timeouts).fn \in Funcs
      <4>1. Head(timeouts) \in Waits
        BY <1>0, <2>4, TailFacts
      <4> QED  BY <4>1 DEF Waits, Funcs
    <3>2. OnePromised' /\ (SomePromised' <=> SomePromised) /\ (Begun' <=> Begun)
      BY <1>0, <1>4, <2>1, <2>4 DEF At, Labels
    <3>3. CASE owes
      <4>1. OneOwed' /\ SomeOwed'
        BY <1>0, <2>3, <2>4, <3>1, <3>3, OwedMoves DEF OnItsWay
      <4> QED  BY <1>0, <1>1, <2>1, <2>3, <3>2, <3>3, <4>1 DEF Activated, OnItsWay, Apart
    <3>4. CASE ~owes
      <4>1. OneOwed' /\ (SomeOwed' <=> SomeOwed)
        <5>1. owes = FALSE
          BY <2>2, <3>4
        <5> QED  BY <1>0, <2>4, <3>1, <5>1, OwedMoves
      <4> QED  BY <1>0, <1>1, <1>6, <2>1, <3>2, <3>4, <4>1
    <3> QED  BY <3>3, <3>4
  <2>5. CASE stack' = stack /\ Goto(Main, IF owes THEN "activate" ELSE "idle")
    <3>1. CASE owes
      <4>1. OnePromised' /\ SomePromised' /\ (Begun' <=> Begun)
        BY <1>0, <1>5, <2>1, <2>3, <2>5, <3>1 DEF At, OnItsWay
      <4> QED  BY <1>0, <1>1, <1>2, <2>1, <2>3, <2>5, <3>1, <4>1 DEF Activated, OnItsWay, Apart
    <3>2. CASE ~owes
      <4>1. OnePromised' /\ (SomePromised' <=> SomePromised) /\ (Begun' <=> Begun)
        BY <1>0, <1>4, <2>1, <2>5, <3>2 DEF At, Labels
      <4> QED  BY <1>0, <1>1, <1>2, <1>6, <2>1, <2>5, <3>2, <4>1
    <3> QED  BY <3>1, <3>2
  <2> QED  BY <2>1, <2>4, <2>5
\* The function that delayed it is over.
<1>14. CASE Return
  <2>1. /\ At(Main, "idle") /\ stack # << >> /\ stack' = Front(stack) /\ UNCHANGED <<funcs, scheduled>>
        /\ Goto(Main, IF Last(stack).owes THEN "activate" ELSE "idle")
    BY <1>14 DEF Return
  <2>2. CASE Last(stack).owes
    <3>1. OneOwed' /\ SomeOwed /\ ~SomeOwed'
      BY <1>0, <2>1, <2>2, OwedMoves
    <3>2. OnePromised' /\ SomePromised' /\ (Begun' <=> Begun)
      BY <1>0, <1>5, <2>1, <2>2, <3>1 DEF At, Apart
    <3> QED  BY <1>0, <1>1, <2>1, <3>1, <3>2 DEF Activated, OnItsWay, Apart
  <2>3. CASE ~Last(stack).owes
    <3>1. OneOwed' /\ (SomeOwed' <=> SomeOwed)
      BY <1>0, <2>1, <2>3, OwedMoves
    <3>2. OnePromised' /\ (SomePromised' <=> SomePromised) /\ (Begun' <=> Begun)
      BY <1>0, <1>4, <2>1, <2>3 DEF At, Labels
    <3> QED  BY <1>0, <1>1, <1>6, <2>1, <3>1, <3>2
  <2> QED  BY <2>2, <2>3
<1>15. CASE Tick \/ TimerFires
  BY <1>0, <1>1, <1>2, <1>3, <1>6, <1>15 DEF Tick, TimerFires
<1> QED
  BY <1>7, <1>8, <1>9, <1>10, <1>11, <1>12, <1>13, <1>14, <1>15 DEF Next, Follows, Dispatch, MainStep

-----------------------------------------------------------------------------
\* When it is not set, the timer covers the head of the timed queue.
LEMMA CoveredStep ==
  ASSUME TypeOK, MessagePerCall, Activated, Covered, Next
  PROVE  Covered'
<1>0. /\ pc \in [Threads -> Labels] /\ Main \in Threads /\ scheduled \in BOOLEAN
      /\ timer \in Nat \cup {Off} /\ wait \in Nat /\ timeouts \in Seq(Waits)
  BY DEF TypeOK, QueuesOK, FlagsOK, NumbersOK, Threads
<1>1. \A i \in DOMAIN timeouts : timeouts[i].left \in Nat
  <2>1. \A i \in DOMAIN timeouts : timeouts[i] \in Waits
    BY <1>0
  <2> QED  BY <2>1 DEF Waits
<1>2. ASSUME UNCHANGED <<timeouts, scheduled, wait, timer>>,
             At(Main, "timeoutCall")' <=> At(Main, "timeoutCall"),
             At(Main, "setTimer")' <=> At(Main, "setTimer")
      PROVE  Covered'
  BY <1>2 DEF Covered
<1>3. ASSUME NEW t \in Threads, NEW l \in Labels, Goto(t, l),
             pc[t] \notin {"setTimer", "timeoutCall"}, l \notin {"setTimer", "timeoutCall"}
      PROVE  /\ At(Main, "timeoutCall")' <=> At(Main, "timeoutCall")
             /\ At(Main, "setTimer")' <=> At(Main, "setTimer")
  BY <1>0, <1>3 DEF Goto, At
<1>4. ASSUME NEW t \in Threads, Asks(t)
      PROVE  Covered'
  <2>1. ASSUME NEW f \in Calls, Request(t, f)
        PROVE  Covered'
    <3>1. Goto(t, "post") /\ At(t, "idle") /\ UNCHANGED <<timeouts, scheduled, wait, timer>>
      BY <2>1 DEF Request, RunAsync
    <3> QED  BY <1>2, <1>3, <3>1 DEF At, Labels
  <2>2. ASSUME NEW f \in Timed, NEW d \in Timeouts, RunAsyncTimeout(t, f, d)
        PROVE  Covered'
    <3> DEFINE e == [fn |-> f, left |-> d]
    <3>1. e \in Waits
      BY QueueAssumption DEF Waits
    <3> HIDE DEF e
    <3>2. PICK k \in 1..(Len(timeouts) + 1) :
            /\ timeouts' = InsertAt(timeouts, k, e)
            /\ \A i \in 1..(k - 1) : timeouts[i].left <= d
            /\ \A i \in k..Len(timeouts) : timeouts[i].left >= d
      BY <2>2 DEF RunAsyncTimeout, Place, e
    <3> DEFINE sooner == timeouts = << >> \/ d < Head(timeouts).left
    <3>3. /\ scheduled' = (scheduled \/ (~scheduled /\ sooner))
          /\ Goto(t, IF ~scheduled /\ sooner THEN "activate" ELSE "idle")
      BY <2>2 DEF RunAsyncTimeout
    <3> HIDE DEF sooner
    <3>4. At(t, "idle") /\ UNCHANGED <<wait, timer>>
      BY <2>2 DEF RunAsyncTimeout
    <3>5. CASE sooner
      BY <1>0, <3>3, <3>5 DEF Covered
    <3>6. CASE ~sooner
      <4>1. timeouts # << >> /\ timeouts' # << >> /\ Head(timeouts).left <= Head(timeouts').left
        <5>1. /\ Len(timeouts) \in Nat /\ timeouts' \in Seq(Waits)
              /\ DOMAIN timeouts' = 1..(Len(timeouts) + 1)
              /\ \A i \in 1..(Len(timeouts) + 1) :
                   timeouts'[i] = IF i < k THEN timeouts[i] ELSE IF i = k THEN e ELSE timeouts[i - 1]
          <6>1. timeouts' = InsertAt(timeouts, k, e)
            BY <3>2
          <6>2. timeouts \in Seq(Waits)
            BY <1>0
          <6> DEFINE u == InsertAt(timeouts, k, e)
          <6>3. /\ u \in Seq(Waits) /\ Len(timeouts) \in Nat
                /\ DOMAIN u = 1..(Len(timeouts) + 1)
                /\ \A i \in 1..(Len(timeouts) + 1) :
                     u[i] = IF i < k THEN timeouts[i] ELSE IF i = k THEN e ELSE timeouts[i - 1]
            BY <3>1, <6>2, InsertFacts
          <6> HIDE DEF u
          <6>4. timeouts' = u
            BY <6>1 DEF u
          <6> QED  BY <6>3, <6>4
        <5>2. timeouts # << >> /\ ~(d < Head(timeouts).left)
          BY <3>6 DEF sooner
        <5>3. Len(timeouts) \in Nat \ {0} /\ Head(timeouts) = timeouts[1] /\ timeouts[1].left \in Nat
          BY <1>0, <1>1, <5>2, TailFacts
        <5>4. timeouts' # << >> /\ Head(timeouts') = timeouts'[1]
          BY <5>1, <5>3, TailFacts
        <5>5. timeouts'[1] = e \/ timeouts'[1] = timeouts[1]
          BY <5>1, <5>3
        <5>6. timeouts[1].left <= timeouts'[1].left
          BY <5>2, <5>3, <5>5, QueueAssumption DEF e
        <5> QED  BY <5>2, <5>3, <5>4, <5>6
      <4>2. scheduled' = scheduled /\ Goto(t, "idle")
        BY <1>0, <3>3, <3>6
      <4>3. /\ At(Main, "timeoutCall")' <=> At(Main, "timeoutCall")
            /\ At(Main, "setTimer")' <=> At(Main, "setTimer")
        BY <1>3, <3>4, <4>2 DEF At, Labels
      <4>4. \A x \in Nat \cup {Off} : x <= Head(timeouts).left => x <= Head(timeouts').left
        <5>1. timeouts' \in Seq(Waits) /\ Head(timeouts).left \in Nat
          BY <1>0, <1>1, <3>1, <3>2, <4>1, InsertFacts, TailFacts
        <5>2. Head(timeouts') \in Waits
          BY <4>1, <5>1
        <5>3. Head(timeouts').left \in Nat
          BY <5>2 DEF Waits
        <5> QED  BY <4>1, <5>1, <5>3 DEF Off
      <4> QED  BY <1>0, <3>4, <4>1, <4>2, <4>3, <4>4 DEF Covered
    <3> QED  BY <3>5, <3>6
  <2> QED  BY <1>4, <2>1, <2>2 DEF Asks
<1>5. ASSUME NEW t \in Threads, Follows(t)
      PROVE  Covered'
  <2>1. /\ UNCHANGED <<timeouts, scheduled, wait, timer>>
        /\ \/ At(t, "post") /\ Goto(t, "idle")
           \/ At(t, "activate") /\ Goto(t, "post")
    BY <1>5 DEF Follows, PostMessage, RequestActivation, RunAsync
  <2> QED  BY <1>2, <1>3, <2>1 DEF At, Labels
\* The timer is killed while an activation is on its way.
<1>6. CASE OnRunAsyncCall
  <2>1. /\ funcs # << >> /\ At(Main, "idle") /\ UNCHANGED <<timeouts, scheduled, wait>>
        /\ IF Head(funcs) = Activate THEN timer' = Off ELSE timer' = timer /\ pc' = pc
    BY <1>6, MessageHasCall DEF OnRunAsyncCall, InLoop
  <2>2. CASE Head(funcs) = Activate
    <3>1. SomeQueued
      <4>1. funcs \in Seq(Calls \cup {Activate})
        BY DEF TypeOK, QueuesOK
      <4> QED  BY <2>1, <2>2, <4>1, TailFacts DEF SomeQueued, InQueue
    <3> QED  BY <2>1, <3>1 DEF Activated, OnItsWay, Covered
  <2>3. CASE Head(funcs) # Activate
    BY <1>2, <2>1, <2>3 DEF At
  <2> QED  BY <2>2, <2>3
<1>7. CASE ActivateTimer
  <2>1. CASE timeouts = << >>
    BY <1>7, <2>1 DEF ActivateTimer, Covered
  <2>2. CASE timeouts # << >>
    <3>1. /\ wait' = Head(timeouts).left /\ timeouts' = timeouts
          /\ Goto(Main, "timeoutCall") \/ Goto(Main, "setTimer")
      BY <1>7, <2>2 DEF ActivateTimer
    <3>2. Head(timeouts).left \in Nat
      BY <1>0, <1>1, <2>2, TailFacts
    <3> QED  BY <1>0, <3>1, <3>2 DEF Covered, Goto, At
  <2> QED  BY <2>1, <2>2
<1>8. CASE SetTimer
  BY <1>0, <1>8 DEF SetTimer, Covered, Goto, At, Off
<1>9. CASE OnTimer
  BY <1>0, <1>9 DEF OnTimer, Covered, Goto, At
<1>10. CASE OnRunAsyncTimeoutCall
  <2>1. scheduled' = (scheduled \/ (~scheduled /\ timeouts' # << >>))
    BY <1>10 DEF OnRunAsyncTimeoutCall
  <2> QED  BY <1>0, <2>1 DEF Covered
<1>11. CASE Return
  <2>1. /\ UNCHANGED <<timeouts, scheduled, wait, timer>> /\ At(Main, "idle")
        /\ Goto(Main, "activate") \/ Goto(Main, "idle")
    BY <1>11 DEF Return
  <2> QED  BY <1>0, <1>2, <1>3, <2>1 DEF At, Labels
\* The waits and the timer run down together.
<1>12. CASE Tick
  <2>1. /\ DOMAIN timeouts' = DOMAIN timeouts /\ UNCHANGED <<scheduled, wait, pc>>
        /\ ~At(Main, "setTimer")
        /\ timer' = IF timer \in {0, Off} THEN timer ELSE timer - 1
        /\ timeouts' = [i \in DOMAIN timeouts |->
                          [timeouts[i] EXCEPT !.left = IF @ = 0 THEN 0 ELSE @ - 1]]
    BY <1>12 DEF Tick
  <2>2. CASE timeouts = << >>
    <3>1. timeouts' = << >>
      BY <2>1, <2>2
    <3> QED  BY <3>1 DEF Covered
  <2>3. CASE timeouts # << >>
    <3>1. 1 \in DOMAIN timeouts /\ Head(timeouts) = timeouts[1] /\ timeouts[1] \in Waits
      BY <1>0, <2>3, TailFacts
    <3>2. timeouts'[1].left = IF timeouts[1].left = 0 THEN 0 ELSE timeouts[1].left - 1
      BY <2>1, <3>1 DEF Waits
    <3>3. Head(timeouts') = timeouts'[1]
      <4>1. timeouts' \in Seq(Waits)
        BY TypeStep DEF TypeOK, QueuesOK
      <4>2. timeouts' # << >>
        BY <1>0, <2>1, <3>1
      <4> QED  BY <4>1, <4>2, TailFacts
    <3>4. timeouts[1].left \in Nat
      BY <1>1, <3>1
    <3>5. CASE scheduled \/ At(Main, "timeoutCall")
      BY <2>1, <3>5 DEF Covered, At
    <3>6. CASE timer # Off /\ timer <= Head(timeouts).left
      <4>1. timer' # Off /\ timer' <= Head(timeouts').left
        BY <1>0, <2>1, <3>1, <3>2, <3>3, <3>4, <3>6 DEF Off
      <4>2. ~At(Main, "setTimer")'
        BY <2>1 DEF At
      <4> QED  BY <4>1, <4>2 DEF Covered
    <3> QED  BY <2>1, <2>3, <3>5, <3>6 DEF Covered
  <2> QED  BY <2>2, <2>3
<1>13. CASE TimerFires
  BY <1>2, <1>13 DEF TimerFires, At
<1> QED
  BY <1>4, <1>5, <1>6, <1>7, <1>8, <1>9, <1>10, <1>11, <1>12, <1>13 DEF Next, Dispatch, MainStep

-----------------------------------------------------------------------------
\* The inductive invariant.
THEOREM Inductive == Spec => []IInv
<1>1. IInv /\ [Next]_queueVars => IInv'
  <2> SUFFICES ASSUME IInv, [Next]_queueVars PROVE IInv'
    OBVIOUS
  <2>1. CASE Next
    BY <2>1, TypeStep, MessagesStep, OnceStep, ActivatedStep, CoveredStep DEF IInv
  <2>2. CASE UNCHANGED queueVars
    <3>1. TypeOK'
      BY <2>2 DEF queueVars, IInv, TypeOK, QueuesOK, FlagsOK, NumbersOK
    <3>2. MessagePerCall' /\ Once' /\ Covered'
      BY <2>2 DEF queueVars, IInv, MessagePerCall, Once, Covered, At
    <3>3. Activated'
      BY <2>2
      DEF queueVars, IInv, Activated, OnItsWay, SomePromised, SomeQueued, SomeOwed, OnePromised,
          OneQueued, OneOwed, Apart, Promised, InQueue, Owed, Begun, At
    <3> QED  BY <3>1, <3>2, <3>3 DEF IInv
  <2> QED  BY <2>1, <2>2
<1> QED  BY <1>1, InitIInv, PTL DEF Spec

(* However many threads queue functions and whatever dialogs are open, every
   queued function has a message of its own, so that none is forgotten and no
   message finds the queue empty. *)
THEOREM NoneForgotten == Spec => []MessagePerCall
<1>1. IInv => MessagePerCall
  BY DEF IInv
<1> QED  BY <1>1, Inductive, PTL

(* No message runs a function again that has opened a dialog, nor one that is
   still queued. *)
THEOREM RunOnce == Spec => []NoneRunTwice
<1>1. IInv => NoneRunTwice
  BY DEF IInv, Once, NoneRunTwice, Running, Queued, Waiting
<1> QED  BY <1>1, Inductive, PTL

\* The activations of TimerCoversHead are those of the invariant.
LEMMA OneActivation ==
  ASSUME Activated
  PROVE  /\ \A x, y \in Activations : x = y
         /\ scheduled <=> Activations # {}
<1>1. /\ OnePromised /\ OneQueued /\ OneOwed /\ Apart /\ (scheduled <=> OnItsWay)
  BY DEF Activated
<1>2. OnItsWay <=> Activations # {}
  <2>1. \A t \in Threads : Promised(t) => <<"promised", t>> \in Activations
    BY DEF Activations, Promised
  <2>2. \A i \in DOMAIN funcs : InQueue(i) => <<"queued", i>> \in Activations
    BY DEF Activations, InQueue
  <2>3. \A i \in DOMAIN stack : Owed(i) => <<"owed", i>> \in Activations
    BY DEF Activations, Owed
  <2>4. Begun => <<"begun", Main>> \in Activations
    BY DEF Activations, Begun
  <2>5. Activations # {} => OnItsWay
    BY DEF Activations, OnItsWay, SomePromised, SomeQueued, SomeOwed, Promised, InQueue, Owed, Begun
  <2> QED  BY <2>1, <2>2, <2>3, <2>4, <2>5 DEF OnItsWay, SomePromised, SomeQueued, SomeOwed
<1>3. ASSUME NEW x \in Activations
      PROVE  \/ SomePromised /\ \E t \in Threads : Promised(t) /\ x = <<"promised", t>>
             \/ SomeQueued /\ \E i \in DOMAIN funcs : InQueue(i) /\ x = <<"queued", i>>
             \/ SomeOwed /\ \E i \in DOMAIN stack : Owed(i) /\ x = <<"owed", i>>
             \/ Begun /\ x = <<"begun", Main>>
  BY <1>3 DEF Activations, SomePromised, SomeQueued, SomeOwed, Promised, InQueue, Owed, Begun
<1>4. ASSUME NEW x \in Activations, NEW y \in Activations
      PROVE  x = y
  BY <1>1, <1>3 DEF Apart, OnePromised, OneQueued, OneOwed
<1> QED  BY <1>1, <1>2, <1>4

(* m_bActivateTimerScheduled says so just when one activation of the timer is on
   its way, and the timer is never later than the first function it is for. *)
THEOREM TimerInTime == Spec => []TimerCoversHead
<1>1. ASSUME IInv
      PROVE  TimerCoversHead
  <2>1. /\ \A x, y \in Activations : x = y
        /\ scheduled <=> Activations # {}
    BY <1>1, OneActivation DEF IInv
  <2>2. \/ timeouts = << >>
        \/ scheduled
        \/ pc[Main] \in {"setTimer", "timeoutCall"}
        \/ timer # Off /\ timer <= Head(timeouts).left
    BY <1>1 DEF IInv, Covered, At
  <2> QED  BY <2>1, <2>2 DEF TimerCoversHead
<1> QED  BY <1>1, Inductive, PTL
=============================================================================
