------------------------------ MODULE RWMutex -------------------------------
(***************************************************************************)
(* plugin/Utils/RAIILock.cpp: class ReaderWriterMutex in the configuration *)
(* that is built (NT6_CONDITION is defined nowhere), that is with the      *)
(* hand-written class Monitor as its condition variable.                   *)
(*                                                                         *)
(* A writer keeps the critical section for as long as it writes; a reader  *)
(* holds it only while it changes m_nReaderCount.  A writer that meets     *)
(* readers queues an event in the monitor, leaves the critical section     *)
(* and, in a SEPARATE step, waits for that event.                          *)
(*                                                                         *)
(* One step is one stretch of code between two points where another thread *)
(* may run: entering the critical section, leaving it, waiting.  A thread  *)
(* holds at most one ReaderLock or WriterLock at a time, as every user in  *)
(* the plugin does, so the recursion of CRITICAL_SECTION is never used.    *)
(***************************************************************************)
EXTENDS Naturals, Sequences, FiniteSets

CONSTANTS Lockers, \* the threads that take the lock
          NoThread

ASSUME LockersAssumption == IsFiniteSet(Lockers) /\ NoThread \notin Lockers

VARIABLES
  cs,          \* owner of *m_pcs, or NoThread
  readerCount, \* m_nReaderCount
  waitSet,     \* m_deqWaitSet: a wait event is named by the thread that made it
  signalled,   \* threads whose wait event has been set
  stage,       \* where each thread is
  accepting    \* environment: are new lock requests still being made?

vars == <<cs, readerCount, waitSet, signalled, stage, accepting>>

Enter(t) == cs = NoThread /\ cs' = t
Leave    == cs' = NoThread
Reach(t, l) == stage' = [stage EXCEPT ![t] = l]

\* Where a thread owns the critical section, and where it is a reader.
Inside  == {"lockReader", "unlockReader", "lockWriter", "writing"}
Holding == {"reading", "leaving", "unlockReader"}
Stages  == Inside \cup Holding \cup {"idle", "enterReader", "enterWriter",
                                     "wait", "reenter"}
Waiters == {waitSet[i] : i \in 1..Len(waitSet)}

MutexInit == /\ cs = NoThread
             /\ readerCount = 0
             /\ waitSet = << >>
             /\ signalled = {}
             /\ stage = [t \in Lockers |-> "idle"]
             /\ accepting = TRUE
-----------------------------------------------------------------------------
\* A thread constructs a ReaderLock or a WriterLock.
CallReader(t) == /\ stage[t] = "idle" /\ accepting
                 /\ Reach(t, "enterReader")
                 /\ UNCHANGED <<cs, readerCount, waitSet, signalled, accepting>>

CallWriter(t) == /\ stage[t] = "idle" /\ accepting
                 /\ Reach(t, "enterWriter")
                 /\ UNCHANGED <<cs, readerCount, waitSet, signalled, accepting>>

\* Mutant: a reader counts itself without entering the critical section.
EnterReaderUnlocked(t) == /\ stage[t] = "enterReader"
                          /\ Reach(t, "lockReader")
                          /\ UNCHANGED <<cs, readerCount, waitSet, signalled, accepting>>

EnterReader(t) == /\ stage[t] = "enterReader"
                  /\ Enter(t)
                  /\ Reach(t, "lockReader")
                  /\ UNCHANGED <<readerCount, waitSet, signalled, accepting>>

LockReader(t) == /\ stage[t] = "lockReader"
                 /\ readerCount' = readerCount + 1
                 /\ Leave
                 /\ Reach(t, "reading")
                 /\ UNCHANGED <<waitSet, signalled, accepting>>

DoneReading(t) == /\ stage[t] = "reading"
                  /\ Reach(t, "leaving")
                  /\ UNCHANGED <<cs, readerCount, waitSet, signalled, accepting>>

EnterUnlockReader(t) == /\ stage[t] = "leaving"
                        /\ Enter(t)
                        /\ Reach(t, "unlockReader")
                        /\ UNCHANGED <<readerCount, waitSet, signalled, accepting>>

\* Mutants: Monitor::notify in its place; nobody notified at all.
NotifyOne == IF waitSet = << >>
               THEN UNCHANGED <<waitSet, signalled>>
               ELSE /\ signalled' = signalled \cup {Head(waitSet)}
                    /\ waitSet' = Tail(waitSet)
NotifyNone == UNCHANGED <<waitSet, signalled>>

\* Monitor::notifyAll: every queued event is set and the queue is emptied.
NotifyAll == /\ signalled' = signalled \cup Waiters
             /\ waitSet' = << >>

UnlockReader(t) == /\ stage[t] = "unlockReader"
                   /\ readerCount' = readerCount - 1
                   /\ IF readerCount - 1 = 0 THEN NotifyAll
                                             ELSE UNCHANGED <<waitSet, signalled>>
                   /\ Leave
                   /\ Reach(t, "idle")
                   /\ UNCHANGED accepting

EnterWriter(t) == /\ stage[t] = "enterWriter"
                  /\ Enter(t)
                  /\ Reach(t, "lockWriter")
                  /\ UNCHANGED <<readerCount, waitSet, signalled, accepting>>

\* The test of lockWriter's loop finds no reader: the lock is held.
LockWriter(t) == /\ stage[t] = "lockWriter"
                 /\ readerCount = 0
                 /\ Reach(t, "writing")
                 /\ UNCHANGED <<cs, readerCount, waitSet, signalled, accepting>>

\* It finds readers: Monitor::wait pushes a new event, then leaves.
WaitPush(t) == /\ stage[t] = "lockWriter"
               /\ readerCount # 0
               /\ waitSet' = Append(waitSet, t)
               /\ Leave
               /\ Reach(t, "wait")
               /\ UNCHANGED <<readerCount, signalled, accepting>>

\* WaitForSingleObjectEx returns; the event resets itself.
WaitReturn(t) == /\ stage[t] = "wait"
                 /\ t \in signalled
                 /\ signalled' = signalled \ {t}
                 /\ Reach(t, "reenter")
                 /\ UNCHANGED <<cs, readerCount, waitSet, accepting>>

\* Mutant: lockWriter tests once (if) instead of until it finds no reader.
WaitReenterIf(t) == /\ stage[t] = "reenter"
                    /\ Enter(t)
                    /\ Reach(t, "writing")
                    /\ UNCHANGED <<readerCount, waitSet, signalled, accepting>>

\* Monitor::wait enters again; the loop of lockWriter tests again.
WaitReenter(t) == /\ stage[t] = "reenter"
                  /\ Enter(t)
                  /\ Reach(t, "lockWriter")
                  /\ UNCHANGED <<readerCount, waitSet, signalled, accepting>>

UnlockWriter(t) == /\ stage[t] = "writing"
                   /\ Leave
                   /\ Reach(t, "idle")
                   /\ UNCHANGED <<readerCount, waitSet, signalled, accepting>>

\* Environment: from here on nobody asks for the lock any more.
StopRequests == /\ accepting
                /\ accepting' = FALSE
                /\ UNCHANGED <<cs, readerCount, waitSet, signalled, stage>>

\* All requests have been served: the only state in which the lock may rest.
Served == /\ ~accepting
          /\ \A t \in Lockers : stage[t] = "idle"
          /\ UNCHANGED vars
-----------------------------------------------------------------------------
\* What a thread does of its own accord once it has asked for the lock.
Step(t) == \/ EnterReader(t) \/ LockReader(t) \/ DoneReading(t)
           \/ EnterUnlockReader(t) \/ UnlockReader(t)
           \/ EnterWriter(t) \/ LockWriter(t) \/ WaitPush(t)
           \/ WaitReturn(t) \/ WaitReenter(t) \/ UnlockWriter(t)

MutexNext == \/ \E t \in Lockers : CallReader(t) \/ CallWriter(t) \/ Step(t)
             \/ StopRequests
             \/ Served

MutexSpec == MutexInit /\ [][MutexNext]_vars

\* The operating system keeps running every thread that can run.
MutexFairness == \A t \in Lockers : WF_vars(Step(t))

FairMutexSpec == MutexSpec /\ MutexFairness
-----------------------------------------------------------------------------
MutexTypeOK == /\ cs \in Lockers \cup {NoThread}
               /\ readerCount \in Nat
               /\ waitSet \in Seq(Lockers)
               /\ signalled \subseteq Lockers
               /\ stage \in [Lockers -> Stages]
               /\ accepting \in BOOLEAN

(* A thread that writes excludes every thread that reads and every other
   thread that writes, although a reader holds the critical section only
   while it counts itself in and out: lockReader .. unlockWriter.          *)
Exclusion == \A t, u \in Lockers :
               (stage[t] = "writing" /\ u # t) => stage[u] \notin Holding \cup {"writing"}

(* The wake-up of Monitor::wait is never lost, although it leaves the
   critical section before it waits: a waiting writer is either still in the
   wait set, and then some reader is left to notify it, or is signalled.   *)
NoLostWakeup == \A t \in Lockers : stage[t] = "wait" =>
                   \/ t \in Waiters /\ \E u \in Lockers : stage[u] \in Holding
                   \/ t \in signalled

(* Once no more locks are requested every thread that asked for the lock
   gets it and gives it back: no wake-up is lost, nobody waits for ever.   *)
EveryRequestServed == ~accepting ~> \A t \in Lockers : stage[t] = "idle"

-----------------------------------------------------------------------------
(* The mutex implements the abstract reader/writer lock: a thread is a reader
   from the moment it has counted itself in until it has counted itself out. *)
readersBar == {t \in Lockers : stage[t] \in Holding}
writerBar  == IF \E t \in Lockers : stage[t] = "writing"
                THEN CHOOSE t \in Lockers : stage[t] = "writing" ELSE NoThread

Abs == INSTANCE RWLock WITH Threads <- Lockers, readers <- readersBar, writer <- writerBar

ImplementsRWLock == Abs!LockSpec
=============================================================================
