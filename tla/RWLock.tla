------------------------------- MODULE RWLock -------------------------------
(***************************************************************************)
(* What a reader/writer lock promises its users, without saying how: any   *)
(* number of readers, or one writer and nobody else.  The lock the plugin  *)
(* uses (RWMutex) implements this specification, and the filter engine     *)
(* (AbpEngine)  is specified on top of it.                                 *)
(***************************************************************************)
CONSTANTS Threads, NoThread

ASSUME NoThreadAssumption == NoThread \notin Threads

VARIABLES readers,   \* threads inside a ReaderLock scope
          writer     \* the thread inside a WriterLock scope, or NoThread

lockVars == <<readers, writer>>

LockTypeOK == /\ readers \subseteq Threads
              /\ writer \in Threads \cup {NoThread}

LockInit == readers = {} /\ writer = NoThread

AcquireRead(t) == /\ writer = NoThread
                  /\ t \notin readers
                  /\ readers' = readers \cup {t}
                  /\ UNCHANGED writer

ReleaseRead(t) == /\ t \in readers
                  /\ readers' = readers \ {t}
                  /\ UNCHANGED writer

AcquireWrite(t) == /\ writer = NoThread
                   /\ readers = {}
                   /\ writer' = t
                   /\ UNCHANGED readers

ReleaseWrite(t) == /\ writer = t
                   /\ writer' = NoThread
                   /\ UNCHANGED readers

LockNext == \E t \in Threads : \/ AcquireRead(t) \/ ReleaseRead(t)
                               \/ AcquireWrite(t) \/ ReleaseWrite(t)

LockSpec == LockInit /\ [][LockNext]_lockVars

(* A writer is alone: it shares the lock with no reader. *)
WriterAlone == writer # NoThread => readers = {}
=============================================================================
