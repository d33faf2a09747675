------------------------------ MODULE RuleFiles ------------------------------
(***************************************************************************)
(* The rules on disk: patterns.ini with its backups, and cache.js, which   *)
(* lets Firefox start without parsing them (RuleStorage.jsm and            *)
(* RuleListener.jsm).                                                      *)
(*                                                                         *)
(* saveToDisk writes a temporary file, removes the oldest backup, renames  *)
(* the others one after another, patterns.ini last of all, and then moves  *)
(* the temporary file into its place.  Firefox may end between any two of  *)
(* these steps, and each of them may fail.                                 *)
(*                                                                         *)
(* What the rules are is a number, which every change increases.           *)
(***************************************************************************)
EXTENDS Integers, FiniteSets, FiniteSetsExt

CONSTANTS Backups,    \* Prefs.patternsbackups
          MaxChanges, \* bounds the changes made to the rules
          MaxSaves    \* bounds the files written, but for one under way

ASSUME FilesAssumption == Backups \in Nat /\ MaxChanges \in Nat /\ MaxSaves \in Nat

Default == 0   \* the rules that come with the extension
NoRules == -1  \* no rules at all
Bad     == -2  \* a file that cannot be read
None    == -3  \* no file
Versions == NoRules..MaxChanges

Whole == 5  \* isDirty is counted in fifths: what a change of a rule's state adds

VARIABLES
  mode,      \* "up", "closing" (shutdown saves the rules) or "down"
  mem,       \* the rules in memory
  matched,   \* the rules the matchers have
  changes,   \* the changes made so far
  dirty,     \* isDirty
  scheduled, \* rulesFlushScheduled
  restored,  \* history: the user has restored from a file what is in memory
  pc,        \* where saveToDisk is
  turn,      \* the backup to be renamed next
  patterns, temp, backup, \* patterns.ini, its temporary file and its backups
  stamp,     \* patterns.ini's time of modification
  saves,     \* the files written so far, the clock of `stamp'
  cache,     \* cache.js: a time of modification and the matchers
  last,      \* history: the rules last saved
  damaged,   \* history: has patterns.ini been damaged since?
  failed     \* history: has a save failed since the last change?

memVars  == <<mem, matched, changes, dirty, scheduled, restored>>
fileVars == <<patterns, temp, backup, stamp, saves, cache>>
pastVars == <<last, damaged, failed>>
filesVars == <<mode, memVars, pc, turn, fileVars, pastVars>>

NoCache == [stamp |-> -1, rules |-> NoRules]

FilesInit == /\ mode = "down" /\ mem = NoRules /\ matched = NoRules
             /\ changes = 0 /\ dirty = 0 /\ scheduled = FALSE /\ restored = FALSE
             /\ pc = "idle" /\ turn = 0
             /\ patterns = None /\ temp = None /\ backup = [i \in 1..Backups |-> None]
             /\ stamp = 0 /\ saves = 0 /\ cache = NoCache
             /\ last = None /\ damaged = FALSE /\ failed = FALSE

\* What loadFromDisk() reads: the default rules when there is no patterns.ini, else
\* the first file that can be read; none, when that file does not exist.
File(i)  == IF i = 0 THEN patterns ELSE backup[i]
Readable == {i \in 0..Backups : File(i) # Bad}

Loads == IF patterns = None THEN Default
         ELSE IF Readable = {} \/ File(Min(Readable)) = None THEN NoRules
         ELSE File(Min(Readable))
-----------------------------------------------------------------------------
\* Mutant: the time in cache.js is not compared.
StartupTrusting ==
  /\ mode = "down"
  /\ mode' = "up"
  /\ mem' = Loads
  /\ matched' = IF patterns # None /\ cache # NoCache THEN cache.rules ELSE Loads
  /\ dirty' = 0 /\ restored' = FALSE
  /\ UNCHANGED <<changes, scheduled, pc, turn, fileVars, pastVars>>

\* startup(): the matchers come from cache.js when it is as old as patterns.ini says.
Startup ==
  /\ mode = "down"
  /\ mode' = "up"
  /\ mem' = Loads
  /\ matched' = IF patterns # None /\ cache.stamp = stamp THEN cache.rules ELSE Loads
  /\ dirty' = 0 /\ restored' = FALSE
  /\ UNCHANGED <<changes, scheduled, pc, turn, fileVars, pastVars>>

Running == mode = "up" /\ pc = "idle"

\* Mutant: what is to be saved is saved when it is more than a whole.
SetDirtyAbove(factor) ==
  LET d == IF factor = 0 /\ dirty > 0 THEN Whole ELSE dirty + factor
  IN /\ dirty' = d
     /\ scheduled' = (scheduled \/ d > Whole)

\* setDirty(): 0 forces what there is to be saved.
SetDirty(factor) ==
  LET d == IF factor = 0 /\ dirty > 0 THEN Whole ELSE dirty + factor
  IN /\ dirty' = d
     /\ scheduled' = (scheduled \/ d >= Whole)

\* A rule is enabled, disabled or moved (1), added or removed (Whole).
Change(factor) == /\ Running
                  /\ changes < MaxChanges /\ saves < MaxSaves
                  /\ changes' = changes + 1
                  /\ mem' = changes + 1 /\ matched' = mem'
                  /\ restored' = FALSE /\ failed' = FALSE
                  /\ SetDirty(factor)
                  /\ UNCHANGED <<mode, pc, turn, fileVars, last, damaged>>

\* The user has the history cleared.
PurgeHistory == /\ Running /\ dirty > 0
                /\ SetDirty(0)
                /\ UNCHANGED <<mode, mem, matched, changes, restored, pc, turn, fileVars, pastVars>>

\* restoreAllData(): loadFromDisk() with a backup, and its "load" notification.
Restore(i) == /\ Running
              /\ backup[i] \in Versions
              /\ mem' = backup[i] /\ matched' = mem'
              /\ dirty' = 0 /\ restored' = TRUE
              /\ UNCHANGED <<mode, changes, scheduled, pc, turn, fileVars, pastVars>>
-----------------------------------------------------------------------------
\* Mutant: the rules are taken for saved when the save begins.
FlushClean == /\ Running /\ scheduled
              /\ scheduled' = FALSE /\ dirty' = 0
              /\ pc' = "write"
              /\ UNCHANGED <<mode, mem, matched, changes, restored, turn, fileVars, pastVars>>

\* flushRulesInternal(), and shutdown() when there is anything to save.
Flush == /\ Running /\ scheduled
         /\ scheduled' = FALSE
         /\ pc' = "write"
         /\ UNCHANGED <<mode, mem, matched, changes, dirty, restored, turn, fileVars, pastVars>>

Shutdown == /\ Running
            /\ mode' = IF dirty > 0 THEN "closing" ELSE "down"
            /\ pc' = IF dirty > 0 THEN "write" ELSE "idle"
            /\ scheduled' = FALSE
            /\ UNCHANGED <<mem, matched, changes, dirty, restored, turn, fileVars, pastVars>>

\* refreshRuleCache(), after an upgrade.
Refresh == /\ Running /\ saves < MaxSaves
           /\ mem' = Loads /\ matched' = Loads
           /\ dirty' = 0 /\ restored' = FALSE
           /\ pc' = "write"
           /\ UNCHANGED <<mode, changes, scheduled, turn, fileVars, pastVars>>

\* saveToDisk() returns, or is left by an exception; shutdown() goes on.
Leave == /\ pc' = "idle"
         /\ mode' = IF mode = "closing" THEN "down" ELSE mode

Saving(p) == mode # "down" /\ pc = p

\* The temporary file is written: by the safe stream, all or nothing.  A backup
\* is due unless the first one is recent.
WriteTemp == /\ Saving("write")
             /\ temp' = mem
             /\ \/ /\ patterns # None /\ Backups > 0
                   /\ pc' = "remove" /\ turn' = Backups
                \/ /\ patterns = None \/ Backups = 0 \/ backup[1] # None
                   /\ pc' = "move" /\ UNCHANGED turn
             /\ UNCHANGED <<mode, memVars, patterns, backup, stamp, saves, cache, pastVars>>

WriteFails == /\ Saving("write")
              /\ Leave
              /\ failed' = TRUE
              /\ UNCHANGED <<memVars, turn, fileVars, last, damaged>>

\* Mutant: the files are numbered from 1 on, and patterns.ini is left out.
RenameBackupsOnly ==
  /\ Saving("rename")
  /\ \/ turn > 1 /\ backup' = [backup EXCEPT ![turn] = backup[turn - 1], ![turn - 1] = None]
                 /\ UNCHANGED patterns
     \/ turn = 1 /\ backup' = [backup EXCEPT ![1] = None] /\ patterns' = None
     \/ UNCHANGED <<backup, patterns>>
  /\ turn' = turn - 1
  /\ pc' = IF turn = 1 THEN "move" ELSE "rename"
  /\ UNCHANGED <<mode, memVars, temp, stamp, saves, cache, pastVars>>

\* "Remove oldest backup" ...
RemoveOldest ==
  /\ Saving("remove")
  /\ backup' = [backup EXCEPT ![Backups] = None] \/ UNCHANGED backup
  /\ pc' = "rename"
  /\ UNCHANGED <<mode, memVars, turn, patterns, temp, stamp, saves, cache, pastVars>>

\* ... and rename each file to the number after its own, from the last one to
\* patterns.ini itself.  What fails is passed over.
Rename ==
  /\ Saving("rename")
  /\ \/ /\ turn > 1 /\ backup[turn - 1] # None
        /\ backup' = [backup EXCEPT ![turn] = backup[turn - 1], ![turn - 1] = None]
        /\ UNCHANGED patterns
     \/ turn = 1 /\ backup' = [backup EXCEPT ![1] = patterns] /\ patterns' = None
     \/ UNCHANGED <<backup, patterns>>
  /\ turn' = turn - 1
  /\ pc' = IF turn = 1 THEN "move" ELSE "rename"
  /\ UNCHANGED <<mode, memVars, temp, stamp, saves, cache, pastVars>>

MoveTemp == /\ Saving("move")
            /\ patterns' = temp /\ temp' = None
            /\ saves' = saves + 1 /\ stamp' = saves + 1
            /\ last' = temp /\ damaged' = FALSE /\ UNCHANGED failed
            /\ pc' = "notify"
            /\ UNCHANGED <<mode, memVars, turn, backup, cache>>

MoveFails == /\ Saving("move")
             /\ Leave
             /\ failed' = TRUE
             /\ UNCHANGED <<memVars, turn, fileVars, last, damaged>>

\* onGenericChange("save"): cache.js is written, or cannot be read any more.
Notify == /\ Saving("notify")
          /\ dirty' = 0
          /\ \/ cache' = [stamp |-> stamp, rules |-> matched]
             \/ cache' = NoCache
          /\ Leave
          /\ UNCHANGED <<mem, matched, changes, scheduled, restored, turn, patterns, temp,
                         backup, stamp, saves, pastVars>>
-----------------------------------------------------------------------------
\* Firefox ends without notice.
Crash == /\ mode # "down"
         /\ mode' = "down" /\ pc' = "idle" /\ scheduled' = FALSE
         /\ UNCHANGED <<mem, matched, changes, dirty, restored, turn, fileVars, pastVars>>

\* Something else damages patterns.ini.
Damage == /\ mode = "down" /\ patterns # None /\ saves < MaxSaves
          /\ patterns' = Bad
          /\ saves' = saves + 1 /\ stamp' = saves + 1
          /\ damaged' = TRUE
          /\ UNCHANGED <<mode, memVars, pc, turn, temp, backup, cache, last, failed>>

Save == WriteTemp \/ RemoveOldest \/ Rename \/ MoveTemp \/ Notify

FilesNext == \/ Startup \/ PurgeHistory \/ Flush \/ Shutdown \/ Refresh
             \/ \E factor \in {1, Whole} : Change(factor)
             \/ \E i \in 1..Backups : Restore(i)
             \/ Save \/ WriteFails \/ MoveFails \/ Crash \/ Damage

FilesSpec == FilesInit /\ [][FilesNext]_filesVars

\* What is put off with runAsync runs, and saveToDisk goes on to its end.
FilesFairSpec == FilesSpec /\ WF_filesVars(Flush) /\ WF_filesVars(Save)
-----------------------------------------------------------------------------
(* The matchers that cache.js brings are those of the rules that patterns.ini
   brings, whatever was saved, damaged or left half done before.             *)
CacheTruthful == mode = "up" => matched = mem

(* When nothing is left to save, the next start finds what is in memory now,
   unless that was restored from a file, which is not saved (restoreAllData), or the
   save failed that was to put patterns.ini back (LastSaveKept).             *)
NothingLost ==
  Running /\ dirty = 0 /\ ~restored /\ patterns \in Versions => patterns = mem

(* A crash or a failure during a save costs that save at most: the start reads
   what was saved last, unless patterns.ini itself is missing, and then the
   first backup has it.                                                      *)
LastSaveKept == last # None /\ ~damaged =>
                  IF patterns = None THEN backup[1] = last ELSE Loads = last

(* A change that is worth saving is saved, if Firefox does not end before and
   the save does not fail: then it waits for the next change.                *)
ChangesSaved == dirty >= Whole ~> dirty = 0 \/ mode = "down" \/ failed
=============================================================================
