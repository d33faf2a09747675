----------------------------- MODULE Synchronizer -----------------------------
(***************************************************************************)
(* How one rule subscription is kept up to date (Synchronizer.jsm): hourly *)
(* checks, downloads, errors, and the request to the fallback server that  *)
(* may declare the subscription gone.  It is then replaced by one whose    *)
(* data: URL holds the rules it had.                                       *)
(*                                                                         *)
(* The clock of the computer may be set back.  Times are relative to it:   *)
(* `left' until a subscription expires, `since' its lastDownload, in hours *)
(* scaled down to the constants.  `idle' alone is time as it really passes.*)
(***************************************************************************)
EXTENDS Integers, Sequences, FiniteSets, SequencesExt, FiniteSetsExt

CONSTANTS Http, Data,              \* the subscription, and its replacement
          MinExpiration, MaxExpiration,
          FallbackErrors,          \* subscriptions_fallbackerrors
          MaxQueue,                \* bounds the downloads asked for at one moment
          MaxFallbacks,            \* bounds the requests to the fallback server under way
          SetBack                  \* by how much the clock is set back, once

ASSUME SynchronizerAssumption ==
  /\ Http # Data
  /\ MinExpiration \in Nat \ {0} /\ MaxExpiration \in Nat
  /\ MinExpiration <= MaxExpiration
  /\ FallbackErrors \in Nat \ {0} /\ MaxQueue \in Nat \ {0} /\ MaxFallbacks \in Nat \ {0}
  /\ SetBack \in Nat

Sources == {Http, Data}
Errors  == {"connectionError", "checksumMismatch"}  \* and others that are handled alike

\* As long ago as matters, and as good as never.
Long == MinExpiration + SetBack

\* A subscription is asked for at least this often: it waits for one expiration,
\* and once more when the sanity check has cut that short.
MaxIdle == 2 * (MaxExpiration + 1)

VARIABLES
  listed,     \* the subscriptions in RuleStorage
  hasRules,   \* those that have been given rules
  queue,      \* executeInternal's calls put off with runAsync
  executing,  \* URLs being downloaded
  requests,   \* the requests under way: subscription and `manual'
  fallbacks,  \* the requests to the fallback server under way
  errors, status, left, since, \* of Http; those of Data are left open
  checkDue,   \* the timer has fired
  autoupdate, \* Prefs.subscriptions_autoupdate
  idle,       \* the time with automatic updates since the last download of Http ended
  setBack     \* whether the clock has been set back

downloadVars == <<queue, executing, requests>>
stateVars    == <<errors, status, left, since, idle>>
syncVars     == <<listed, hasRules, downloadVars, fallbacks, stateVars, checkDue, autoupdate,
                  setBack>>

SyncInit == /\ listed = {Http} /\ hasRules = {}
            /\ queue = << >> /\ executing = {} /\ requests = {} /\ fallbacks = 0
            /\ errors = 0 /\ status = "none" /\ left = 0 /\ since = Long /\ idle = 0
            /\ checkDue = FALSE /\ autoupdate = TRUE /\ setBack = FALSE
-----------------------------------------------------------------------------
\* execute(): put off.
Execute(s, manual) == queue' = Append(queue, [sub |-> s, manual |-> manual])

\* checkSubscriptions(): "do expiration times make sense?"
Expires == Min({left, MaxExpiration})

\* Mutant: a download that failed is not tried again.
DueUnlessFailed == Expires <= 0 /\ since >= MinExpiration /\ status \in {"none", "ok"}

Due == Expires <= 0 /\ since >= MinExpiration

CheckAll ==
  /\ left' = IF Http \in listed THEN Expires ELSE left
  /\ \E due \in SUBSET listed :
       /\ Http \in due <=> Http \in listed /\ Due
       /\ queue' = SetToSeq({[sub |-> s, manual |-> FALSE] : s \in due})

CheckSubscriptions ==
  /\ checkDue /\ queue = << >>
  /\ checkDue' = FALSE
  /\ IF autoupdate THEN CheckAll ELSE UNCHANGED <<left, queue>>
  /\ UNCHANGED <<listed, hasRules, executing, requests, fallbacks, errors, status, since,
                 autoupdate, idle, setBack>>

\* The user asks for an update.
ExecuteManually(s) == /\ s \in listed /\ Len(queue) < MaxQueue
                      /\ Execute(s, TRUE)
                      /\ UNCHANGED <<listed, hasRules, executing, requests, fallbacks,
                                     stateVars, checkDue, autoupdate, setBack>>

\* setError(), of Http as a data: URL never fails: the errors of automatic
\* downloads are counted, and then the fallback server is asked.  No error it is
\* called with is named "synchronize_checksum_mismatch", so all are counted.
SetError(error, manual) ==
  LET ask == ~manual /\ errors + 1 >= FallbackErrors
  IN /\ ask => fallbacks < MaxFallbacks
     /\ status' = error /\ since' = 0 /\ idle' = 0
     /\ errors' = IF ask THEN 0 ELSE IF manual THEN errors ELSE errors + 1
     /\ fallbacks' = IF ask THEN fallbacks + 1 ELSE fallbacks
     /\ UNCHANGED left

\* The request is opened and sent, or it is not.
Send(d) == \/ /\ executing' = executing \cup {d.sub}
              /\ requests' = requests \cup {d}
              /\ UNCHANGED <<fallbacks, stateVars>>
           \/ /\ d.sub = Http
              /\ UNCHANGED <<executing, requests>>
              /\ SetError("connectionError", d.manual)

\* executeInternal(): nothing when the URL is being downloaded.
ExecuteInternal ==
  /\ queue # << >>
  /\ queue' = Tail(queue)
  /\ IF Head(queue).sub \in executing
       THEN UNCHANGED <<executing, requests, fallbacks, stateVars>>
       ELSE Send(Head(queue))
  /\ UNCHANGED <<listed, hasRules, checkDue, autoupdate, setBack>>

\* A request ends: `executing' is cleared before anything else.
Ends(d) == /\ d \in requests
           /\ requests' = requests \ {d}
           /\ executing' = executing \ {d.sub}
           /\ UNCHANGED <<listed, queue, checkDue, autoupdate, setBack>>

\* The "error" handler, and what readRules() and the "load" handler reject.
Fails(d) == /\ Ends(d) /\ d.sub = Http
            /\ \E e \in Errors : SetError(e, d.manual)
            /\ UNCHANGED hasRules

\* The "load" handler: new rules, or 304.  "Hard expiration: download immediately
\* after twice the expiration interval".
Downloaded(d) == /\ Ends(d)
                 /\ hasRules' = hasRules \cup {d.sub}
                 /\ UNCHANGED fallbacks
                 /\ IF d.sub = Http
                      THEN /\ status' = "ok" /\ errors' = 0 /\ since' = 0 /\ idle' = 0
                           /\ \E interval \in MinExpiration..MaxExpiration : left' = 2 * interval
                      ELSE UNCHANGED stateVars

\* Mutant: the replacement is not downloaded.
GoneOnly == listed' = {Data} /\ UNCHANGED queue

\* 410: the subscription is replaced by its rules, which are then "downloaded".
Gone == listed' = {Data} /\ Execute(Data, FALSE)

\* The fallback server answers.
Fallback == /\ fallbacks > 0
            /\ fallbacks' = fallbacks - 1
            /\ \/ Http \in listed /\ Len(queue) < MaxQueue /\ Gone
               \/ UNCHANGED <<listed, queue>>
            /\ UNCHANGED <<hasRules, executing, requests, stateVars, checkDue, autoupdate,
                           setBack>>

\* The user removes a subscription, or adds the first one again.
UserRemoves(s) ==
  /\ s \in listed
  /\ listed' = listed \ {s}
  /\ UNCHANGED <<hasRules, downloadVars, fallbacks, stateVars, checkDue, autoupdate, setBack>>

UserAdds ==
  /\ Http \notin listed
  /\ listed' = listed \cup {Http}
  /\ idle' = 0
  /\ UNCHANGED <<hasRules, downloadVars, fallbacks, errors, status, left, since, checkDue,
                 autoupdate, setBack>>

\* The user turns the automatic updates off, or on again.
SetAutoupdate ==
  /\ autoupdate' = ~autoupdate
  /\ idle' = 0
  /\ UNCHANGED <<listed, hasRules, downloadVars, fallbacks, errors, status, left, since, checkDue,
                 setBack>>

\* An hour passes.  What is put off with runAsync runs within it, and a check too.
Tick == /\ ~checkDue /\ queue = << >>
        /\ checkDue' = TRUE
        /\ left'  = Max({0, left - 1})
        /\ since' = Min({Long, since + 1})
        /\ idle'  = IF autoupdate /\ Http \in listed \ executing
                    THEN Min({idle + 1, MaxIdle + 1}) ELSE 0
        /\ UNCHANGED <<listed, hasRules, downloadVars, fallbacks, errors, status, autoupdate,
                       setBack>>

\* The clock is set back.
SetClock == /\ SetBack > 0 /\ ~setBack
            /\ setBack' = TRUE
            /\ left' = left + SetBack /\ since' = since - SetBack
            /\ UNCHANGED <<listed, hasRules, downloadVars, fallbacks, errors, status, checkDue,
                           autoupdate, idle>>

SyncNext == \/ CheckSubscriptions \/ ExecuteInternal \/ Fallback
            \/ \E d \in requests : Downloaded(d) \/ Fails(d)
            \/ \E s \in Sources : ExecuteManually(s) \/ UserRemoves(s)
            \/ UserAdds \/ SetAutoupdate \/ Tick \/ SetClock

SyncSpec == SyncInit /\ [][SyncNext]_syncVars

\* What is put off runs, time passes, checks run, and a data: URL always loads.
SyncFairness == /\ WF_syncVars(ExecuteInternal)
                /\ WF_syncVars(CheckSubscriptions) /\ WF_syncVars(Tick)
                /\ \A m \in BOOLEAN : WF_syncVars(Downloaded([sub |-> Data, manual |-> m]))

SyncFairSpec == SyncSpec /\ SyncFairness
-----------------------------------------------------------------------------
(* "Make sure people changing system clock don't get stuck with outdated
   subscriptions" (Synchronizer.jsm:307): the time between two downloads stays
   bounded, even when the expiration has to be set to its maximum once more;
   time with the automatic updates off does not count.                       *)
NotStuck == idle <= MaxIdle

(* A subscription that is gone leaves its rules to its replacement, unless the
   user removes it.                                                          *)
RulesReplaced == Data \in listed ~> (Data \in hasRules \/ Data \notin listed)
=============================================================================
