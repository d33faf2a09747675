--------------------------- MODULE MainThreadQueue ---------------------------
(***************************************************************************)
(* How code reaches the plugin's main thread: CIEHostWindow::RunAsync and  *)
(* RunAsyncTimeout (IEHostWindow.cpp).                                     *)
(*                                                                         *)
(* RunAsync queues a function and posts a window message for it.  Timed    *)
(* functions wait in a priority queue and share one Windows timer, set for *)
(* the earliest.  Only the main thread may touch the timer, so whoever     *)
(* changes the head of the queue has ActivateTimer run there, once.        *)
(*                                                                         *)
(* A function that the main thread runs may open a dialog, whose message   *)
(* loop dispatches further messages before the function returns.           *)
(*                                                                         *)
(* Time is relative: what is left of each wait, in units of                *)
(* MIN_TIMEOUT_THRESHOLD_MILLIS; a wait that is over stays at 0.           *)
(***************************************************************************)
EXTENDS Integers, Sequences, FiniteSets, SequencesExt

CONSTANTS Workers,     \* threads other than the main thread
          Main,        \* the main thread
          Calls,       \* functions for RunAsync
          Timed,       \* functions for RunAsyncTimeout
          Activate,    \* the lambda that calls ActivateTimer
          Timeouts,    \* what timeoutMillis may be
          MaxNesting   \* bounds the dialogs opened one within another

Threads == Workers \cup {Main}
Funcs   == Calls \cup Timed

ASSUME QueueAssumption ==
  /\ IsFiniteSet(Workers) /\ Main \notin Workers
  /\ Calls \cap Timed = {} /\ Activate \notin Funcs
  /\ Timeouts \subseteq Nat \ {0}
  /\ MaxNesting \in Nat \ {0}

Threshold == 1   \* MIN_TIMEOUT_THRESHOLD_MILLIS
Off       == -1  \* no timer is set

VARIABLES
  funcs,     \* m_qFuncs
  messages,  \* WPARAM_RUN_ASYNC_CALL messages posted and not yet dispatched
  timeouts,  \* m_pqTimeoutFuncs: functions with what is left to wait, soonest first
  scheduled, \* m_bActivateTimerScheduled
  timer,     \* IDT_TIMER_RUN_ASYNC_TIMEOUT: what is left until it fires, or Off
  wmTimer,   \* a WM_TIMER waits to be dispatched
  wait,      \* ActivateTimer's minDuration
  pc,        \* where each thread is
  stack      \* the functions the main thread is in, and whether the call of
             \* each is to be followed by the activation of the timer

queueVars == <<funcs, messages, timeouts, scheduled, timer, wmTimer, wait, pc, stack>>

Goto(t, l) == pc' = [pc EXCEPT ![t] = l]
At(t, l)   == pc[t] = l

Queued(f)  == \E i \in DOMAIN funcs : funcs[i] = f
Waiting(f) == \E i \in DOMAIN timeouts : timeouts[i].fn = f
Running(f) == \E i \in DOMAIN stack : stack[i].fn = f

Init == /\ funcs = << >> /\ messages = 0
        /\ timeouts = << >> /\ scheduled = FALSE
        /\ timer = Off /\ wmTimer = FALSE /\ wait = 0
        /\ pc = [t \in Threads |-> "idle"]
        /\ stack = << >>
-----------------------------------------------------------------------------
\* RunAsync(): the function is queued under m_csFuncs ...
RunAsync(t, f) == /\ funcs' = Append(funcs, f)
                  /\ Goto(t, "post")

\* Mutant: a message already on the way is relied on.
PostMessageUnlessPosted(t) == /\ At(t, "post")
                              /\ messages' = IF messages = 0 THEN 1 ELSE messages
                              /\ Goto(t, "idle")
                              /\ UNCHANGED <<funcs, timeouts, scheduled, timer, wmTimer, wait,
                                             stack>>

\* ... and the message posted after the lock is released.
PostMessage(t) == /\ At(t, "post")
                  /\ messages' = messages + 1
                  /\ Goto(t, "idle")
                  /\ UNCHANGED <<funcs, timeouts, scheduled, timer, wmTimer, wait, stack>>

\* Any thread asks for f; every f stands for one request at a time.
Request(t, f) == /\ At(t, "idle")
                 /\ ~Queued(f) /\ ~Running(f)
                 /\ RunAsync(t, f)
                 /\ UNCHANGED <<messages, timeouts, scheduled, timer, wmTimer, wait, stack>>

\* Where a function that is to wait for d may go: std::priority_queue leaves the
\* order of equal times open.  No caller passes 0, so a wait that is over is an
\* earlier one.
Place(d) == {k \in 1..(Len(timeouts) + 1) :
               /\ \A i \in 1..(k - 1) : timeouts[i].left <= d
               /\ \A i \in k..Len(timeouts) : timeouts[i].left >= d}

\* Mutant: the timer is activated only for the first function in the queue.
RunAsyncTimeoutFirstOnly(t, f, d) ==
  LET needed == ~scheduled /\ timeouts = << >>
  IN /\ At(t, "idle")
     /\ ~Waiting(f) /\ ~Running(f)
     /\ \E k \in Place(d) : timeouts' = InsertAt(timeouts, k, [fn |-> f, left |-> d])
     /\ scheduled' = (scheduled \/ needed)
     /\ Goto(t, IF needed THEN "activate" ELSE "idle")
     /\ UNCHANGED <<funcs, messages, timer, wmTimer, wait, stack>>

\* RunAsyncTimeout(): activation is needed when the time of the head changes
\* and none is on its way.
RunAsyncTimeout(t, f, d) ==
  LET sooner == timeouts = << >> \/ d < Head(timeouts).left
      needed == ~scheduled /\ sooner
  IN /\ At(t, "idle")
     /\ ~Waiting(f) /\ ~Running(f)
     /\ \E k \in Place(d) : timeouts' = InsertAt(timeouts, k, [fn |-> f, left |-> d])
     /\ scheduled' = (scheduled \/ needed)
     /\ Goto(t, IF needed THEN "activate" ELSE "idle")
     /\ UNCHANGED <<funcs, messages, timer, wmTimer, wait, stack>>

\* RunAsync([=] { ActivateTimer(); }), once the lock is released.
RequestActivation(t) == /\ At(t, "activate")
                        /\ RunAsync(t, Activate)
                        /\ UNCHANGED <<messages, timeouts, scheduled, timer, wmTimer,
                                       wait, stack>>
-----------------------------------------------------------------------------
\* The main thread waits for a message, in its own loop or in a dialog's.
InLoop == At(Main, "idle") /\ Len(stack) < MaxNesting

Call(f, owes) == stack' = Append(stack, [fn |-> f, owes |-> owes])

\* Mutant: the function is called before it leaves the queue.
OnRunAsyncCallFirst ==
  /\ InLoop
  /\ messages > 0
  /\ messages' = messages - 1
  /\ IF Head(funcs) = Activate
       THEN /\ timer' = Off
            /\ Goto(Main, "activateTimer")
            /\ funcs' = Tail(funcs)
            /\ UNCHANGED stack
       ELSE /\ Call(Head(funcs), FALSE)
            /\ UNCHANGED <<timer, pc, funcs>>
  /\ UNCHANGED <<timeouts, scheduled, wmTimer, wait>>

\* OnRunAsyncCall(): the function leaves the queue before it is called;
\* ActivateTimer begins by killing the timer.
OnRunAsyncCall ==
  /\ InLoop
  /\ messages > 0
  /\ messages' = messages - 1
  /\ funcs' = Tail(funcs)
  /\ IF Head(funcs) = Activate
       THEN /\ timer' = Off
            /\ Goto(Main, "activateTimer")
            /\ UNCHANGED stack
       ELSE /\ Call(Head(funcs), FALSE)
            /\ UNCHANGED <<timer, pc>>
  /\ UNCHANGED <<timeouts, scheduled, wmTimer, wait>>

\* ActivateTimer(), under the lock: is the head due, or how long is it to wait?
ActivateTimer ==
  /\ At(Main, "activateTimer")
  /\ scheduled' = FALSE
  /\ IF timeouts = << >>
       THEN Goto(Main, "idle") /\ UNCHANGED wait
       ELSE /\ wait' = Head(timeouts).left
            /\ Goto(Main, IF Head(timeouts).left <= Threshold THEN "timeoutCall" ELSE "setTimer")
  /\ UNCHANGED <<funcs, messages, timeouts, timer, wmTimer, stack>>

SetTimer == /\ At(Main, "setTimer")
            /\ timer' = wait
            /\ Goto(Main, "idle")
            /\ UNCHANGED <<funcs, messages, timeouts, scheduled, wmTimer, wait, stack>>

\* WM_TIMER is dispatched: OnRunAsyncTimeoutCall() kills the timer ...
OnTimer == /\ InLoop
           /\ wmTimer
           /\ wmTimer' = FALSE
           /\ timer' = Off
           /\ Goto(Main, "timeoutCall")
           /\ UNCHANGED <<funcs, messages, timeouts, scheduled, wait, stack>>

\* Mutant: the rest of the queue is not followed up.
OnRunAsyncTimeoutCallOnce ==
  /\ At(Main, "timeoutCall")
  /\ Len(stack) < MaxNesting
  /\ timer' = Off
  /\ LET due == timeouts # << >> /\ Head(timeouts).left <= Threshold
     IN IF due THEN /\ timeouts' = Tail(timeouts)
                    /\ Call(Head(timeouts).fn, FALSE)
               ELSE UNCHANGED <<timeouts, stack>>
  /\ Goto(Main, "idle")
  /\ UNCHANGED <<funcs, messages, scheduled, wmTimer, wait>>

\* ... and, under the lock, takes the head if it is due and decides whether the
\* timer is to be activated for the next one.  The function is called first.
OnRunAsyncTimeoutCall ==
  LET due   == timeouts # << >> /\ Head(timeouts).left <= Threshold
      queue == IF due THEN Tail(timeouts) ELSE timeouts
      owes  == ~scheduled /\ queue # << >>
  IN /\ At(Main, "timeoutCall")
     /\ Len(stack) < MaxNesting
     /\ timer' = Off
     /\ timeouts' = queue
     /\ scheduled' = (scheduled \/ owes)
     /\ IF due THEN Call(Head(timeouts).fn, owes) /\ Goto(Main, "idle")
               ELSE UNCHANGED stack /\ Goto(Main, IF owes THEN "activate" ELSE "idle")
     /\ UNCHANGED <<funcs, messages, wmTimer, wait>>

\* The innermost function returns to the loop that called it.
Return == /\ At(Main, "idle")
          /\ stack # << >>
          /\ stack' = Front(stack)
          /\ Goto(Main, IF Last(stack).owes THEN "activate" ELSE "idle")
          /\ UNCHANGED <<funcs, messages, timeouts, scheduled, timer, wmTimer, wait>>
-----------------------------------------------------------------------------
\* Time passes; not between ActivateTimer's reading the clock and SetTimer.
Tick == /\ ~At(Main, "setTimer")
        /\ timeouts' = [i \in DOMAIN timeouts |->
                          [timeouts[i] EXCEPT !.left = IF @ = 0 THEN 0 ELSE @ - 1]]
        /\ timer' = IF timer \in {0, Off} THEN timer ELSE timer - 1
        /\ UNCHANGED <<funcs, messages, scheduled, wmTimer, wait, pc, stack>>

\* The timer fires.  Killing it does not remove a WM_TIMER already posted.
TimerFires == /\ timer = 0
              /\ wmTimer' = TRUE
              /\ UNCHANGED <<funcs, messages, timeouts, scheduled, timer, wait, pc, stack>>

Asks(t) == \/ \E f \in Calls : Request(t, f)
           \/ \E f \in Timed, d \in Timeouts : RunAsyncTimeout(t, f, d)

Follows(t) == PostMessage(t) \/ RequestActivation(t)

Dispatch == OnRunAsyncCall \/ OnTimer

MainStep == ActivateTimer \/ SetTimer \/ OnRunAsyncTimeoutCall

Next == \/ \E t \in Threads : Asks(t) \/ Follows(t)
        \/ Dispatch \/ MainStep \/ Return
        \/ Tick \/ TimerFires

Spec == Init /\ [][Next]_queueVars

\* Threads go on, time passes, messages of either kind are dispatched in the
\* end, and every function returns: whoever opened a dialog closes it.
Fairness == /\ \A t \in Threads : WF_queueVars(Follows(t))
            /\ WF_queueVars(MainStep)
            /\ SF_queueVars(Tick) /\ WF_queueVars(TimerFires)
            /\ SF_queueVars(OnRunAsyncCall) /\ SF_queueVars(OnTimer)
            /\ \A n \in 1..MaxNesting : SF_queueVars(Return /\ Len(stack) = n)

FairSpec == Spec /\ Fairness
-----------------------------------------------------------------------------
(* Every queued function has a message of its own on the way: none is left in
   the queue, and no message finds the queue empty.                         *)
MessagePerCall == Len(funcs) = messages + Cardinality({t \in Threads : At(t, "post")})

(* "causing subsequent async calls to run the wrong function instead" (2589):
   whatever dialogs a function opens, no other message runs it again.       *)
NoneRunTwice == /\ \A i, j \in DOMAIN stack : stack[i].fn = stack[j].fn => i = j
                /\ \A f \in Funcs : Running(f) => ~Queued(f) /\ ~Waiting(f)

\* The activations of the timer that are promised, queued, owed or begun.
Activations == ({"promised"} \X {t \in Threads : At(t, "activate")})
         \cup ({"queued"} \X {i \in DOMAIN funcs : funcs[i] = Activate})
         \cup ({"owed"} \X {i \in DOMAIN stack : stack[i].owes})
         \cup ({"begun"} \X {t \in {Main} : At(t, "activateTimer")})

(* No timed function is forgotten, and none waits for a timer set for a later
   one: the timer is set for the head of the queue, unless it is about to be;
   and m_bActivateTimerScheduled says so just when one activation is on its way. *)
TimerCoversHead ==
  /\ \A x, y \in Activations : x = y
  /\ scheduled <=> Activations # {}
  /\ \/ timeouts = << >>
     \/ scheduled
     \/ pc[Main] \in {"setTimer", "timeoutCall"}
     \/ timer # Off /\ timer <= Head(timeouts).left

(* Every function asked for with a timeout is called. *)
EveryTimerRuns == \A f \in Timed : Waiting(f) ~> Running(f)
=============================================================================
