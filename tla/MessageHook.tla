---------------------------- MODULE MessageHook ----------------------------
(***************************************************************************)
(* The hook that decides whether a mouse message goes to IE or to Firefox  *)
(* (WindowMessageHook.cpp, GestureHandler.cpp, GestureHandlerImpl.cpp).    *)
(*                                                                         *)
(* A message that may belong to a gesture is swallowed and held by the     *)
(* handlers that track it.  If one of them triggers, Firefox gets what it  *)
(* holds and the rest of the gesture; if all have given up, IE gets back   *)
(* what is held, all but the last sent at once and the last one posted,    *)
(* which takes it through the hook again.                                  *)
(*                                                                         *)
(* While IE handles a message sent to it, its page may run a loop of its   *)
(* own; the messages of that loop pass by the hook (s_bReentranceGuard).   *)
(* A message is known by its number, in the order of the input.  Windows   *)
(* is external: what it reports of the buttons is always right, but the    *)
(* message of a button that goes up may go elsewhere.                      *)
(***************************************************************************)
EXTENDS Naturals, SequencesExt

CONSTANTS MaxInput,   \* bounds the messages
          MaxUpsets   \* bounds the button-ups that go elsewhere and the changes of
                      \* the gestures enabled, together

ASSUME HookAssumption == MaxInput \in Nat /\ MaxUpsets \in Nat

Order    == <<"trace", "rocker", "wheel">>  \* getHandlers()
Handlers == {"trace", "rocker", "wheel"}
Kinds    == {"ldown", "lup", "rdown", "rup", "move", "wheel"}
Places   == {0, 1}  \* two points more than 10 pixels apart

VARIABLES
  hs,      \* each handler's members
  buttons, \* the buttons that are down, and where the mouse is
  input,   \* the mouse messages so far
  posted,  \* the message IE was posted back, not yet dispatched
  sending, \* those forwardAllOrigin has yet to send, the last one to post
  ie, ff,  \* what IE and Firefox have got, in order
  missed, toggles,  \* the button-ups that went elsewhere, the changes
  nested,  \* history: has a message passed by the hook?
  odd      \* history: has a gesture been tracked when it could not be followed?

hookVars == <<hs, buttons, input, posted, sending, ie, ff, missed, toggles, nested, odd>>

Fresh(on) == [enabled |-> on, state |-> "none", left |-> FALSE, start |-> 0, held |-> << >>]
HookInit == /\ \E on \in SUBSET Handlers : hs = [h \in Handlers |-> Fresh(h \in on)]
            /\ buttons = [l |-> FALSE, r |-> FALSE, at |-> 0]
            /\ input = << >> /\ posted = << >> /\ sending = << >> /\ ie = << >> /\ ff = << >>
            /\ missed = 0 /\ toggles = 0 /\ nested = FALSE /\ odd = FALSE
-----------------------------------------------------------------------------
Starts(h, m) == m.kind = "rdown" \/ (h = "rocker" /\ m.kind = "ldown")
Down(s, m)   == IF s.left THEN m.l ELSE m.r
Drags(s, m)  == m.kind = "move" /\ Down(s, m)
Far(s, m)    == m.at # s.start

\* The event that makes a gesture of what a handler has seen, and those that
\* belong to it once it has.
Triggers(h, s, m) ==
  CASE h = "trace"  -> Drags(s, m) /\ Far(s, m)
    [] h = "rocker" -> m.kind = (IF s.left THEN "rdown" ELSE "ldown") /\ Down(s, m)
    [] h = "wheel"  -> m.kind = "wheel" /\ Down(s, m)

Continues(h, s, m) ==
  Down(s, m) /\ CASE h = "trace"  -> m.kind = "move"
                  [] h = "rocker" -> m.kind \in {"move"} \cup IF s.left THEN {"rdown", "rup"}
                                                              ELSE {"ldown", "lup"}
                  [] h = "wheel"  -> m.kind \in {"move", "wheel"}

\* handleMessageInternal: the next state of handler h and what it returns.
HandleInternal(h, s, m) ==
  CASE s.state = "none" ->
         IF Starts(h, m)
         THEN <<[s EXCEPT !.state = "initiated", !.start = m.at,
                          !.left = (h = "rocker" /\ m.kind = "ldown")], "Initiated">>
         ELSE <<s, "NotHandled">>
    [] s.state = "initiated" ->
         IF Triggers(h, s, m) THEN <<[s EXCEPT !.state = "triggered"], "Triggered">>
         ELSE IF Drags(s, m) /\ ~Far(s, m) THEN <<s, "Swallowed">>
         ELSE <<[s EXCEPT !.state = "none"], "Canceled">>
    [] s.state = "triggered" ->
         IF Continues(h, s, m) THEN <<s, "Swallowed">>
         ELSE <<[s EXCEPT !.state = "none"], "GestureEnd">>

\* Mutant: a short move is neither swallowed nor kept.
KeepsTrackEnds(s, res) == res \in {"Initiated", "Triggered", "Canceled"}

KeepsTrack(s, res) == s.state = "initiated" \/ res \in {"Triggered", "Canceled"}

\* Mutant: the left button is treated as the right one.
SwallowsLeft(s, res) == KeepsTrack(s, res)

\* Nothing of a gesture that starts with the left button is swallowed but the
\* message that triggers it.
Swallows(s, res) == KeepsTrack(s, res) /\ (~s.left \/ res = "Triggered")

HandleMessage(h, s, m) ==
  IF ~s.enabled THEN <<s, "NotHandled">>
  ELSE LET r == HandleInternal(h, s, m)
       IN IF KeepsTrack(r[1], r[2]) THEN <<[r[1] EXCEPT !.held = Append(@, m.no)], r[2]>> ELSE r

\* Mutant: the state stays.
ResetHeld(s)  == [s EXCEPT !.held = << >>]

Reset(s) == [s EXCEPT !.state = "none", !.held = << >>]

\* A handler is shown message m, unless one before it has triggered.
OfferTo(m, acc, h) ==
  LET r    == HandleMessage(h, acc.hs[h], m)
      next == [acc.hs EXCEPT ![h] = r[1]]
      a    == [acc EXCEPT !.hs = next, !.swallow = @ \/ Swallows(r[1], r[2])]
  IN IF acc.stop THEN acc
     ELSE IF r[2] = "Triggered"
     THEN [a EXCEPT !.stop = TRUE, !.ff = r[1].held, !.hs[h].held = << >>]
     ELSE IF r[2] = "Canceled" /\ \A g \in Handlers : next[g].state = "none"
     THEN [a EXCEPT !.back = IF r[1].left THEN << >> ELSE r[1].held,
                    !.hs = [g \in Handlers |-> Reset(@[g])]]
     ELSE a

Offer(m) ==
  FoldLeft(LAMBDA acc, h : OfferTo(m, acc, h),
           [hs |-> hs, swallow |-> FALSE, stop |-> FALSE, ff |-> << >>, back |-> << >>], Order)

\* ForwardFirefoxMouseMessage and, for what it does not swallow, ForwardZoomMessage.
Hook(m) ==
  IF \E h \in Handlers : hs[h].state = "triggered"
  THEN LET h == CHOOSE g \in Handlers : hs[g].state = "triggered"
           r == HandleMessage(h, hs[h], m)
       IN /\ hs' = IF r[2] = "GestureEnd" THEN [g \in Handlers |-> Reset(hs[g])]
                                          ELSE [hs EXCEPT ![h] = r[1]]
          /\ ff' = Append(ff, m.no)
          /\ UNCHANGED <<sending, ie>>
  ELSE LET a == Offer(m)
           zoom == ~a.swallow /\ m.kind = "wheel" /\ m.ctrl
       IN /\ hs' = a.hs
          /\ ff' = ff \o a.ff \o IF zoom THEN <<m.no>> ELSE << >>
          /\ ie' = ie \o IF a.back # << >> THEN <<Head(a.back)>>
                          ELSE IF a.swallow \/ zoom THEN << >> ELSE <<m.no>>
          /\ sending' = IF a.back = << >> THEN << >> ELSE Tail(a.back)
-----------------------------------------------------------------------------
Quiet == sending = << >>

\* The buttons after a message of this kind.
Pressed(type) ==
  CASE type = "ldown" -> ~buttons.l /\ buttons' = [buttons EXCEPT !.l = TRUE]
    [] type = "lup"   -> buttons.l  /\ buttons' = [buttons EXCEPT !.l = FALSE]
    [] type = "rdown" -> ~buttons.r /\ buttons' = [buttons EXCEPT !.r = TRUE]
    [] type = "rup"   -> buttons.r  /\ buttons' = [buttons EXCEPT !.r = FALSE]
    [] type = "move"  -> \E p \in Places : buttons' = [buttons EXCEPT !.at = p]
    [] type = "wheel" -> UNCHANGED buttons

\* What is posted is dispatched before the input.
Mouse(type, ctrl) ==
  /\ Len(input) < MaxInput /\ posted = << >>
  /\ ctrl => type = "wheel"
  /\ Pressed(type)
  /\ LET m == [no |-> Len(input) + 1, kind |-> type, ctrl |-> ctrl,
               l |-> buttons'.l, r |-> buttons'.r, at |-> buttons'.at]
     IN /\ input' = Append(input, m)
        /\ IF Quiet THEN Hook(m) /\ UNCHANGED nested
           ELSE ie' = Append(ie, m.no) /\ nested' = TRUE /\ UNCHANGED <<hs, sending, ff>>
  /\ UNCHANGED <<posted, missed, toggles, odd>>

\* A rocker gesture has begun with the left button, and the button is up.
Astray == hs["rocker"].state = "initiated" /\ hs["rocker"].left /\ ~buttons.l

\* The message IE was posted goes through the hook again.
Dispatch == /\ Quiet /\ posted # << >>
            /\ posted' = << >>
            /\ Hook(input[Head(posted)])
            /\ UNCHANGED <<buttons, input, missed, toggles, nested>>
            /\ odd' = (odd \/ Astray')

\* forwardAllOrigin.
SendOrPost ==
  /\ ~Quiet
  /\ sending' = Tail(sending)
  /\ IF Len(sending) = 1 THEN posted' = sending /\ UNCHANGED ie
                         ELSE ie' = Append(ie, Head(sending)) /\ UNCHANGED posted
  /\ UNCHANGED <<hs, buttons, input, ff, missed, toggles, nested, odd>>

\* A button goes up somewhere else.
UpElsewhere == /\ Quiet /\ missed + toggles < MaxUpsets /\ (buttons.l \/ buttons.r)
               /\ missed' = missed + 1
               /\ \/ buttons.l /\ buttons' = [buttons EXCEPT !.l = FALSE]
                  \/ buttons.r /\ buttons' = [buttons EXCEPT !.r = FALSE]
               /\ UNCHANGED <<hs, input, posted, sending, ie, ff, toggles, nested>>
               /\ odd' = (odd \/ Astray')

\* Left out: a change that comes in the loop IE runs while forwardAllOrigin sends to
\* it.  To disable the handler that sends clears the vector it iterates over, which
\* is undefined; to enable a later one has it shown the message being handled.
SetEnabledGestures ==
  /\ Quiet /\ missed + toggles < MaxUpsets
  /\ toggles' = toggles + 1
  /\ odd' = (odd \/ \E h \in Handlers : hs[h].state # "none")
  /\ \E on \in SUBSET Handlers :
       hs' = [h \in Handlers |->
                IF hs[h].enabled /\ h \notin on THEN [Reset(hs[h]) EXCEPT !.enabled = FALSE]
                                                ELSE [hs[h] EXCEPT !.enabled = (h \in on)]]
  /\ UNCHANGED <<buttons, input, posted, sending, ie, ff, missed, nested>>

HookNext == \/ \E type \in Kinds, ctrl \in BOOLEAN : Mouse(type, ctrl)
            \/ Dispatch \/ SendOrPost \/ UpElsewhere \/ SetEnabledGestures

HookSpec == HookInit /\ [][HookNext]_hookVars
-----------------------------------------------------------------------------
(***************************************************************************)
(* Properties                                                              *)
(***************************************************************************)
Idle    == \A h \in Handlers : hs[h].state = "none"
Held    == IF Idle THEN {} ELSE UNION {ToSet(hs[h].held) : h \in Handlers}
InSeq(s) == \A j, k \in DOMAIN s : j < k => s[j] < s[k]

\* Every message gets to IE or to Firefox and to one of them only: until then it
\* is on its way back to IE, or held by handlers that may still give it back.
\* Both get the start of a gesture with the left button, which is never swallowed.
\* Excused are the changes of the gestures enabled while one is tracked, and a
\* left button that is up while a rocker gesture has begun with it: it went up
\* elsewhere, or the message that began the gesture comes back too late.
EachToOne ==
  odd \/ /\ \A i \in DOMAIN input :
              i \in ToSet(ie) \cup ToSet(ff) \cup ToSet(posted) \cup ToSet(sending) \cup Held
         /\ \A i \in ToSet(ie) \cap ToSet(ff) :
              input[i].l /\ input[i].kind \in {"ldown", "move"}

\* Both get their messages in the order of the input, as long as IE runs no loop
\* of its own while it is given them back; and Firefox gets all of a gesture, from
\* the button that went down on.
WholeAndInOrder ==
  nested \/ odd \/
    /\ InSeq(ie) /\ InSeq(ff)
    /\ \A k \in DOMAIN ff : \/ input[ff[k]].kind \in {"ldown", "rdown"} \/ input[ff[k]].ctrl
                            \/ k > 1 /\ ff[k - 1] = ff[k] - 1

\* With no button down, nothing is held and no gesture goes on.  Excused for good
\* are a button that has gone up elsewhere and a message that has passed by the hook
\* in a loop of IE's own: the handlers have not seen them.
LetsGo == (~buttons.l /\ ~buttons.r /\ missed = 0 /\ ~nested) => Idle
=============================================================================
