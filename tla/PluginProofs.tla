------------------------------ MODULE PluginProofs -------------------------------
(***************************************************************************)
(* Proofs about a plugin and its Firefox.  Whatever number of events a     *)
(* window has for Firefox (PluginEvents), and however many of them come    *)
(* before the plugin can take them, Firefox gets them in order, and        *)
(* progress no faster than it is meant to.  For any number of Firefoxes    *)
(* that end, crash and lose their plugins any number of times              *)
(* (UtilsPlugin), the user's setting of IE's directories is not lost.      *)
(***************************************************************************)
EXTENDS PluginEvents, UtilsPlugin, TLAPS

FlagsOK == /\ init \in {"none", "queued", "fired"} /\ attached \in BOOLEAN
           /\ updating \in BOOLEAN /\ delaying \in BOOLEAN /\ scheduled \in BOOLEAN
           /\ putOff \in BOOLEAN /\ rapid \in BOOLEAN /\ lost \in BOOLEAN

DataOK == /\ deferred \in Seq(Nat) /\ requested \in Nat /\ sent \in Seq(Nat)
          /\ waits \in Seq(0..Delay)
          /\ progress \in Nat /\ shown \in Nat /\ gap \in 0..Delay

TypeOK == FlagsOK /\ DataOK

\* The events in `deferred' go on where those in `sent' end.
Continues ==
  /\ \A i \in DOMAIN deferred :
       deferred[i] # Progress => deferred[i] \in (Len(sent) + 1)..requested
  /\ \A i, j \in DOMAIN deferred :
       i < j /\ deferred[i] # Progress /\ deferred[j] # Progress => deferred[i] < deferred[j]
  /\ \A n \in (Len(sent) + 1)..requested : \E i \in DOMAIN deferred : deferred[i] = n

\* What is sent is in order, and nothing is before the init event.
Order == /\ Len(sent) <= requested
         /\ \A i \in DOMAIN sent : sent[i] = i
         /\ sent # << >> => attached
         /\ attached <=> init = "fired"
         /\ Continues

\* While an update waits, Delay has passed since the last one once the wait is
\* over; else enough has passed already, or the update is still being sent.
Spacing == /\ Len(waits) = IF delaying THEN 1 ELSE 0
           /\ ~(updating /\ delaying)
           /\ ~putOff => /\ gap < Delay - Threshold => updating \/ delaying
                         /\ delaying => waits[1] + gap >= Delay
           /\ ~rapid

IInv == TypeOK /\ Order /\ Spacing

\* Before the window has a plugin.
LEMMA InitIInv == Init => IInv
<1> SUFFICES ASSUME Init PROVE IInv
  OBVIOUS
<1> USE EventsAssumption DEF Init, Progress
<1>1. TypeOK
  <2>1. FlagsOK
    BY DEF FlagsOK
  <2>2. DataOK
    BY DEF DataOK
  <2> QED  BY <2>1, <2>2 DEF TypeOK
<1>2. Order
  BY DEF Order, Continues
<1>3. Spacing
  BY DEF Spacing
<1> QED  BY <1>1, <1>2, <1>3 DEF IInv

\* Every variable keeps its type.
LEMMA TypeStep ==
  ASSUME TypeOK, Next
  PROVE  TypeOK'
<1> USE EventsAssumption DEF throttleVars, shownVars, Tell, SendProgress, Progress, Calling
<1>1. FlagsOK'
  BY ZenonT(30) DEF TypeOK, FlagsOK, Next, Handlers, GetScriptableObject, OnEvent, OnProgressChange,
         FireInitEvent, SetPlugin, EndUpdate, OnRunThrottled, Tick
<1>2. DataOK'
  <2>1. /\ requested' \in {requested, requested + 1}
        /\ progress' \in {progress, progress + 1}
        /\ shown' \in {shown, progress'}
        /\ gap' \in {gap, 0, gap + 1} /\ (gap' = gap + 1 => gap < Delay)
    BY DEF TypeOK, DataOK, Next, Handlers, GetScriptableObject, OnEvent, OnProgressChange,
         FireInitEvent, SetPlugin, EndUpdate, OnRunThrottled, Tick
  <2>2. requested' \in Nat /\ progress' \in Nat /\ shown' \in Nat /\ gap' \in 0..Delay
    BY <2>1 DEF TypeOK, DataOK
  <2>3. \/ sent' = sent
        \/ sent' = Append(sent, requested')
        \/ deferred # << >> /\ sent' = Append(sent, Head(deferred))
    BY DEF Next, Handlers, GetScriptableObject, OnEvent, OnProgressChange,
         FireInitEvent, SetPlugin, EndUpdate, OnRunThrottled, Tick
  <2>4. sent' \in Seq(Nat)
    <3>1. deferred # << >> => Head(deferred) \in Nat
      BY DEF TypeOK, DataOK
    <3>2. sent \in Seq(Nat)
      BY DEF TypeOK, DataOK
    <3>3. CASE sent' = Append(sent, requested')
      BY <2>2, <3>2, <3>3
    <3>4. CASE deferred # << >> /\ sent' = Append(sent, Head(deferred))
      BY <3>1, <3>2, <3>4
    <3> QED  BY <2>3, <3>2, <3>3, <3>4
  <2>5. \/ deferred' = deferred
        \/ deferred' = Append(deferred, requested')
        \/ deferred' = Append(deferred, 0)
        \/ deferred # << >> /\ deferred' = Tail(deferred)
    BY DEF Next, Handlers, GetScriptableObject, OnEvent, OnProgressChange,
         FireInitEvent, SetPlugin, EndUpdate, OnRunThrottled, Tick
  <2>6. deferred' \in Seq(Nat)
    <3>1. deferred \in Seq(Nat)
      BY DEF TypeOK, DataOK
    <3>2. CASE deferred' = Append(deferred, requested')
      BY <2>2, <3>1, <3>2
    <3>3. CASE deferred' = Append(deferred, 0)
      BY <3>1, <3>3
    <3>4. CASE deferred # << >> /\ deferred' = Tail(deferred)
      BY <3>1, <3>4
    <3> QED  BY <2>5, <3>1, <3>2, <3>3, <3>4
  <2>7. waits' \in Seq(0..Delay)
    <3>1. waits \in Seq(0..Delay)
      BY DEF TypeOK, DataOK
    <3>2. CASE EndUpdate
      BY <3>1, <3>2 DEF EndUpdate
    <3>3. CASE OnRunThrottled
      BY <3>1, <3>3 DEF OnRunThrottled
    <3>4. CASE Tick
      BY SMTT(30), <3>1, <3>4 DEF Tick
    <3>5. CASE UNCHANGED waits
      BY <3>1, <3>5
    <3> QED
      BY <3>2, <3>3, <3>4, <3>5
      DEF Next, Handlers, GetScriptableObject, OnEvent, OnProgressChange, FireInitEvent, SetPlugin
  <2> QED  BY <2>2, <2>4, <2>6, <2>7 DEF DataOK
<1> QED  BY <1>1, <1>2 DEF TypeOK

\* Sequences of numbers with one more behind, or one less in front.
LEMMA AppendFacts ==
  ASSUME NEW s \in Seq(Nat), NEW e \in Nat
  PROVE  /\ Len(s) \in Nat /\ DOMAIN s = 1..Len(s)
         /\ Len(Append(s, e)) = Len(s) + 1
         /\ DOMAIN Append(s, e) = 1..(Len(s) + 1)
         /\ \A i \in 1..Len(s) : Append(s, e)[i] = s[i]
         /\ Append(s, e)[Len(s) + 1] = e
  OBVIOUS

LEMMA TailFacts ==
  ASSUME NEW s \in Seq(Nat), s # << >>
  PROVE  /\ Len(s) \in Nat \ {0} /\ DOMAIN s = 1..Len(s)
         /\ Head(s) = s[1] /\ s[1] \in Nat
         /\ DOMAIN Tail(s) = 1..(Len(s) - 1)
         /\ \A i \in 1..(Len(s) - 1) : Tail(s)[i] = s[i + 1]
  OBVIOUS

\* A call that is put off goes behind the others.
LEMMA ContinuesBehind ==
  ASSUME TypeOK, Continues, sent' = sent, Len(sent) <= requested,
         \/ deferred' = Append(deferred, 0) /\ requested' = requested
         \/ deferred' = Append(deferred, requested + 1) /\ requested' = requested + 1
  PROVE  Continues'
<1>1. deferred \in Seq(Nat) /\ requested \in Nat /\ Len(sent) \in Nat
  BY DEF TypeOK, DataOK
<1>2. PICK e \in Nat : /\ deferred' = Append(deferred, e)
                       /\ \/ e = 0 /\ requested' = requested
                          \/ e = requested + 1 /\ requested' = requested + 1
  BY <1>1
<1>3. /\ DOMAIN deferred = 1..Len(deferred) /\ Len(deferred) \in Nat
      /\ DOMAIN deferred' = 1..(Len(deferred) + 1)
      /\ \A i \in 1..Len(deferred) : deferred'[i] = deferred[i]
      /\ deferred'[Len(deferred) + 1] = e
  BY <1>1, <1>2, AppendFacts
<1>4. \A i \in 1..(Len(deferred) + 1) : i \in 1..Len(deferred) \/ i = Len(deferred) + 1
  BY <1>3
<1>5. \A i \in DOMAIN deferred' :
        deferred'[i] # Progress => deferred'[i] \in (Len(sent) + 1)..requested'
  BY <1>1, <1>2, <1>3, <1>4 DEF Continues, Progress
<1>6. \A i, j \in DOMAIN deferred' :
        i < j /\ deferred'[i] # Progress /\ deferred'[j] # Progress => deferred'[i] < deferred'[j]
  BY <1>1, <1>2, <1>3, <1>4 DEF Continues, Progress
<1>7. \A n \in (Len(sent) + 1)..requested' : \E i \in DOMAIN deferred' : deferred'[i] = n
  BY <1>1, <1>2, <1>3 DEF Continues
<1> QED  BY <1>5, <1>6, <1>7 DEF Continues

\* The call that was put off first is the next event, or a progress event.
LEMMA ContinuesAhead ==
  ASSUME TypeOK, Continues, deferred # << >>, deferred' = Tail(deferred), requested' = requested,
         \/ Head(deferred) = Progress /\ sent' = sent
         \/ Head(deferred) # Progress /\ sent' = Append(sent, Head(deferred))
  PROVE  /\ Continues'
         /\ Head(deferred) # Progress =>
              Head(deferred) = Len(sent) + 1 /\ Head(deferred) <= requested
<1>1. deferred \in Seq(Nat) /\ requested \in Nat /\ Len(sent) \in Nat /\ sent \in Seq(Nat)
  BY DEF TypeOK, DataOK
<1>2. /\ DOMAIN deferred = 1..Len(deferred) /\ Len(deferred) \in Nat \ {0}
      /\ Head(deferred) = deferred[1] /\ deferred[1] \in Nat
      /\ DOMAIN deferred' = 1..(Len(deferred) - 1)
      /\ \A i \in 1..(Len(deferred) - 1) : deferred'[i] = deferred[i + 1]
  BY <1>1, TailFacts
<1>3. \A i \in DOMAIN deferred' : i + 1 \in DOMAIN deferred /\ 1 < i + 1
  BY <1>2
<1>4. \A i \in DOMAIN deferred : i # 1 => 1 < i /\ i - 1 \in DOMAIN deferred' /\ (i - 1) + 1 = i
  <2> SUFFICES ASSUME NEW i \in DOMAIN deferred, i # 1
               PROVE  1 < i /\ i - 1 \in DOMAIN deferred' /\ (i - 1) + 1 = i
    OBVIOUS
  <2>1. i \in 1..Len(deferred)
    BY <1>2
  <2>2. i - 1 \in 1..(Len(deferred) - 1)
    BY <1>2, <2>1
  <2> QED  BY <1>2, <2>1, <2>2
<1>5. 1 \in DOMAIN deferred
  BY <1>2
<1>6. deferred[1] # Progress => deferred[1] = Len(sent) + 1 /\ deferred[1] <= requested
  <2> SUFFICES ASSUME deferred[1] # Progress
               PROVE  deferred[1] = Len(sent) + 1 /\ deferred[1] <= requested
    OBVIOUS
  <2>1. deferred[1] \in (Len(sent) + 1)..requested
    BY <1>5 DEF Continues
  <2>2. PICK i \in DOMAIN deferred : deferred[i] = Len(sent) + 1
    BY <1>1, <2>1 DEF Continues
  <2>3. i = 1
    <3>1. 1 < i => deferred[1] < deferred[i]
      BY <1>1, <1>5, <2>1, <2>2 DEF Continues, Progress
    <3>2. ~(deferred[1] < deferred[i])
      BY <1>1, <2>1, <2>2
    <3>3. i \in 1..Len(deferred)
      BY <1>2
    <3> QED  BY <3>1, <3>2, <3>3
  <2> QED  BY <1>1, <2>1, <2>2, <2>3
<1>7. Len(sent') = IF deferred[1] = Progress THEN Len(sent) ELSE Len(sent) + 1
  BY <1>1, <1>2, AppendFacts DEF Progress
<1>8. \A i, j \in DOMAIN deferred' :
        i < j /\ deferred'[i] # Progress /\ deferred'[j] # Progress => deferred'[i] < deferred'[j]
  BY <1>2, <1>3 DEF Continues
<1>9. \A i \in DOMAIN deferred' :
        deferred'[i] # Progress => deferred'[i] \in (Len(sent') + 1)..requested
  <2> SUFFICES ASSUME NEW i \in DOMAIN deferred', deferred'[i] # Progress
               PROVE  deferred'[i] \in (Len(sent') + 1)..requested
    OBVIOUS
  <2>1. deferred'[i] = deferred[i + 1] /\ i + 1 \in DOMAIN deferred /\ 1 < i + 1
    BY <1>2, <1>3
  <2>2. deferred[i + 1] \in (Len(sent) + 1)..requested
    BY <2>1 DEF Continues
  <2>3. deferred[1] # Progress => deferred[1] < deferred[i + 1]
    BY <1>5, <2>1 DEF Continues
  <2> QED  BY <1>1, <1>6, <1>7, <2>1, <2>2, <2>3
<1>10. \A n \in (Len(sent') + 1)..requested : \E i \in DOMAIN deferred' : deferred'[i] = n
  <2> SUFFICES ASSUME NEW n \in (Len(sent') + 1)..requested
               PROVE  \E i \in DOMAIN deferred' : deferred'[i] = n
    OBVIOUS
  <2>1. n \in (Len(sent) + 1)..requested /\ n # deferred[1]
    BY <1>1, <1>6, <1>7 DEF Progress
  <2>2. PICK k \in DOMAIN deferred : deferred[k] = n
    BY <2>1 DEF Continues
  <2>3. k # 1
    BY <2>1, <2>2
  <2>4. k - 1 \in DOMAIN deferred' /\ (k - 1) + 1 = k
    BY <1>4, <2>3
  <2>5. deferred'[k - 1] = deferred[k]
    BY <1>2, <2>4
  <2> QED  BY <2>2, <2>4, <2>5
<1> QED  BY <1>2, <1>6, <1>8, <1>9, <1>10 DEF Continues

\* The order of the events.
LEMMA OrderStep ==
  ASSUME ~Interrupted, TypeOK, Order, Next
  PROVE  Order'
<1>0. /\ sent \in Seq(Nat) /\ requested \in Nat /\ attached \in BOOLEAN
      /\ Len(sent) \in Nat /\ DOMAIN sent = 1..Len(sent)
  BY DEF TypeOK, FlagsOK, DataOK
<1> USE DEF Progress
<1>1. CASE UNCHANGED <<init, attached, deferred, requested, sent>>
  BY <1>1 DEF Order, Continues
<1>2. CASE FireInitEvent
  <2>1. UNCHANGED <<deferred, requested, sent>> /\ attached' /\ init' = "fired"
    BY <1>2 DEF FireInitEvent
  <2> QED  BY <2>1 DEF Order, Continues
<1>3. CASE OnEvent /\ attached
  <2>1. /\ requested' = requested + 1 /\ UNCHANGED <<init, attached, deferred>>
        /\ sent' = Append(sent, requested + 1)
    BY <1>3 DEF OnEvent
  <2>2. deferred = << >>
    BY <1>3 DEF OnEvent, Interrupts, Calling
  <2>3. Len(sent) = requested
    <3>1. ~(Len(sent) + 1 <= requested)
      BY <1>0, <2>2 DEF Order, Continues
    <3>2. Len(sent) <= requested
      BY DEF Order
    <3>3. Len(sent) \in Nat /\ requested \in Nat
      BY <1>0
    <3> QED  BY <3>1, <3>2, <3>3
  <2>4. /\ Len(sent') = requested + 1 /\ DOMAIN sent' = 1..(requested + 1)
        /\ \A i \in 1..requested : sent'[i] = sent[i]
        /\ sent'[requested + 1] = requested + 1
    BY <1>0, <2>1, <2>3, AppendFacts
  <2>5. \A i \in DOMAIN sent' : sent'[i] = i
    BY <1>0, <2>3, <2>4 DEF Order
  <2>6. DOMAIN deferred' = {} /\ ~\E n \in (Len(sent') + 1)..requested' : TRUE
    BY <1>0, <2>1, <2>2, <2>4
  <2>7. Continues'
    BY <2>6 DEF Continues
  <2> QED  BY <1>0, <1>3, <2>1, <2>4, <2>5, <2>7 DEF Order
<1>4. CASE OnEvent /\ ~attached
  <2>1. /\ requested' = requested + 1 /\ UNCHANGED <<init, attached, sent>>
        /\ deferred' = Append(deferred, requested + 1)
    BY <1>4 DEF OnEvent
  <2>2. Continues'
    BY <2>1, ContinuesBehind DEF Order
  <2> QED  BY <1>0, <2>1, <2>2 DEF Order
<1>5. CASE SetPlugin
  <2>1. /\ attached /\ deferred # << >> /\ deferred' = Tail(deferred)
        /\ UNCHANGED <<init, attached, requested>>
        /\ \/ Head(deferred) = Progress /\ sent' = sent
           \/ Head(deferred) # Progress /\ sent' = Append(sent, Head(deferred))
    BY <1>5 DEF SetPlugin, Calling
  <2>2. /\ Continues'
        /\ Head(deferred) # Progress =>
             Head(deferred) = Len(sent) + 1 /\ Head(deferred) <= requested
    BY <2>1, ContinuesAhead DEF Order
  <2>3. CASE sent' = sent
    BY <2>1, <2>2, <2>3 DEF Order
  <2>4. CASE sent' # sent
    <3>1. /\ sent' = Append(sent, Len(sent) + 1) /\ Len(sent) + 1 <= requested
      BY <2>1, <2>2, <2>4
    <3>2. /\ Len(sent') = Len(sent) + 1 /\ DOMAIN sent' = 1..(Len(sent) + 1)
          /\ \A i \in 1..Len(sent) : sent'[i] = sent[i]
          /\ sent'[Len(sent) + 1] = Len(sent) + 1
      BY <1>0, <3>1, AppendFacts
    <3>3. \A i \in DOMAIN sent' : sent'[i] = i
      BY <1>0, <3>2 DEF Order
    <3> QED  BY <1>0, <2>1, <2>2, <3>1, <3>2, <3>3 DEF Order
  <2> QED  BY <2>3, <2>4
<1>6. CASE UNCHANGED <<init, attached, requested, sent>> /\ SendProgress
  <2>1. CASE attached
    BY <1>6, <2>1 DEF SendProgress, Order, Continues
  <2>2. CASE ~attached
    <3>1. deferred' = Append(deferred, 0)
      BY <1>6, <2>2 DEF SendProgress
    <3>2. Continues'
      BY <1>6, <3>1, ContinuesBehind DEF Order
    <3> QED  BY <1>6, <3>2 DEF Order
  <2> QED  BY <2>1, <2>2
<1>7. CASE GetScriptableObject
  BY <1>7 DEF GetScriptableObject, Order, Continues
<1> QED
  BY <1>1, <1>2, <1>3, <1>4, <1>5, <1>6, <1>7
  DEF Next, Handlers, OnProgressChange, EndUpdate, OnRunThrottled, Tick, shownVars

\* The time between the progress events.
LEMMA SpacingStep ==
  ASSUME TypeOK, Spacing, Next
  PROVE  Spacing'
<1>0. /\ gap \in 0..Delay /\ Delay \in Nat /\ Threshold \in Nat /\ Threshold < Delay
      /\ updating \in BOOLEAN /\ delaying \in BOOLEAN /\ putOff \in BOOLEAN
      /\ waits \in Seq(0..Delay) /\ ~rapid
      /\ \A i \in DOMAIN waits : waits[i] \in 0..Delay
  BY EventsAssumption DEF TypeOK, FlagsOK, DataOK, Spacing
<1>1. CASE UNCHANGED <<updating, delaying, waits, gap, putOff, rapid>>
  BY <1>1 DEF Spacing
<1>2. CASE SetPlugin
  <2>1. UNCHANGED <<updating, delaying, waits>>
    BY <1>2 DEF SetPlugin, throttleVars
  <2>2. UNCHANGED <<gap, putOff, rapid>> \/ (putOff' /\ ~rapid')
    BY <1>0, <1>2 DEF SetPlugin, Tell, shownVars
  <2> QED  BY <2>1, <2>2 DEF Spacing
<1>3. CASE OnProgressChange /\ ~(updating \/ scheduled \/ delaying)
  <2>1. updating' /\ ~delaying /\ UNCHANGED <<delaying, waits>> /\ SendProgress
    BY <1>3 DEF OnProgressChange
  <2>2. \/ UNCHANGED <<gap, putOff, rapid>>
        \/ /\ gap' = 0 /\ ~putOff'
           /\ rapid' => gap < Delay - Threshold /\ ~putOff
    BY <1>0, <2>1 DEF SendProgress, Tell, shownVars
  <2> QED  BY <1>0, <1>3, <2>1, <2>2 DEF Spacing
<1>4. CASE EndUpdate
  <2>1. /\ UNCHANGED <<gap, putOff, rapid>>
        /\ updating /\ ~updating' /\ delaying' /\ waits' = Append(waits, Delay)
    BY <1>4 DEF EndUpdate, shownVars
  <2>2. ~delaying /\ waits = << >>
    BY <1>0, <2>1 DEF Spacing
  <2>3. Len(waits') = 1 /\ waits'[1] = Delay
    BY <2>1, <2>2
  <2> QED  BY <1>0, <2>1, <2>3 DEF Spacing
<1>5. CASE OnRunThrottled
  <2>1. /\ ~updating /\ ~delaying'
        /\ waits # << >> /\ Head(waits) <= Threshold /\ waits' = Tail(waits)
    BY <1>5 DEF OnRunThrottled
  <2>2. delaying /\ waits[1] <= Threshold /\ waits[1] \in Nat /\ waits' = << >>
    <3>1. waits \in Seq(0..Delay) /\ Len(waits) # 0
      BY <1>0, <2>1
    <3>2. delaying /\ Len(waits) = 1
      BY <3>1 DEF Spacing
    <3>3. waits[1] \in Nat
      BY <1>0, <3>1, <3>2
    <3>4. Head(waits) = waits[1]
      BY <3>1
    <3>5. Tail(waits) \in Seq(0..Delay) /\ Len(Tail(waits)) = 0
      BY <3>1, <3>2
    <3>6. waits' = << >>
      BY <2>1, <3>5
    <3> QED  BY <2>1, <3>2, <3>3, <3>4, <3>6
  <2>3. ~putOff => ~(gap < Delay - Threshold)
    BY <1>0, <2>2 DEF Spacing
  <2>4. \/ UNCHANGED <<updating, gap, putOff, rapid>>
        \/ updating' /\ UNCHANGED <<gap, putOff, rapid>>
        \/ /\ updating' /\ gap' = 0 /\ ~putOff'
           /\ rapid' => gap < Delay - Threshold /\ ~putOff
    BY <1>0, <1>5 DEF OnRunThrottled, SendProgress, Tell, shownVars
  <2> QED  BY <1>0, <2>1, <2>2, <2>3, <2>4 DEF Spacing
<1>6. CASE Tick
  <2>1. /\ UNCHANGED <<updating, delaying, putOff, rapid>>
        /\ gap' = IF gap = Delay THEN Delay ELSE gap + 1
        /\ waits' = [i \in DOMAIN waits |-> IF waits[i] = 0 THEN 0 ELSE waits[i] - 1]
    BY <1>6 DEF Tick
  <2>2. Len(waits') = Len(waits)
    BY <1>0, <2>1
  <2>3. delaying => waits'[1] = IF waits[1] = 0 THEN 0 ELSE waits[1] - 1
    BY <1>0, <2>1 DEF Spacing
  <2>4. delaying => waits[1] \in 0..Delay
    BY <1>0 DEF Spacing
  <2> QED  BY <1>0, <2>1, <2>2, <2>3, <2>4 DEF Spacing
<1> QED
  BY <1>1, <1>2, <1>3, <1>4, <1>5, <1>6
  DEF Next, Handlers, GetScriptableObject, FireInitEvent, OnEvent, OnProgressChange,
      throttleVars, shownVars

\* The throttle, whatever interrupts SetPlugin.
LEMMA ThrottleInv == Spec => [](TypeOK /\ Spacing)
<1>1. TypeOK /\ Spacing /\ [Next]_eventVars => (TypeOK /\ Spacing)'
  <2> SUFFICES ASSUME TypeOK, Spacing, [Next]_eventVars PROVE TypeOK' /\ Spacing'
    OBVIOUS
  <2>1. CASE Next
    BY <2>1, TypeStep, SpacingStep
  <2>2. CASE UNCHANGED eventVars
    BY <2>2 DEF eventVars, throttleVars, shownVars, TypeOK, FlagsOK, DataOK, Spacing
  <2> QED  BY <2>1, <2>2
<1>2. Init => TypeOK /\ Spacing
  BY InitIInv DEF IInv
<1> QED  BY <1>1, <1>2, PTL DEF Spec

\* The inductive invariant, while SetPlugin is not interrupted.
THEOREM Inductive ==
  ASSUME ~Interrupted
  PROVE  Spec => []IInv
<1>1. IInv /\ [Next]_eventVars => IInv'
  <2> SUFFICES ASSUME IInv, [Next]_eventVars PROVE IInv'
    OBVIOUS
  <2>1. CASE Next
    BY <2>1, TypeStep, OrderStep, SpacingStep DEF IInv
  <2>2. CASE UNCHANGED eventVars
    BY <2>2
    DEF eventVars, throttleVars, shownVars, IInv, TypeOK, FlagsOK, DataOK, Order, Continues, Spacing
  <2> QED  BY <2>1, <2>2
<1> QED  BY InitIInv, <1>1, PTL DEF Spec

(* Firefox gets the events in the order in which they were asked for, none twice
   and none left out, whichever were put off until SetPlugin.               *)
THEOREM NoneOutOfOrder ==
  ASSUME ~Interrupted
  PROVE  Spec => []EventsInOrder
<1>1. IInv => EventsInOrder
  BY DEF IInv, TypeOK, FlagsOK, DataOK, Order, Continues, EventsInOrder
<1> QED  BY <1>1, Inductive, PTL

(* Progress events are at least tc.timeoutMillis apart, less what a timer may be
   early, but for those put off until the plugin was there.                  *)
THEOREM Throttled == Spec => []NotSentRapidly
<1>1. Spacing => NotSentRapidly
  BY DEF Spacing, NotSentRapidly
<1> QED  BY <1>1, ThrottleInv, PTL
-----------------------------------------------------------------------------
(* UtilsPlugin.                                                            *)

Places == {"down", "idle", "change", "backup", "redirect", "install", "restore", "forget"}

Managers == [initialized : BOOLEAN, runningOOP : BOOLEAN, reloading : BOOLEAN, changed : BOOLEAN,
             failed : BOOLEAN, checker : BOOLEAN, reinstall : BOOLEAN]

\* The bounds of the model-checked instances do not matter to the proof.
UtilsTypeOK == /\ setting \in Firefoxes \cup {User}
               /\ backup \in {Nothing, User}
               /\ mutex \in Firefoxes \cup {Nobody}
               /\ at \in [Firefoxes -> Places]
               /\ plugin \in [Firefoxes -> {"none", "alive", "dead"}]
               /\ prefs \in [Firefoxes -> BOOLEAN]
               /\ told \in [Firefoxes -> BOOLEAN \cup {Nothing}]
               /\ manager \in [Firefoxes -> Managers]
               /\ host \in [Firefoxes -> Hosts]

\* Who has begun to change the setting and has not put it back holds the mutex.
Holds(p) == at[p] \in {"backup", "redirect", "restore", "forget"} \/ manager[p].changed

\* What a Firefox has done in the registry stands until it goes on.
Stands(p) == /\ Holds(p) => mutex = p
             /\ at[p] = "redirect" => backup = User
             /\ at[p] = "forget" => setting = User

UtilsInv == UtilsTypeOK /\ SettingSafe /\ \A p \in Firefoxes : Stands(p)

\* Before any Firefox has started.
LEMMA UtilsInitInv == UtilsInit => UtilsInv
  BY UtilsPluginAssumption
  DEF UtilsInit, UtilsInv, UtilsTypeOK, SettingSafe, Stands, Holds, Places, Managers, NewManager, Nobody

\* What one Firefox does, the others may rely on: the registry is changed only by
\* one that has the mutex.
LEMMA OthersStand ==
  ASSUME UtilsInv, UtilsTypeOK', SettingSafe', NEW f \in Firefoxes, Stands(f)',
         \A p \in Firefoxes : p # f => at'[p] = at[p] /\ manager'[p] = manager[p],
         \/ Holds(f)
         \/ UNCHANGED <<setting, backup>> /\ (mutex \in Firefoxes \ {f} => mutex' = mutex)
  PROVE  UtilsInv'
<1> SUFFICES ASSUME NEW p \in Firefoxes, p # f PROVE Stands(p)'
  BY DEF UtilsInv
<1>1. Holds(p)' <=> Holds(p)
  BY DEF Holds
<1>2. Stands(p) /\ Stands(f)
  BY DEF UtilsInv
<1>3. CASE ~Holds(p)
  BY <1>1, <1>3 DEF Stands, Holds
<1>4. CASE Holds(p)
  <2>1. mutex = p
    BY <1>2, <1>4 DEF Stands
  <2>2. ~Holds(f)
    BY <1>2, <2>1 DEF Stands
  <2>3. mutex' = mutex /\ setting' = setting /\ backup' = backup
    BY <2>1, <2>2
  <2> QED  BY <1>2, <2>1, <2>3 DEF Stands
<1> QED  BY <1>3, <1>4

\* The registry and the mutex stay as they are, and the main thread of f
\* goes nowhere it must have the mutex for.
LEMMA ElsewhereStand ==
  ASSUME UtilsInv, UtilsTypeOK', UNCHANGED registry, NEW f \in Firefoxes,
         \A p \in Firefoxes : p # f => at'[p] = at[p] /\ manager'[p] = manager[p],
         Holds(f)' => Holds(f), at'[f] \notin {"redirect", "forget"}
  PROVE  UtilsInv'
<1>1. SettingSafe' /\ Stands(f)'
  BY DEF UtilsInv, SettingSafe, Stands, registry
<1> QED  BY <1>1, OthersStand DEF registry, Nobody

\* In a registry that works, what is read is what is there, and what is written
\* is there.
LEMMA RegistryWorks ==
  ASSUME ~RegistryFails
  PROVE  \A v, w, x : /\ x \in Reads(v) <=> x = v
                      /\ x \in Writes(v, w) <=> x = w
  BY DEF Reads, Writes

\* The steps in the registry, one at a time.
LEMMA MainThreadStep ==
  ASSUME ~RegistryFails, UtilsInv, UtilsTypeOK', NEW f \in Firefoxes, MainThread(f)
  PROVE  UtilsInv'
<1> USE UtilsPluginAssumption DEF UtilsTypeOK, Go, Nobody
<1>0. UtilsTypeOK /\ SettingSafe /\ Stands(f)
  BY DEF UtilsInv
<1> DEFINE Others == \A p \in Firefoxes : p # f => at'[p] = at[p] /\ manager'[p] = manager[p]
<1>1. CASE Acquire(f)
  <2>1. Others /\ at'[f] = "backup" /\ manager' = manager
    BY <1>0, <1>1 DEF Acquire
  <2>2. SettingSafe' /\ Stands(f)'
    BY <1>0, <1>1, <2>1 DEF Acquire, SettingSafe, Stands
  <2> QED  BY <1>1, <2>1, <2>2, OthersStand DEF Acquire
<1>2. CASE DoNotChange(f)
  <2>1. Others /\ at'[f] = "install" /\ manager' = manager /\ UNCHANGED registry
    BY <1>0, <1>2 DEF DoNotChange
  <2> QED  BY <2>1, ElsewhereStand DEF Holds
<1>3. CASE BackUp(f)
  <2>1. Others /\ Holds(f) /\ mutex' = mutex /\ at'[f] \in {"redirect", "install"}
    BY <1>0, <1>3, RegistryWorks DEF BackUp, Holds
  <2>2. SettingSafe' /\ (at'[f] = "redirect" => backup' = User)
    <3>1. \/ backup' = IF backup = Nothing THEN setting ELSE backup
          \/ backup' = backup /\ at'[f] = "install"
      <4>1. PICK original \in Reads(setting), kept \in Reads(backup) :
              \/ backup' = IF kept = Nothing THEN original ELSE backup
              \/ backup' = backup /\ at' = [at EXCEPT ![f] = "install"]
        BY <1>3 DEF BackUp
      <4>2. original = setting /\ kept = backup
        BY RegistryWorks
      <4> QED  BY <1>0, <4>1, <4>2
    <3> QED  BY <1>0, <1>3, <3>1 DEF BackUp, SettingSafe
  <2>3. Stands(f)'
    BY <1>0, <2>1, <2>2 DEF Stands
  <2> QED  BY <2>1, <2>2, <2>3, OthersStand
<1>4. CASE Redirect(f)
  <2>1. Others /\ Holds(f) /\ mutex' = mutex /\ at'[f] = "install"
    BY <1>0, <1>4 DEF Redirect, Holds
  <2>2. SettingSafe' /\ Stands(f)'
    BY <1>0, <1>4, <2>1 DEF Redirect, SettingSafe, Stands
  <2> QED  BY <2>1, <2>2, OthersStand
<1>5. CASE Install(f)
  <2>1. Others /\ at'[f] = "idle" /\ manager'[f].changed = manager[f].changed /\ UNCHANGED registry
    BY <1>0, <1>5 DEF Install, Managers
  <2> QED  BY <2>1, ElsewhereStand DEF Holds
<1>6. CASE Restore(f)
  <2>1. Others /\ Holds(f) /\ backup' = backup
    BY <1>0, <1>6, RegistryWorks DEF Restore, EndRestore, Holds
  <2>2. CASE backup # Nothing
    <3>1. setting' = User /\ mutex' = mutex /\ at'[f] = "forget"
      <4>1. backup = User
        BY <1>0, <2>2 DEF SettingSafe
      <4>2. PICK kept \in Reads(backup) :
              \/ /\ setting' \in Writes(setting, kept)
                 /\ Go(f, "forget") /\ UNCHANGED <<mutex, manager>>
              \/ kept = Nothing
        BY <1>6 DEF Restore
      <4>3. kept = User
        BY <4>1, RegistryWorks
      <4>4. setting' \in Writes(setting, User) /\ Go(f, "forget") /\ UNCHANGED mutex
        BY <4>2, <4>3, UtilsPluginAssumption
      <4>5. setting' = User
        BY <4>4, RegistryWorks
      <4> QED  BY <1>0, <4>4, <4>5
    <3>2. SettingSafe' /\ Stands(f)'
      BY <1>0, <2>1, <3>1 DEF SettingSafe, Stands
    <3> QED  BY <2>1, <3>2, OthersStand
  <2>3. CASE backup = Nothing
    <3>1. setting' = setting /\ at'[f] = "idle" /\ ~manager'[f].changed
      <4>1. EndRestore(f) /\ UNCHANGED setting
        BY <1>6, <2>3, RegistryWorks DEF Restore
      <4> QED  BY <1>0, <4>1 DEF EndRestore, Managers
    <3>2. SettingSafe' /\ Stands(f)'
      BY <1>0, <2>1, <3>1 DEF SettingSafe, Stands, Holds
    <3> QED  BY <2>1, <3>2, OthersStand
  <2> QED  BY <2>2, <2>3
<1>7. CASE Forget(f)
  <2>1. Others /\ Holds(f) /\ at'[f] = "idle" /\ ~manager'[f].changed
    BY <1>0, <1>7 DEF Forget, EndRestore, Holds, Managers
  <2>2. SettingSafe' /\ Stands(f)'
    BY <1>0, <1>7, <2>1, RegistryWorks DEF Forget, SettingSafe, Stands, Holds
  <2> QED  BY <2>1, <2>2, OthersStand
<1> QED  BY <1>1, <1>2, <1>3, <1>4, <1>5, <1>6, <1>7 DEF MainThread

\* A handler begins to put the setting back only if its Firefox has changed it.
LEMMA HandlerStep ==
  ASSUME UtilsInv, UtilsTypeOK', NEW f \in Firefoxes,
         UtilsHandlers(f) \/ AskReload(f) \/ AnswerReload(f) \/ OnPrefChanged(f) \/ Crash(f) \/ Start(f)
  PROVE  UtilsInv'
<1> USE DEF UtilsTypeOK, Go, Idle
<1>0. UtilsTypeOK
  BY DEF UtilsInv
<1>1. UNCHANGED registry
  BY DEF UtilsHandlers, OnIEUserAgentReceived, OnPluginLoadFailure, DelayedPluginChecker, OnInitialized,
         CheckPluginCrash, ReinstallPlugin, Reinstall, AskReload, AnswerReload, ReloadPluginProcess,
         OnPrefChanged, Crash, Start
<1>2. \A p \in Firefoxes : p # f => at'[p] = at[p] /\ manager'[p] = manager[p]
  BY <1>0 DEF UtilsHandlers, OnIEUserAgentReceived, OnPluginLoadFailure, DelayedPluginChecker, OnInitialized,
         CheckPluginCrash, ReinstallPlugin, Reinstall, AskReload, AnswerReload, ReloadPluginProcess,
         OnPrefChanged, Crash, Start, LoadFailure, BeginRestore
<1>3. manager'[f].changed = manager[f].changed
  BY <1>0 DEF UtilsHandlers, OnIEUserAgentReceived, OnPluginLoadFailure, DelayedPluginChecker, OnInitialized,
         CheckPluginCrash, ReinstallPlugin, Reinstall, AskReload, AnswerReload, ReloadPluginProcess,
         OnPrefChanged, Crash, Start, LoadFailure, BeginRestore, Managers
<1>4. \/ at'[f] = at[f]
      \/ at'[f] \in {"idle", "change"}
      \/ at'[f] = "restore" /\ manager[f].changed
  BY <1>0 DEF UtilsHandlers, OnIEUserAgentReceived, OnPluginLoadFailure, DelayedPluginChecker, OnInitialized,
         CheckPluginCrash, ReinstallPlugin, Reinstall, AskReload, AnswerReload, ReloadPluginProcess,
         OnPrefChanged, Crash, Start, LoadFailure, BeginRestore
<1>5. Holds(f)' => Holds(f)
  BY <1>3, <1>4 DEF Holds
<1>6. Stands(f)' /\ SettingSafe'
  BY <1>1, <1>4, <1>5 DEF UtilsInv, Stands, SettingSafe, registry
<1> QED  BY <1>1, <1>2, <1>6, OthersStand DEF registry

\* The mutex is abandoned, and what was kept is kept.
LEMMA EndStep ==
  ASSUME UtilsInv, UtilsTypeOK', NEW f \in Firefoxes, End(f)
  PROVE  UtilsInv'
<1> USE DEF UtilsTypeOK, Go
<1>1. /\ \A p \in Firefoxes : p # f => at'[p] = at[p] /\ manager'[p] = manager[p]
      /\ at'[f] = "down" /\ ~manager'[f].changed /\ UNCHANGED <<setting, backup>>
      /\ mutex \in Firefoxes \ {f} => mutex' = mutex
  BY DEF UtilsInv, End, NewManager
<1>2. SettingSafe' /\ Stands(f)'
  BY <1>1 DEF UtilsInv, SettingSafe, Stands, Holds
<1> QED  BY <1>1, <1>2, OthersStand

\* The flags stay flags.
LEMMA FlagTypes ==
  ASSUME UtilsTypeOK, NEW f \in Firefoxes, NEW b \in BOOLEAN, NEW c \in BOOLEAN,
         \/ manager' = manager
         \/ manager' = [manager EXCEPT ![f].changed = b]
         \/ manager' = [manager EXCEPT ![f].reloading = b]
         \/ manager' = [manager EXCEPT ![f].checker = b]
         \/ manager' = [manager EXCEPT ![f].checker = b, ![f].failed = c]
         \/ manager' = [manager EXCEPT ![f].checker = b, ![f].runningOOP = c]
         \/ manager' = [manager EXCEPT ![f].initialized = b, ![f].reloading = c, ![f].reinstall = TRUE]
         \/ manager' = [manager EXCEPT ![f].initialized = TRUE, ![f].reloading = b, ![f].runningOOP = c]
  PROVE  manager' \in [Firefoxes -> Managers]
<1>1. manager[f] \in Managers /\ manager \in [Firefoxes -> Managers]
  BY DEF UtilsTypeOK
<1>2. /\ [manager[f] EXCEPT !.changed = b] \in Managers
      /\ [manager[f] EXCEPT !.reloading = b] \in Managers
      /\ [manager[f] EXCEPT !.checker = b] \in Managers
      /\ [manager[f] EXCEPT !.checker = b, !.failed = c] \in Managers
      /\ [manager[f] EXCEPT !.checker = b, !.runningOOP = c] \in Managers
      /\ [manager[f] EXCEPT !.initialized = b, !.reloading = c, !.reinstall = TRUE] \in Managers
      /\ [manager[f] EXCEPT !.initialized = TRUE, !.reloading = b, !.runningOOP = c] \in Managers
  BY <1>1 DEF Managers
<1>3. PICK m \in Managers : manager' = [manager EXCEPT ![f] = m]
  BY <1>1, <1>2
<1> QED  BY <1>1, <1>3

\* The flags that reinstall() sets, and the element it removes.
LEMMA ReinstallTypes ==
  ASSUME UtilsTypeOK, NEW f \in Firefoxes, NEW b \in BOOLEAN, Reinstall(f, b),
         UNCHANGED <<registry, at, prefs, host>>
  PROVE  UtilsTypeOK'
<1>1. manager' \in [Firefoxes -> Managers]
  BY FlagTypes DEF Reinstall
<1> QED  BY <1>1 DEF Reinstall, UtilsTypeOK, BecomesOf, registry

\* Types: one action at a time.
LEMMA UtilsTypeStep ==
  ASSUME ~RegistryFails, UtilsTypeOK, SettingSafe, [UtilsNext]_utilsVars
  PROVE  UtilsTypeOK'
<1> USE DEF Go, Idle, BecomesOf, Nobody
<1> DEFINE Flags == manager' \in [Firefoxes -> Managers]
<1>1. ASSUME NEW f \in Firefoxes, MainThread(f) PROVE UtilsTypeOK'
  <2>1. CASE Acquire(f)  BY <2>1 DEF Acquire, UtilsTypeOK, Places
  <2>2. CASE DoNotChange(f)  BY <2>2 DEF DoNotChange, UtilsTypeOK, Places, registry
  <2>3. CASE BackUp(f)
    <3>1. Flags
      BY <2>3, FlagTypes DEF BackUp
    <3>2. backup' \in {Nothing, User}
      BY <2>3, RegistryWorks DEF BackUp, SettingSafe
    <3> QED  BY <2>3, <3>1, <3>2 DEF BackUp, UtilsTypeOK, Places
  <2>4. CASE Redirect(f)
    <3>1. Flags
      BY <2>4, FlagTypes DEF Redirect
    <3> QED  BY <2>4, <3>1 DEF Redirect, UtilsTypeOK, Places
  <2>5. CASE Install(f)
    <3>1. Flags
      <4>1. host[f].pref \in BOOLEAN
        BY DEF UtilsTypeOK, Hosts
      <4> QED  BY <2>5, <4>1, FlagTypes DEF Install
    <3> QED  BY <2>5, <3>1 DEF Install, UtilsTypeOK, Places, registry
  <2>6. CASE Restore(f)
    <3>1. Flags
      BY <2>6, FlagTypes DEF Restore, EndRestore
    <3>2. setting' \in Firefoxes \cup {User} /\ mutex' \in Firefoxes \cup {Nobody}
      BY <2>6, RegistryWorks DEF Restore, EndRestore, UtilsTypeOK
    <3> QED  BY <2>6, <3>1, <3>2 DEF Restore, EndRestore, UtilsTypeOK, Places
  <2>7. CASE Forget(f)
    <3>1. Flags
      BY <2>7, FlagTypes DEF Forget, EndRestore
    <3>2. backup' = Nothing
      BY <2>7, RegistryWorks DEF Forget
    <3> QED  BY <2>7, <3>1, <3>2 DEF Forget, EndRestore, UtilsTypeOK, Places
  <2> QED  BY <1>1, <2>1, <2>2, <2>3, <2>4, <2>5, <2>6, <2>7 DEF MainThread
<1>2. ASSUME NEW f \in Firefoxes, UtilsHandlers(f) PROVE UtilsTypeOK'
  <2>1. CASE OnIEUserAgentReceived(f)
    BY <2>1 DEF OnIEUserAgentReceived, BeginRestore, UtilsTypeOK, Places, registry
  <2>2. CASE OnPluginLoadFailure(f)
    <3>1. Flags
      BY <2>2 DEF OnPluginLoadFailure, UtilsTypeOK, Managers
    <3>2. at' \in [Firefoxes -> Places]
      BY <2>2 DEF OnPluginLoadFailure, LoadFailure, BeginRestore, UtilsTypeOK, Places
    <3> QED  BY <2>2, <3>1, <3>2 DEF OnPluginLoadFailure, UtilsTypeOK, registry
  <2>3. CASE DelayedPluginChecker(f)
    <3>1. Flags
      BY <2>3, FlagTypes DEF DelayedPluginChecker
    <3>2. at' \in [Firefoxes -> Places]
      BY <2>3 DEF DelayedPluginChecker, LoadFailure, BeginRestore, UtilsTypeOK, Places
    <3> QED  BY <2>3, <3>1, <3>2 DEF DelayedPluginChecker, UtilsTypeOK, registry
  <2>4. CASE OnInitialized(f)
    <3>1. Flags
      <4>1. host[f].oop \in BOOLEAN
        BY DEF UtilsTypeOK, Hosts
      <4> QED  BY <2>4, <4>1, FlagTypes DEF OnInitialized
    <3> QED  BY <2>4, <3>1 DEF OnInitialized, UtilsTypeOK, registry
  <2>5. CASE CheckPluginCrash(f)
    <3>1. manager[f].reloading \in BOOLEAN
      BY DEF UtilsTypeOK, Managers
    <3>2. Reinstall(f, manager[f].reloading) /\ UNCHANGED <<registry, at, prefs, host>>
      BY <2>5 DEF CheckPluginCrash
    <3> QED  BY <3>1, <3>2, ReinstallTypes
  <2>6. CASE ReinstallPlugin(f)
    <3>1. Flags
      BY <2>6 DEF ReinstallPlugin, UtilsTypeOK, Managers
    <3> QED  BY <2>6, <3>1 DEF ReinstallPlugin, UtilsTypeOK, Places, registry
  <2> QED  BY <1>2, <2>1, <2>2, <2>3, <2>4, <2>5, <2>6 DEF UtilsHandlers
<1>3. ASSUME NEW f \in Firefoxes, Start(f) PROVE UtilsTypeOK'
  BY <1>3 DEF Start, UtilsTypeOK, Places, registry
<1>4. ASSUME NEW f \in Firefoxes, AnswerReload(f) PROVE UtilsTypeOK'
  <2>1. UNCHANGED <<registry, at, prefs, host>>
    BY <1>4 DEF AnswerReload
  <2>2. CASE Reinstall(f, TRUE)
    BY <2>1, <2>2, ReinstallTypes
  <2>3. CASE ~Reinstall(f, TRUE)
    <3>1. Flags
      BY <1>4, <2>3, FlagTypes DEF AnswerReload, ReloadPluginProcess
    <3>2. /\ plugin' \in [Firefoxes -> {"none", "alive", "dead"}]
          /\ told' \in [Firefoxes -> BOOLEAN \cup {Nothing}]
      BY <1>4, <2>3 DEF AnswerReload, ReloadPluginProcess, UtilsTypeOK
    <3> QED  BY <2>1, <3>1, <3>2 DEF UtilsTypeOK, registry
  <2> QED  BY <2>2, <2>3
<1>5. ASSUME NEW f \in Firefoxes, AskReload(f) PROVE UtilsTypeOK'
  BY <1>5 DEF AskReload, UtilsTypeOK, registry
<1>6. ASSUME NEW f \in Firefoxes, OnPrefChanged(f) PROVE UtilsTypeOK'
  BY <1>6 DEF OnPrefChanged, UtilsTypeOK, registry
<1>7. ASSUME NEW f \in Firefoxes, Crash(f) PROVE UtilsTypeOK'
  BY <1>7 DEF Crash, UtilsTypeOK, registry
<1>8. ASSUME NEW f \in Firefoxes, End(f) PROVE UtilsTypeOK'
  <2>1. Flags
    BY <1>8 DEF End, NewManager, Managers, UtilsTypeOK
  <2> QED  BY <1>8, <2>1 DEF End, UtilsTypeOK, Places
<1>9. CASE UNCHANGED utilsVars
  BY <1>9 DEF utilsVars, UtilsTypeOK, registry
<1> QED  BY <1>1, <1>2, <1>3, <1>4, <1>5, <1>6, <1>7, <1>8, <1>9 DEF UtilsNext

(* The inductive invariant holds for any set of Firefoxes, if what is in the
   registry can be read and put back: what one has changed there is under the
   mutex until it has been put back or its Firefox has ended, and what it has
   kept in the backup is the user's value.                                   *)
THEOREM UtilsInductive ==
  ASSUME ~RegistryFails  PROVE UtilsSpec => []UtilsInv
<1>1. UtilsInv /\ [UtilsNext]_utilsVars => UtilsInv'
  <2> SUFFICES ASSUME UtilsInv, [UtilsNext]_utilsVars PROVE UtilsInv'
    OBVIOUS
  <2>1. UtilsTypeOK'
    BY UtilsTypeStep DEF UtilsInv
  <2>2. CASE UNCHANGED utilsVars
    BY <2>2 DEF UtilsInv, UtilsTypeOK, SettingSafe, Stands, Holds, utilsVars, registry
  <2>3. CASE UtilsNext
    BY <2>1, <2>3, MainThreadStep, HandlerStep, EndStep DEF UtilsNext
  <2> QED  BY <2>2, <2>3
<1> QED  BY UtilsInitInv, <1>1, PTL DEF UtilsSpec

(* The user's setting is in place or in the backup, whichever Firefox ends or
   loses its plugin when, and however many there are, if what is in the registry
   can be read and put back.                                                 *)
THEOREM UserSettingSafe ==
  ASSUME ~RegistryFails  PROVE UtilsSpec => []SettingSafe
<1>1. UtilsInv => SettingSafe
  BY DEF UtilsInv
<1> QED  BY UtilsInductive, <1>1, PTL

(* Two Firefoxes never change the setting at a time: each one that has begun and
   has not put it back holds the mutex.                                      *)
THEOREM OneAtATime ==
  ASSUME ~RegistryFails
  PROVE  UtilsSpec => [](\A p, q \in Firefoxes : Holds(p) /\ Holds(q) => p = q)
<1>1. UtilsInv => \A p, q \in Firefoxes : Holds(p) /\ Holds(q) => p = q
  BY DEF UtilsInv, Stands
<1> QED  BY UtilsInductive, <1>1, PTL
=============================================================================
