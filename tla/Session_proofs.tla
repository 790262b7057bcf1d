--------------------------- MODULE Session_proofs ---------------------------
(***************************************************************************)
(* Safety of one session's temperature control, for every profile, sensor, *)
(* interval, number of failing writes and use of the outputs.              *)
(*                                                                         *)
(* The session decides on what it remembers, state_, so the invariant is   *)
(* about that; what the outputs do follows from StateKnown.                *)
(***************************************************************************)
EXTENDS Session, TLAPS

\* A call that was to switch something off has failed.
SomeStuck == \E e \in Effector : stuck[e]
\* The effector is remembered as off, unless it would not be switched off.
OffOrStuck(e) == state[e] => stuck[e]

\* What the display shows is true of what is remembered.
Honest ==
  /\ tempControlState \in {"HOLD", "UNKNOWN"} => \A e \in Effector : OffOrStuck(e)
  /\ tempControlState = "COOL" /\ state["heater"] => SomeStuck
  /\ tempControlState = "HEAT" /\ state["cooler"] => SomeStuck

\* What the calls still to be made are, and what those made have achieved.
BothOff(mode) ==
  /\ mode \in {"HOLD", "UNKNOWN"}
  /\ \/ calls = <<SwitchOff("heater"), SwitchOff("cooler")>>
     \/ calls = <<SwitchOff("cooler"), SwitchOff("heater")>>
     \/ calls = <<SwitchOff("cooler")>> /\ OffOrStuck("heater")
     \/ calls = <<SwitchOff("heater")>> /\ OffOrStuck("cooler")
     \/ calls = <<>> /\ Honest

\* The pair of calls that leaves at most one effector on.
OneOn(mode, wanted, mode2, other) ==
  /\ mode = mode2
  /\ \/ calls = <<SwitchOff(other), SwitchOn(wanted)>>
     \/ calls = <<SwitchOn(wanted)>> /\ OffOrStuck(other)
     \/ calls = <<>> /\ Honest

\* The calls of the constructor.
CtorCalls ==
  /\ tempControlState = "HOLD"
  /\ ~state["heater"] /\ ~state["cooler"]
  /\ calls \in {<<SwitchOff("heater"), SwitchOff("cooler")>>, <<SwitchOff("cooler")>>, <<>>}

\* The calls that deactivate the effectors.
DeactivateCalls ==
  \/ calls = Deactivate /\ Honest
  \/ /\ calls = <<SwitchOff("cooler")>>
     /\ ~state["heater"]
     /\ tempControlState \in {"HOLD", "UNKNOWN"} => OffOrStuck("cooler")
  \/ calls = <<>> /\ Honest

\* The calls of stop().
StopCalls ==
  \/ calls = Deactivate
  \/ calls = <<SwitchOff("cooler")>> /\ ~state["heater"]
  \/ calls = <<>> /\ \A e \in Effector : state[e] => SomeStuck

\* The calls that are still to be made are the rest of one of those.
CallsInv ==
  /\ pc \in {"idle", "update", "sense", "target"} => calls = <<>> /\ Honest
  /\ pc = "ctor" => CtorCalls
  /\ pc = "deactivate" => DeactivateCalls
  /\ pc = "effectors" =>
       \/ BothOff(tempControlState)
       \/ OneOn(tempControlState, "cooler", "COOL", "heater")
       \/ OneOn(tempControlState, "heater", "HEAT", "cooler")
  /\ pc = "stop" => StopCalls
  /\ pc = "stopped" => calls = <<>> /\ \A e \in Effector : state[e] => SomeStuck

\* NeverBoth, of what is remembered.
Exclusive == state["heater"] /\ state["cooler"] => stuck["heater"] \/ stuck["cooler"]

\* An effector that is not fitted is off.
UnfittedOff == \A e \in Effector \ fitted : ~state[e]

\* The inductive invariant.
IInv == StateKnown /\ UnfittedOff /\ Exclusive /\ CallsInv

-----------------------------------------------------------------------------
\* Effectors have channels.
LEMMA ChannelType ==
  ASSUME EffectorsTypeOK
  PROVE  channel \in [Effector -> Nat] /\ fitted \subseteq Effector
  BY EffectorAssumption DEF EffectorsTypeOK

\* What a call of activate() does to the outputs, state_ still tells, whichever
\* other effectors have the same output.
LEMMA ActivateKnown ==
  ASSUME EffectorsTypeOK, StateKnown,
         NEW e \in Effector, NEW on \in BOOLEAN, NEW ok \in BOOLEAN, Activate(e, on, ok)
  PROVE  StateKnown' /\ EffectorsTypeOK'
<1>1. CASE UNCHANGED <<channel, others, fitted, enabled, state, latch>>
  <2>1. StateKnown'
    BY <1>1 DEF StateKnown, Alone, Ours, On, Bit
  <2>2. faults' \in 0 .. MaxFaults /\ stuck' \in [Effector -> BOOLEAN]
    <3>1. CASE ActivateDefault(e)
      BY <3>1 DEF ActivateDefault, EffectorsTypeOK, effectorVars
    <3>2. CASE ActivateOk(e, on)
      BY <3>2 DEF ActivateOk, EffectorsTypeOK
    <3>3. CASE ActivateFails(e, on)
      BY <3>3, EffectorAssumption DEF ActivateFails, EffectorsTypeOK
    <3> QED BY <3>1, <3>2, <3>3 DEF Activate
  <2> QED BY <1>1, <2>1, <2>2 DEF EffectorsTypeOK, Bit
<1>2. CASE ok /\ ActivateOk(e, on)
  <2>1. /\ latch' = IF ~enabled THEN latch
                    ELSE IF on THEN latch \cup {Bit(e)} ELSE latch \ {Bit(e)}
        /\ state' = [state EXCEPT ![e] = on]
        /\ stuck' = [stuck EXCEPT ![e] = FALSE]
        /\ UNCHANGED <<channel, others, fitted, enabled, faults>>
        /\ e \in fitted
    BY <1>2 DEF ActivateOk
  <2>2. EffectorsTypeOK'
    BY <2>1 DEF EffectorsTypeOK, Bit
  <2>3. /\ channel \in [Effector -> Nat]
        /\ fitted \subseteq Effector
        /\ state \in [Effector -> BOOLEAN]
    BY ChannelType DEF EffectorsTypeOK
  <2>4. /\ state'[e] = on
        /\ \A g \in fitted : g # e => state'[g] = state[g]
    BY <2>1, <2>3
  <2>5. \A g : /\ Bit(g)' = Bit(g) /\ (Ours(g)' <=> Ours(g)) /\ (Alone(g)' <=> Alone(g))
               /\ On(g)' <=> g \in fitted /\ Bit(g) \in latch'
    BY <2>1 DEF Bit, Ours, Alone, On
  <2>6. ASSUME NEW g \in fitted, Alone(g) PROVE state'[g] /\ enabled <=> On(g)'
    <3>1. CASE g = e
      BY <3>1, <2>1, <2>4, <2>5, <2>6 DEF StateKnown, On
    <3>2. CASE g # e
      <4>1. Bit(g) # Bit(e)
        BY <3>2, <2>1, <2>3, <2>6 DEF Alone, Bit, EffectorBitOffset
      <4> QED BY <3>2, <4>1, <2>1, <2>4, <2>5, <2>6 DEF StateKnown, On
    <3> QED BY <3>1, <3>2
  <2>7. ASSUME NEW g \in fitted, Ours(g), On(g)'
        PROVE  \E f \in fitted : Bit(f) = Bit(g) /\ state'[f] /\ enabled
    <3>1. CASE enabled /\ on /\ Bit(g) = Bit(e)
      BY <3>1, <2>1, <2>4
    <3>2. CASE ~(enabled /\ on /\ Bit(g) = Bit(e))
      <4>1. On(g)
        BY <3>2, <2>1, <2>5, <2>7 DEF On
      <4>2. PICK f \in fitted : Bit(f) = Bit(g) /\ state[f] /\ enabled
        BY <4>1, <2>7 DEF StateKnown
      <4>3. Bit(f) # Bit(e)
        BY <3>2, <4>2, <2>1, <2>5, <2>7
      <4> QED BY <4>2, <4>3, <2>4
    <3> QED BY <3>1, <3>2
  <2>8. StateKnown'
    BY <2>1, <2>5, <2>6, <2>7 DEF StateKnown
  <2> QED BY <2>2, <2>8
<1> QED BY <1>1, <1>2 DEF Activate, ActivateDefault, ActivateFails, effectorVars

\* What other sessions switch makes no difference to that.
LEMMA OthersKnown ==
  ASSUME EffectorsTypeOK, StateKnown, ActivateOthers
  PROVE  StateKnown' /\ EffectorsTypeOK'
<1>1. PICK on \in SUBSET others : latch' = (latch \ others) \cup on
  BY DEF ActivateOthers
<1>2. UNCHANGED <<channel, others, fitted, enabled, state, stuck, faults>>
  BY DEF ActivateOthers
<1>3. \A g : /\ Bit(g)' = Bit(g) /\ (Ours(g)' <=> Ours(g)) /\ (Alone(g)' <=> Alone(g))
             /\ Ours(g) => (On(g)' <=> On(g))
  BY <1>1, <1>2 DEF Bit, Ours, Alone, On
<1>4. StateKnown'
  BY <1>2, <1>3 DEF StateKnown, Alone
<1> QED BY <1>1, <1>2, <1>4 DEF EffectorsTypeOK, Bit

\* What a call of activate() does to what is remembered: nothing of any other
\* effector, and one that is to switch off is remembered as off, or stuck.
LEMMA ActivateEffect ==
  ASSUME EffectorsTypeOK, UnfittedOff,
         NEW e \in Effector, NEW f \in Effector, e # f,
         NEW on \in BOOLEAN, NEW ok \in BOOLEAN, Activate(e, on, ok)
  PROVE  /\ UnfittedOff'
         /\ state'[f] = state[f]
         /\ stuck'[f] = stuck[f]
         /\ ~on => OffOrStuck(e)' /\ (state'[e] => state[e])
         /\ ~on /\ ok => ~state'[e]
         /\ ~on /\ ~ok => stuck'[e]
  <1> USE DEF EffectorsTypeOK, UnfittedOff, OffOrStuck
  <1>1. CASE ok /\ ActivateDefault(e)
    BY <1>1 DEF ActivateDefault, effectorVars
  <1>2. CASE ok /\ ActivateOk(e, on)
    BY <1>2 DEF ActivateOk
  <1>3. CASE ~ok /\ ActivateFails(e, on)
    BY <1>3 DEF ActivateFails
  <1> QED BY <1>1, <1>2, <1>3 DEF Activate

-----------------------------------------------------------------------------
\* The lists of calls that are made are lists of calls.
LEMMA ListTypes ==
  /\ \A e, f \in Effector : /\ <<SwitchOff(e), SwitchOff(f)>> \in Seq(Call)
                            /\ <<SwitchOff(e), SwitchOn(f)>> \in Seq(Call)
  /\ Deactivate \in Seq(Call)
  /\ <<>> \in Seq(Call)
  BY SessionAssumption DEF Call, SwitchOff, SwitchOn, Deactivate

\* Whatever the target is, a decision is a list of calls and a state to show.
LEMMA ControlDecides ==
  ASSUME NEW target, Control(target)
  PROVE  \/ Decide("COOL", <<SwitchOff("heater"), SwitchOn("cooler")>>)
         \/ Decide("HEAT", <<SwitchOff("cooler"), SwitchOn("heater")>>)
         \/ state["cooler"] /\ Decide("COOL", <<>>)
         \/ state["heater"] /\ Decide("HEAT", <<>>)
         \/ Decide("HOLD", <<SwitchOff("cooler"), SwitchOff("heater")>>)
  BY Zenon DEF Control

\* The state of a session always has its type.
THEOREM TypeCorrect == Spec => []TypeOK
<1>1. Init => TypeOK
  <2> SUFFICES ASSUME Init PROVE TypeOK
    OBVIOUS
  <2>1. EffectorsTypeOK
    <3>1. PICK w \in Wirings : channel = w.channel /\ others = w.others
      BY DEF Init, EffectorsInit
    <3>2. w = [channel |-> w.channel, others |-> w.others]
      BY EffectorAssumption
    <3> QED BY <3>1, <3>2, EffectorAssumption DEF Init, EffectorsInit, EffectorsTypeOK
  <2>2. calls \in Seq(Call)
    BY SessionAssumption, ListTypes DEF Init
  <2>3. now \in 0 .. MaxTime /\ 0 \in 0 .. MaxTime /\ 0 \in 0 .. MaxBack
    BY SessionAssumption DEF Init
  <2> QED
    BY <2>1, <2>2, <2>3 DEF Init, TypeOK
<1>2. TypeOK /\ [Next]_vars => TypeOK'
  <2> SUFFICES ASSUME TypeOK, [Next]_vars PROVE TypeOK'
    OBVIOUS
  <2> USE SessionAssumption, ListTypes DEF TypeOK
  <2>0. ASSUME UNCHANGED effectorVars PROVE EffectorsTypeOK'
    BY <2>0 DEF effectorVars, EffectorsTypeOK, Bit
  <2>1. CASE Iterate
    BY <2>1, <2>0 DEF Iterate
  <2>2. CASE CheckActive
    BY <2>2, <2>0 DEF CheckActive, Decide
  <2>3. CASE SenseTemp
    BY <2>3, <2>0 DEF SenseTemp, Decide
  <2>4. CASE CompareTemp
    <3>1. Control(TargetTemp(profile, now))
      BY <2>4 DEF CompareTemp
    <3>2. /\ tempControlState' \in {"COOL", "HEAT", "HOLD"}
          /\ pc' = "effectors"
          /\ calls' \in Seq(Call)
      BY <3>1, ControlDecides DEF Decide
    <3> QED BY <2>4, <2>0, <3>2 DEF CompareTemp
  <2>5. CASE CallEffector
    <3>1. PICK ok \in BOOLEAN :
            /\ Activate(Head(calls).effector, Head(calls).on, ok)
            /\ calls' = IF Head(calls).guard /\ ~ok THEN <<>> ELSE Tail(calls)
      BY <2>5 DEF CallEffector
    <3>2. Head(calls) \in Call /\ calls' \in Seq(Call)
      BY <2>5, <3>1 DEF CallEffector
    <3>3. EffectorsTypeOK'
      <4> DEFINE e == Head(calls).effector
                 on == Head(calls).on
      <4>1. e \in Effector /\ on \in BOOLEAN
        BY <3>2 DEF Call
      <4> HIDE DEF e, on
      <4>2. CASE ActivateDefault(e)
        BY <4>2, <2>0 DEF ActivateDefault
      <4>3. CASE ActivateOk(e, on)
        BY <4>1, <4>3 DEF ActivateOk, EffectorsTypeOK, Bit
      <4>4. CASE ActivateFails(e, on)
        BY <4>1, <4>4, EffectorAssumption DEF ActivateFails, EffectorsTypeOK, Bit
      <4> QED BY <3>1, <4>2, <4>3, <4>4 DEF Activate, e, on
    <3> QED BY <2>5, <3>2, <3>3 DEF CallEffector
  <2>6. CASE CallsDone
    BY <2>6, <2>0 DEF CallsDone
  <2>7. CASE Stop
    BY <2>7, <2>0 DEF Stop
  <2>8. CASE RequestStop
    BY <2>8, <2>0 DEF RequestStop
  <2>9. CASE Tick
    BY <2>9, <2>0 DEF Tick, Earlier
  <2>10. CASE SetClockBack
    BY <2>10, <2>0 DEF SetClockBack
  <2>11. CASE SensorDies
    BY <2>11, <2>0 DEF SensorDies
  <2>12. CASE OtherSession
    <3>1. EffectorsTypeOK'
      BY <2>12 DEF OtherSession, ActivateOthers, EffectorsTypeOK, Bit
    <3> QED BY <2>12, <3>1 DEF OtherSession, sessionVars
  <2>13. CASE UNCHANGED vars
    BY <2>13, <2>0 DEF vars, sessionVars
  <2> QED
    BY <2>1, <2>2, <2>3, <2>4, <2>5, <2>6, <2>7, <2>8, <2>9, <2>10, <2>11, <2>12, <2>13
       DEF Next, Thread
<1> QED BY <1>1, <1>2, PTL DEF Spec

-----------------------------------------------------------------------------
\* Steps that do not touch the effectors keep all that is said of them.
LEMMA EffectorsFrame ==
  ASSUME UNCHANGED effectorVars
  PROVE  /\ StateKnown => StateKnown'
         /\ UnfittedOff => UnfittedOff'
         /\ Exclusive => Exclusive'
  BY Zenon DEF effectorVars, StateKnown, UnfittedOff, Exclusive, Alone, Ours, On, Bit

\* So do steps that leave what is remembered, and what is to be called.
LEMMA CallsFrame ==
  ASSUME IInv, StateKnown', UNCHANGED <<fitted, state, stuck, pc, calls, tempControlState>>
  PROVE  IInv'
<1>1. UnfittedOff' /\ Exclusive'
  BY DEF IInv, UnfittedOff, Exclusive
<1>2. CallsInv'
  BY DEF IInv, CallsInv, BothOff, OneOn, CtorCalls, DeactivateCalls, StopCalls, Honest,
         OffOrStuck, SomeStuck
<1> QED BY <1>1, <1>2 DEF IInv

\* The thread has nothing left to call: what the display shows is true.
LEMMA NothingLeft ==
  ASSUME IInv, pc \in {"idle", "update", "sense", "target"}
  PROVE  calls = <<>> /\ Honest
  BY DEF IInv, CallsInv

\* A decision leaves what it is to call consistent with the state it shows.
LEMMA DecideInv ==
  ASSUME TypeOK, IInv, UNCHANGED effectorVars,
         \/ Decide("COOL", <<SwitchOff("heater"), SwitchOn("cooler")>>)
         \/ Decide("HEAT", <<SwitchOff("cooler"), SwitchOn("heater")>>)
         \/ state["cooler"] /\ Decide("COOL", <<>>)
         \/ state["heater"] /\ Decide("HEAT", <<>>)
         \/ Decide("HOLD", <<SwitchOff("cooler"), SwitchOff("heater")>>)
         \/ Decide("HOLD", <<SwitchOff("heater"), SwitchOff("cooler")>>)
         \/ Decide("UNKNOWN", <<SwitchOff("heater"), SwitchOff("cooler")>>)
  PROVE  IInv'
<1>1. StateKnown' /\ UnfittedOff' /\ Exclusive'
  BY EffectorsFrame DEF IInv
<1>2. pc' = "effectors"
  BY DEF Decide
<1>3. \/ BothOff(tempControlState)'
      \/ OneOn(tempControlState, "cooler", "COOL", "heater")'
      \/ OneOn(tempControlState, "heater", "HEAT", "cooler")'
  <2>1. CASE Decide("COOL", <<SwitchOff("heater"), SwitchOn("cooler")>>)
    BY <2>1 DEF Decide, OneOn, SwitchOn, SwitchOff
  <2>2. CASE Decide("HEAT", <<SwitchOff("cooler"), SwitchOn("heater")>>)
    BY <2>2 DEF Decide, OneOn, SwitchOn, SwitchOff
  <2>3. ASSUME state["cooler"], Decide("COOL", <<>>) PROVE Honest' /\ calls' = <<>>
    <3>1. state["heater"] => SomeStuck
      BY <2>3, SessionAssumption DEF IInv, Exclusive, SomeStuck
    <3> QED BY <2>3, <3>1 DEF Decide, Honest, SomeStuck, effectorVars
  <2>4. ASSUME state["heater"], Decide("HEAT", <<>>) PROVE Honest' /\ calls' = <<>>
    <3>1. state["cooler"] => SomeStuck
      BY <2>4, SessionAssumption DEF IInv, Exclusive, SomeStuck
    <3> QED BY <2>4, <3>1 DEF Decide, Honest, SomeStuck, effectorVars
  <2>5. CASE \/ Decide("HOLD", <<SwitchOff("cooler"), SwitchOff("heater")>>)
             \/ Decide("HOLD", <<SwitchOff("heater"), SwitchOff("cooler")>>)
             \/ Decide("UNKNOWN", <<SwitchOff("heater"), SwitchOff("cooler")>>)
    BY <2>5 DEF Decide, BothOff, SwitchOff
  <2> QED
    BY <2>1, <2>2, <2>3, <2>4, <2>5 DEF Decide, OneOn
<1> QED
  BY <1>1, <1>2, <1>3 DEF IInv, CallsInv

-----------------------------------------------------------------------------
\* The rest of a pair of calls.
LEMMA PairTail ==
  ASSUME NEW x, NEW y
  PROVE  Head(<<x, y>>) = x /\ Tail(<<x, y>>) = <<y>>
  OBVIOUS

\* One call of activate(), at any point of any list, keeps the invariant.
LEMMA CallStep ==
  ASSUME TypeOK, IInv, CallEffector
  PROVE  IInv'
<1> USE SessionAssumption
<1>1. PICK ok \in BOOLEAN :
        /\ Activate(Head(calls).effector, Head(calls).on, ok)
        /\ calls' = IF Head(calls).guard /\ ~ok THEN <<>> ELSE Tail(calls)
  BY DEF CallEffector
<1>2. pc' = pc /\ tempControlState' = tempControlState /\ calls # <<>>
  BY DEF CallEffector
<1>3. StateKnown /\ UnfittedOff /\ EffectorsTypeOK
  BY DEF IInv, TypeOK
\* The four calls there are.
<1>4. ASSUME Activate("heater", FALSE, ok)
      PROVE  /\ state'["cooler"] = state["cooler"]
             /\ stuck'["cooler"] = stuck["cooler"]
             /\ OffOrStuck("heater")' /\ (state'["heater"] => state["heater"])
             /\ ok => ~state'["heater"]
             /\ ~ok => stuck'["heater"]
  BY <1>3, <1>4, ActivateEffect DEF OffOrStuck
<1>5. ASSUME Activate("cooler", FALSE, ok)
      PROVE  /\ state'["heater"] = state["heater"]
             /\ stuck'["heater"] = stuck["heater"]
             /\ OffOrStuck("cooler")' /\ (state'["cooler"] => state["cooler"])
             /\ ok => ~state'["cooler"]
             /\ ~ok => stuck'["cooler"]
  BY <1>3, <1>5, ActivateEffect DEF OffOrStuck
<1>6. ASSUME Activate("heater", TRUE, ok)
      PROVE  /\ state'["cooler"] = state["cooler"]
             /\ stuck'["cooler"] = stuck["cooler"]
  BY <1>3, <1>6, ActivateEffect DEF OffOrStuck
<1>7. ASSUME Activate("cooler", TRUE, ok)
      PROVE  /\ state'["heater"] = state["heater"]
             /\ stuck'["heater"] = stuck["heater"]
  BY <1>3, <1>7, ActivateEffect DEF OffOrStuck
\* One effector to switch off, and then the other one or nothing.
<1>8. ASSUME calls = <<SwitchOff("heater"), SwitchOff("cooler")>>
      PROVE  Activate("heater", FALSE, ok) /\ calls' = <<SwitchOff("cooler")>>
  <2>1. Head(calls) = SwitchOff("heater") /\ Tail(calls) = <<SwitchOff("cooler")>>
    BY <1>8, PairTail
  <2>2. Head(calls).effector = "heater" /\ Head(calls).on = FALSE /\ ~Head(calls).guard
    BY <2>1 DEF SwitchOff
  <2> QED BY <2>2, <1>1, <2>1 DEF Activate, ActivateDefault, ActivateOk, ActivateFails
<1>9. ASSUME calls = <<SwitchOff("cooler"), SwitchOff("heater")>>
      PROVE  Activate("cooler", FALSE, ok) /\ calls' = <<SwitchOff("heater")>>
  <2>1. Head(calls) = SwitchOff("cooler") /\ Tail(calls) = <<SwitchOff("heater")>>
    BY <1>9, PairTail
  <2>2. Head(calls).effector = "cooler" /\ Head(calls).on = FALSE /\ ~Head(calls).guard
    BY <2>1 DEF SwitchOff
  <2> QED BY <2>2, <1>1, <2>1 DEF Activate, ActivateDefault, ActivateOk, ActivateFails
<1>10. ASSUME calls = <<SwitchOff("heater"), SwitchOn("cooler")>>
       PROVE  Activate("heater", FALSE, ok) /\ calls' = <<SwitchOn("cooler")>>
  <2>1. Head(calls) = SwitchOff("heater") /\ Tail(calls) = <<SwitchOn("cooler")>>
    BY <1>10, PairTail
  <2>2. Head(calls).effector = "heater" /\ Head(calls).on = FALSE /\ ~Head(calls).guard
    BY <2>1 DEF SwitchOff
  <2> QED BY <2>2, <1>1, <2>1 DEF Activate, ActivateDefault, ActivateOk, ActivateFails
<1>11. ASSUME calls = <<SwitchOff("cooler"), SwitchOn("heater")>>
       PROVE  Activate("cooler", FALSE, ok) /\ calls' = <<SwitchOn("heater")>>
  <2>1. Head(calls) = SwitchOff("cooler") /\ Tail(calls) = <<SwitchOn("heater")>>
    BY <1>11, PairTail
  <2>2. Head(calls).effector = "cooler" /\ Head(calls).on = FALSE /\ ~Head(calls).guard
    BY <2>1 DEF SwitchOff
  <2> QED BY <2>2, <1>1, <2>1 DEF Activate, ActivateDefault, ActivateOk, ActivateFails
<1>12. ASSUME calls = <<SwitchOff("cooler")>>
       PROVE  Activate("cooler", FALSE, ok) /\ calls' = <<>>
  BY <1>1, <1>12 DEF SwitchOff, Activate, ActivateDefault, ActivateOk, ActivateFails
<1>13. ASSUME calls = <<SwitchOff("heater")>>
       PROVE  Activate("heater", FALSE, ok) /\ calls' = <<>>
  BY <1>1, <1>13 DEF SwitchOff, Activate, ActivateDefault, ActivateOk, ActivateFails
<1>14. ASSUME calls = <<SwitchOn("cooler")>>
       PROVE  Activate("cooler", TRUE, ok) /\ calls' = <<>>
  BY <1>1, <1>14 DEF SwitchOn, Activate, ActivateDefault, ActivateOk, ActivateFails
<1>15. ASSUME calls = <<SwitchOn("heater")>>
       PROVE  Activate("heater", TRUE, ok) /\ calls' = <<>>
  BY <1>1, <1>15 DEF SwitchOn, Activate, ActivateDefault, ActivateOk, ActivateFails
<1>16. ASSUME calls = Deactivate
       PROVE  /\ Activate("heater", FALSE, ok)
              /\ ok => calls' = <<SwitchOff("cooler")>>
              /\ ~ok => calls' = <<>>
  BY <1>1, <1>16 DEF Deactivate, Activate, ActivateDefault, ActivateOk, ActivateFails
<1>17. /\ SomeStuck' <=> stuck'["heater"] \/ stuck'["cooler"]
       /\ SomeStuck <=> stuck["heater"] \/ stuck["cooler"]
  BY DEF SomeStuck
\* The constructor: nothing is on.
<1>18. ASSUME pc = "ctor" PROVE Exclusive' /\ CallsInv'
  <2>1. CtorCalls
    BY <1>18 DEF IInv, CallsInv
  <2>2. CASE calls = <<SwitchOff("heater"), SwitchOff("cooler")>>
    <3>1. ~state'["heater"] /\ ~state'["cooler"] /\ calls' = <<SwitchOff("cooler")>>
      BY <2>1, <2>2, <1>8, <1>4 DEF CtorCalls
    <3> QED BY <3>1, <1>2, <1>18, <2>1 DEF CallsInv, CtorCalls, Exclusive
  <2>3. CASE calls = <<SwitchOff("cooler")>>
    <3>1. ~state'["heater"] /\ ~state'["cooler"] /\ calls' = <<>>
      BY <2>1, <2>3, <1>12, <1>5 DEF CtorCalls
    <3> QED BY <3>1, <1>2, <1>18, <2>1 DEF CallsInv, CtorCalls, Exclusive
  <2> QED BY <2>1, <2>2, <2>3, <1>2 DEF CtorCalls
<1>19. ASSUME pc = "deactivate" PROVE Exclusive' /\ CallsInv'
  <2>1. CASE calls = Deactivate /\ Honest
    <3>1. Activate("heater", FALSE, ok) /\ Exclusive'
      BY <2>1, <1>16, <1>4 DEF Exclusive, OffOrStuck
    <3>2. CASE ok
      BY <3>1, <3>2, <2>1, <1>16, <1>4, <1>2, <1>19
         DEF CallsInv, DeactivateCalls, Honest, OffOrStuck
    <3>3. CASE ~ok
      <4>1. Honest'
        BY <3>1, <3>3, <2>1, <1>4, <1>2, <1>17 DEF Honest, OffOrStuck
      <4> QED BY <4>1, <3>1, <3>3, <2>1, <1>16, <1>2, <1>19 DEF CallsInv, DeactivateCalls
    <3> QED BY <3>1, <3>2, <3>3
  <2>2. CASE /\ calls = <<SwitchOff("cooler")>>
             /\ ~state["heater"]
             /\ tempControlState \in {"HOLD", "UNKNOWN"} => OffOrStuck("cooler")
    <3>1. Activate("cooler", FALSE, ok) /\ calls' = <<>> /\ Exclusive'
      BY <2>2, <1>12, <1>5 DEF Exclusive, OffOrStuck
    <3>2. Honest'
      BY <3>1, <2>2, <1>5, <1>2, <1>17 DEF Honest, OffOrStuck
    <3> QED BY <3>1, <3>2, <1>2, <1>19 DEF CallsInv, DeactivateCalls
  <2> QED BY <2>1, <2>2, <1>2, <1>19 DEF IInv, CallsInv, DeactivateCalls
<1>20. ASSUME pc = "effectors" PROVE Exclusive' /\ CallsInv'
  <2>1. CASE BothOff(tempControlState)
    <3>1. tempControlState' \in {"HOLD", "UNKNOWN"}
      BY <2>1, <1>2 DEF BothOff
    <3>2. SUFFICES Exclusive' /\ BothOff(tempControlState)'
      BY <1>2, <1>20 DEF CallsInv
    <3>3. CASE calls = <<SwitchOff("heater"), SwitchOff("cooler")>>
      BY <3>1, <3>3, <1>8, <1>4 DEF BothOff, Exclusive, OffOrStuck
    <3>4. CASE calls = <<SwitchOff("cooler"), SwitchOff("heater")>>
      BY <3>1, <3>4, <1>9, <1>5 DEF BothOff, Exclusive, OffOrStuck
    <3>5. CASE calls = <<SwitchOff("cooler")>> /\ OffOrStuck("heater")
      <4>1. calls' = <<>> /\ OffOrStuck("heater")' /\ OffOrStuck("cooler")'
        BY <3>5, <1>12, <1>5 DEF OffOrStuck
      <4> QED BY <4>1, <3>1 DEF BothOff, Honest, Exclusive, OffOrStuck
    <3>6. CASE calls = <<SwitchOff("heater")>> /\ OffOrStuck("cooler")
      <4>1. calls' = <<>> /\ OffOrStuck("heater")' /\ OffOrStuck("cooler")'
        BY <3>6, <1>13, <1>4 DEF OffOrStuck
      <4> QED BY <4>1, <3>1 DEF BothOff, Honest, Exclusive, OffOrStuck
    <3> QED BY <2>1, <1>2, <3>3, <3>4, <3>5, <3>6 DEF BothOff
  <2>2. CASE OneOn(tempControlState, "cooler", "COOL", "heater")
    <3>1. tempControlState' = "COOL"
      BY <2>2, <1>2 DEF OneOn
    <3>2. SUFFICES Exclusive' /\ OneOn(tempControlState, "cooler", "COOL", "heater")'
      BY <1>2, <1>20 DEF CallsInv
    <3>3. CASE calls = <<SwitchOff("heater"), SwitchOn("cooler")>>
      BY <3>1, <3>3, <1>10, <1>4 DEF OneOn, Exclusive, OffOrStuck
    <3>4. CASE calls = <<SwitchOn("cooler")>> /\ OffOrStuck("heater")
      <4>1. calls' = <<>> /\ OffOrStuck("heater")'
        BY <3>4, <1>14, <1>7 DEF OffOrStuck
      <4> QED BY <4>1, <3>1, <1>17 DEF OneOn, Honest, Exclusive, OffOrStuck
    <3> QED BY <2>2, <1>2, <3>3, <3>4 DEF OneOn
  <2>3. CASE OneOn(tempControlState, "heater", "HEAT", "cooler")
    <3>1. tempControlState' = "HEAT"
      BY <2>3, <1>2 DEF OneOn
    <3>2. SUFFICES Exclusive' /\ OneOn(tempControlState, "heater", "HEAT", "cooler")'
      BY <1>2, <1>20 DEF CallsInv
    <3>3. CASE calls = <<SwitchOff("cooler"), SwitchOn("heater")>>
      BY <3>1, <3>3, <1>11, <1>5 DEF OneOn, Exclusive, OffOrStuck
    <3>4. CASE calls = <<SwitchOn("heater")>> /\ OffOrStuck("cooler")
      <4>1. calls' = <<>> /\ OffOrStuck("cooler")'
        BY <3>4, <1>15, <1>6 DEF OffOrStuck
      <4> QED BY <4>1, <3>1, <1>17 DEF OneOn, Honest, Exclusive, OffOrStuck
    <3> QED BY <2>3, <1>2, <3>3, <3>4 DEF OneOn
  <2> QED BY <1>20, <2>1, <2>2, <2>3 DEF IInv, CallsInv
\* Stopping: if the heater cannot be switched off, the cooler is not even tried.
<1>21. ASSUME pc = "stop" PROVE Exclusive' /\ CallsInv'
  <2>1. SUFFICES Exclusive' /\ StopCalls'
    BY <1>2, <1>21 DEF CallsInv
  <2>2. CASE calls = Deactivate
    BY <2>2, <1>16, <1>4, <1>17 DEF StopCalls, Exclusive, OffOrStuck
  <2>3. CASE calls = <<SwitchOff("cooler")>> /\ ~state["heater"]
    <3>1. calls' = <<>> /\ ~state'["heater"] /\ OffOrStuck("cooler")'
      BY <2>3, <1>12, <1>5
    <3> QED BY <3>1, <1>17 DEF StopCalls, Exclusive, OffOrStuck
  <2> QED BY <1>21, <2>2, <2>3, <1>2 DEF IInv, CallsInv, StopCalls
<1>22. StateKnown' /\ UnfittedOff'
  <2>1. Head(calls) \in Call
    BY <1>2 DEF TypeOK
  <2> DEFINE e == Head(calls).effector
             on == Head(calls).on
  <2>2. e \in Effector /\ on \in BOOLEAN
    BY <2>1 DEF Call
  <2> HIDE DEF e, on
  <2>3. Activate(e, on, ok)
    BY <1>1 DEF e, on, Activate, ActivateDefault, ActivateOk, ActivateFails
  <2>4. PICK f \in Effector : f # e
    BY <2>2
  <2> QED BY <2>2, <2>3, <2>4, <1>3, ActivateEffect, ActivateKnown
<1> QED
  BY <1>2, <1>18, <1>19, <1>20, <1>21, <1>22 DEF IInv, CallsInv, TypeOK

-----------------------------------------------------------------------------
\* The strengthening holds at the start, and every step keeps it.
LEMMA InitInv == Init => IInv
<1> SUFFICES ASSUME Init PROVE IInv
  OBVIOUS
<1>1. ~state["heater"] /\ ~state["cooler"]
  BY SessionAssumption DEF Init, EffectorsInit
<1>2. StateKnown /\ UnfittedOff
  BY DEF Init, EffectorsInit, StateKnown, UnfittedOff, On
<1> QED
  BY <1>1, <1>2 DEF Init, IInv, Exclusive, CallsInv, CtorCalls

\* Every step keeps the invariant.
LEMMA NextInv == TypeOK /\ IInv /\ [Next]_vars => IInv'
<1> SUFFICES ASSUME TypeOK, IInv, [Next]_vars PROVE IInv'
  OBVIOUS
<1>1. ASSUME UNCHANGED effectorVars
      PROVE  /\ StateKnown' /\ UnfittedOff' /\ Exclusive'
             /\ tempControlState' = tempControlState => (Honest' <=> Honest)
             /\ (\A e \in Effector : state[e] => SomeStuck) => (\A e \in Effector : state[e] => SomeStuck)'
  BY <1>1, EffectorsFrame DEF IInv, Honest, OffOrStuck, SomeStuck, effectorVars
<1>2. CASE Iterate
  <2>1. UNCHANGED <<effectorVars, tempControlState>> /\ calls = <<>> /\ Honest
    BY <1>2, NothingLeft DEF Iterate
  <2> QED BY <1>2, <2>1, <1>1 DEF Iterate, IInv, CallsInv, DeactivateCalls
<1>3. CASE CheckActive
  <2>1. UNCHANGED effectorVars /\ calls = <<>> /\ Honest
    BY <1>3, NothingLeft DEF CheckActive
  <2>2. CASE IsActive(now)
    BY <1>3, <2>1, <2>2, <1>1 DEF CheckActive, IInv, CallsInv
  <2>3. CASE ~IsActive(now)
    BY <1>3, <2>1, <2>3, DecideInv DEF CheckActive
  <2> QED BY <2>2, <2>3
<1>4. CASE SenseTemp
  <2>1. UNCHANGED effectorVars /\ calls = <<>> /\ Honest
    BY <1>4, NothingLeft DEF SenseTemp
  <2>2. CASE Decide("UNKNOWN", <<SwitchOff("heater"), SwitchOff("cooler")>>)
    BY <2>1, <2>2, DecideInv
  <2>3. CASE pc' = "target" /\ UNCHANGED <<calls, tempControlState>>
    BY <2>1, <2>3, <1>1 DEF IInv, CallsInv
  <2> QED BY <1>4, <2>2, <2>3 DEF SenseTemp
<1>5. CASE CompareTemp
  <2>1. UNCHANGED effectorVars /\ Control(TargetTemp(profile, now))
    BY <1>5 DEF CompareTemp
  <2> QED BY <2>1, ControlDecides, DecideInv
<1>6. CASE CallEffector
  BY <1>6, CallStep
<1>7. CASE CallsDone
  <2>1. /\ UNCHANGED <<effectorVars, tempControlState>> /\ calls = <<>> /\ calls' = <<>>
        /\ pc \in {"ctor", "deactivate", "effectors", "stop"}
        /\ pc' = IF pc = "stop" THEN "stopped" ELSE "idle"
    BY <1>7 DEF CallsDone
  <2>2. CASE pc = "stop"
    BY <2>1, <2>2, <1>1 DEF IInv, CallsInv, StopCalls, Deactivate
  <2>3. CASE pc = "ctor"
    BY <2>1, <2>3, <1>1, SessionAssumption DEF IInv, CallsInv, CtorCalls, Honest, OffOrStuck
  <2>4. CASE pc = "deactivate"
    BY <2>1, <2>4, <1>1 DEF IInv, CallsInv, DeactivateCalls, Deactivate
  <2>5. CASE pc = "effectors"
    BY <2>1, <2>5, <1>1 DEF IInv, CallsInv, BothOff, OneOn
  <2> QED BY <2>1, <2>2, <2>3, <2>4, <2>5
<1>8. CASE Stop
  <2>1. UNCHANGED effectorVars
    BY <1>8 DEF Stop
  <2> QED BY <1>8, <2>1, <1>1 DEF Stop, IInv, CallsInv, StopCalls
<1>9. CASE RequestStop \/ Tick \/ SetClockBack \/ SensorDies \/ UNCHANGED vars
  <2>1. UNCHANGED <<effectorVars, pc, calls, tempControlState>>
    BY <1>9 DEF RequestStop, Tick, SetClockBack, SensorDies, vars, sessionVars
  <2> QED BY <2>1, <1>1, CallsFrame DEF effectorVars
<1>10. CASE OtherSession
  <2>1. UNCHANGED <<fitted, state, stuck, pc, calls, tempControlState>>
    BY <1>10 DEF OtherSession, ActivateOthers, sessionVars
  <2>2. StateKnown'
    BY <1>10, OthersKnown DEF OtherSession, IInv, TypeOK
  <2> QED BY <2>1, <2>2, CallsFrame
<1> QED
  BY <1>2, <1>3, <1>4, <1>5, <1>6, <1>7, <1>8, <1>9, <1>10 DEF Next, Thread

\* The invariant holds throughout.
LEMMA Invariance == Spec => []IInv
<1> QED BY InitInv, NextInv, TypeCorrect, PTL DEF Spec

-----------------------------------------------------------------------------
\* What can be told of an effector's output is remembered.
LEMMA LitRemembered ==
  ASSUME StateKnown, NEW e, Lit(e)
  PROVE  state[e]
  BY DEF StateKnown, Lit, On

\* An output of the session that is on is remembered of an effector that has it.
LEMMA OutputRemembered ==
  ASSUME EffectorsTypeOK, StateKnown, NEW e, Ours(e), On(e)
  PROVE  \E f \in Effector : f \in fitted /\ Bit(f) = Bit(e) /\ state[f]
  BY ChannelType DEF StateKnown, On

\* The heater and the cooler are never on together, unless one of them would
\* not be switched off: switching off comes first in every decision of
\* updateEffectors(), and a decision to keep an effector on is only taken when
\* the other one is known to be off.  That is so whoever has the outputs.
THEOREM HeaterOrCooler == Spec => []NeverBoth
<1>1. IInv => NeverBoth
  BY LitRemembered DEF IInv, Exclusive, NeverBoth
<1> QED BY <1>1, Invariance, PTL

\* state_ of an effector is what its output does, whatever calls fail, if the output
\* is its own; an output that the session's effectors share is only on if it is
\* remembered of one of them; and other sessions change nothing of that.
THEOREM StateIsKnown == Spec => []StateKnown
<1>1. IInv => StateKnown
  BY DEF IInv
<1> QED BY <1>1, Invariance, PTL

\* What the display shows of the effectors is true between two updates.
THEOREM DisplayIsHonest == Spec => []DisplayHonest
<1>1. IInv /\ TypeOK => DisplayHonest
  <2> SUFFICES ASSUME IInv, TypeOK, pc = "idle" PROVE DisplayHonest
    BY DEF DisplayHonest
  <2>1. Honest /\ StateKnown /\ EffectorsTypeOK
    BY DEF IInv, CallsInv, TypeOK
  <2>2. ASSUME tempControlState \in {"HOLD", "UNKNOWN"}, NEW e \in Effector
        PROVE  /\ Lit(e) => stuck[e]
               /\ Ours(e) /\ On(e) => \E f \in fitted : Bit(f) = Bit(e) /\ stuck[f]
    BY <2>1, <2>2, LitRemembered, OutputRemembered DEF Honest, OffOrStuck
  <2>3. /\ tempControlState = "COOL" /\ Lit("heater") => \E e \in Effector : stuck[e]
        /\ tempControlState = "HEAT" /\ Lit("cooler") => \E e \in Effector : stuck[e]
    BY <2>1, LitRemembered DEF Honest, SomeStuck
  <2> QED BY <2>2, <2>3 DEF DisplayHonest
<1> QED BY <1>1, Invariance, TypeCorrect, PTL

\* A stopped session leaves nothing of its own on, unless a call that was to switch
\* something off has failed.
THEOREM StopsOff == Spec => []StoppedOff
<1>1. IInv /\ TypeOK => StoppedOff
  BY OutputRemembered DEF IInv, TypeOK, CallsInv, SomeStuck, StoppedOff
<1> QED BY <1>1, Invariance, TypeCorrect, PTL

=============================================================================
