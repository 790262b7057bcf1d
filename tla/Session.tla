------------------------------- MODULE Session -------------------------------
(***************************************************************************)
(* One fermentation session, run by the session manager's thread           *)
(* (application/session.cc, the loop of application/sessionmanager.cc).    *)
(*                                                                         *)
(* The thread senses the vessel and decides which effectors should be on;  *)
(* every decision is a list of calls of Effector::activate(), any of which *)
(* may fail, made one at a time.  Each reading of the clock is a step of   *)
(* its own, and time passes between steps.                                 *)
(***************************************************************************)
EXTENDS Effectors, Sequences

CONSTANTS
  Profiles,       \* temperature profiles: sequences of rows of "profilestage"
  Start,          \* start_ts_
  Interval,       \* effectorUpdateInterval_
  DeadZone,       \* deadZone_
  Readings,       \* averages the vessel's sensor may have, in kelvin
  RangeMin, RangeMax,  \* the sensor's range
  MaxTime,        \* bound on the clock, after the end of all profiles
  MaxBack         \* bound on the seconds the clock is set back

AbsZero == 0      \* Temperature(): no temperature
Null    == -1     \* a NULL duration: the stage is held for ever

StageRow == [duration : Nat \cup {Null}, temperature : Nat]

ASSUME SessionAssumption ==
  /\ Effector = {"heater", "cooler"}
  /\ Profiles \subseteq Seq(StageRow) \ {<<>>}
  /\ Start \in Nat /\ MaxTime \in Nat /\ MaxBack \in Nat
  /\ Interval \in Nat \ {0}
  /\ DeadZone \in Nat \ {0}
  /\ Readings \subseteq Nat \ {AbsZero}
  /\ RangeMin \in Nat /\ RangeMax \in Nat
  /\ MaxTime >= Interval + MaxBack

VARIABLES
  profile,      \* the session's profile
  now,          \* what ::time() returns
  back,         \* by how many seconds the clock has been set back
  sensor,       \* "ok", or "dead": it will never give a reading again
  stopping,     \* stop_ of the session manager
  pc,           \* where the thread is
  began,        \* iterate()'s now
  temp,         \* updateEffectors()'s t
  calls,        \* the calls of activate() still to make
  lastEffectorUpdate, tempControlState

sessionVars == <<profile, now, back, sensor, stopping, pc, began, temp, calls,
                 lastEffectorUpdate, tempControlState>>
vars == <<sessionVars, effectorVars>>

-----------------------------------------------------------------------------
\* stages_: the rows of the profile, up to the first without a duration.
IsForever(row) == row.duration = Null
HasForever(p)  == \E i \in DOMAIN p : IsForever(p[i])
NStages(p) ==
  IF HasForever(p)
    THEN CHOOSE i \in DOMAIN p :
           IsForever(p[i]) /\ \A j \in 1 .. i - 1 : ~IsForever(p[j])
    ELSE Len(p)

\* The time at which the first i stages of p, which have durations, are over.
StageEnd(p, i) ==
  LET end[j \in 0 .. i] == IF j = 0 THEN Start ELSE end[j-1] + p[j].duration
  IN  end[i]

\* end_ts_
EndTs(p) == StageEnd(p, IF HasForever(p) THEN NStages(p) - 1 ELSE NStages(p))

\* All profiles, and the clock's corrections, fit in the bound on the clock.
ASSUME HorizonAssumption ==
  \A p \in Profiles : EndTs(p) + MaxBack <= MaxTime

\* targetTemp(): of the first stage that is not over; none before the start,
\* none when all are over.
TargetTemp(p, time) ==
  LET Current(i) == IsForever(p[i]) \/ StageEnd(p, i) > time
      left       == {i \in 1 .. NStages(p) : Current(i)}
  IN  IF time < Start \/ left = {}
        THEN AbsZero
        ELSE p[CHOOSE i \in left : \A j \in left : i <= j].temperature

\* isActive(), of a session that has not been marked complete
IsActive(time) == time >= Start

InRange(t) == RangeMin <= t /\ t <= RangeMax

\* A call of activate().  The calls after a guard are only made if it succeeds.
\* A mutant of the next definition: one failure skips the calls after it.
SwitchOff_Guarded(e) == [effector |-> e, on |-> FALSE, guard |-> TRUE]

SwitchOff(e) == [effector |-> e, on |-> FALSE, guard |-> FALSE]
SwitchOn(e)  == [effector |-> e, on |-> TRUE, guard |-> FALSE]

\* deactivateEffectors(): heater && cooler
Deactivate == <<[effector |-> "heater", on |-> FALSE, guard |-> TRUE], SwitchOff("cooler")>>

-----------------------------------------------------------------------------
Init ==
  /\ EffectorsInit
  /\ profile \in Profiles
  /\ now \in Start .. MaxTime     \* only sessions that have started are loaded
  /\ back = 0
  /\ sensor \in {"ok", "dead"}
  /\ stopping = FALSE
  /\ pc = "ctor"                  \* the constructor switches both effectors off
  /\ calls = <<SwitchOff("heater"), SwitchOff("cooler")>>
  /\ began = 0 /\ temp = AbsZero
  /\ lastEffectorUpdate = 0
  /\ tempControlState = "HOLD"

\* A mutant of the next definition: the loop does not look at stop_.
Iterate_IgnoresStop ==
  /\ pc = "idle"
  /\ now - lastEffectorUpdate >= Interval
  /\ began' = now
  /\ pc' = "update"
  /\ UNCHANGED <<profile, now, back, sensor, stopping, temp, calls, lastEffectorUpdate,
                 tempControlState, effectorVars>>

\* iterate(), when an update of the effectors is due; when it is not, all it
\* does is sense the temperature to keep the moving average going.
Iterate ==
  /\ pc = "idle"
  /\ ~stopping
  /\ now - lastEffectorUpdate >= Interval
  /\ began' = now
  /\ IF now >= Start THEN /\ pc' = "update"
                          /\ UNCHANGED calls
                     ELSE /\ pc' = "deactivate"
                          /\ calls' = Deactivate
  /\ UNCHANGED <<profile, now, back, sensor, stopping, temp, lastEffectorUpdate,
                 tempControlState, effectorVars>>

\* What updateEffectors() has decided: the state it shows, the calls it makes.
Decide(mode, list) ==
  /\ tempControlState' = mode
  /\ calls' = list
  /\ pc' = "effectors"

\* updateEffectors(): is the session active?
CheckActive ==
  /\ pc = "update"
  /\ IF IsActive(now) THEN /\ pc' = "sense"
                           /\ UNCHANGED <<calls, tempControlState>>
                      ELSE Decide("HOLD", <<SwitchOff("heater"), SwitchOff("cooler")>>)
  /\ UNCHANGED <<profile, now, back, sensor, stopping, began, temp,
                 lastEffectorUpdate, effectorVars>>

\* A mutant of the next definition: only the range of the average is looked at.
SenseTemp_TrustsRange ==
  /\ pc = "sense"
  /\ \E average \in Readings, ok \in BOOLEAN :
       /\ ok => sensor = "ok"
       /\ IF ~InRange(average)
            THEN /\ Decide("UNKNOWN", <<SwitchOff("heater"), SwitchOff("cooler")>>)
                 /\ UNCHANGED temp
            ELSE /\ temp' = IF ok THEN average ELSE AbsZero
                 /\ pc' = "target"
                 /\ UNCHANGED <<calls, tempControlState>>
  /\ UNCHANGED <<profile, now, back, sensor, stopping, began,
                 lastEffectorUpdate, effectorVars>>

\* sense() returns the moving average, or absolute zero if the reading fails; then
\* the average is what it was, and inRange() is true of that.
SenseTemp ==
  /\ pc = "sense"
  /\ \E average \in Readings, ok \in BOOLEAN :
       /\ ok => sensor = "ok"
       /\ IF ~ok \/ ~InRange(average)
            THEN /\ Decide("UNKNOWN", <<SwitchOff("heater"), SwitchOff("cooler")>>)
                 /\ UNCHANGED temp
            ELSE /\ temp' = average
                 /\ pc' = "target"
                 /\ UNCHANGED <<calls, tempControlState>>
  /\ UNCHANGED <<profile, now, back, sensor, stopping, began,
                 lastEffectorUpdate, effectorVars>>

\* A mutant of the next definition: switches on before it switches off.
Control_OnFirst(target) ==
  \/ /\ temp > target + DeadZone
     /\ Decide("COOL", <<SwitchOn("cooler"), SwitchOff("heater")>>)
  \/ /\ temp < target - DeadZone
     /\ Decide("HEAT", <<SwitchOn("heater"), SwitchOff("cooler")>>)
  \/ /\ temp \in target - DeadZone .. target + DeadZone
     /\ Decide("HOLD", <<SwitchOff("cooler"), SwitchOff("heater")>>)

\* The temperature against the target and the dead zone around it.
Control(target) ==
  LET upper == target + DeadZone
      lower == IF target > DeadZone THEN target - DeadZone ELSE AbsZero
      keepCooling == temp >= target /\ state["cooler"]
      keepHeating == temp <= target /\ state["heater"]
  IN  \/ /\ temp > upper
         /\ Decide("COOL", <<SwitchOff("heater"), SwitchOn("cooler")>>)
      \/ /\ temp < lower
         /\ Decide("HEAT", <<SwitchOff("cooler"), SwitchOn("heater")>>)
      \/ /\ lower <= temp /\ temp <= upper
         /\ \/ keepCooling /\ Decide("COOL", <<>>)
            \/ ~keepCooling /\ keepHeating /\ Decide("HEAT", <<>>)
            \/ /\ ~keepCooling /\ ~keepHeating
               /\ Decide("HOLD", <<SwitchOff("cooler"), SwitchOff("heater")>>)

CompareTemp ==
  /\ pc = "target"
  /\ Control(TargetTemp(profile, now))
  /\ UNCHANGED <<profile, now, back, sensor, stopping, began, temp,
                 lastEffectorUpdate, effectorVars>>

\* The next call of activate(); a guard that fails ends the list.
CallEffector ==
  /\ calls # <<>>
  /\ \E ok \in BOOLEAN :
       /\ Activate(Head(calls).effector, Head(calls).on, ok)
       /\ calls' = IF Head(calls).guard /\ ~ok THEN <<>> ELSE Tail(calls)
  /\ UNCHANGED <<profile, now, back, sensor, stopping, pc, began, temp,
                 lastEffectorUpdate, tempControlState>>

\* A mutant of the next definition: remembers when the next update is due.
CallsDone_NextDue ==
  /\ calls = <<>>
  /\ pc \in {"ctor", "deactivate", "effectors", "stop"}
  /\ pc' = IF pc = "stop" THEN "stopped" ELSE "idle"
  /\ lastEffectorUpdate' = IF pc = "effectors" THEN began + Interval ELSE lastEffectorUpdate
  /\ began' = 0 /\ temp' = AbsZero
  /\ UNCHANGED <<profile, now, back, sensor, stopping, calls, tempControlState,
                 effectorVars>>

\* All calls are made: back to the loop, or out of it.
CallsDone ==
  /\ calls = <<>>
  /\ pc \in {"ctor", "deactivate", "effectors", "stop"}
  /\ pc' = IF pc = "stop" THEN "stopped" ELSE "idle"
  /\ lastEffectorUpdate' = IF pc = "effectors" THEN began ELSE lastEffectorUpdate
  /\ began' = 0 /\ temp' = AbsZero
  /\ UNCHANGED <<profile, now, back, sensor, stopping, calls, tempControlState,
                 effectorVars>>

\* A mutant of the next definition: a stopped session leaves its effectors alone.
Stop_LeavesEffectors ==
  /\ pc = "idle"
  /\ stopping
  /\ pc' = "stopped"
  /\ UNCHANGED <<profile, now, back, sensor, stopping, began, temp, calls,
                 lastEffectorUpdate, tempControlState, effectorVars>>

\* The loop ends, and the session manager stops its sessions: Session::stop().
Stop ==
  /\ pc = "idle"
  /\ stopping
  /\ pc' = "stop"
  /\ calls' = Deactivate
  /\ UNCHANGED <<profile, now, back, sensor, stopping, began, temp,
                 lastEffectorUpdate, tempControlState, effectorVars>>

Thread == Iterate \/ CheckActive \/ SenseTemp \/ CompareTemp \/ CallEffector
          \/ CallsDone \/ Stop

-----------------------------------------------------------------------------
\* The main thread has been told to quit: SessionManager's Thread::stop().
RequestStop ==
  /\ ~stopping
  /\ stopping' = TRUE
  /\ UNCHANGED <<profile, now, back, sensor, pc, began, temp, calls,
                 lastEffectorUpdate, tempControlState, effectorVars>>

\* A second passes.  At MaxTime, when all profiles are over, the clock stands
\* still and the times it is compared with run back instead, to keep the model
\* finite; a time that is more than Interval + MaxBack ago is simply past.
Earlier(time) == IF time > MaxTime - Interval - MaxBack THEN time - 1 ELSE time

Tick ==
  /\ IF now < MaxTime
       THEN /\ now' = now + 1
            /\ UNCHANGED <<began, lastEffectorUpdate>>
       ELSE /\ began' = Earlier(began)
            /\ lastEffectorUpdate' = Earlier(lastEffectorUpdate)
            /\ UNCHANGED now
  /\ UNCHANGED <<profile, back, sensor, stopping, pc, temp, calls,
                 tempControlState, effectorVars>>

\* The system's clock is corrected.
SetClockBack ==
  /\ back < MaxBack
  /\ now > 0
  /\ now' = now - 1
  /\ back' = back + 1
  /\ UNCHANGED <<profile, sensor, stopping, pc, began, temp, calls,
                 lastEffectorUpdate, tempControlState, effectorVars>>

SensorDies ==
  /\ sensor = "ok"
  /\ sensor' = "dead"
  /\ UNCHANGED <<profile, now, back, stopping, pc, began, temp, calls,
                 lastEffectorUpdate, tempControlState, effectorVars>>

\* It is another session's turn.
OtherSession ==
  /\ pc \in {"idle", "stopped"}
  /\ ActivateOthers
  /\ UNCHANGED sessionVars

Next == Thread \/ RequestStop \/ Tick \/ SetClockBack \/ SensorDies \/ OtherSession

Spec == Init /\ [][Next]_vars

\* The thread is never blocked for ever, and the clock runs.
FairSpec == Spec /\ WF_vars(Thread) /\ WF_vars(Tick)
-----------------------------------------------------------------------------
Call == [effector : Effector, on : BOOLEAN, guard : BOOLEAN]

TypeOK ==
  /\ EffectorsTypeOK
  /\ profile \in Profiles
  /\ now \in 0 .. MaxTime
  /\ back \in 0 .. MaxBack
  /\ sensor \in {"ok", "dead"}
  /\ stopping \in BOOLEAN
  /\ pc \in {"ctor", "idle", "deactivate", "update", "sense", "target", "effectors",
             "stop", "stopped"}
  /\ began \in 0 .. MaxTime
  /\ temp \in Readings \cup {AbsZero}
  /\ calls \in Seq(Call)
  /\ lastEffectorUpdate \in 0 .. MaxTime
  /\ tempControlState \in {"UNKNOWN", "COOL", "HOLD", "HEAT"}

\* An effector is on as far as the program remembers, or as its own output tells.
Lit(e) == state[e] \/ (Alone(e) /\ On(e))

\* The heater and the cooler are never on together, at no instant, not even
\* between two calls of one decision - unless switching one of them off was
\* tried and failed.  (updateEffectors() ignores that failure.)  An output that
\* another effector has too may be switched by that one.
NeverBoth ==
  Lit("heater") /\ Lit("cooler") => stuck["heater"] \/ stuck["cooler"]

\* What the program remembers of an effector (state_) is what its output does, if
\* nobody else has that output.  One that two effectors of the session have is only
\* on if it is remembered of one of them.
StateKnown ==
  \A e \in fitted :
    /\ Alone(e) => (state[e] /\ enabled <=> On(e))
    /\ Ours(e) /\ On(e) => \E f \in fitted : Bit(f) = Bit(e) /\ state[f] /\ enabled

\* What the display shows is true of the effectors once a decision is carried
\* out.  HOLD and UNKNOWN mean that nothing is on, but an effector that would
\* not be switched off, or the output of another session; COOL means that nothing
\* heats and HEAT that nothing cools, unless one of the two would not be switched off.
DisplayHonest ==
  pc = "idle" =>
    /\ tempControlState \in {"HOLD", "UNKNOWN"} =>
         \A e \in Effector :
           /\ Lit(e) => stuck[e]
           /\ Ours(e) /\ On(e) => \E f \in fitted : Bit(f) = Bit(e) /\ stuck[f]
    /\ tempControlState = "COOL" /\ Lit("heater") => \E e \in Effector : stuck[e]
    /\ tempControlState = "HEAT" /\ Lit("cooler") => \E e \in Effector : stuck[e]

\* A session that has stopped leaves nothing of its own on, if every call that was
\* to switch something off succeeded.
StoppedOff ==
  pc = "stopped" =>
    \A e \in Effector : (Ours(e) /\ On(e)) \/ state[e] => \E f \in Effector : stuck[f]

\* A vessel whose sensor has died is soon neither heated nor cooled, and stays
\* so, however the clock is set and however many writes fail on the way; although
\* the sensor's average, and with it inRange(), keeps what it was.
DeadSensorSwitchesOff ==
  sensor = "dead" ~>
    []((\A e \in Effector : ~state[e] /\ (Ours(e) => ~On(e))) \/ pc \in {"stop", "stopped"})

\* The session manager gets to stop the session, whatever it is doing.
StopTakesEffect == stopping ~> pc = "stopped"

-----------------------------------------------------------------------------
\* session.cc:270 and 278: "No need to change effector state"; there is none if
\* the other effector is off.
KeepIsEnough ==
  [][CompareTemp /\ calls' = <<>> => ~(On("heater") /\ On("cooler"))]_vars

=============================================================================
