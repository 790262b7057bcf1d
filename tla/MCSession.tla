----------------------------- MODULE MCSession ------------------------------
(* Small instances of Session: temperatures 1 (below the sensor's range) to 9 *)
(* (above it), a dead zone of 1, stages of one to three seconds.              *)
EXTENDS Session

Stage(d, t) == [duration |-> d, temperature |-> t]

\* Cool down and end; warm up, then hold for ever (the last row is never read).
FermentProfile   == <<Stage(1, 6), Stage(1, 3)>>
ConditionProfile == <<Stage(2, 3), Stage(Null, 6), Stage(2, 3)>>

TwoProfiles   == {FermentProfile, ConditionProfile}

HeaterCooler  == {"heater", "cooler"}
Wiring(h, c, outs) ==
  [channel |-> [e \in HeaterCooler |-> IF e = "heater" THEN h ELSE c], others |-> outs]

\* Each has its own channel; another session has the heater's; both have one;
\* the cooler has one that is no output.
EachItsOwn    == {Wiring(0, 1, {})}
AnyWiring     == {Wiring(0, 1, {}), Wiring(0, 1, {8}), Wiring(0, 0, {}), Wiring(0, 8, {})}
=============================================================================
