----------------------------- MODULE TempSensor -----------------------------
(* peripherals/tempsensor.cc: a sensor and its moving average, from the        *)
(* factory to the readings that a session and ambientTemp() make of it.        *)
(* Temperatures are numbers of a smallest step above absolute zero; a division *)
(* of doubles is rounded to one of the two steps next to it.                   *)
EXTENDS Integers

CONSTANTS
    Samples,        \* what the thermistor's equation may yield
    ZeroCelsius,    \* what currentTemp_ is at first
    AvgLen,         \* "sensor.average_len"
    RangeMin, RangeMax      \* of the thermistor
TempSensorAssumption ==
    /\ Samples \subseteq Nat /\ AvgLen \in Nat \ {0}     \* Validator::gt0
    /\ ZeroCelsius \in Nat /\ RangeMin \in Nat /\ RangeMax \in Nat

VARIABLES
    kind,           \* "none" before the factory, "sensor", "default", or "dropped"
    avglen,         \* avglen_
    nsamples,       \* nsamples_
    currentTemp,    \* currentTemp_
    probe,          \* the temperature at the probe
    least, greatest,    \* of the samples so far
    answer          \* what ambientTemp() last returned

vars == <<kind, avglen, nsamples, currentTemp, probe, least, greatest, answer>>

AbsoluteZero == 0

Init == /\ kind = "none" /\ avglen = 0 /\ nsamples = 0 /\ currentTemp = ZeroCelsius
        /\ probe \in Samples /\ least = 0 /\ greatest = 0 /\ answer = AbsoluteZero

\* getTempSensor(), the constructor, and their callers: a sensor without a row is a
\* default one; if the database fails, or the thermistor is missing or of another
\* type, err is set: the session is left out, or the program ends.
GetTempSensor ==
    /\ kind = "none"
    /\ \/ kind' = "sensor" /\ avglen' = AvgLen
       \/ kind' \in {"default", "dropped"} /\ UNCHANGED avglen
    /\ UNCHANGED <<nsamples, currentTemp, probe, least, greatest, answer>>

Exists == kind \in {"sensor", "default"}

\* A default sensor is never in range.
InRange(temp) == kind = "sensor" /\ temp >= RangeMin /\ temp <= RangeMax

\* x / n, rounded down or up.
Quotients(x, n) == {x \div n, -((-x) \div n)}

Smaller(a, b) == IF a < b THEN a ELSE b
Greater(a, b) == IF a < b THEN b ELSE a
Record(sample) ==
    /\ least' = IF nsamples = 0 THEN sample ELSE Smaller(least, sample)
    /\ greatest' = IF nsamples = 0 THEN sample ELSE Greater(greatest, sample)

\* Mutant: the sample is counted after the division.
Sample_CountedLater(sample) ==
    /\ \E q \in Quotients(sample - currentTemp, nsamples + 2) : currentTemp' = currentTemp + q
    /\ nsamples' = IF nsamples < avglen THEN nsamples + 1 ELSE nsamples
    /\ Record(sample)

\* Mutant: nothing is added once there are avglen_ samples.
Sample_Full(sample) ==
    /\ nsamples < avglen
    /\ nsamples' = nsamples + 1
    /\ \E q \in Quotients(sample - currentTemp, nsamples') : currentTemp' = currentTemp + q
    /\ Record(sample)

Sample(sample) ==
    /\ nsamples' = IF nsamples < avglen THEN nsamples + 1 ELSE nsamples
    /\ \E q \in Quotients(sample - currentTemp, nsamples') : currentTemp' = currentTemp + q
    /\ Record(sample)

\* sense(), and ambientTemp() of what it returns: the average if the reading has
\* succeeded, else absolute zero, whatever inRange() says of the last average.
Sense ==
    /\ kind = "sensor" /\ Sample(probe)
    /\ answer' = IF InRange(currentTemp') THEN currentTemp' ELSE AbsoluteZero
    /\ UNCHANGED <<kind, avglen, probe>>

SenseFails ==
    /\ Exists /\ answer' = AbsoluteZero
    /\ UNCHANGED <<kind, avglen, nsamples, currentTemp, probe, least, greatest>>

Warm == /\ probe' \in Samples
        /\ UNCHANGED <<kind, avglen, nsamples, currentTemp, least, greatest, answer>>

Next == GetTempSensor \/ Sense \/ SenseFails \/ Warm
Spec == Init /\ [][Next]_vars

\* The session manager's thread goes on sensing, and not every reading fails.
FairSpec == Spec /\ WF_vars(Sense)

TypeOK ==
    /\ kind \in {"none", "sensor", "default", "dropped"}
    /\ avglen = (IF kind = "sensor" THEN AvgLen ELSE 0) /\ nsamples \in 0 .. avglen
    /\ currentTemp \in Nat /\ probe \in Samples /\ answer \in Nat
    /\ least \in Nat /\ greatest \in Nat

\* tempsensor.cc:149: the average that is controlled by, shown and checked against the
\* sensor's range lies between the least and the greatest reading there has been;
\* the 0 degrees it starts with have no part in it.
AverageWithinSamples ==
    nsamples > 0 => least <= currentTemp /\ currentTemp <= greatest

\* tempsensor.cc:152: when the temperature stays, the average comes so near to it that
\* only the rounding is left: it forgets what came before.
Follows ==
    \A t \in Samples :
        <>[](kind = "sensor" /\ probe = t)
            => <>[](t - AvgLen < currentTemp /\ currentTemp < t + AvgLen)
=============================================================================
