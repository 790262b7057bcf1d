------------------------------ MODULE Manager -------------------------------
(* What the session manager's thread works with besides the effectors: the     *)
(* temperature sensors, the screen, and the database. They share nothing: a    *)
(* behaviour is one of one of them, and the others stand still.                *)
EXTENDS Screen

CONSTANTS
    Samples, ZeroCelsius, AvgLen, RangeMin, RangeMax,       \* of TempSensor
    Query, Columns, Rows, Session, MaxErrors                \* of Database

VARIABLES
    part,                                                           \* whose behaviour it is
    kind, avglen, nsamples, currentTemp, probe, least, greatest, answer,    \* of TempSensor
    db, stmt, handles, row, list, sessions, wanted, log, errors             \* of Database

Sensor   == INSTANCE TempSensor
Database == INSTANCE Database WITH answer <- row
ASSUME ManagerAssumption ==
    ScreenAssumption /\ Sensor!TempSensorAssumption /\ Database!DatabaseAssumption

sensorVars == <<kind, avglen, nsamples, currentTemp, probe, least, greatest, answer>>
dbVars     == <<db, stmt, handles, row, list, sessions, wanted, log, errors>>
allVars    == <<part, sensorVars, vars, dbVars>>

ManagerInit ==
    /\ part \in {"sensor", "screen", "database"}
    /\ Sensor!Init /\ Init /\ Database!Init
    /\ part # "sensor" => probe = CHOOSE t \in Samples : TRUE       \* one of its initial states
    /\ part # "database" => wanted = {}

OnlySensor   == part = "sensor" /\ UNCHANGED <<part, vars, dbVars>>
OnlyScreen   == part = "screen" /\ UNCHANGED <<part, sensorVars, dbVars>>
OnlyDatabase == part = "database" /\ UNCHANGED <<part, sensorVars, vars>>

ManagerNext == \/ OnlySensor /\ Sensor!Next
               \/ OnlyScreen /\ Next
               \/ OnlyDatabase /\ Database!Next

\* The fairness of TempSensor.
ManagerSpec == ManagerInit /\ [][ManagerNext]_allVars /\ WF_allVars(OnlySensor /\ Sensor!Sense)

(***************************************************************************)
(* The properties of the three modules; InitRecovers, LooksAsDrawnAfresh   *)
(* and StaysInItsLine are Screen's.                                        *)
(***************************************************************************)
\* Every variable of the sensor, the screen and the database has its type.
ManagerTypeOK == Sensor!TypeOK /\ TypeOK /\ Database!TypeOK

\* tempsensor.cc:149: the average lies between the least and the greatest reading.
AverageWithinSamples == Sensor!AverageWithinSamples

\* tempsensor.cc:152: when the temperature stays, the average comes near to it.
Follows == Sensor!Follows

\* sqlitestmt.cc:245: a column that is asked for by its name is that one, or NULL.
ColumnIsTheOneNamed == Database!ColumnIsTheOneNamed

\* sqlite.cc:86, sqlitestmt.cc:260: each statement of SQLite is finalised once.
NothingLeaks == Database!NothingLeaks

\* sessionmanager.cc:74: a call without an error has all active sessions.
ListedOrError == Database!ListedOrError
=============================================================================
