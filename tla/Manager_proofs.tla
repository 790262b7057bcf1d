--------------------------- MODULE Manager_proofs ----------------------------
(* Proofs about what the session manager works with: the sensors, the screen   *)
(* and the database, each for any values of its constants; and that a          *)
(* behaviour of all of them is one of each.                                    *)
EXTENDS Manager, FiniteSetTheorems, SequenceTheorems, TLAPS

(***************************************************************************)
(* The sensor's moving average, for any samples, ranges and lengths.       *)
(***************************************************************************)
LEMMA SensorConstants ==
    /\ Samples \subseteq Nat /\ AvgLen \in Nat \ {0}
    /\ ZeroCelsius \in Nat /\ RangeMin \in Nat /\ RangeMax \in Nat
BY ManagerAssumption DEF Sensor!TempSensorAssumption

\* Division rounds down to a number between 0 and the dividend (the quotient of
\* sense()).
LEMMA DivBetween ==
  ASSUME NEW x \in Int, NEW n \in Nat \ {0}
  PROVE  /\ x \div n \in Int
         /\ x >= 0 => 0 <= x \div n /\ x \div n <= x
         /\ x <= 0 => x <= x \div n /\ x \div n <= 0
         /\ n = 1 => x \div n = x
<1> DEFINE q == x \div n
<1>1. q \in Int /\ n * q <= x /\ x < n * q + n
  OBVIOUS
<1> HIDE DEF q
<1>2. q >= 1 => n * q >= q
  BY <1>1
<1>3. q <= -1 => n * q <= -n
  BY <1>1
<1>4. q <= -1 => n * q <= q
  BY <1>1
<1>5. n = 1 => n * q = q
  BY <1>1
<1> QED BY <1>1, <1>2, <1>3, <1>4, <1>5 DEF q

\* A quotient of doubles lies between 0 and the dividend, however it is rounded,
\* and divided by the first count, 1, a number stays what it is (sense()).
LEMMA QuotientBetween ==
  ASSUME NEW x \in Int, NEW n \in Nat \ {0}, NEW q \in Sensor!Quotients(x, n)
  PROVE  /\ q \in Int
         /\ x >= 0 => 0 <= q /\ q <= x
         /\ x <= 0 => x <= q /\ q <= 0
         /\ n = 1 => q = x
<1>1. CASE q = x \div n
  BY <1>1, DivBetween
<1>2. CASE q = -((-x) \div n)
  <2>1. -x \in Int
    OBVIOUS
  <2> DEFINE p == (-x) \div n
  <2>2. /\ p \in Int
        /\ -x >= 0 => 0 <= p /\ p <= -x
        /\ -x <= 0 => -x <= p /\ p <= 0
        /\ n = 1 => p = -x
    BY <2>1, DivBetween
  <2> HIDE DEF p
  <2> QED BY <1>2, <2>2 DEF p
<1> QED BY <1>1, <1>2 DEF Sensor!Quotients

\* The invariant of the sensor.
SensorInv == Sensor!TypeOK /\ Sensor!AverageWithinSamples

\* A sample moves the average towards itself: it stays among the samples so far, and
\* the first sample replaces the 0 degrees of the constructor.
LEMMA SampleInv ==
  ASSUME SensorInv, NEW s \in Samples, kind = "sensor", Sensor!Sample(s)
  PROVE  /\ nsamples' \in 1 .. avglen /\ currentTemp' \in Nat
         /\ least' \in Nat /\ greatest' \in Nat
         /\ least' <= currentTemp' /\ currentTemp' <= greatest'
<1> USE SensorConstants DEF SensorInv, Sensor!TypeOK
<1>1. s \in Nat /\ currentTemp \in Nat /\ avglen \in Nat \ {0} /\ nsamples \in 0 .. avglen
  OBVIOUS
<1>2. nsamples' \in 1 .. avglen /\ (nsamples = 0 => nsamples' = 1)
  BY <1>1 DEF Sensor!Sample
<1>3. PICK q \in Sensor!Quotients(s - currentTemp, nsamples') : currentTemp' = currentTemp + q
  BY DEF Sensor!Sample
<1>4. /\ q \in Int
      /\ s - currentTemp >= 0 => 0 <= q /\ q <= s - currentTemp
      /\ s - currentTemp <= 0 => s - currentTemp <= q /\ q <= 0
      /\ nsamples' = 1 => q = s - currentTemp
  <2>1. s - currentTemp \in Int /\ nsamples' \in Nat \ {0}
    BY <1>1, <1>2
  <2> QED BY <2>1, QuotientBetween
<1>5. currentTemp' \in Nat /\ Sensor!Smaller(currentTemp, s) <= currentTemp' /\ currentTemp' <= Sensor!Greater(currentTemp, s)
  BY <1>1, <1>3, <1>4 DEF Sensor!Smaller, Sensor!Greater
<1>6. CASE nsamples = 0
  <2>1. currentTemp' = s /\ least' = s /\ greatest' = s
    BY <1>1, <1>2, <1>3, <1>4, <1>6 DEF Sensor!Sample, Sensor!Record
  <2> QED BY <1>1, <1>2, <2>1
<1>7. CASE nsamples # 0
  <2>1. /\ least <= currentTemp /\ currentTemp <= greatest
        /\ least' = Sensor!Smaller(least, s) /\ greatest' = Sensor!Greater(greatest, s)
    BY <1>1, <1>7 DEF Sensor!Sample, Sensor!Record, Sensor!AverageWithinSamples
  <2> QED BY <1>1, <1>2, <1>5, <2>1 DEF Sensor!Smaller, Sensor!Greater
<1> QED BY <1>6, <1>7

\* No sensor has a sample before the factory has made it.
LEMMA SensorInit == Sensor!Init => SensorInv
BY SensorConstants DEF Sensor!Init, SensorInv, Sensor!TypeOK, Sensor!AverageWithinSamples, Sensor!AbsoluteZero

\* Every step of the sensor keeps the invariant.
LEMMA SensorStep == SensorInv /\ [Sensor!Next]_(Sensor!vars) => SensorInv'
<1> SUFFICES ASSUME SensorInv, [Sensor!Next]_(Sensor!vars) PROVE SensorInv'
  OBVIOUS
<1> USE SensorConstants
<1>1. CASE Sensor!GetTempSensor
  BY <1>1 DEF Sensor!GetTempSensor, SensorInv, Sensor!TypeOK, Sensor!AverageWithinSamples
<1>2. CASE Sensor!Sense
  <2>1. kind = "sensor" /\ probe \in Samples /\ Sensor!Sample(probe) /\ UNCHANGED <<kind, avglen, probe>>
    BY <1>2 DEF Sensor!Sense, SensorInv, Sensor!TypeOK
  <2>2. /\ nsamples' \in 1 .. avglen /\ currentTemp' \in Nat
        /\ least' \in Nat /\ greatest' \in Nat
        /\ least' <= currentTemp' /\ currentTemp' <= greatest'
    BY <2>1, SampleInv
  <2>3. answer' \in Nat
    BY <1>2, <2>2 DEF Sensor!Sense, Sensor!AbsoluteZero
  <2> QED BY <2>1, <2>2, <2>3 DEF SensorInv, Sensor!TypeOK, Sensor!AverageWithinSamples
<1>3. CASE Sensor!SenseFails
  BY <1>3 DEF Sensor!SenseFails, Sensor!AbsoluteZero, SensorInv, Sensor!TypeOK, Sensor!AverageWithinSamples
<1>4. CASE Sensor!Warm
  BY <1>4 DEF Sensor!Warm, SensorInv, Sensor!TypeOK, Sensor!AverageWithinSamples
<1>5. CASE UNCHANGED Sensor!vars
  BY <1>5 DEF Sensor!vars, SensorInv, Sensor!TypeOK, Sensor!AverageWithinSamples
<1> QED BY <1>1, <1>2, <1>3, <1>4, <1>5 DEF Sensor!Next

\* The state of a sensor always has its type; a sensor that reads has a length of its
\* average that is not 0 (the constructor, the factory and sense()).
THEOREM SensorTypeCorrect == Sensor!Spec => []Sensor!TypeOK
<1>1. SensorInv => Sensor!TypeOK
  BY DEF SensorInv
<1> QED BY SensorInit, SensorStep, <1>1, PTL DEF Sensor!Spec

\* The average lies between the least and the greatest reading, for any readings, any
\* length, and whichever way each division is rounded (sense()).
THEOREM AverageIsBetween == Sensor!Spec => []Sensor!AverageWithinSamples
<1>1. SensorInv => Sensor!AverageWithinSamples
  BY DEF SensorInv
<1> QED BY SensorInit, SensorStep, <1>1, PTL DEF Sensor!Spec

\* A set of naturals that is not empty has a least member.
LEMMA Least == ASSUME NEW T \in SUBSET Nat, T # {} PROVE \E m \in T : \A k \in T : m <= k
<1> DEFINE Less == OpToRel(<, Nat)
<1>1. IsWellFoundedOn(Less, Nat)  BY NatLessThanWellFounded
<1>2. \A y, x \in Nat : y < x => <<y, x>> \in Less  BY DEF OpToRel
<1> HIDE DEF Less
<1>3. PICK x \in T : \A y \in T : ~ (<<y, x>> \in Less)  BY <1>1, WFMin
<1>4. \A y \in T : ~(y < x)  BY <1>2, <1>3
<1> QED BY <1>4

\* A set that has 0, and with n also n + 1, has all naturals.
LEMMA Induction == ASSUME NEW S, 0 \in S, \A n \in Nat : n \in S => n + 1 \in S PROVE Nat \subseteq S
<1> SUFFICES ASSUME ~(Nat \subseteq S) PROVE FALSE  OBVIOUS
<1>1. PICK m \in Nat \ S : \A k \in Nat \ S : m <= k
  <2>1. Nat \ S \in SUBSET Nat /\ Nat \ S # {}  OBVIOUS
  <2> QED BY <2>1, Least
<1>2. m # 0 /\ m - 1 \in Nat /\ m - 1 \in S  BY <1>1
<1>3. m \in S  BY <1>2
<1> QED BY <1>1, <1>3

\* What After() chooses exists: the states of the controller before and after each byte.
LEMMA StatesExist == ASSUME NEW l, NEW bytes, NEW n \in Nat
    PROVE \E f : f = [i \in 0 .. n |-> IF i = 0 THEN l ELSE Latch(f[i - 1], bytes[i])]
<1> DEFINE S == {k \in Nat : \E f : f = [i \in 0 .. k |-> IF i = 0 THEN l ELSE Latch(f[i - 1], bytes[i])]}
<1>1. 0 \in S
    <2> DEFINE f == [i \in 0 .. 0 |-> l]
    <2>1. f = [i \in 0 .. 0 |-> IF i = 0 THEN l ELSE Latch(f[i - 1], bytes[i])]
        OBVIOUS
    <2> QED BY <2>1
<1>2. ASSUME NEW k \in Nat, k \in S PROVE k + 1 \in S
    <2>1. PICK f : f = [i \in 0 .. k |-> IF i = 0 THEN l ELSE Latch(f[i - 1], bytes[i])]
        BY <1>2
    <2> DEFINE g == [i \in 0 .. k + 1 |-> IF i = k + 1 THEN Latch(f[k], bytes[k + 1]) ELSE f[i]]
    <2>2. \A i \in 0 .. k : g[i] = f[i]
        OBVIOUS
    <2>3. ASSUME NEW i \in 0 .. k + 1 PROVE g[i] = IF i = 0 THEN l ELSE Latch(g[i - 1], bytes[i])
        <3>1. CASE i = 0
            <4>1. f[0] = l
                BY <2>1
            <4> QED BY <3>1, <4>1, <2>2
        <3>2. CASE i \in 1 .. k
            <4>1. f[i] = Latch(f[i - 1], bytes[i])
                BY <2>1, <3>2
            <4>2. g[i] = f[i] /\ g[i - 1] = f[i - 1]
                BY <2>2, <3>2
            <4> QED BY <3>2, <4>1, <4>2
        <3>3. CASE i = k + 1
            <4>1. g[i - 1] = f[k]
                BY <2>2, <3>3
            <4>2. g[i] = Latch(f[k], bytes[k + 1])
                BY <3>3
            <4> QED BY <3>3, <4>1, <4>2
        <3> QED BY <3>1, <3>2, <3>3
    <2>4. g = [i \in 0 .. k + 1 |-> IF i = 0 THEN l ELSE Latch(g[i - 1], bytes[i])]
        BY <2>3
    <2> HIDE DEF g
    <2> QED BY <2>4
<1> HIDE DEF S
<1>3. n \in S
    BY <1>1, <1>2, Induction
<1> QED BY <1>3 DEF S

\* What holds before the first byte, and is kept or advanced by each byte, holds after
\* the last one.
LEMMA AfterEach ==
    ASSUME NEW bytes, NEW n \in Nat, Len(bytes) = n, NEW G, NEW l \in G[0],
           \A i \in 1 .. n : \A s \in G[i - 1] : Latch(s, bytes[i]) \in G[i]
    PROVE  After(l, bytes) \in G[n]
<1> DEFINE after == CHOOSE f : f = [i \in 0 .. n |-> IF i = 0 THEN l ELSE Latch(f[i - 1], bytes[i])]
<1>1. After(l, bytes) = after[n]
    BY DEF After
<1>2. after = [i \in 0 .. n |-> IF i = 0 THEN l ELSE Latch(after[i - 1], bytes[i])]
    BY StatesExist
<1> HIDE DEF after
<1> DEFINE S == {k \in Nat : k <= n => after[k] \in G[k]}
<1>3. 0 \in S
    BY <1>2
<1>4. ASSUME NEW k \in Nat, k \in S PROVE k + 1 \in S
    <2> SUFFICES ASSUME k + 1 <= n PROVE after[k + 1] \in G[k + 1]
        OBVIOUS
    <2>1. PICK j \in 1 .. n : j = k + 1 /\ j - 1 = k
        OBVIOUS
    <2>2. after[j - 1] \in G[j - 1]
        BY <1>4, <2>1
    <2>3. after[j] = Latch(after[j - 1], bytes[j])
        BY <1>2, <2>1
    <2> QED BY <2>1, <2>2, <2>3
<1> HIDE DEF S
<1>5. n \in S
    BY <1>3, <1>4, Induction
<1> QED BY <1>1, <1>5 DEF S

(***************************************************************************)
(* The controller's states.                                                *)
(***************************************************************************)
LcdType == [bits : {4, 8}, half : 0 .. 15 \cup {NoHalf}, lines : {1, 2}, on : BOOLEAN,
            forward : BOOLEAN, follow : BOOLEAN, shift : 0 .. 39, cg : BOOLEAN, addr : 0 .. 127,
            ddram : [DDRAM -> 0 .. 255], font : [1 .. 64 -> 0 .. 31]]
\* What the controller is sent: its RS line and the byte.
Byte == [rs : BOOLEAN, data : 0 .. 255]

\* An address is followed by an address.
LEMMA AddressStep == ASSUME NEW a \in 0 .. 127, NEW forward PROVE Towards(a, forward) \in 0 .. 127
BY DEF Towards

\* An address that is set leaves a state of the controller.
LEMMA Addressed == ASSUME NEW l \in LcdType, NEW a \in 0 .. 127, NEW b \in BOOLEAN
             PROVE  [l EXCEPT !.addr = a, !.cg = b] \in LcdType
BY DEF LcdType

\* An address and a shift that are set leaves a state of the controller.
LEMMA Homed == ASSUME NEW l \in LcdType, NEW a \in 0 .. 127, NEW b \in BOOLEAN, NEW s \in 0 .. 39
             PROVE  [l EXCEPT !.addr = a, !.cg = b, !.shift = s] \in LcdType
BY DEF LcdType

\* A change of the address alone leaves a state of the controller.
LEMMA Moved == ASSUME NEW l \in LcdType, NEW a \in 0 .. 127
             PROVE  [l EXCEPT !.addr = a] \in LcdType
BY DEF LcdType

\* A function set leaves a state of the controller.
LEMMA FunctionSet == ASSUME NEW l \in LcdType, NEW n \in {4, 8}, NEW k \in {1, 2}
             PROVE  [l EXCEPT !.bits = n, !.lines = k] \in LcdType
BY DEF LcdType

\* An entry mode leaves a state of the controller.
LEMMA ModeSet == ASSUME NEW l \in LcdType, NEW b \in BOOLEAN, NEW q \in BOOLEAN
             PROVE  [l EXCEPT !.forward = b, !.follow = q] \in LcdType
BY DEF LcdType

\* A row of a symbol leaves a state of the controller.
LEMMA SymbolStored == ASSUME NEW l \in LcdType, NEW f \in [1 .. 64 -> 0 .. 31], NEW a \in 0 .. 127
             PROVE  [l EXCEPT !.font = f, !.addr = a] \in LcdType
BY DEF LcdType

\* A character leaves a state of the controller.
LEMMA CharStored == ASSUME NEW l \in LcdType, NEW a \in 0 .. 127, NEW d \in [DDRAM -> 0 .. 255]
             PROVE  [l EXCEPT !.addr = a, !.ddram = d] \in LcdType
BY DEF LcdType

\* A cleared screen leaves a state of the controller.
LEMMA Cleared == ASSUME NEW l \in LcdType, NEW d \in [DDRAM -> 0 .. 255], NEW a \in 0 .. 127, NEW b \in BOOLEAN,
                        NEW s \in 0 .. 39, NEW q \in BOOLEAN
             PROVE  [l EXCEPT !.ddram = d, !.addr = a, !.cg = b, !.shift = s, !.forward = q] \in LcdType
BY DEF LcdType

\* An instruction leaves a state of the controller.
LEMMA InstructType == ASSUME NEW l \in LcdType, NEW c \in 0 .. 255 PROVE Instruct(l, c) \in LcdType
<1>1. CASE c \in 128 .. 255
    <2>1. Instruct(l, c) = [l EXCEPT !.addr = c - 128, !.cg = FALSE]
        BY <1>1 DEF Instruct, SET_DDRAM_ADDR, CLEAR
    <2>2. c - 128 \in 0 .. 127
        BY <1>1
    <2> QED BY <2>1, <2>2, Addressed
<1>2. CASE c \in 64 .. 127
    <2>1. Instruct(l, c) = [l EXCEPT !.addr = c - 64, !.cg = TRUE]
        BY <1>2 DEF Instruct, SET_DDRAM_ADDR, SET_CGRAM_ADDR, CLEAR
    <2>2. c - 64 \in 0 .. 127
        BY <1>2
    <2> QED BY <2>1, <2>2, Addressed
<1>3. CASE c \in 32 .. 63
    <2>1. Instruct(l, c) = [l EXCEPT !.bits = IF Has(c, DATA_LEN) THEN 8 ELSE 4,
                                     !.lines = IF Has(c, NUM_LINES) THEN 2 ELSE 1]
        BY <1>3 DEF Instruct, SET_DDRAM_ADDR, CLEAR
    <2> QED BY <2>1, FunctionSet
<1>4. CASE c \in 16 .. 31
    <2>1. CASE Has(c, 8)
        <3>1. Instruct(l, c) = Shifted(l, Has(c, 4))
            BY <1>4, <2>1 DEF Instruct, SET_DDRAM_ADDR, CLEAR
        <3>2. PICK s \in 0 .. 39 : s = (l.shift + (IF Has(c, 4) THEN 39 ELSE 1)) % 40
            BY DEF LcdType
        <3>3. Shifted(l, Has(c, 4)) = [l EXCEPT !.shift = s]
            BY <3>2 DEF Shifted
        <3> QED BY <3>1, <3>3 DEF LcdType
    <2>2. CASE ~Has(c, 8)
        <3>1. Instruct(l, c) = [l EXCEPT !.addr = Towards(l.addr, Has(c, 4))]
            BY <1>4, <2>2 DEF Instruct, SET_DDRAM_ADDR, CLEAR
        <3>2. Towards(l.addr, Has(c, 4)) \in 0 .. 127
            BY AddressStep DEF LcdType
        <3> QED BY <3>1, <3>2 DEF LcdType
    <2> QED BY <2>1, <2>2
<1>5. CASE c \in 8 .. 15
    <2>1. Instruct(l, c) = [l EXCEPT !.on = Has(c, DISP_ENABLE)]
        BY <1>5 DEF Instruct, SET_DDRAM_ADDR, CLEAR
    <2>2. Has(c, DISP_ENABLE) \in BOOLEAN
        BY DEF Has
    <2> QED BY <2>1, <2>2 DEF LcdType
<1>6. CASE c \in 4 .. 7
    <2>1. Instruct(l, c) = [l EXCEPT !.forward = Has(c, INCREMENT), !.follow = Has(c, 1)]
        BY <1>6 DEF Instruct, SET_DDRAM_ADDR, CLEAR
    <2>2. Has(c, INCREMENT) \in BOOLEAN /\ Has(c, 1) \in BOOLEAN
        BY DEF Has
    <2> QED BY <2>1, <2>2, ModeSet
<1>7. CASE c \in 2 .. 3
    <2>1. Instruct(l, c) = [l EXCEPT !.addr = 0, !.cg = FALSE, !.shift = 0]
        BY <1>7 DEF Instruct, SET_DDRAM_ADDR, CLEAR
    <2>2. 0 \in 0 .. 127 /\ 0 \in 0 .. 39
        OBVIOUS
    <2>3. [l EXCEPT !.addr = 0, !.cg = FALSE, !.shift = 0] \in LcdType
        BY <2>2, Homed, Zenon
    <2> QED BY <2>1, <2>3, Zenon
<1>8. CASE c = 1
    <2>1. Instruct(l, c) = [l EXCEPT !.ddram = [a \in DDRAM |-> Blank], !.addr = 0, !.cg = FALSE,
                                     !.shift = 0, !.forward = TRUE]
        BY <1>8 DEF Instruct, SET_DDRAM_ADDR, CLEAR
    <2>2. [a \in DDRAM |-> Blank] \in [DDRAM -> 0 .. 255]
        BY DEF Blank
    <2>3. 0 \in 0 .. 127 /\ 0 \in 0 .. 39
        OBVIOUS
    <2>4. [l EXCEPT !.ddram = [a \in DDRAM |-> Blank], !.addr = 0, !.cg = FALSE, !.shift = 0, !.forward = TRUE]
              \in LcdType
        BY <2>2, <2>3, Cleared, Zenon
    <2> QED BY <2>1, <2>4, Zenon
<1>9. CASE c = 0
    BY <1>9 DEF Instruct, SET_DDRAM_ADDR, CLEAR
<1> QED BY <1>1, <1>2, <1>3, <1>4, <1>5, <1>6, <1>7, <1>8, <1>9

\* A character leaves a state of the controller: one of a symbol has five bits.
LEMMA StoreType ==
    ASSUME NEW l \in LcdType, NEW c \in 0 .. 255, l.cg => c <= 31
    PROVE  Store(l, c) \in LcdType
<1>1. CASE l.cg
    <2>1. PICK a \in 0 .. 127 : a = (l.addr + (IF l.forward THEN 1 ELSE 63)) % 64
        BY DEF LcdType
    <2>2. PICK i \in 1 .. 64 : i = (l.addr % 64) + 1
        BY DEF LcdType
    <2>3. PICK f : f = [l.font EXCEPT ![i] = c]
        OBVIOUS
    <2>4. f \in [1 .. 64 -> 0 .. 31]
        BY <1>1, <2>3 DEF LcdType
    <2>5. Store(l, c) = [l EXCEPT !.font = f, !.addr = a]
        BY <1>1, <2>1, <2>2, <2>3 DEF Store
    <2>6. [l EXCEPT !.font = f, !.addr = a] \in LcdType
        BY <2>4, SymbolStored, Zenon
    <2> QED BY <2>5, <2>6, Zenon
<1>2. CASE ~l.cg
    <2>1. PICK s \in 0 .. 39 : s = IF l.follow THEN (l.shift + (IF ~l.forward THEN 39 ELSE 1)) % 40 ELSE l.shift
        BY DEF LcdType
    <2>2. PICK r : r = IF l.follow THEN Shifted(l, ~l.forward) ELSE l
        OBVIOUS
    <2>3. r = [l EXCEPT !.shift = s]
        BY <2>1, <2>2 DEF Shifted, LcdType
    <2>4. PICK a \in 0 .. 127 : a = Towards(r.addr, l.forward)
        BY <2>3, AddressStep DEF LcdType
    <2>5. PICK d : d = IF l.addr \in DDRAM THEN [r.ddram EXCEPT ![l.addr] = c] ELSE r.ddram
        OBVIOUS
    <2>6. d \in [DDRAM -> 0 .. 255]
        BY <2>5, <2>3 DEF LcdType
    <2>7. Store(l, c) = [r EXCEPT !.addr = a, !.ddram = d]
        BY <1>2, <2>2, <2>4, <2>5 DEF Store
    <2>8. r \in LcdType
        BY <2>3 DEF LcdType
    <2> QED BY <2>6, <2>7, <2>8, CharStored
<1> QED BY <1>1, <1>2

\* Every command, whole or in halves, leaves a state of the controller.
LEMMA CommandType ==
    ASSUME NEW l \in LcdType, NEW byte \in Byte, ~byte.rs
    PROVE  Latch(l, byte) \in LcdType
<1>1. CASE l.bits = 4 /\ l.half = NoHalf
    <2>1. PICK h \in 0 .. 15 : h = byte.data \div 16
        BY DEF Byte
    <2>2. Latch(l, byte) = [l EXCEPT !.half = h]
        BY <1>1, <2>1 DEF Latch
    <2> QED BY <2>2 DEF LcdType
<1>2. CASE ~(l.bits = 4 /\ l.half = NoHalf)
    <2>1. PICK c \in 0 .. 255 : c = IF l.bits = 4 THEN 16 * l.half + byte.data \div 16 ELSE byte.data
        BY <1>2 DEF Byte, LcdType, NoHalf
    <2>2. PICK r \in LcdType : r = [l EXCEPT !.half = NoHalf]
        BY DEF LcdType
    <2>3. Latch(l, byte) = Instruct(r, c)
        BY <1>2, <2>1, <2>2 DEF Latch
    <2> QED BY <2>3, InstructType
<1> QED BY <1>1, <1>2

\* One sequence after another.
LEMMA Concat ==
    ASSUME NEW S, NEW s \in Seq(S), NEW t \in Seq(S), NEW u, u = s \o t
    PROVE  /\ u \in Seq(S) /\ Len(u) = Len(s) + Len(t)
           /\ \A i \in 1 .. Len(s) : u[i] = s[i]
           /\ \A i \in Len(s) + 1 .. Len(s) + Len(t) : u[i] = t[i - Len(s)]
<1>1. /\ s \o t \in Seq(S) /\ Len(s \o t) = Len(s) + Len(t)
      /\ \A i \in 1 .. Len(s) + Len(t) : (s \o t)[i] = IF i <= Len(s) THEN s[i] ELSE t[i - Len(s)]
    BY ConcatProperties, Zenon
<1>2. /\ u \in Seq(S) /\ Len(u) = Len(s) + Len(t)
      /\ \A i \in 1 .. Len(s) + Len(t) : u[i] = IF i <= Len(s) THEN s[i] ELSE t[i - Len(s)]
    BY <1>1, Zenon
<1> QED BY <1>2

\* A function on 1 .. n is a sequence.
LEMMA Sequence == ASSUME NEW S, NEW n \in Nat, NEW f \in [1 .. n -> S] PROVE f \in Seq(S) /\ Len(f) = n
<1>1. f \in Seq(S)
    BY SeqDef
<1>2. Len(f) \in Nat /\ DOMAIN f = 1 .. Len(f)
    BY <1>1
<1> QED BY <1>1, <1>2

(***************************************************************************)
(* What init() makes of any state of the controller.                       *)
(***************************************************************************)
\* Eight bits that the controller takes whole are an instruction or a character.
LEMMA LatchWhole ==
    ASSUME NEW l \in LcdType, l.bits = 8, l.half = NoHalf, NEW byte
    PROVE  Latch(l, byte) = IF byte.rs THEN Store(l, byte.data) ELSE Instruct(l, byte.data)
<1>1. [l EXCEPT !.half = NoHalf] = l
    BY DEF LcdType
<1> QED BY <1>1 DEF Latch

\* The symbols have 56 rows of five bits.
LEMMA CharData == DOMAIN charData = 1 .. 56 /\ \A j \in 1 .. 56 : charData[j] \in 0 .. 31
<1>1. DOMAIN charData = 1 .. 56
    BY DEF charData
<1>2. \A j \in 1 .. 56 : charData[j] \in 0 .. 31
    BY DEF charData
<1> QED BY <1>1, <1>2

\* init() sends eleven commands, and the rows of the symbols.
LEMMA InitBytes ==
    /\ Len(init) = 67 /\ init \in Seq(Byte)
    /\ \A i \in 1 .. 11 : init[i].rs = FALSE
    /\ \A i \in 1 .. 3 : init[i].data = 48
    /\ init[4].data = 56 /\ init[5].data = 8 /\ init[6].data = 1 /\ init[7].data = 6
    /\ init[8].data = 128 /\ init[9].data = 12 /\ init[10].data = 2 /\ init[11].data = 64
    /\ \A i \in 12 .. 67 : init[i].rs = TRUE /\ init[i].data = charData[i - 11]
<1> DEFINE first == [i \in 1 .. 3 |-> FUNCTION_SET + DATA_LEN]
<1>1. first \in Seq(0 .. 255) /\ Len(first) = 3 /\ \A i \in 1 .. 3 : first[i] = 48
    <2>1. first \in [1 .. 3 -> 0 .. 255] /\ \A i \in 1 .. 3 : first[i] = 48
        BY DEF FUNCTION_SET, DATA_LEN
    <2> QED BY <2>1
<1>2. /\ initCommands \in Seq(0 .. 255) /\ Len(initCommands) = 6
      /\ initCommands[1] = 56 /\ initCommands[2] = 8 /\ initCommands[3] = 1 /\ initCommands[4] = 6
      /\ initCommands[5] = 128 /\ initCommands[6] = 12
    BY DEF initCommands, FUNCTION_SET, DATA_LEN, NUM_LINES, DISPLAY_CONTROL, CLEAR, ENTRY_MODE_SET, INCREMENT,
           SET_DDRAM_ADDR, DISP_ENABLE
<1>3. PICK last : last = <<HOME, SET_CGRAM_ADDR>>
    OBVIOUS
<1>4. last \in Seq(0 .. 255) /\ Len(last) = 2 /\ last[1] = 2 /\ last[2] = 64
    BY <1>3 DEF HOME, SET_CGRAM_ADDR
<1> HIDE DEF first
<1>5. PICK begin : begin = first \o initCommands
    OBVIOUS
<1>6. /\ begin \in Seq(0 .. 255) /\ Len(begin) = 3 + 6
      /\ \A i \in 1 .. 3 : begin[i] = first[i]
      /\ \A i \in 3 + 1 .. 3 + 6 : begin[i] = initCommands[i - 3]
    <2>1. first \in Seq(0 .. 255) /\ initCommands \in Seq(0 .. 255)
        BY <1>1, <1>2
    <2>2. /\ begin \in Seq(0 .. 255) /\ Len(begin) = Len(first) + Len(initCommands)
          /\ \A i \in 1 .. Len(first) : begin[i] = first[i]
          /\ \A i \in Len(first) + 1 .. Len(first) + Len(initCommands) : begin[i] = initCommands[i - Len(first)]
        BY <1>5, <2>1, Concat
    <2>3. Len(first) = 3 /\ Len(initCommands) = 6
        BY <1>1, <1>2
    <2> QED BY <2>2, <2>3
<1>7. /\ Len(begin) = 9 /\ \A i \in 1 .. 3 : begin[i] = 48
      /\ begin[4] = 56 /\ begin[5] = 8 /\ begin[6] = 1 /\ begin[7] = 6 /\ begin[8] = 128 /\ begin[9] = 12
    BY <1>1, <1>2, <1>6
<1>8. PICK all : all = begin \o last
    OBVIOUS
<1>9. /\ all \in Seq(0 .. 255) /\ Len(all) = 9 + 2
      /\ \A i \in 1 .. 9 : all[i] = begin[i]
      /\ \A i \in 9 + 1 .. 9 + 2 : all[i] = last[i - 9]
    <2>1. begin \in Seq(0 .. 255) /\ last \in Seq(0 .. 255)
        BY <1>4, <1>6, <1>7
    <2>2. /\ all \in Seq(0 .. 255) /\ Len(all) = Len(begin) + Len(last)
          /\ \A i \in 1 .. Len(begin) : all[i] = begin[i]
          /\ \A i \in Len(begin) + 1 .. Len(begin) + Len(last) : all[i] = last[i - Len(begin)]
        BY <1>8, <2>1, Concat
    <2>3. Len(begin) = 9 /\ Len(last) = 2
        BY <1>4, <1>6, <1>7
    <2> QED BY <2>2, <2>3
<1>10. /\ Len(all) = 11 /\ \A i \in 1 .. 3 : all[i] = 48
       /\ all[4] = 56 /\ all[5] = 8 /\ all[6] = 1 /\ all[7] = 6
       /\ all[8] = 128 /\ all[9] = 12 /\ all[10] = 2 /\ all[11] = 64
    BY <1>4, <1>7, <1>9
<1>11. PICK sent : sent = Commands(all)
    OBVIOUS
<1>12. sent = [i \in 1 .. 11 |-> [rs |-> FALSE, data |-> all[i]]]
    <2>1. DOMAIN all = 1 .. 11
        BY <1>9, <1>10
    <2> QED BY <1>11, <2>1 DEF Commands
<1>13. sent \in Seq(Byte) /\ Len(sent) = 11
    <2>1. ASSUME NEW i \in 1 .. 11 PROVE [rs |-> FALSE, data |-> all[i]] \in Byte
        <3>1. all[i] \in 0 .. 255
            BY <1>9, <1>10, ElementOfSeq
        <3> QED BY <3>1 DEF Byte
    <2>2. sent \in [1 .. 11 -> Byte]
        BY <1>12, <2>1
    <2> QED BY <2>2, Sequence
<1>14. \A i \in 1 .. 11 : sent[i].rs = FALSE /\ sent[i].data = all[i]
    BY <1>12
<1>15. PICK drawn : drawn = Data(charData)
    OBVIOUS
<1>16. drawn = [i \in 1 .. 56 |-> [rs |-> TRUE, data |-> charData[i]]]
    BY <1>15, CharData DEF Data
<1>17. drawn \in Seq(Byte) /\ Len(drawn) = 56
    <2>1. ASSUME NEW i \in 1 .. 56 PROVE [rs |-> TRUE, data |-> charData[i]] \in Byte
        <3>1. charData[i] \in 0 .. 255
            BY CharData
        <3> QED BY <3>1 DEF Byte
    <2>2. drawn \in [1 .. 56 -> Byte]
        BY <1>16, <2>1
    <2> QED BY <2>2, Sequence
<1>18. \A i \in 1 .. 56 : drawn[i].rs = TRUE /\ drawn[i].data = charData[i]
    BY <1>16
<1>19. init = sent \o drawn
    BY <1>3, <1>5, <1>8, <1>11, <1>15, Zenon DEF init, first
<1>20. /\ init \in Seq(Byte) /\ Len(init) = 11 + 56
       /\ \A i \in 1 .. 11 : init[i] = sent[i]
       /\ \A i \in 11 + 1 .. 11 + 56 : init[i] = drawn[i - 11]
    <2>1. sent \in Seq(Byte) /\ drawn \in Seq(Byte)
        BY <1>13, <1>17
    <2>2. /\ init \in Seq(Byte) /\ Len(init) = Len(sent) + Len(drawn)
          /\ \A i \in 1 .. Len(sent) : init[i] = sent[i]
          /\ \A i \in Len(sent) + 1 .. Len(sent) + Len(drawn) : init[i] = drawn[i - Len(sent)]
        BY <1>19, <2>1, Concat
    <2>3. Len(sent) = 11 /\ Len(drawn) = 56
        BY <1>13, <1>17
    <2> QED BY <2>2, <2>3
<1>21. init \in Seq(Byte) /\ Len(init) = 67
    BY <1>20
<1>22. \A i \in 1 .. 11 : init[i].rs = FALSE /\ init[i].data = all[i]
    BY <1>14, <1>20
<1>23. ASSUME NEW i \in 12 .. 67 PROVE init[i].rs = TRUE /\ init[i].data = charData[i - 11]
    <2>1. \A j \in 11 + 1 .. 11 + 56 : init[j] = drawn[j - 11]
        BY <1>20
    <2>2. init[i] = drawn[i - 11] /\ i - 11 \in 1 .. 56
        BY <2>1
    <2> QED BY <2>2, <1>18
<1>24. /\ \A i \in 1 .. 3 : init[i].data = 48
       /\ init[4].data = 56 /\ init[5].data = 8 /\ init[6].data = 1 /\ init[7].data = 6
       /\ init[8].data = 128 /\ init[9].data = 12 /\ init[10].data = 2 /\ init[11].data = 64
    BY <1>10, <1>22
<1>25. \A i \in 1 .. 11 : init[i].rs = FALSE
    BY <1>22
<1> QED BY <1>21, <1>23, <1>24, <1>25

\* The same of each byte.
LEMMA InitRs ==
    /\ \A i \in 1 .. 11 : init[i].rs = FALSE
    /\ \A i \in 1 .. 3 : init[i].data = 48
    /\ \A i \in 12 .. 67 : init[i].rs = TRUE /\ init[i].data = charData[i - 11]
BY InitBytes, Zenon

\* init() sends 67 bytes.
LEMMA InitLength == init \in Seq(Byte) /\ Len(init) = 67
BY InitBytes, Zenon

\* No instruction leaves a half of a byte.
LEMMA InstructHalf ==
    ASSUME NEW l \in LcdType, l.half = NoHalf, NEW c \in 0 .. 255 PROVE Instruct(l, c).half = NoHalf
BY DEF Instruct, Shifted, LcdType, SET_DDRAM_ADDR, SET_CGRAM_ADDR, CLEAR

\* The instruction of three bytes of init() sets eight bits.
LEMMA SetEightBits ==
    ASSUME NEW l \in LcdType PROVE Instruct(l, 48).bits = 8 /\ Instruct(l, 48).half = l.half
<1>1. Instruct(l, 48) = [l EXCEPT !.bits = IF Has(48, DATA_LEN) THEN 8 ELSE 4,
                                  !.lines = IF Has(48, NUM_LINES) THEN 2 ELSE 1]
    BY DEF Instruct, SET_DDRAM_ADDR, CLEAR
<1>2. Has(48, DATA_LEN)
    BY DEF Has, DATA_LEN
<1> QED BY <1>1, <1>2 DEF LcdType

\* The mode that init() leaves: eight bits, two lines, from left to right.
EightBits(l) == l.bits = 8 /\ l.half = NoHalf
\* The display is not shifted, and writing moves the cursor to the right.
Unshifted(l) == l.shift = 0 /\ l.forward
\* Nothing is on the screen.
AllBlank(l) == l.ddram = [a \in DDRAM |-> Blank]

\* What holds after the first i bytes. Three times "eight bits" is enough: the first may
\* be taken for a half of any byte, the second for the first half of one.
Reached(i, l) ==
    /\ i = 1 => EightBits(l) \/ (l.bits = 4 /\ l.half \in {3, NoHalf})
    /\ i = 2 => EightBits(l) \/ (l.bits = 4 /\ l.half = 3)
    /\ i >= 3 => EightBits(l)
    /\ i >= 4 => l.lines = 2
    /\ i >= 6 => Unshifted(l) /\ AllBlank(l)
    /\ i >= 7 => ~l.follow
    /\ i >= 9 => l.on
    /\ i >= 11 => /\ l.cg /\ l.addr = i - 11
                  /\ \A j \in 1 .. i - 11 : l.font[j] = charData[j]

\* After init(), and after every other call: the mode, and the symbols.
Ready(l) == /\ EightBits(l) /\ l.lines = 2 /\ l.on /\ Unshifted(l) /\ ~l.follow
            /\ \A j \in 1 .. 56 : l.font[j] = charData[j]

\* Whole bytes are as good as it gets until the third one.
LEMMA EarlyReached == ASSUME NEW x, EightBits(x) PROVE Reached(1, x) /\ Reached(2, x) /\ Reached(3, x)
BY DEF Reached, EightBits

\* The first of the bytes is a half of a byte, or a byte.
LEMMA FirstByte ==
    ASSUME NEW l \in LcdType, NEW byte \in Byte, ~byte.rs, byte.data = 48
    PROVE  Reached(1, Latch(l, byte))
<1>1. CASE l.bits = 4 /\ l.half = NoHalf
    <2>1. Latch(l, byte) = [l EXCEPT !.half = 48 \div 16]
        BY <1>1 DEF Latch
    <2>2. Latch(l, byte).bits = 4 /\ Latch(l, byte).half = 3
        BY <1>1, <2>1 DEF LcdType
    <2> QED BY <2>2 DEF Reached
<1>2. CASE l.bits = 4 /\ l.half # NoHalf
    <2>5. PICK r \in LcdType : r = [l EXCEPT !.half = NoHalf]
        BY DEF LcdType
    <2>1. r.bits = 4 /\ r.half = NoHalf
        BY <1>2, <2>5 DEF LcdType
    <2>2. PICK c \in 0 .. 255 : c = 16 * l.half + 3
        BY <1>2 DEF LcdType
    <2>3. Latch(l, byte) = Instruct(r, c)
        BY <1>2, <2>5, <2>2 DEF Latch
    <2>4. Instruct(r, c).bits \in {4, 8} /\ Instruct(r, c).half = NoHalf
        BY <2>1, InstructHalf, InstructType DEF LcdType
    <2> QED BY <2>3, <2>4 DEF Reached, EightBits
<1>3. CASE l.bits = 8
    <2>1. PICK r \in LcdType : r = [l EXCEPT !.half = NoHalf]
        BY DEF LcdType
    <2>2. r.half = NoHalf
        BY <2>1 DEF LcdType
    <2>3. Latch(l, byte) = Instruct(r, 48)
        BY <1>3, <2>1 DEF Latch
    <2>4. EightBits(Latch(l, byte))
        BY <2>2, <2>3, SetEightBits DEF EightBits
    <2> QED BY <2>4, EarlyReached
<1> QED BY <1>1, <1>2, <1>3 DEF LcdType

\* Two equal halves are the byte "eight bits" and more: 51.
LEMMA HalfCompleted ==
    ASSUME NEW l \in LcdType, l.bits = 4, l.half = 3, NEW byte \in Byte, ~byte.rs, byte.data = 48
    PROVE  EightBits(Latch(l, byte))
<1>1. PICK r \in LcdType : r = [l EXCEPT !.half = NoHalf]
    BY DEF LcdType
<1>2. r.half = NoHalf
    BY <1>1 DEF LcdType
<1>3. Latch(l, byte) = Instruct(r, 51)
    BY <1>1 DEF Latch, NoHalf
<1>4. Instruct(r, 51) = [r EXCEPT !.bits = IF Has(51, DATA_LEN) THEN 8 ELSE 4,
                                  !.lines = IF Has(51, NUM_LINES) THEN 2 ELSE 1]
    BY DEF Instruct, SET_DDRAM_ADDR, CLEAR
<1>5. Has(51, DATA_LEN)
    BY DEF Has, DATA_LEN
<1> QED BY <1>2, <1>3, <1>4, <1>5 DEF EightBits, LcdType

\* The second completes a half, or is the first half of itself.
LEMMA SecondByte ==
    ASSUME NEW l \in LcdType, Reached(1, l), NEW byte \in Byte, ~byte.rs, byte.data = 48
    PROVE  Reached(2, Latch(l, byte))
<1>1. CASE EightBits(l)
    <2>1. Latch(l, byte) = Instruct(l, 48)
        BY <1>1, LatchWhole DEF EightBits
    <2>2. EightBits(Latch(l, byte))
        BY <1>1, <2>1, SetEightBits DEF EightBits
    <2> QED BY <2>2, EarlyReached
<1>2. CASE l.bits = 4 /\ l.half = NoHalf
    <2>1. Latch(l, byte) = [l EXCEPT !.half = 48 \div 16]
        BY <1>2 DEF Latch
    <2>2. Latch(l, byte).bits = 4 /\ Latch(l, byte).half = 3
        BY <1>2, <2>1 DEF LcdType
    <2> QED BY <2>2 DEF Reached
<1>3. CASE l.bits = 4 /\ l.half = 3
    BY <1>3, HalfCompleted, EarlyReached
<1> QED BY <1>1, <1>2, <1>3 DEF Reached

\* The third completes the half that the second left.
LEMMA ThirdByte ==
    ASSUME NEW l \in LcdType, Reached(2, l), NEW byte \in Byte, ~byte.rs, byte.data = 48
    PROVE  Reached(3, Latch(l, byte))
<1>1. CASE EightBits(l)
    <2>1. Latch(l, byte) = Instruct(l, 48)
        BY <1>1, LatchWhole DEF EightBits
    <2>2. EightBits(Latch(l, byte))
        BY <1>1, <2>1, SetEightBits DEF EightBits
    <2> QED BY <2>2, EarlyReached
<1>2. CASE l.bits = 4 /\ l.half = 3
    BY <1>2, HalfCompleted, EarlyReached
<1> QED BY <1>1, <1>2 DEF Reached

\* What the commands of init() after the third one set.
LEMMA Effects ==
    ASSUME NEW l \in LcdType
    PROVE  /\ Instruct(l, 56) = [l EXCEPT !.bits = 8, !.lines = 2]
           /\ Instruct(l, 8) = [l EXCEPT !.on = FALSE]
           /\ Instruct(l, 1) = [l EXCEPT !.ddram = [a \in DDRAM |-> Blank], !.addr = 0, !.cg = FALSE,
                                         !.shift = 0, !.forward = TRUE]
           /\ Instruct(l, 6) = [l EXCEPT !.forward = TRUE, !.follow = FALSE]
           /\ Instruct(l, 128) = [l EXCEPT !.addr = 0, !.cg = FALSE]
           /\ Instruct(l, 12) = [l EXCEPT !.on = TRUE]
           /\ Instruct(l, 2) = [l EXCEPT !.addr = 0, !.cg = FALSE, !.shift = 0]
           /\ Instruct(l, 64) = [l EXCEPT !.addr = 0, !.cg = TRUE]
<1>1. Instruct(l, 56) = [l EXCEPT !.bits = 8, !.lines = 2]
    <2>1. Has(56, DATA_LEN) /\ Has(56, NUM_LINES)
        BY DEF Has, DATA_LEN, NUM_LINES
    <2>2. Instruct(l, 56) = [l EXCEPT !.bits = IF Has(56, DATA_LEN) THEN 8 ELSE 4,
                                      !.lines = IF Has(56, NUM_LINES) THEN 2 ELSE 1]
        BY DEF Instruct, SET_DDRAM_ADDR, CLEAR
    <2> QED BY <2>1, <2>2
<1>2. Instruct(l, 8) = [l EXCEPT !.on = FALSE]
    <2>1. Has(8, DISP_ENABLE) = FALSE
        BY DEF Has, DISP_ENABLE
    <2>2. Instruct(l, 8) = [l EXCEPT !.on = Has(8, DISP_ENABLE)]
        BY DEF Instruct, SET_DDRAM_ADDR, CLEAR
    <2> QED BY <2>1, <2>2
<1>3. Instruct(l, 1) = [l EXCEPT !.ddram = [a \in DDRAM |-> Blank], !.addr = 0, !.cg = FALSE,
                                 !.shift = 0, !.forward = TRUE]
    BY DEF Instruct, SET_DDRAM_ADDR, CLEAR
<1>4. Instruct(l, 6) = [l EXCEPT !.forward = TRUE, !.follow = FALSE]
    <2>1. Has(6, INCREMENT) = TRUE /\ Has(6, 1) = FALSE
        BY DEF Has, INCREMENT
    <2>2. Instruct(l, 6) = [l EXCEPT !.forward = Has(6, INCREMENT), !.follow = Has(6, 1)]
        BY DEF Instruct, SET_DDRAM_ADDR, CLEAR
    <2> QED BY <2>1, <2>2
<1>5. Instruct(l, 128) = [l EXCEPT !.addr = 0, !.cg = FALSE]
    BY DEF Instruct, SET_DDRAM_ADDR, CLEAR
<1>6. Instruct(l, 12) = [l EXCEPT !.on = TRUE]
    <2>1. Has(12, DISP_ENABLE) = TRUE
        BY DEF Has, DISP_ENABLE
    <2>2. Instruct(l, 12) = [l EXCEPT !.on = Has(12, DISP_ENABLE)]
        BY DEF Instruct, SET_DDRAM_ADDR, CLEAR
    <2> QED BY <2>1, <2>2
<1>7. Instruct(l, 2) = [l EXCEPT !.addr = 0, !.cg = FALSE, !.shift = 0]
    BY DEF Instruct, SET_DDRAM_ADDR, CLEAR
<1>8. Instruct(l, 64) = [l EXCEPT !.addr = 0, !.cg = TRUE]
    BY DEF Instruct, SET_DDRAM_ADDR, SET_CGRAM_ADDR, CLEAR
<1> QED BY <1>1, <1>2, <1>3, <1>4, <1>5, <1>6, <1>7, <1>8

\* The fourth to the eleventh byte set the mode, and then the address of the symbols.
LEMMA CommandBytes ==
    ASSUME NEW i \in 4 .. 11, NEW l \in LcdType, Reached(i - 1, l) PROVE Reached(i, Latch(l, init[i]))
<1>1. EightBits(l) /\ (i >= 5 => l.lines = 2) /\ (i >= 7 => Unshifted(l) /\ AllBlank(l)) /\ (i >= 8 => ~l.follow) /\ (i >= 10 => l.on)
    BY DEF Reached
<1>2. Latch(l, init[i]) = Instruct(l, init[i].data)
    <2>1. \A j \in 1 .. 11 : init[j].rs = FALSE
        BY InitBytes, Zenon
    <2>2. init[i].rs = FALSE
        BY <2>1
    <2> QED BY <1>1, <2>2, LatchWhole DEF EightBits
<1>3. CASE i = 4
    <2>1. Latch(l, init[i]) = [l EXCEPT !.bits = 8, !.lines = 2]
        <3>1. init[i].data = 56
            BY <1>3, InitBytes
        <3> QED BY <1>2, <3>1, Effects
    <2>2. EightBits(Latch(l, init[i])) /\ Latch(l, init[i]).lines = 2
        BY <1>1, <2>1 DEF LcdType, EightBits
    <2> QED BY <1>3, <2>2 DEF Reached
<1>4. CASE i = 5
    <2>1. Latch(l, init[i]) = [l EXCEPT !.on = FALSE]
        <3>1. init[i].data = 8
            BY <1>4, InitBytes
        <3> QED BY <1>2, <3>1, Effects
    <2>2. EightBits(Latch(l, init[i])) /\ Latch(l, init[i]).lines = 2
        BY <1>1, <1>4, <2>1 DEF LcdType, EightBits
    <2> QED BY <1>4, <2>2 DEF Reached
<1>5. CASE i = 6
    <2>1. Latch(l, init[i]) = [l EXCEPT !.ddram = [a \in DDRAM |-> Blank], !.addr = 0, !.cg = FALSE,
                                        !.shift = 0, !.forward = TRUE]
        <3>1. init[i].data = 1
            BY <1>5, InitBytes
        <3> QED BY <1>2, <3>1, Effects
    <2>2. /\ EightBits(Latch(l, init[i])) /\ Latch(l, init[i]).lines = 2 /\ Unshifted(Latch(l, init[i]))
          /\ AllBlank(Latch(l, init[i]))
        BY <1>1, <1>5, <2>1 DEF LcdType, EightBits, Unshifted, AllBlank
    <2> QED BY <1>5, <2>2 DEF Reached
<1>6. CASE i = 7
    <2>1. Latch(l, init[i]) = [l EXCEPT !.forward = TRUE, !.follow = FALSE]
        <3>1. init[i].data = 6
            BY <1>6, InitBytes
        <3> QED BY <1>2, <3>1, Effects
    <2>2. /\ EightBits(Latch(l, init[i])) /\ Latch(l, init[i]).lines = 2 /\ Unshifted(Latch(l, init[i]))
          /\ AllBlank(Latch(l, init[i])) /\ ~Latch(l, init[i]).follow
        BY <1>1, <1>6, <2>1 DEF LcdType, EightBits, Unshifted, AllBlank
    <2> QED BY <1>6, <2>2 DEF Reached
<1>7. CASE i = 8
    <2>1. Latch(l, init[i]) = [l EXCEPT !.addr = 0, !.cg = FALSE]
        <3>1. init[i].data = 128
            BY <1>7, InitBytes
        <3> QED BY <1>2, <3>1, Effects
    <2>2. /\ EightBits(Latch(l, init[i])) /\ Latch(l, init[i]).lines = 2 /\ Unshifted(Latch(l, init[i]))
          /\ AllBlank(Latch(l, init[i])) /\ ~Latch(l, init[i]).follow
        BY <1>1, <1>7, <2>1 DEF LcdType, EightBits, Unshifted, AllBlank
    <2> QED BY <1>7, <2>2 DEF Reached
<1>8. CASE i = 9
    <2>1. Latch(l, init[i]) = [l EXCEPT !.on = TRUE]
        <3>1. init[i].data = 12
            BY <1>8, InitBytes
        <3> QED BY <1>2, <3>1, Effects
    <2>2. /\ EightBits(Latch(l, init[i])) /\ Latch(l, init[i]).lines = 2 /\ Unshifted(Latch(l, init[i]))
          /\ AllBlank(Latch(l, init[i])) /\ ~Latch(l, init[i]).follow /\ Latch(l, init[i]).on
        BY <1>1, <1>8, <2>1 DEF LcdType, EightBits, Unshifted, AllBlank
    <2> QED BY <1>8, <2>2 DEF Reached
<1>9. CASE i = 10
    <2>1. Latch(l, init[i]) = [l EXCEPT !.addr = 0, !.cg = FALSE, !.shift = 0]
        <3>1. init[i].data = 2
            BY <1>9, InitBytes
        <3> QED BY <1>2, <3>1, Effects
    <2>2. /\ EightBits(Latch(l, init[i])) /\ Latch(l, init[i]).lines = 2 /\ Unshifted(Latch(l, init[i]))
          /\ AllBlank(Latch(l, init[i])) /\ ~Latch(l, init[i]).follow /\ Latch(l, init[i]).on
        BY <1>1, <1>9, <2>1 DEF LcdType, EightBits, Unshifted, AllBlank
    <2> QED BY <1>9, <2>2 DEF Reached
<1>10. CASE i = 11
    <2>1. Latch(l, init[i]) = [l EXCEPT !.addr = 0, !.cg = TRUE]
        <3>1. init[i].data = 64
            BY <1>10, InitBytes
        <3> QED BY <1>2, <3>1, Effects
    <2>2. /\ EightBits(Latch(l, init[i])) /\ Latch(l, init[i]).lines = 2 /\ Unshifted(Latch(l, init[i]))
          /\ AllBlank(Latch(l, init[i])) /\ ~Latch(l, init[i]).follow /\ Latch(l, init[i]).on
        BY <1>1, <1>10, <2>1 DEF LcdType, EightBits, Unshifted, AllBlank
    <2>3. Latch(l, init[i]).cg /\ Latch(l, init[i]).addr = 0
        BY <2>1 DEF LcdType
    <2> QED BY <1>10, <2>2, <2>3 DEF Reached
<1> QED BY <1>3, <1>4, <1>5, <1>6, <1>7, <1>8, <1>9, <1>10

\* Each byte after them is a row of a symbol.
LEMMA SymbolBytes ==
    ASSUME NEW i \in 12 .. 67, NEW l \in LcdType, Reached(i - 1, l) PROVE Reached(i, Latch(l, init[i]))
<1>1. /\ EightBits(l) /\ l.lines = 2 /\ Unshifted(l) /\ AllBlank(l) /\ ~l.follow /\ l.on /\ l.cg /\ l.addr = i - 12
      /\ \A j \in 1 .. i - 12 : l.font[j] = charData[j]
    BY DEF Reached
<1>2. PICK k \in 1 .. 56 : k = i - 11 /\ (l.addr % 64) + 1 = k /\ (l.addr + 1) % 64 = k
    BY <1>1
<1>3. Latch(l, init[i]) = Store(l, charData[k])
    <2>1. \A j \in 12 .. 67 : init[j].rs = TRUE /\ init[j].data = charData[j - 11]
        BY InitBytes, Zenon
    <2>2. init[i].rs = TRUE /\ init[i].data = charData[k]
        BY <1>2, <2>1
    <2> QED BY <1>1, <2>2, LatchWhole DEF EightBits
<1>4. PICK f : f = [l.font EXCEPT ![k] = charData[k]]
    OBVIOUS
<1>5. Latch(l, init[i]) = [l EXCEPT !.font = f, !.addr = k]
    BY <1>1, <1>2, <1>3, <1>4 DEF Store, Unshifted
<1>6. \A j \in 1 .. k : f[j] = charData[j]
    BY <1>1, <1>2, <1>4 DEF LcdType
<1>7. PICK x : x = Latch(l, init[i])
    OBVIOUS
<1>8. EightBits(x) /\ x.lines = 2 /\ Unshifted(x) /\ AllBlank(x) /\ ~x.follow /\ x.on
    BY <1>1, <1>5, <1>7 DEF LcdType, EightBits, Unshifted, AllBlank
<1>9. x.cg /\ x.addr = i - 11 /\ x.font = f
    BY <1>1, <1>2, <1>5, <1>7 DEF LcdType
<1> QED BY <1>2, <1>6, <1>7, <1>8, <1>9 DEF Reached

\* Each byte of init() leaves a state of the controller, the next of those.
LEMMA InitStep ==
    ASSUME NEW i \in 1 .. 67, NEW s \in LcdType, i >= 2 => Reached(i - 1, s)
    PROVE  Latch(s, init[i]) \in LcdType /\ Reached(i, Latch(s, init[i]))
<1>1. init[i] \in Byte
    <2>1. init \in Seq(Byte) /\ Len(init) = 67
        BY InitBytes, Zenon
    <2> QED BY <2>1, ElementOfSeq
<1>2. CASE i \in 1 .. 11
    <2>1. ~init[i].rs
        BY <1>2, InitRs
    <2>2. Latch(s, init[i]) \in LcdType
        BY <1>1, <2>1, CommandType
    <2>3. CASE i \in 1 .. 3
        <3>1. init[i].data = 48
            BY <2>3, InitRs
        <3> QED BY <1>1, <2>1, <2>2, <2>3, <3>1, FirstByte, SecondByte, ThirdByte
    <2>4. CASE i \in 4 .. 11
        BY <2>2, <2>4, CommandBytes
    <2> QED BY <1>2, <2>3, <2>4
<1>3. CASE i \in 12 .. 67
    <2>1. Reached(i - 1, s)
        BY <1>3
    <2>2. EightBits(s)
        BY <1>3, <2>1 DEF Reached
    <2>3. i - 11 \in 1 .. 56 /\ init[i].rs = TRUE /\ init[i].data = charData[i - 11]
        BY <1>3, InitRs
    <2>4. PICK c \in 0 .. 31 : c = charData[i - 11]
        BY <2>3, CharData
    <2>5. Latch(s, init[i]) = Store(s, c)
        BY <2>2, <2>3, <2>4, LatchWhole DEF EightBits
    <2>6. c \in 0 .. 255 /\ c <= 31
        OBVIOUS
    <2> QED BY <1>3, <2>1, <2>5, <2>6, StoreType, SymbolBytes
<1> QED BY <1>2, <1>3

\* init(), or the part of it that is sent before the program is killed, makes of any state
\* the one that the part has reached.
LEMMA InitReaches ==
    ASSUME NEW l \in LcdType, NEW n \in 0 .. 67, NEW bytes, Len(bytes) = n, \A i \in 1 .. n : bytes[i] = init[i]
    PROVE  After(l, bytes) \in LcdType /\ (n = 67 => Ready(After(l, bytes)) /\ AllBlank(After(l, bytes)))
<1> DEFINE Stage(i) == {s \in LcdType : i >= 1 => Reached(i, s)}
           G == [i \in 0 .. n |-> Stage(i)]
<1>1. n \in Nat /\ n <= 67
    OBVIOUS
<1>2. ASSUME NEW i \in 1 .. n, NEW s \in G[i - 1] PROVE Latch(s, bytes[i]) \in G[i]
    <2>1. PICK k \in 1 .. 67 : k = i
        BY <1>1
    <2>2. i \in 0 .. n /\ i - 1 \in 0 .. n
        BY <1>1
    <2>3. G[i - 1] = Stage(i - 1) /\ G[i] = Stage(i)
        BY <2>2
    <2>4. s \in LcdType /\ (k >= 2 => Reached(k - 1, s))
        BY <2>1, <2>3
    <2>5. Latch(s, init[k]) \in LcdType /\ Reached(k, Latch(s, init[k]))
        BY <2>4, InitStep
    <2> QED BY <2>1, <2>3, <2>5
<1>3. l \in G[0]
    BY <1>1
<1>4. G[n] = Stage(n)
    BY <1>1
<1> HIDE DEF G
<1>5. \A i \in 1 .. n : \A s \in G[i - 1] : Latch(s, bytes[i]) \in G[i]
    BY <1>2
<1>6. After(l, bytes) \in G[n]
    BY <1>1, <1>3, <1>5, AfterEach
<1>7. ASSUME NEW x \in LcdType, Reached(67, x) PROVE Ready(x) /\ AllBlank(x)
    BY <1>7 DEF Reached, Ready
<1> QED BY <1>4, <1>6, <1>7

(***************************************************************************)
(* The other calls.                                                        *)
(***************************************************************************)
\* clear(), or an address and the text for it; nothing for a place off the screen.
TextCalls == {b \in Seq(Byte) : b # <<>> => /\ ~b[1].rs /\ (b[1].data >= 128 \/ b[1].data = 1)
                                            /\ \A i \in 2 .. Len(b) : b[i].rs}

\* An address, or clear(), keeps the mode, and leaves the symbols' memory.
LEMMA AddressByte ==
    ASSUME NEW s \in LcdType, Ready(s), NEW byte \in Byte, ~byte.rs, byte.data >= 128 \/ byte.data = 1
    PROVE  Latch(s, byte) \in LcdType /\ Ready(Latch(s, byte)) /\ ~Latch(s, byte).cg
<1>1. PICK x : x = Latch(s, byte)
    OBVIOUS
<1>2. PICK c \in 0 .. 255 : c = byte.data
    BY DEF Byte
<1>3. x = Instruct(s, c) /\ x \in LcdType
    BY <1>1, <1>2, LatchWhole, CommandType DEF Ready, EightBits
<1>4. CASE c >= 128
    <2>1. Instruct(s, c) = [s EXCEPT !.addr = c - 128, !.cg = FALSE]
        BY <1>4 DEF Instruct, SET_DDRAM_ADDR, CLEAR
    <2>2. ~x.cg /\ Ready(x)
        BY <1>3, <2>1 DEF Ready, EightBits, Unshifted, LcdType
    <2> QED BY <1>1, <1>3, <2>2
<1>5. CASE c = 1
    <2>1. x = [s EXCEPT !.ddram = [a \in DDRAM |-> Blank], !.addr = 0, !.cg = FALSE,
                        !.shift = 0, !.forward = TRUE]
        BY <1>3, <1>5, Effects
    <2>2. ~x.cg /\ Ready(x)
        BY <2>1 DEF Ready, EightBits, Unshifted, LcdType
    <2> QED BY <1>1, <1>3, <2>2
<1> QED BY <1>2, <1>4, <1>5

\* A character of a text keeps the mode.
LEMMA TextByte ==
    ASSUME NEW s \in LcdType, Ready(s), ~s.cg, NEW byte \in Byte, byte.rs
    PROVE  Latch(s, byte) \in LcdType /\ Ready(Latch(s, byte)) /\ ~Latch(s, byte).cg
<1>1. PICK x : x = Latch(s, byte)
    OBVIOUS
<1>2. PICK c \in 0 .. 255 : c = byte.data
    BY DEF Byte
<1>3. x = Store(s, c)
    BY <1>1, <1>2, LatchWhole DEF Ready, EightBits
<1>4. x \in LcdType
    BY <1>3, StoreType
<1>5. PICK a, d : x = [s EXCEPT !.addr = a, !.ddram = d]
    BY <1>3 DEF Store, Ready
<1>6. ~x.cg /\ Ready(x)
    BY <1>5 DEF Ready, EightBits, Unshifted, LcdType
<1> QED BY <1>1, <1>4, <1>6

\* A text, or the part of it that is sent before the program is killed, keeps the mode.
LEMMA TextKeepsReady ==
    ASSUME NEW l \in LcdType, Ready(l), NEW b \in TextCalls, NEW n \in 0 .. Len(b),
           NEW bytes, Len(bytes) = n, \A i \in 1 .. n : bytes[i] = b[i]
    PROVE  After(l, bytes) \in LcdType /\ Ready(After(l, bytes))
<1> DEFINE G == [i \in 0 .. n |-> {s \in LcdType : Ready(s) /\ (i >= 1 => ~s.cg)}]
<1>1. l \in G[0]
    OBVIOUS
<1>2. b \in Seq(Byte) /\ (b # <<>> => ~b[1].rs /\ (b[1].data >= 128 \/ b[1].data = 1))
    BY DEF TextCalls
<1>3. \A i \in 2 .. Len(b) : b[i].rs
    BY DEF TextCalls
<1>4. ASSUME NEW i \in 1 .. n, NEW s \in G[i - 1] PROVE Latch(s, bytes[i]) \in G[i]
    <2>1. s \in LcdType /\ Ready(s) /\ (i >= 2 => ~s.cg) /\ bytes[i] = b[i] /\ i \in 1 .. Len(b)
        OBVIOUS
    <2>2. Latch(s, b[i]) \in LcdType /\ Ready(Latch(s, b[i])) /\ ~Latch(s, b[i]).cg
        <3> HIDE DEF G
        <3>1. b[i] \in Byte
            BY <1>2, <2>1, ElementOfSeq
        <3>2. CASE i = 1
            BY <1>2, <2>1, <3>1, <3>2, AddressByte
        <3>3. CASE i >= 2
            <4>1. b[i].rs
                BY <1>3, <2>1, <3>3
            <4> QED BY <2>1, <3>1, <3>3, <4>1, TextByte
        <3> QED BY <3>2, <3>3
    <2> QED BY <2>1, <2>2
<1> HIDE DEF G
<1>5. After(l, bytes) \in G[n]
    BY <1>1, <1>4, AfterEach
<1> QED BY <1>5 DEF G

\* The constructor leaves a state of the controller, whatever is on the bus.
LEMMA ConstructType ==
    ASSUME NEW l \in LcdType, NEW n \in Nat, NEW raised \in [1 .. n -> Byte]
    PROVE  Construct(l, raised) \in LcdType
<1> DEFINE G == [i \in 0 .. n |-> LcdType]
<1>1. PICK bytes : bytes = [i \in 1 .. n |-> [rs |-> FALSE, data |-> raised[i].data]]
    OBVIOUS
<1>2. ASSUME NEW i \in 1 .. n PROVE bytes[i] \in Byte /\ ~bytes[i].rs
    <2>1. raised[i].data \in 0 .. 255
        BY DEF Byte
    <2> QED BY <1>1, <2>1 DEF Byte
<1>3. Len(bytes) = n
    BY <1>1, <1>2, Sequence
<1>4. ASSUME NEW i \in 1 .. n, NEW s \in G[i - 1] PROVE Latch(s, bytes[i]) \in G[i]
    BY <1>2, CommandType
<1>5. l \in G[0]
    OBVIOUS
<1> HIDE DEF G
<1>6. After(l, bytes) \in G[n]
    BY <1>3, <1>4, <1>5, AfterEach
<1>7. DOMAIN raised = 1 .. n
    OBVIOUS
<1> QED BY <1>1, <1>6, <1>7 DEF Construct, G

\* What the display writes is characters.
Text == Seq(0 .. 255)

\* Texts in a row are a text.
LEMMA TextConcat == ASSUME NEW s \in Text, NEW t \in Text PROVE s \o t \in Text
BY ConcatProperties DEF Text

\* The bytes of an address and a text.
BytesOf(u, c, text) ==
    /\ u \in Seq(Byte) /\ Len(u) = 1 + Len(text) /\ ~u[1].rs /\ u[1].data = c
    /\ \A i \in 2 .. 1 + Len(text) : u[i].rs /\ u[i].data = text[i - 1]

\* A place is set, and the text is sent, in that order.
LEMMA CallBytes ==
    ASSUME NEW c \in 128 .. 255, NEW text \in Text PROVE BytesOf(writeCommand(c) \o Data(text), c, text)
<1>0. PICK u : u = writeCommand(c) \o Data(text)
    OBVIOUS
<1>1. PICK first : first = writeCommand(c)
    OBVIOUS
<1>2. first \in Seq(Byte) /\ Len(first) = 1 /\ ~first[1].rs /\ first[1].data = c
    <2>1. [rs |-> FALSE, data |-> c] \in Byte
        BY DEF Byte
    <2>2. first \in Seq(Byte)
        BY <1>1, <2>1 DEF writeCommand
    <2> QED BY <1>1, <2>2 DEF writeCommand
<1>3. PICK n \in Nat : n = Len(text)
    BY DEF Text
<1>4. PICK second : second = Data(text)
    OBVIOUS
<1>5. second = [i \in 1 .. n |-> [rs |-> TRUE, data |-> text[i]]]
    <2>1. DOMAIN text = 1 .. n
        BY <1>3 DEF Text
    <2> QED BY <1>4, <2>1 DEF Data
<1>6. ASSUME NEW i \in 1 .. n PROVE second[i] \in Byte /\ second[i].rs /\ second[i].data = text[i]
    <2>1. text[i] \in 0 .. 255
        BY <1>3, ElementOfSeq DEF Text
    <2> QED BY <1>5, <2>1 DEF Byte
<1>7. second \in Seq(Byte) /\ Len(second) = n
    BY <1>5, <1>6, Sequence
<1>9. /\ u \in Seq(Byte) /\ Len(u) = Len(first) + Len(second)
      /\ \A i \in 1 .. Len(first) : u[i] = first[i]
      /\ \A i \in Len(first) + 1 .. Len(first) + Len(second) : u[i] = second[i - Len(first)]
    <2>1. first \in Seq(Byte) /\ second \in Seq(Byte)
        BY <1>2, <1>7
    <2>2. u = first \o second
        BY <1>0, <1>1, <1>4
    <2> QED BY <2>1, <2>2, Concat
<1>10. Len(u) = 1 + n /\ u[1] = first[1] /\ \A i \in 2 .. 1 + n : u[i] = second[i - 1]
    BY <1>2, <1>7, <1>9
<1>11. ASSUME NEW i \in 2 .. 1 + n PROVE u[i].rs /\ u[i].data = text[i - 1]
    <2>1. PICK k \in 1 .. n : k = i - 1
        OBVIOUS
    <2>2. u[i] = second[k]
        BY <1>10, <2>1
    <2> QED BY <1>6, <2>1, <2>2
<1>12. ~u[1].rs /\ u[1].data = c
    BY <1>2, <1>10
<1> QED BY <1>0, <1>3, <1>9, <1>10, <1>11, <1>12 DEF BytesOf

\* An address and a text are a call.
LEMMA AddressAndText ==
    ASSUME NEW c \in 128 .. 255, NEW text \in Text PROVE writeCommand(c) \o Data(text) \in TextCalls
<1>1. PICK u : u = writeCommand(c) \o Data(text)
    OBVIOUS
<1>2. BytesOf(u, c, text)
    BY <1>1, CallBytes, Zenon
<1>3. u \in Seq(Byte) /\ ~u[1].rs /\ u[1].data >= 128
    BY <1>2 DEF BytesOf
<1>4. \A i \in 2 .. Len(u) : u[i].rs
    BY <1>2 DEF BytesOf
<1> QED BY <1>1, <1>3, <1>4 DEF TextCalls

\* Nothing is a call, too.
LEMMA NoCall == <<>> \in TextCalls
BY DEF TextCalls

\* clear() is one byte.
LEMMA ClearCall == clear \in TextCalls
<1>1. [rs |-> FALSE, data |-> CLEAR] \in Byte /\ CLEAR = 1
    BY DEF Byte, CLEAR
<1>2. PICK u : u = clear
    OBVIOUS
<1>3. u \in Seq(Byte) /\ Len(u) = 1 /\ u[1] = [rs |-> FALSE, data |-> CLEAR]
    BY <1>1, <1>2 DEF clear, writeCommand
<1>4. ~u[1].rs /\ u[1].data = 1
    BY <1>1, <1>3
<1>5. \A i \in 2 .. Len(u) : u[i].rs
    BY <1>3
<1> QED BY <1>2, <1>3, <1>4, <1>5 DEF TextCalls

\* Every place of the screen has an address.
LEMMA Addresses ==
    ASSUME NEW x, NEW y, OnScreen(x, y) PROVE SET_DDRAM_ADDR + Address(x, y) \in 128 .. 255
BY DEF OnScreen, Address, SET_DDRAM_ADDR, Width, Height

\* printAt(), putAt() and clearLine() make such calls.
LEMMA PrintCall == ASSUME NEW x \in Int, NEW y \in Int, NEW text \in Text PROVE printAt(x, y, text) \in TextCalls
<1>1. CASE ~OnScreen(x, y)
    BY <1>1, NoCall DEF printAt
<1>2. CASE OnScreen(x, y)
    <2>1. PICK t : t = IF Len(text) <= Width - x THEN text ELSE SubSeq(text, 1, Width - x) \o <<0>>
        OBVIOUS
    <2>2. t \in Text
        <3>1. CASE Len(text) <= Width - x
            BY <2>1, <3>1
        <3>2. CASE ~(Len(text) <= Width - x)
            <4>1. PICK k \in Nat : k = Width - x /\ k <= Len(text)
                BY <1>2, <3>2 DEF OnScreen, Width, Text
            <4>2. ASSUME NEW i \in 1 .. k PROVE text[i] \in 0 .. 255
                <5>1. text \in Seq(0 .. 255) /\ i \in 1 .. Len(text)
                    BY <4>1 DEF Text
                <5> QED BY <5>1, ElementOfSeq
            <4>3. SubSeq(text, 1, k) \in Text
                <5>1. 1 \in Int /\ k \in Int
                    OBVIOUS
                <5> QED BY <4>2, <5>1, SubSeqProperties DEF Text
            <4>4. <<0>> \in Text
                BY DEF Text
            <4> QED BY <2>1, <3>2, <4>1, <4>3, <4>4, TextConcat
        <3> QED BY <3>1, <3>2
    <2>3. printAt(x, y, text) = writeCommand(SET_DDRAM_ADDR + Address(x, y)) \o Data(t)
        BY <1>2, <2>1 DEF printAt, setCursorPos
    <2> QED BY <1>2, <2>2, <2>3, Addresses, AddressAndText
<1> QED BY <1>1, <1>2

\* putAt() is an address and one character, or nothing.
LEMMA PutCall == ASSUME NEW x, NEW y, NEW c \in 0 .. 255 PROVE putAt(x, y, c) \in TextCalls
<1>1. CASE ~OnScreen(x, y)
    BY <1>1, NoCall DEF putAt
<1>2. CASE OnScreen(x, y)
    <2>1. <<c>> \in Text
        BY DEF Text
    <2>2. putAt(x, y, c) = writeCommand(SET_DDRAM_ADDR + Address(x, y)) \o Data(<<c>>)
        BY <1>2 DEF putAt, setCursorPos
    <2> QED BY <1>2, <2>1, <2>2, Addresses, AddressAndText
<1> QED BY <1>1, <1>2

\* clearLine() is an address and the spaces of a line, or nothing.
LEMMA ClearLineCall == ASSUME NEW y \in Int PROVE clearLine(y) \in TextCalls
<1>1. [i \in 1 .. Width |-> Blank] \in Text
    <2>1. [i \in 1 .. Width |-> Blank] \in [1 .. Width -> 0 .. 255] /\ Width \in Nat
        BY DEF Width, Blank
    <2> QED BY <2>1, Sequence DEF Text
<1> QED BY <1>1, PrintCall DEF clearLine

(***************************************************************************)
(* The texts.                                                              *)
(***************************************************************************)
LEMMA DecimalText == ASSUME NEW n \in ThreeDigits PROVE Decimal(n) \in Text
<1>1. CASE n < 10
    <2>1. 48 + n \in 0 .. 255
        BY <1>1 DEF ThreeDigits
    <2> QED BY <1>1, <2>1 DEF ThreeDigits, Decimal, Text
<1>2. CASE n >= 10 /\ n < 100
    <2>1. PICK a \in 0 .. 255 : a = 48 + n \div 10
        BY <1>2 DEF ThreeDigits
    <2>2. PICK b \in 0 .. 255 : b = 48 + (n % 10)
        BY DEF ThreeDigits
    <2>3. Decimal(n) = <<a, b>>
        BY <1>2, <2>1, <2>2 DEF Decimal, ThreeDigits
    <2> QED BY <2>3 DEF Text
<1>3. CASE n >= 100
    <2>1. PICK a \in 0 .. 255 : a = 48 + n \div 100
        BY <1>3 DEF ThreeDigits
    <2>2. PICK b \in 0 .. 255 : b = 48 + ((n \div 10) % 10)
        BY DEF ThreeDigits
    <2>3. PICK c \in 0 .. 255 : c = 48 + (n % 10)
        BY DEF ThreeDigits
    <2>4. Decimal(n) = <<a, b, c>>
        BY <1>3, <2>1, <2>2, <2>3 DEF Decimal, ThreeDigits
    <2> QED BY <2>4 DEF Text
<1> QED BY <1>1, <1>2, <1>3 DEF ThreeDigits

\* What setfill() and setw() put before a text is a text.
LEMMA PaddingText == ASSUME NEW text \in Text, NEW width \in Nat, NEW c \in 0 .. 255 PROVE Padding(text, width, c) \in Text
<1>1. CASE Len(text) < width
    <2>1. PICK n \in Nat : n = width - Len(text)
        <3>1. Len(text) \in Nat
            BY DEF Text
        <3> QED BY <1>1, <3>1
    <2>2. [i \in 1 .. n |-> c] \in Text
        BY Sequence DEF Text
    <2> QED BY <1>1, <2>1, <2>2 DEF Padding
<1>2. CASE ~(Len(text) < width)
    BY <1>2 DEF Padding, Text
<1> QED BY <1>1, <1>2

\* A text in a field of a width is a text.
LEMMA RightText == ASSUME NEW text \in Text, NEW width \in Nat PROVE Right(text, width) \in Text
<1>1. Blank \in 0 .. 255
    BY DEF Blank
<1> QED BY <1>1, PaddingText, TextConcat DEF Right

\* A number with leading zeros is a text.
LEMMA ZerosText == ASSUME NEW n \in ThreeDigits PROVE Zeros(n) \in Text
<1>1. 2 \in Nat /\ 48 \in 0 .. 255
    OBVIOUS
<1> QED BY <1>1, DecimalText, PaddingText, TextConcat DEF Zeros

\* The ambient temperature is a text.
LEMMA AmbientText == ASSUME NEW t \in Int, Absolute(t) \in ThreeDigits PROVE ambientText(t) \in Text
<1>1. <<IF t < 0 THEN Minus ELSE Blank>> \in Text
    BY DEF Text, Minus, Blank
<1>3. <<Degree, 67>> \in Text
    BY DEF Degree, Text
<1>4. 3 \in Nat
    OBVIOUS
<1> QED BY <1>1, <1>3, <1>4, DecimalText, TextConcat, RightText DEF ambientText

\* How much of a name fits the line.
Fitting(name) == IF Len(name) <= 20 THEN Len(name) ELSE 20

\* A name is cut to that.
LEMMA NameText == ASSUME NEW name \in Text PROVE nameText(name) \in Text /\ Len(nameText(name)) = Fitting(name)
<1>1. CASE Len(name) <= 20
    BY <1>1 DEF nameText, Fitting
<1>2. CASE ~(Len(name) <= 20)
    <2>1. PICK m \in Int, n \in Int : m = 1 /\ n = 20
        OBVIOUS
    <2>2. ASSUME NEW i \in m .. n PROVE name[i] \in 0 .. 255
        <3>1. name \in Seq(0 .. 255) /\ i \in 1 .. Len(name)
            BY <1>2, <2>1 DEF Text
        <3> QED BY <3>1, ElementOfSeq
    <2>3. SubSeq(name, m, n) \in Text /\ Len(SubSeq(name, m, n)) = IF m <= n THEN n - m + 1 ELSE 0
        BY <2>2, SubSeqProperties DEF Text
    <2> QED BY <1>2, <2>1, <2>3 DEF nameText, Fitting
<1> QED BY <1>1, <1>2

\* The temperature of a vessel is a text.
LEMMA VesselText == ASSUME NEW t \in Int, Absolute(t) \div 10 \in ThreeDigits PROVE vesselText(t) \in Text
<1>1. PICK sign \in Text : sign = IF t < 0 THEN <<Minus>> ELSE <<>>
    <2>1. <<Minus>> \in Text /\ <<>> \in Text
        BY DEF Text, Minus
    <2> QED BY <2>1
<1>2. 48 + (Absolute(t) % 10) \in 0 .. 255
    BY DEF Absolute
<1>3. PICK tenth \in Text : tenth = <<46, 48 + (Absolute(t) % 10)>>
    <2>1. <<46, 48 + (Absolute(t) % 10)>> \in Text
        BY <1>2 DEF Text
    <2> QED BY <2>1
<1>4. <<Degree>> \in Text
    BY DEF Degree, Text
<1>5. 4 \in Nat
    OBVIOUS
<1>6. PICK whole \in Text : whole = Decimal(Absolute(t) \div 10)
    BY DecimalText
<1>7. sign \o whole \o tenth \in Text
    BY TextConcat
<1>8. Right(sign \o whole \o tenth, 4) \in Text
    BY <1>5, <1>7, RightText
<1>9. vesselText(t) = Right(sign \o whole \o tenth, 4) \o <<Degree>>
    BY <1>1, <1>3, <1>6 DEF vesselText
<1> QED BY <1>4, <1>8, <1>9, TextConcat

\* Two numbers and their units are a text.
LEMMA PairText ==
    ASSUME NEW a \in ThreeDigits, NEW b \in ThreeDigits, NEW u \in 0 .. 255, NEW v \in 0 .. 255
    PROVE  Pair(a, u, b, v) \in Text
<1>1. <<u>> \in Text /\ <<v>> \in Text /\ 2 \in Nat
    BY DEF Text
<1> QED BY <1>1, DecimalText, ZerosText, RightText, TextConcat DEF Pair

\* The whole days of a time that remains.
Days(secs) == secs \div 86400

\* The time that remains is a text.
LEMMA RemainingText ==
    ASSUME NEW type, NEW secs \in Nat, Days(secs) \in ThreeDigits PROVE remainingText(type, secs) \in Text
<1>1. CASE type = "serve" \/ secs = 0
    <2>1. [i \in 1 .. 6 |-> Blank] \in Text
        <3>1. [i \in 1 .. 6 |-> Blank] \in [1 .. 6 -> 0 .. 255] /\ 6 \in Nat
            BY DEF Blank
        <3> QED BY <3>1, Sequence DEF Text
    <2> QED BY <1>1, <2>1, SMT DEF remainingText
<1>2. CASE ~(type = "serve" \/ secs = 0) /\ secs >= 86400
    <2>1. PICK a \in ThreeDigits : a = secs \div 86400
        BY SMT DEF Days
    <2>2. PICK d \in Nat : d = secs \div 3600
        BY SMT
    <2>3. PICK b \in ThreeDigits : b = d % 24
        BY SMT DEF ThreeDigits
    <2>4. PICK u \in 0 .. 255, v \in 0 .. 255 : u = 100 /\ v = 104
        BY SMT
    <2>5. remainingText(type, secs) = Pair(a, u, b, v)
        BY <1>2, <2>1, <2>2, <2>3, <2>4, SMT DEF remainingText
    <2>6. Pair(a, u, b, v) \in Text
        BY PairText
    <2> QED BY <2>5, <2>6
<1>3. CASE ~(type = "serve" \/ secs = 0) /\ secs < 86400 /\ secs >= 3600
    <2>1. PICK a \in ThreeDigits : a = secs \div 3600
        BY <1>3, SMT DEF ThreeDigits
    <2>2. PICK d \in Nat : d = secs \div 60
        BY SMT
    <2>3. PICK b \in ThreeDigits : b = d % 60
        BY SMT DEF ThreeDigits
    <2>4. PICK u \in 0 .. 255, v \in 0 .. 255 : u = 104 /\ v = 109
        BY SMT
    <2>5. remainingText(type, secs) = Pair(a, u, b, v)
        BY <1>3, <2>1, <2>2, <2>3, <2>4, SMT DEF remainingText
    <2>6. Pair(a, u, b, v) \in Text
        BY PairText
    <2> QED BY <2>5, <2>6
<1>4. CASE ~(type = "serve" \/ secs = 0) /\ secs < 3600
    <2>1. PICK a \in ThreeDigits : a = secs \div 60
        BY <1>4, SMT DEF ThreeDigits
    <2>2. PICK d \in Nat : d = secs
        BY SMT
    <2>3. PICK b \in ThreeDigits : b = d % 60
        BY SMT DEF ThreeDigits
    <2>4. PICK u \in 0 .. 255, v \in 0 .. 255 : u = 109 /\ v = 115
        BY SMT
    <2>5. remainingText(type, secs) = Pair(a, u, b, v)
        BY <1>4, <2>1, <2>2, <2>3, <2>4, SMT DEF remainingText
    <2>6. Pair(a, u, b, v) \in Text
        BY PairText
    <2> QED BY <2>5, <2>6
<1> QED BY <1>1, <1>2, <1>3, <1>4, SMT

(***************************************************************************)
(* What is drawn.                                                          *)
(***************************************************************************)
\* What an update finds.
Found(s) == /\ s.ambient \in Ambients
            /\ s.idx # 0 => s.idx \in DOMAIN Sessions
            /\ s.idx # 0 /\ s.active => s.vessel \in Vessels /\ s.remaining \in Remaining /\ s.control \in Controls

\* The sessions and readings have texts.
LEMMA SessionFields ==
    ASSUME ScreenAssumption, NEW i \in DOMAIN Sessions
    PROVE  /\ Sessions[i].gyle \in ThreeDigits /\ Sessions[i].name \in Text
           /\ Sessions[i].type \in {"ferment", "condition", "serve"}
<1> DEFINE T == [gyle : ThreeDigits, name : Seq(0 .. 255), type : {"ferment", "condition", "serve"}]
<1>1. Sessions \in Seq(T)
    BY SMT DEF ScreenAssumption
<1>2. Sessions[i] \in T
    <2> HIDE DEF T
    <2> QED BY <1>1, ElementOfSeq
<1> QED BY <1>2 DEF Text

\* The sessions are numbered from 1.
LEMMA SessionPlaces == ASSUME ScreenAssumption PROVE DOMAIN Sessions = 1 .. Len(Sessions) /\ Len(Sessions) \in Nat
<1> DEFINE T == [gyle : ThreeDigits, name : Seq(0 .. 255), type : {"ferment", "condition", "serve"}]
<1>1. Sessions \in Seq(T)
    BY SMT DEF ScreenAssumption
<1> HIDE DEF T
<1> QED BY <1>1

\* What is read of the sensors and the clock is drawn with at most three digits.
LEMMA Readings ==
    ASSUME ScreenAssumption
    PROVE  /\ \A t \in Ambients : t \in Int /\ (t = NoReading \/ Absolute(t) \in ThreeDigits)
           /\ \A t \in Vessels : t \in Int /\ (t = NoReading \/ Absolute(t) \div 10 \in ThreeDigits)
           /\ \A secs \in Remaining : secs \in Nat /\ Days(secs) \in ThreeDigits
           /\ Controls \subseteq 0 .. 255 /\ KillAt \subseteq Nat
BY SMT DEF ScreenAssumption, Days

\* Calls in a row are calls.
LEMMA CallsConcat == ASSUME NEW s \in Seq(TextCalls), NEW t \in Seq(TextCalls) PROVE s \o t \in Seq(TextCalls)
BY ConcatProperties

\* The texts of the program.
LEMMA FixedTexts == /\ startsIn \in Text /\ noSessions \in Text /\ shuttingDown \in Text /\ time \in Text
                    /\ <<45, 45, 46, 45, Degree>> \in Text /\ <<45, 45, Degree, 67>> \in Text
BY DEF Text, startsIn, noSessions, shuttingDown, time, Degree

\* A session is drawn with four or seven calls.
LEMMA SessionCalls ==
    ASSUME ScreenAssumption, NEW s, Found(s), s.idx # 0, NEW new
    PROVE  DrawSession(s, new) \in Seq(TextCalls)
<1>1. PICK session : session = Sessions[s.idx]
    OBVIOUS
<1>2. session.gyle \in ThreeDigits /\ session.name \in Text /\ session.type \in {"ferment", "condition", "serve"}
    BY <1>1, SessionFields DEF Found
<1>3. PICK first : first = IF new THEN <<clearLine(2), clearLine(3)>> ELSE <<>>
    OBVIOUS
<1>4. first \in Seq(TextCalls)
    <2>1. clearLine(2) \in TextCalls /\ clearLine(3) \in TextCalls
        BY ClearLineCall
    <2> QED BY <1>3, <2>1
<1>5. PICK gyle : gyle = <<71>> \o Decimal(session.gyle) \o Padding(Decimal(session.gyle), 3, Blank)
    OBVIOUS
<1>6. gyle \in Text
    <2>1. <<71>> \in Text /\ 3 \in Nat /\ Blank \in 0 .. 255
        BY DEF Text, Blank
    <2>2. Decimal(session.gyle) \in Text
        BY <1>2, DecimalText
    <2> QED BY <1>5, <2>1, <2>2, PaddingText, TextConcat
<1>7. printAt(0, 2, gyle) \in TextCalls /\ printAt(0, 3, nameText(session.name)) \in TextCalls
    BY <1>2, <1>6, NameText, PrintCall
<1>8. PICK last : last = IF s.active THEN DrawActive(session, s) ELSE <<printAt(5, 2, startsIn)>>
    OBVIOUS
<1>9. last \in Seq(TextCalls)
    <2>1. CASE s.active
        <3>1. s.control \in 0 .. 255 /\ s.vessel \in Int /\ (s.vessel = NoReading \/ Absolute(s.vessel) \div 10 \in ThreeDigits)
            BY <2>1, Readings DEF Found
        <3>8. s.remaining \in Nat /\ Days(s.remaining) \in ThreeDigits
            BY <2>1, Readings DEF Found
        <3>2. getSessionTypeIndicator(session.type) \in 0 .. 255
            BY <1>2 DEF getSessionTypeIndicator
        <3>3. putAt(5, 2, getSessionTypeIndicator(session.type)) \in TextCalls /\ putAt(7, 2, s.control) \in TextCalls
            BY <3>1, <3>2, PutCall
        <3>4. PICK t \in Text : t = IF s.vessel = NoReading THEN <<45, 45, 46, 45, Degree>> ELSE vesselText(s.vessel)
            <4>1. CASE s.vessel = NoReading
                BY <4>1, FixedTexts
            <4>2. CASE s.vessel # NoReading
                BY <3>1, <4>2, VesselText
            <4> QED BY <4>1, <4>2
        <3>5. printAt(8, 2, t) \in TextCalls
            BY PrintCall
        <3>6. printAt(14, 2, remainingText(session.type, s.remaining)) \in TextCalls
            BY <3>8, RemainingText, PrintCall
        <3>7. DrawActive(session, s) =
                <<putAt(5, 2, getSessionTypeIndicator(session.type)), putAt(7, 2, s.control), printAt(8, 2, t),
                  printAt(14, 2, remainingText(session.type, s.remaining))>>
            BY <3>4 DEF DrawActive
        <3> QED BY <1>8, <2>1, <3>3, <3>5, <3>6, <3>7
    <2>2. CASE ~s.active
        <3>1. printAt(5, 2, startsIn) \in TextCalls
            BY FixedTexts, PrintCall
        <3> QED BY <1>8, <2>2, <3>1
    <2> QED BY <2>1, <2>2
<1>10. DrawSession(s, new) = first \o <<printAt(0, 2, gyle), printAt(0, 3, nameText(session.name))>> \o last
    BY <1>1, <1>3, <1>5, <1>8, Zenon DEF DrawSession
<1>11. <<printAt(0, 2, gyle), printAt(0, 3, nameText(session.name))>> \in Seq(TextCalls)
    BY <1>7
<1> QED BY <1>4, <1>9, <1>10, <1>11, CallsConcat

\* An update makes calls with texts only.
LEMMA DrawCalls == ASSUME ScreenAssumption, NEW s, Found(s), NEW new PROVE Draw(s, new) \in Seq(TextCalls)
<1>1. PICK ambient : ambient = IF s.ambient = NoReading THEN printAt(16, 0, <<45, 45, Degree, 67>>)
                                                       ELSE printAt(15, 0, ambientText(s.ambient))
    OBVIOUS
<1>2. ambient \in TextCalls
    <2>1. CASE s.ambient = NoReading
        BY <1>1, <2>1, FixedTexts, PrintCall
    <2>2. CASE s.ambient # NoReading
        <3>1. s.ambient \in Int /\ Absolute(s.ambient) \in ThreeDigits
            BY <2>2, Readings DEF Found
        <3> QED BY <1>1, <2>2, <3>1, AmbientText, PrintCall
    <2> QED BY <2>1, <2>2
<1>3. printAt(0, 0, time) \in TextCalls /\ printAt(5, 2, noSessions) \in TextCalls
    BY FixedTexts, PrintCall
<1>4. <<printAt(0, 0, time), ambient>> \in Seq(TextCalls) /\ <<printAt(5, 2, noSessions)>> \in Seq(TextCalls)
    BY <1>2, <1>3
<1>5. PICK last : last = IF s.idx = 0 THEN <<printAt(5, 2, noSessions)>> ELSE DrawSession(s, new)
    OBVIOUS
<1>6. last \in Seq(TextCalls)
    BY <1>4, <1>5, SessionCalls
<1>7. Draw(s, new) = <<printAt(0, 0, time), ambient>> \o last
    BY <1>1, <1>5, Zenon DEF Draw
<1> QED BY <1>4, <1>6, <1>7, CallsConcat

(***************************************************************************)
(* What calls leave on the screen: two controllers that are sent the same. *)
(***************************************************************************)
\* The controller takes whole bytes and moves to the right.
TextReady(l) == EightBits(l) /\ l.forward /\ ~l.follow
Drawable == {l \in LcdType : TextReady(l)}

\* Two controllers in l and m came to s and t: the cells of C are now the same, and
\* others are what they were.
Overwritten(l, m, s, t, C) ==
    /\ s \in Drawable /\ t \in Drawable
    /\ \A a \in DDRAM : IF a \in C THEN s.ddram[a] = t.ddram[a]
                        ELSE s.ddram[a] = l.ddram[a] /\ t.ddram[a] = m.ddram[a]

\* What holds of two controllers before the first byte, and is advanced by each byte,
\* holds after the last one.
LEMMA AfterBoth ==
    ASSUME NEW bytes, NEW n \in Nat, Len(bytes) = n, NEW G, NEW l, NEW m, <<l, m>> \in G[0],
           \A i \in 1 .. n : \A s, t : <<s, t>> \in G[i - 1] => <<Latch(s, bytes[i]), Latch(t, bytes[i])>> \in G[i]
    PROVE  <<After(l, bytes), After(m, bytes)>> \in G[n]
<1> DEFINE f == CHOOSE f : f = [i \in 0 .. n |-> IF i = 0 THEN l ELSE Latch(f[i - 1], bytes[i])]
           g == CHOOSE g : g = [i \in 0 .. n |-> IF i = 0 THEN m ELSE Latch(g[i - 1], bytes[i])]
<1>1. After(l, bytes) = f[n] /\ After(m, bytes) = g[n]
    BY DEF After
<1>2. f = [i \in 0 .. n |-> IF i = 0 THEN l ELSE Latch(f[i - 1], bytes[i])]
    BY StatesExist
<1>3. g = [i \in 0 .. n |-> IF i = 0 THEN m ELSE Latch(g[i - 1], bytes[i])]
    BY StatesExist
<1> HIDE DEF f, g
<1> DEFINE S == {k \in Nat : k <= n => <<f[k], g[k]>> \in G[k]}
<1>4. 0 \in S
    BY <1>2, <1>3
<1>5. ASSUME NEW k \in Nat, k \in S PROVE k + 1 \in S
    <2> SUFFICES ASSUME k + 1 <= n PROVE <<f[k + 1], g[k + 1]>> \in G[k + 1]
        OBVIOUS
    <2>1. PICK j \in 1 .. n : j = k + 1 /\ j - 1 = k
        OBVIOUS
    <2>2. <<f[j - 1], g[j - 1]>> \in G[j - 1]
        BY <1>5, <2>1
    <2>3. f[j] = Latch(f[j - 1], bytes[j]) /\ g[j] = Latch(g[j - 1], bytes[j])
        BY <1>2, <1>3, <2>1
    <2>4. <<Latch(f[j - 1], bytes[j]), Latch(g[j - 1], bytes[j])>> \in G[j]
        BY <2>2
    <2> QED BY <2>1, <2>3, <2>4
<1> HIDE DEF S
<1>6. n \in S
    BY <1>4, <1>5, Induction
<1> QED BY <1>1, <1>6 DEF S

\* The address of a text, taken whole.
LEMMA AddressTaken ==
    ASSUME NEW s \in Drawable, NEW byte \in Byte, ~byte.rs, NEW a \in DDRAM, byte.data = 128 + a
    PROVE  /\ Latch(s, byte) \in Drawable /\ ~Latch(s, byte).cg /\ Latch(s, byte).addr = a
           /\ Latch(s, byte).ddram = s.ddram
<1>1. s \in LcdType /\ TextReady(s)
    BY DEF Drawable
<1>2. PICK c \in 0 .. 255 : c = byte.data /\ c >= 128 /\ c - 128 = a
    BY DEF Byte, DDRAM
<1>3. Latch(s, byte) = Instruct(s, c)
    BY <1>1, <1>2, LatchWhole DEF TextReady, EightBits
<1>4. PICK x : x = [s EXCEPT !.addr = a, !.cg = FALSE]
    OBVIOUS
<1>5. Latch(s, byte) = x
    <2>1. Instruct(s, c) = [s EXCEPT !.addr = c - 128, !.cg = FALSE]
        BY <1>2 DEF Instruct, SET_DDRAM_ADDR, CLEAR
    <2> QED BY <1>2, <1>3, <1>4, <2>1
<1>6. x \in LcdType
    BY <1>1, <1>3, <1>5, InstructType
<1>7. TextReady(x) /\ ~x.cg /\ x.addr = a /\ x.ddram = s.ddram
    BY <1>1, <1>4 DEF TextReady, EightBits, LcdType
<1> QED BY <1>5, <1>6, <1>7 DEF Drawable

\* A character of a text, taken whole.
LEMMA CharTaken ==
    ASSUME NEW s \in Drawable, ~s.cg, NEW byte \in Byte, byte.rs, s.addr \in DDRAM
    PROVE  /\ Latch(s, byte) \in Drawable /\ ~Latch(s, byte).cg
           /\ Latch(s, byte).addr = Towards(s.addr, TRUE)
           /\ Latch(s, byte).ddram = [s.ddram EXCEPT ![s.addr] = byte.data]
<1>1. s \in LcdType /\ TextReady(s)
    BY DEF Drawable
<1>2. PICK c \in 0 .. 255 : c = byte.data
    BY DEF Byte
<1>3. Latch(s, byte) = Store(s, c)
    BY <1>1, <1>2, LatchWhole DEF TextReady, EightBits
<1>4. PICK d : d = [s.ddram EXCEPT ![s.addr] = c]
    OBVIOUS
<1>5. PICK a : a = Towards(s.addr, TRUE)
    OBVIOUS
<1>6. PICK x : x = [s EXCEPT !.addr = a, !.ddram = d]
    OBVIOUS
<1>7. Store(s, c) = x
    <2>1. s.forward = TRUE
        BY <1>1 DEF TextReady, LcdType
    <2> QED BY <1>1, <1>4, <1>5, <1>6, <2>1 DEF TextReady, Store
<1>8. x \in LcdType
    BY <1>1, <1>3, <1>7, StoreType
<1>9. TextReady(x) /\ ~x.cg /\ x.addr = a /\ x.ddram = d
    BY <1>1, <1>6 DEF TextReady, EightBits, LcdType
<1> QED BY <1>2, <1>3, <1>4, <1>5, <1>7, <1>8, <1>9 DEF Drawable

\* The text of a call begins at an address; at most 21 characters follow.
Texts == {b \in Seq(Byte) : /\ Len(b) \in 1 .. 22 /\ ~b[1].rs
                            /\ \E a \in DDRAM : b[1].data = 128 + a
                            /\ \A i \in 2 .. Len(b) : b[i].rs}

\* The address that comes i characters after a.
Along(a, i) == IF a <= 39 THEN (IF a + i <= 39 THEN a + i ELSE a + i + 24)
                          ELSE (IF a + i <= 103 THEN a + i ELSE a + i - 104)

\* The cells that n characters from a are written to; those of a text.
Line(a, n) == {Along(a, i) : i \in {j \in Nat : j < n}}
Cells(b) == Line(b[1].data - 128, Len(b) - 1)

\* The first address is a, and the controller's next is that of the next character.
LEMMA AlongStep ==
    ASSUME NEW a \in DDRAM, NEW i \in 0 .. 21
    PROVE  /\ Along(a, 0) = a /\ Along(a, i) \in DDRAM
           /\ i <= 20 => Towards(Along(a, i), TRUE) = Along(a, i + 1)
<1> a \in Int /\ i \in Int /\ (a <= 39 \/ a >= 64)
    BY DEF DDRAM
<1>1. Along(a, 0) = a
    BY DEF Along, DDRAM
<1>2. Along(a, i) \in DDRAM
    BY DEF Along, DDRAM
<1>3. ASSUME i <= 20 PROVE Towards(Along(a, i), TRUE) = Along(a, i + 1)
    <2>1. CASE a <= 39
        <3>1. CASE a + i <= 38
            BY <2>1, <3>1 DEF Along, DDRAM, Towards
        <3>2. CASE a + i = 39
            BY <2>1, <3>2 DEF Along, DDRAM, Towards
        <3>4. a + i <= 38 \/ a + i = 39 \/ a + i >= 40
            OBVIOUS
        <3>3. CASE a + i >= 40
            BY <1>3, <2>1, <3>3 DEF Along, DDRAM, Towards
        <3> QED BY <3>1, <3>2, <3>3, <3>4
    <2>2. CASE a >= 64
        <3>1. CASE a + i <= 102
            BY <2>2, <3>1 DEF Along, DDRAM, Towards
        <3>2. CASE a + i = 103
            BY <2>2, <3>2 DEF Along, DDRAM, Towards
        <3>4. a + i <= 102 \/ a + i = 103 \/ a + i >= 104
            OBVIOUS
        <3>3. CASE a + i >= 104
            BY <1>3, <2>2, <3>3 DEF Along, DDRAM, Towards
        <3> QED BY <3>1, <3>2, <3>3, <3>4
    <2> QED BY <2>1, <2>2
<1> QED BY <1>1, <1>2, <1>3

\* One character more writes one cell more.
LEMMA LineStep ==
    ASSUME NEW a, NEW n \in Nat
    PROVE  Line(a, 0) = {} /\ Line(a, n + 1) = Line(a, n) \cup {Along(a, n)}
<1>1. Line(a, 0) = {}
    BY DEF Line
<1>2. {j \in Nat : j < n + 1} = {j \in Nat : j < n} \cup {n}
    OBVIOUS
<1>3. ASSUME NEW x PROVE x \in Line(a, n + 1) <=> x \in Line(a, n) \cup {Along(a, n)}
    BY <1>2, Zenon DEF Line
<1> QED BY <1>1, <1>3

\* The controllers after the address and n characters of a text from a.
Written(l, m, s, t, a, n) ==
    /\ Overwritten(l, m, s, t, Line(a, n))
    /\ ~s.cg /\ ~t.cg /\ s.addr = Along(a, n) /\ t.addr = Along(a, n)

\* The address is taken by both.
LEMMA WrittenFirst ==
    ASSUME NEW l \in Drawable, NEW m \in Drawable, NEW byte \in Byte, ~byte.rs, NEW a \in DDRAM, byte.data = 128 + a
    PROVE  Written(l, m, Latch(l, byte), Latch(m, byte), a, 0)
<1>1. PICK s : s = Latch(l, byte)
    OBVIOUS
<1>2. PICK t : t = Latch(m, byte)
    OBVIOUS
<1>3. s \in Drawable /\ ~s.cg /\ s.addr = a /\ s.ddram = l.ddram
    BY <1>1, AddressTaken
<1>4. t \in Drawable /\ ~t.cg /\ t.addr = a /\ t.ddram = m.ddram
    BY <1>2, AddressTaken
<1>5. Line(a, 0) = {} /\ Along(a, 0) = a
    <2>1. 0 \in Nat /\ 0 \in 0 .. 21
        OBVIOUS
    <2> QED BY <2>1, LineStep, AlongStep
<1> QED BY <1>1, <1>2, <1>3, <1>4, <1>5 DEF Written, Overwritten

\* One more character is taken by both.
LEMMA WrittenNext ==
    ASSUME NEW l, NEW m, NEW a \in DDRAM, NEW n \in 0 .. 20, NEW s, NEW t, Written(l, m, s, t, a, n),
           NEW byte \in Byte, byte.rs
    PROVE  Written(l, m, Latch(s, byte), Latch(t, byte), a, n + 1)
<1>1. PICK u : u = Latch(s, byte)
    OBVIOUS
<1>2. PICK v : v = Latch(t, byte)
    OBVIOUS
<1>3. PICK x \in DDRAM : x = Along(a, n) /\ Towards(x, TRUE) = Along(a, n + 1)
    <2>1. n \in 0 .. 21 /\ n <= 20
        OBVIOUS
    <2> QED BY <2>1, AlongStep
<1>4. s \in Drawable /\ t \in Drawable /\ ~s.cg /\ ~t.cg /\ s.addr = x /\ t.addr = x
      /\ s.addr \in DDRAM /\ t.addr \in DDRAM
    BY <1>3 DEF Written, Overwritten
<1>5. u \in Drawable /\ ~u.cg /\ u.addr = Towards(x, TRUE) /\ u.ddram = [s.ddram EXCEPT ![x] = byte.data]
    <2>1. /\ Latch(s, byte) \in Drawable /\ ~Latch(s, byte).cg
          /\ Latch(s, byte).addr = Towards(s.addr, TRUE)
          /\ Latch(s, byte).ddram = [s.ddram EXCEPT ![s.addr] = byte.data]
        BY <1>4, CharTaken
    <2> QED BY <1>1, <1>4, <2>1
<1>6. v \in Drawable /\ ~v.cg /\ v.addr = Towards(x, TRUE) /\ v.ddram = [t.ddram EXCEPT ![x] = byte.data]
    <2>1. /\ Latch(t, byte) \in Drawable /\ ~Latch(t, byte).cg
          /\ Latch(t, byte).addr = Towards(t.addr, TRUE)
          /\ Latch(t, byte).ddram = [t.ddram EXCEPT ![t.addr] = byte.data]
        BY <1>4, CharTaken
    <2> QED BY <1>2, <1>4, <2>1
<1>7. Line(a, n + 1) = Line(a, n) \cup {x}
    BY <1>3, LineStep
<1>8. DOMAIN s.ddram = DDRAM /\ DOMAIN t.ddram = DDRAM
    BY <1>4 DEF Drawable, LcdType
<1>9. ASSUME NEW y \in DDRAM
      PROVE  IF y \in Line(a, n + 1) THEN u.ddram[y] = v.ddram[y]
             ELSE u.ddram[y] = l.ddram[y] /\ v.ddram[y] = m.ddram[y]
    <2>1. IF y \in Line(a, n) THEN s.ddram[y] = t.ddram[y]
          ELSE s.ddram[y] = l.ddram[y] /\ t.ddram[y] = m.ddram[y]
        BY DEF Written, Overwritten
    <2>2. CASE y = x
        BY <1>5, <1>6, <1>7, <1>8, <2>2
    <2>3. CASE y # x
        <3>1. u.ddram[y] = s.ddram[y] /\ v.ddram[y] = t.ddram[y]
            BY <1>5, <1>6, <1>8, <2>3
        <3> QED BY <1>7, <2>1, <2>3, <3>1
    <2> QED BY <2>2, <2>3
<1>10. Overwritten(l, m, u, v, Line(a, n + 1))
    BY <1>5, <1>6, <1>9 DEF Overwritten
<1> QED BY <1>1, <1>2, <1>3, <1>5, <1>6, <1>10 DEF Written

\* A text overwrites its cells.
LEMMA TextOverwrites ==
    ASSUME NEW b \in Texts, NEW l \in Drawable, NEW m \in Drawable
    PROVE  Overwritten(l, m, After(l, b), After(m, b), Cells(b))
<1>1. PICK a \in DDRAM : b[1].data = 128 + a
    BY DEF Texts
<1>2. PICK n \in 0 .. 21 : Len(b) = n + 1
    BY DEF Texts
<1>3. b \in Seq(Byte) /\ ~b[1].rs
    BY DEF Texts
<1>4. \A i \in 2 .. n + 1 : b[i].rs
    BY <1>2 DEF Texts
<1> DEFINE Stage(i) == {p \in Drawable \X Drawable :
                           IF i = 0 THEN p = <<l, m>> ELSE Written(l, m, p[1], p[2], a, i - 1)}
           G == [i \in 0 .. n + 1 |-> Stage(i)]
<1>5. <<l, m>> \in G[0]
    OBVIOUS
<1>6. ASSUME NEW i \in 1 .. n + 1, NEW s, NEW t, <<s, t>> \in G[i - 1]
      PROVE  <<Latch(s, b[i]), Latch(t, b[i])>> \in G[i]
    <2>1. i - 1 \in 0 .. n + 1 /\ i \in 0 .. n + 1
        OBVIOUS
    <2>2. G[i - 1] = Stage(i - 1) /\ G[i] = Stage(i)
        BY <2>1
    <2>3. b[i] \in Byte
        <3> HIDE DEF G
        <3>1. i \in 1 .. Len(b)
            BY <1>2
        <3> QED BY <1>3, <3>1, ElementOfSeq
    <2>4. Written(l, m, Latch(s, b[i]), Latch(t, b[i]), a, i - 1)
        <3>1. CASE i = 1
            <4>1. s = l /\ t = m
                BY <1>6, <2>2, <3>1
            <4>2. Written(l, m, Latch(l, b[1]), Latch(m, b[1]), a, 0)
                <5> HIDE DEF G
                <5> QED BY <1>1, <1>3, <2>3, <3>1, WrittenFirst
            <4> QED BY <3>1, <4>1, <4>2
        <3>2. CASE i \in 2 .. n + 1
            <4>1. Written(l, m, s, t, a, i - 2)
                <5>1. i - 1 # 0 /\ i - 1 - 1 = i - 2
                    BY <3>2
                <5> QED BY <1>6, <2>2, <5>1
            <4> HIDE DEF G
            <4>2. PICK k \in 0 .. 20 : k = i - 2 /\ k + 1 = i - 1
                BY <3>2
            <4>3. b[i].rs
                BY <1>4, <3>2
            <4>4. Written(l, m, s, t, a, k)
                BY <4>1, <4>2
            <4>5. Written(l, m, Latch(s, b[i]), Latch(t, b[i]), a, k + 1)
                BY <2>3, <4>3, <4>4, WrittenNext
            <4> QED BY <4>2, <4>5
        <3> QED BY <3>1, <3>2
    <2>5. Latch(s, b[i]) \in Drawable /\ Latch(t, b[i]) \in Drawable
        BY <2>4 DEF Written, Overwritten
    <2>6. <<Latch(s, b[i]), Latch(t, b[i])>> \in Stage(i)
        BY <2>4, <2>5
    <2> QED BY <2>2, <2>6
<1>7. G[n + 1] = Stage(n + 1)
    OBVIOUS
<1> HIDE DEF G
<1>8. n + 1 \in Nat
    OBVIOUS
<1>9. <<After(l, b), After(m, b)>> \in G[n + 1]
    BY <1>2, <1>5, <1>6, <1>8, AfterBoth
<1>10. Written(l, m, After(l, b), After(m, b), a, n)
    BY <1>7, <1>9
<1>11. Cells(b) = Line(a, n)
    <2>1. b[1].data - 128 = a /\ Len(b) - 1 = n
        BY <1>1, <1>2 DEF DDRAM
    <2> QED BY <2>1 DEF Cells
<1> QED BY <1>10, <1>11 DEF Written

(***************************************************************************)
(* Several calls.                                                          *)
(***************************************************************************)
\* What Finish() chooses: the states between the calls.
Screens(l, D, n, f) == f = [i \in 0 .. n |-> IF i = 0 THEN l ELSE After(f[i - 1], D[i])]

\* They exist.
LEMMA ScreensExist == ASSUME NEW l, NEW D, NEW n \in Nat PROVE \E f : Screens(l, D, n, f)
<1> DEFINE S == {k \in Nat : \E f : f = [i \in 0 .. k |-> IF i = 0 THEN l ELSE After(f[i - 1], D[i])]}
<1>1. 0 \in S
    <2> DEFINE f == [i \in 0 .. 0 |-> l]
    <2>1. f = [i \in 0 .. 0 |-> IF i = 0 THEN l ELSE After(f[i - 1], D[i])]
        OBVIOUS
    <2> QED BY <2>1
<1>2. ASSUME NEW k \in Nat, k \in S PROVE k + 1 \in S
    <2>1. PICK f : f = [i \in 0 .. k |-> IF i = 0 THEN l ELSE After(f[i - 1], D[i])]
        BY <1>2
    <2> DEFINE g == [i \in 0 .. k + 1 |-> IF i = k + 1 THEN After(f[k], D[k + 1]) ELSE f[i]]
    <2>2. \A i \in 0 .. k : g[i] = f[i]
        OBVIOUS
    <2>3. ASSUME NEW i \in 0 .. k + 1 PROVE g[i] = IF i = 0 THEN l ELSE After(g[i - 1], D[i])
        <3>1. CASE i = 0
            <4>1. f[0] = l
                BY <2>1
            <4> QED BY <3>1, <4>1, <2>2
        <3>2. CASE i \in 1 .. k
            <4>1. f[i] = After(f[i - 1], D[i])
                BY <2>1, <3>2
            <4>2. g[i] = f[i] /\ g[i - 1] = f[i - 1]
                BY <2>2, <3>2
            <4> QED BY <3>2, <4>1, <4>2
        <3>3. CASE i = k + 1
            <4>1. g[i - 1] = f[k]
                BY <2>2, <3>3
            <4>2. g[i] = After(f[k], D[k + 1])
                BY <3>3
            <4> QED BY <3>3, <4>1, <4>2
        <3> QED BY <3>1, <3>2, <3>3
    <2>4. g = [i \in 0 .. k + 1 |-> IF i = 0 THEN l ELSE After(g[i - 1], D[i])]
        BY <2>3
    <2> HIDE DEF g
    <2> QED BY <2>4
<1> HIDE DEF S
<1>3. n \in S
    BY <1>1, <1>2, Induction
<1> QED BY <1>3 DEF S, Screens

\* Finish() is the last of them.
LEMMA FinishIsLast ==
    ASSUME NEW l, NEW D, NEW n \in Nat, Len(D) = n
    PROVE  \E f : Screens(l, D, n, f) /\ Finish(l, D) = f[n]
<1> DEFINE f == CHOOSE f : f = [i \in 0 .. n |-> IF i = 0 THEN l ELSE After(f[i - 1], D[i])]
<1>1. Finish(l, D) = f[n]
    BY DEF Finish
<1>2. f = [i \in 0 .. n |-> IF i = 0 THEN l ELSE After(f[i - 1], D[i])]
    BY ScreensExist DEF Screens
<1> HIDE DEF f
<1> QED BY <1>1, <1>2 DEF Screens

\* What each of them is.
LEMMA ScreensStep ==
    ASSUME NEW l, NEW D, NEW n \in Nat, NEW f, Screens(l, D, n, f)
    PROVE  f[0] = l /\ \A i \in 1 .. n : f[i] = After(f[i - 1], D[i])
<1>1. f = [i \in 0 .. n |-> IF i = 0 THEN l ELSE After(f[i - 1], D[i])]
    BY DEF Screens
<1> QED BY <1>1

\* Without a call nothing changes.
LEMMA FinishNone == ASSUME NEW l PROVE Finish(l, <<>>) = l
<1>0. PICK D : D = <<>>
    OBVIOUS
<1>1. PICK n \in Nat : n = 0 /\ Len(D) = n
    BY <1>0
<1>2. PICK f : Screens(l, D, n, f) /\ Finish(l, D) = f[n]
    BY <1>1, FinishIsLast
<1>3. f[0] = l
    BY <1>2, ScreensStep
<1> QED BY <1>0, <1>1, <1>2, <1>3

\* Calls, and then others, come to what all of them come to.
LEMMA FinishConcat ==
    ASSUME NEW S, NEW D \in Seq(S), NEW E \in Seq(S), NEW l
    PROVE  Finish(l, D \o E) = Finish(Finish(l, D), E)
<1>1. PICK n \in Nat, k \in Nat : n = Len(D) /\ k = Len(E)
    OBVIOUS
<1>2. PICK u : u = D \o E
    OBVIOUS
<1>3. /\ Len(u) = n + k /\ \A i \in 1 .. n : u[i] = D[i]
      /\ \A i \in n + 1 .. n + k : u[i] = E[i - n]
    BY <1>1, <1>2, Concat
<1>4. PICK f : Screens(l, D, n, f) /\ Finish(l, D) = f[n]
    BY <1>1, FinishIsLast
<1>5. PICK m : m = Finish(l, D)
    OBVIOUS
<1>6. PICK g : Screens(m, E, k, g) /\ Finish(m, E) = g[k]
    BY <1>1, FinishIsLast
<1>7. PICK h : Screens(l, u, n + k, h) /\ Finish(l, u) = h[n + k]
    <2>1. n + k \in Nat
        OBVIOUS
    <2> QED BY <1>3, <2>1, FinishIsLast
<1>8. f[0] = l /\ \A i \in 1 .. n : f[i] = After(f[i - 1], D[i])
    BY <1>4, ScreensStep
<1>9. g[0] = m /\ \A i \in 1 .. k : g[i] = After(g[i - 1], E[i])
    BY <1>6, ScreensStep
<1>10. h[0] = l /\ \A i \in 1 .. n + k : h[i] = After(h[i - 1], u[i])
    <2>1. PICK p \in Nat : p = n + k
        OBVIOUS
    <2>2. Screens(l, u, p, h)
        BY <1>7, <2>1
    <2>3. h = [i \in 0 .. p |-> IF i = 0 THEN l ELSE After(h[i - 1], u[i])]
        BY <2>2 DEF Screens
    <2>4. h[0] = l /\ \A i \in 1 .. p : h[i] = After(h[i - 1], u[i])
        BY <2>3
    <2> QED BY <2>1, <2>4
<1>11. h[n] = f[n]
    <2> DEFINE T == {j \in Nat : j <= n => h[j] = f[j]}
    <2>1. 0 \in T
        BY <1>8, <1>10
    <2>2. ASSUME NEW j \in Nat, j \in T PROVE j + 1 \in T
        <3> SUFFICES ASSUME j + 1 <= n PROVE h[j + 1] = f[j + 1]
            OBVIOUS
        <3>1. PICK i \in 1 .. n : i = j + 1 /\ i - 1 = j /\ i \in 1 .. n + k
            OBVIOUS
        <3>2. h[i] = After(h[i - 1], u[i]) /\ f[i] = After(f[i - 1], D[i]) /\ u[i] = D[i]
            BY <1>3, <1>8, <1>10, <3>1
        <3>3. h[i - 1] = f[i - 1]
            BY <2>2, <3>1
        <3> QED BY <3>1, <3>2, <3>3
    <2> HIDE DEF T
    <2>3. n \in T
        BY <2>1, <2>2, Induction
    <2> QED BY <2>3 DEF T
<1>12. h[n + k] = g[k]
    <2> DEFINE T == {j \in Nat : j <= k => h[n + j] = g[j]}
    <2>1. 0 \in T
        BY <1>4, <1>5, <1>9, <1>11
    <2>2. ASSUME NEW j \in Nat, j \in T PROVE j + 1 \in T
        <3> SUFFICES ASSUME j + 1 <= k PROVE h[n + (j + 1)] = g[j + 1]
            OBVIOUS
        <3>1. PICK i \in 1 .. k : i = j + 1 /\ i - 1 = j
            OBVIOUS
        <3>2. PICK p \in n + 1 .. n + k : p = n + i /\ p - 1 = n + j /\ p - n = i /\ p \in 1 .. n + k
            BY <3>1
        <3>3. h[p] = After(h[p - 1], u[p]) /\ g[i] = After(g[i - 1], E[i]) /\ u[p] = E[p - n]
            BY <1>3, <1>9, <1>10, <3>2
        <3>4. h[n + j] = g[j]
            BY <2>2
        <3>5. h[p - 1] = g[i - 1]
            BY <3>1, <3>2, <3>4
        <3>6. h[p] = g[i]
            BY <3>2, <3>3, <3>5
        <3> QED BY <3>1, <3>2, <3>6
    <2> HIDE DEF T
    <2>3. k \in T
        BY <2>1, <2>2, Induction
    <2> QED BY <2>3 DEF T
<1> QED BY <1>2, <1>5, <1>6, <1>7, <1>12

\* One call comes to what it leaves.
LEMMA FinishOne == ASSUME NEW l, NEW b PROVE Finish(l, <<b>>) = After(l, b)
<1>1. Len(<<b>>) = 1 /\ <<b>>[1] = b /\ 1 \in Nat /\ 1 \in 1 .. 1 /\ 1 - 1 = 0
    OBVIOUS
<1>2. PICK D : D = <<b>>
    OBVIOUS
<1>3. PICK f : Screens(l, D, 1, f) /\ Finish(l, D) = f[1]
    BY <1>1, <1>2, FinishIsLast
<1>4. f[0] = l /\ \A i \in 1 .. 1 : f[i] = After(f[i - 1], D[i])
    BY <1>1, <1>3, ScreensStep
<1>5. f[1] = After(f[1 - 1], D[1])
    BY <1>1, <1>4
<1> QED BY <1>1, <1>2, <1>3, <1>4, <1>5

\* The cells that calls write.
CellsOf(D) == UNION {Cells(D[k]) : k \in DOMAIN D}

\* What is overwritten first, and then.
LEMMA OverwrittenTwice ==
    ASSUME NEW l, NEW m, NEW s, NEW t, NEW u, NEW v, NEW C, NEW D,
           Overwritten(l, m, s, t, C), Overwritten(s, t, u, v, D)
    PROVE  Overwritten(l, m, u, v, C \cup D)
BY DEF Overwritten

\* Texts overwrite their cells.
LEMMA TextsOverwrite ==
    ASSUME NEW D \in Seq(Texts), NEW l \in Drawable, NEW m \in Drawable
    PROVE  Overwritten(l, m, Finish(l, D), Finish(m, D), CellsOf(D))
<1>1. PICK n \in Nat : n = Len(D) /\ DOMAIN D = 1 .. n
    OBVIOUS
<1>2. PICK f : Screens(l, D, n, f) /\ Finish(l, D) = f[n]
    BY <1>1, FinishIsLast
<1>3. PICK g : Screens(m, D, n, g) /\ Finish(m, D) = g[n]
    BY <1>1, FinishIsLast
<1>4. f[0] = l /\ \A i \in 1 .. n : f[i] = After(f[i - 1], D[i])
    BY <1>2, ScreensStep
<1>5. g[0] = m /\ \A i \in 1 .. n : g[i] = After(g[i - 1], D[i])
    BY <1>3, ScreensStep
<1> DEFINE Upto(i) == UNION {Cells(D[k]) : k \in {j \in 1 .. n : j <= i}}
           S == {i \in Nat : i <= n => Overwritten(l, m, f[i], g[i], Upto(i))}
<1>6. 0 \in S
    <2>1. {j \in 1 .. n : j <= 0} = {}
        OBVIOUS
    <2>2. Upto(0) = {}
        BY <2>1, Zenon
    <2>3. Overwritten(l, m, l, m, {})
        BY DEF Overwritten
    <2> QED BY <1>4, <1>5, <2>2, <2>3
<1>7. ASSUME NEW j \in Nat, j \in S PROVE j + 1 \in S
    <2> SUFFICES ASSUME j + 1 <= n PROVE Overwritten(l, m, f[j + 1], g[j + 1], Upto(j + 1))
        OBVIOUS
    <2>1. PICK i \in 1 .. n : i = j + 1 /\ i - 1 = j
        OBVIOUS
    <2>2. D[i] \in Texts
        BY <1>1, ElementOfSeq
    <2>3. Overwritten(l, m, f[j], g[j], Upto(j))
        BY <1>7
    <2> HIDE DEF S
    <2>4. f[i] = After(f[j], D[i]) /\ g[i] = After(g[j], D[i])
        BY <1>4, <1>5, <2>1
    <2>5. f[j] \in Drawable /\ g[j] \in Drawable
        BY <2>3 DEF Overwritten
    <2>6. Overwritten(f[j], g[j], After(f[j], D[i]), After(g[j], D[i]), Cells(D[i]))
        BY <2>2, <2>5, TextOverwrites
    <2>7. Upto(i) = Upto(j) \cup Cells(D[i])
        <3>1. {p \in 1 .. n : p <= i} = {p \in 1 .. n : p <= j} \cup {i}
            BY <2>1
        <3>2. PICK P : P = {p \in 1 .. n : p <= j}
            OBVIOUS
        <3>3. ASSUME NEW x
              PROVE  x \in UNION {Cells(D[k]) : k \in P \cup {i}} <=> x \in (UNION {Cells(D[k]) : k \in P}) \cup Cells(D[i])
            BY Zenon
        <3> QED BY <3>1, <3>2, <3>3, Zenon
    <2> HIDE DEF Upto
    <2>8. Overwritten(l, m, f[i], g[i], Upto(i))
        BY <2>3, <2>4, <2>6, <2>7, OverwrittenTwice
    <2> QED BY <2>1, <2>8
<1>8. n \in S
    <2> HIDE DEF S
    <2> QED BY <1>6, <1>7, Induction
<1>9. Upto(n) = CellsOf(D)
    <2>1. {j \in 1 .. n : j <= n} = 1 .. n
        OBVIOUS
    <2> QED BY <1>1, <2>1, Zenon DEF CellsOf
<1>10. n <= n
    OBVIOUS
<1>11. Overwritten(l, m, f[n], g[n], Upto(n))
    BY <1>8, <1>10
<1> QED BY <1>2, <1>3, <1>9, <1>11, Zenon

\* The calls come to what the first one and then the others come to.
LEMMA FinishFirst ==
    ASSUME NEW D \in Seq(Texts), D # <<>>, NEW l
    PROVE  Head(D) \in Texts /\ Tail(D) \in Seq(Texts) /\ Finish(l, D) = Finish(After(l, Head(D)), Tail(D))
<1>1. PICK b \in Texts, E \in Seq(Texts) : b = Head(D) /\ E = Tail(D)
    BY HeadTailProperties
<1>2. PICK n \in Nat : Len(D) = n + 1 /\ Len(E) = n /\ \A i \in 1 .. n : E[i] = D[i + 1]
    <2>1. PICK k \in Nat : k = Len(D) /\ k # 0
        BY EmptySeq
    <2>2. Len(E) = k - 1 /\ \A i \in 1 .. Len(E) : E[i] = D[i + 1]
        BY <1>1, <2>1, HeadTailProperties
    <2>3. PICK n \in Nat : n = k - 1
        BY <2>1
    <2> QED BY <2>1, <2>2, <2>3
<1>3. PICK B \in Seq(Texts) : B = <<b>> /\ Len(B) = 1 /\ B[1] = b
    <2>1. <<b>> \in Seq(Texts) /\ Len(<<b>>) = 1 /\ <<b>>[1] = b
        OBVIOUS
    <2> QED BY <2>1
<1>4. PICK u : u = B \o E
    OBVIOUS
<1>5. /\ u \in Seq(Texts) /\ Len(u) = Len(B) + Len(E)
      /\ \A i \in 1 .. Len(B) : u[i] = B[i]
      /\ \A i \in Len(B) + 1 .. Len(B) + Len(E) : u[i] = E[i - Len(B)]
    BY <1>4, Concat
<1>6. Len(u) = n + 1 /\ u[1] = b /\ \A i \in 2 .. n + 1 : u[i] = E[i - 1]
    BY <1>2, <1>3, <1>5
<1>7. D[1] = b
    BY <1>1
<1>8. ASSUME NEW i \in 1 .. Len(D) PROVE D[i] = u[i]
    <2>1. CASE i = 1
        BY <1>6, <1>7, <2>1
    <2>2. CASE i # 1
        <3>1. PICK j \in 1 .. n : j = i - 1 /\ i = j + 1 /\ i \in 2 .. n + 1
            BY <1>2, <2>2
        <3> QED BY <1>2, <1>6, <3>1
    <2> QED BY <2>1, <2>2
<1>9. D = u
    BY <1>2, <1>5, <1>6, <1>8, SeqEqual
<1>10. Finish(l, B \o E) = Finish(Finish(l, B), E)
    BY FinishConcat
<1>11. Finish(l, B) = After(l, b)
    BY <1>3, FinishOne
<1> QED BY <1>1, <1>4, <1>9, <1>10, <1>11

(***************************************************************************)
(* The cells of a text at a place.                                         *)
(***************************************************************************)
\* Every place of the screen has an address of its own line.
LEMMA Place ==
    ASSUME NEW x \in Int, NEW y \in Int, OnScreen(x, y)
    PROVE  Address(x, y) \in DDRAM /\ 128 + Address(x, y) \in 128 .. 255
BY DEF OnScreen, Address, Width, Height, DDRAM

\* How many characters of a text are sent, for the column where it begins.
Sent(text, x) == IF Len(text) <= Width - x THEN Len(text) ELSE Width - x + 1

\* The cells of what printAt() sends.
LEMMA PrintCells ==
    ASSUME NEW x \in Int, NEW y \in Int, OnScreen(x, y), NEW text \in Text
    PROVE  /\ printAt(x, y, text) \in Texts
           /\ Cells(printAt(x, y, text)) = Line(Address(x, y), Sent(text, x))
           /\ Len(text) <= Width - x =>
                  \A i \in 2 .. 1 + Len(text) : printAt(x, y, text)[i].data = text[i - 1]
<1>1. PICK t : t = IF Len(text) <= Width - x THEN text ELSE SubSeq(text, 1, Width - x) \o <<0>>
    OBVIOUS
<1>2. t \in Text /\ Len(t) = Sent(text, x) /\ Len(t) <= 21
    <2>1. CASE Len(text) <= Width - x
        BY <1>1, <2>1 DEF Sent, OnScreen, Width, Text
    <2>2. CASE ~(Len(text) <= Width - x)
        <3>1. PICK k \in Nat : k = Width - x /\ k <= Len(text) /\ k <= 20
            BY <2>2 DEF OnScreen, Width, Text
        <3>2. ASSUME NEW i \in 1 .. k PROVE text[i] \in 0 .. 255
            <4>1. text \in Seq(0 .. 255) /\ i \in 1 .. Len(text)
                BY <3>1 DEF Text
            <4> QED BY <4>1, ElementOfSeq
        <3>3. SubSeq(text, 1, k) \in Text /\ Len(SubSeq(text, 1, k)) = k
            <4>1. 1 \in Int /\ k \in Int
                OBVIOUS
            <4>2. SubSeq(text, 1, k) \in Text /\ Len(SubSeq(text, 1, k)) = IF 1 <= k THEN k - 1 + 1 ELSE 0
                BY <3>2, <4>1, SubSeqProperties DEF Text
            <4> QED BY <4>2
        <3>4. <<0>> \in Text /\ Len(<<0>>) = 1
            BY DEF Text
        <3>5. PICK u : u = SubSeq(text, 1, k)
            OBVIOUS
        <3>6. t = u \o <<0>>
            BY <1>1, <2>2, <3>1, <3>5
        <3>7. u \in Seq(0 .. 255) /\ <<0>> \in Seq(0 .. 255)
            BY <3>3, <3>4, <3>5 DEF Text
        <3>8. t \in Seq(0 .. 255) /\ Len(t) = Len(u) + Len(<<0>>)
            BY <3>6, <3>7, Concat
        <3>9. Len(t) = k + 1
            BY <3>3, <3>4, <3>5, <3>8
        <3> QED BY <2>2, <3>1, <3>8, <3>9 DEF Sent, Text
    <2> QED BY <2>1, <2>2
<1>3. PICK c \in 128 .. 255, a \in DDRAM : a = Address(x, y) /\ c = 128 + a
    BY Place
<1>4. PICK b : b = printAt(x, y, text)
    OBVIOUS
<1>5. b = writeCommand(c) \o Data(t)
    <2>1. SET_DDRAM_ADDR + Address(x, y) = c
        BY <1>3 DEF SET_DDRAM_ADDR
    <2> QED BY <1>1, <1>4, <2>1 DEF printAt, setCursorPos
<1>6. /\ b \in Seq(Byte) /\ Len(b) = 1 + Len(t) /\ ~b[1].rs /\ b[1].data = c
      /\ \A i \in 2 .. 1 + Len(t) : b[i].rs /\ b[i].data = t[i - 1]
    <2>1. BytesOf(b, c, t)
        BY <1>2, <1>5, CallBytes, Zenon
    <2> QED BY <2>1 DEF BytesOf
<1>7. PICK n \in Nat : n = Len(t) /\ n <= 21
    BY <1>2 DEF Text
<1>8. b \in Texts
    <2>2. Len(b) = 1 + n
        BY <1>6, <1>7
    <2>1. Len(b) \in 1 .. 22 /\ Len(b) = 1 + n
        <3>1. n <= 21
            BY <1>7
        <3>2. 1 + n \in 1 .. 22
            BY <3>1
        <3> QED BY <2>2, <3>2
    <2> QED BY <1>3, <1>6, <1>7, <2>1 DEF Texts
<1>9. Cells(b) = Line(a, n)
    <2>1. b[1].data - 128 = a /\ Len(b) - 1 = n
        BY <1>3, <1>6, <1>7 DEF DDRAM
    <2> QED BY <2>1 DEF Cells
<1>10. ASSUME Len(text) <= Width - x PROVE \A i \in 2 .. 1 + Len(text) : b[i].data = text[i - 1]
    <2>1. t = text
        BY <1>1, <1>10
    <2> QED BY <1>6, <2>1
<1> QED BY <1>2, <1>3, <1>4, <1>7, <1>8, <1>9, <1>10

\* putAt() writes one cell.
LEMMA PutCells ==
    ASSUME NEW x \in Int, NEW y \in Int, OnScreen(x, y), NEW c \in 0 .. 255
    PROVE  putAt(x, y, c) \in Texts /\ Cells(putAt(x, y, c)) = Line(Address(x, y), 1)
<1>1. <<c>> \in Text /\ Len(<<c>>) = 1
    BY DEF Text
<1>2. 1 <= Width - x
    BY DEF OnScreen, Width
<1>3. putAt(x, y, c) = printAt(x, y, <<c>>)
    BY <1>1, <1>2 DEF putAt, printAt
<1>4. Sent(<<c>>, x) = 1
    BY <1>1, <1>2 DEF Sent
<1> QED BY <1>1, <1>3, <1>4, PrintCells

\* n addresses from a.
From(a, n) == {j \in Nat : a <= j /\ j < a + n}

\* A text that ends in the line where it begins has that many cells in a row.
LEMMA LineInRow ==
    ASSUME NEW a \in Nat, NEW n \in Nat, a + n <= 40 \/ (a >= 64 /\ a + n <= 104)
    PROVE  Line(a, n) = From(a, n)
<1>1. ASSUME NEW i \in Nat, i < n PROVE Along(a, i) = a + i
    BY <1>1 DEF Along
<1>2. ASSUME NEW x \in Line(a, n) PROVE x \in From(a, n)
    <2>1. PICK i \in Nat : i < n /\ x = Along(a, i)
        BY DEF Line
    <2> QED BY <1>1, <2>1 DEF From
<1>3. ASSUME NEW x \in From(a, n) PROVE x \in Line(a, n)
    <2>1. PICK i \in Nat : i = x - a /\ i < n
        BY DEF From
    <2>2. x = Along(a, i)
        BY <1>1, <2>1 DEF From
    <2> QED BY <2>1, <2>2 DEF Line
<1> QED BY <1>2, <1>3

(***************************************************************************)
(* How long the texts are.                                                 *)
(***************************************************************************)
\* What is read is drawn in the cells that are for it.
LEMMA ShortReadings ==
    ASSUME ShortTexts
    PROVE  /\ \A t \in Ambients : t = NoReading \/ Absolute(t) < 100
           /\ \A secs \in Remaining : Days(secs) < 100
BY SMT DEF ShortTexts, Days

\* Numbers of two digits at most.
TwoDigits == {n \in ThreeDigits : n < 100}

\* How many digits a number has.
Digits(n) == IF n < 10 THEN 1 ELSE IF n < 100 THEN 2 ELSE 3

\* Decimal() prints that many.
LEMMA DecimalLength == ASSUME NEW n \in ThreeDigits PROVE Len(Decimal(n)) = Digits(n)
<1> n \in Nat
    BY DEF ThreeDigits
<1>1. CASE n < 10
    BY <1>1 DEF Decimal, Digits
<1>2. CASE ~(n < 10) /\ n < 100
    BY <1>2 DEF Decimal, Digits
<1>3. CASE ~(n < 10) /\ ~(n < 100)
    BY <1>3 DEF Decimal, Digits
<1> QED BY <1>1, <1>2, <1>3

\* The length of texts in a row.
LEMMA LengthConcat == ASSUME NEW s \in Text, NEW t \in Text PROVE Len(s \o t) = Len(s) + Len(t)
BY ConcatProperties DEF Text

\* The length of a text in a field of a width, and of what fills it up.
LEMMA PaddingLength ==
    ASSUME NEW text \in Text, NEW width \in Nat, NEW c \in 0 .. 255
    PROVE  Len(Padding(text, width, c)) = IF Len(text) < width THEN width - Len(text) ELSE 0
<1>1. PICK k \in Nat : k = Len(text)
    BY DEF Text
<1>2. CASE k < width
    <2>1. PICK n \in Nat : n = width - k
        BY <1>2
    <2>2. [i \in 1 .. n |-> c] \in [1 .. n -> 0 .. 255]
        OBVIOUS
    <2>3. Len([i \in 1 .. n |-> c]) = n
        BY <2>2, Sequence
    <2>4. Padding(text, width, c) = [i \in 1 .. n |-> c]
        BY <1>1, <1>2, <2>1 DEF Padding
    <2> QED BY <1>1, <1>2, <2>1, <2>3, <2>4
<1>3. CASE ~(k < width)
    BY <1>1, <1>3 DEF Padding
<1> QED BY <1>2, <1>3

\* A text at the right of a field fills it.
LEMMA RightLength ==
    ASSUME NEW text \in Text, NEW width \in Nat
    PROVE  Len(Right(text, width)) = IF Len(text) < width THEN width ELSE Len(text)
<1>1. PICK p : p = Padding(text, width, Blank)
    OBVIOUS
<1>2. Blank \in 0 .. 255
    BY DEF Blank
<1>3. p \in Text /\ Len(p) = IF Len(text) < width THEN width - Len(text) ELSE 0
    BY <1>1, <1>2, PaddingText, PaddingLength
<1>4. Len(p \o text) = Len(p) + Len(text)
    BY <1>3, LengthConcat
<1>5. Len(text) \in Nat
    BY DEF Text
<1> QED BY <1>1, <1>3, <1>4, <1>5 DEF Right

\* A number of two digits or less, with leading zeros.
LEMMA ZerosLength == ASSUME NEW n \in ThreeDigits, n < 100 PROVE Len(Zeros(n)) = 2
<1>1. PICK d \in Text : d = Decimal(n)
    BY DecimalText
<1>2. Len(d) = Digits(n) /\ Digits(n) \in {1, 2}
    BY <1>1, DecimalLength DEF Digits
<1>3. PICK p \in Text : p = Padding(d, 2, 48)
    <2>1. 2 \in Nat /\ 48 \in 0 .. 255
        OBVIOUS
    <2> QED BY <2>1, PaddingText
<1>4. Len(p) = IF Len(d) < 2 THEN 2 - Len(d) ELSE 0
    <2>1. 2 \in Nat /\ 48 \in 0 .. 255
        OBVIOUS
    <2> QED BY <1>3, <2>1, PaddingLength
<1>5. Len(p \o d) = Len(p) + Len(d)
    BY LengthConcat
<1> QED BY <1>1, <1>2, <1>3, <1>4, <1>5 DEF Zeros

\* Texts of a length.
OfLength(n) == {t \in Text : Len(t) = n}

\* One after the other, they have the sum of their lengths.
LEMMA JoinLength ==
    ASSUME NEW m \in Nat, NEW n \in Nat, NEW s \in OfLength(m), NEW t \in OfLength(n)
    PROVE  s \o t \in OfLength(m + n)
<1>1. s \in Text /\ t \in Text /\ Len(s) = m /\ Len(t) = n
    BY DEF OfLength
<1>2. Len(s \o t) = m + n /\ s \o t \in Text
    BY <1>1, TextConcat, LengthConcat
<1> QED BY <1>2 DEF OfLength

\* In a field, they have its width or more.
LEMMA FieldLength ==
    ASSUME NEW n \in Nat, NEW width \in Nat, NEW t \in OfLength(n)
    PROVE  Right(t, width) \in OfLength(IF n < width THEN width ELSE n)
<1>1. t \in Text /\ Len(t) = n
    BY DEF OfLength
<1>2. Right(t, width) \in Text
    BY <1>1, RightText
<1>3. Len(Right(t, width)) = IF n < width THEN width ELSE n
    BY <1>1, RightLength
<1> QED BY <1>2, <1>3 DEF OfLength

\* A number has its digits.
LEMMA NumberLength == ASSUME NEW n \in ThreeDigits PROVE Decimal(n) \in OfLength(Digits(n)) /\ Digits(n) \in {1, 2, 3}
<1>1. Digits(n) \in {1, 2, 3}
    BY DEF Digits
<1> QED BY <1>1, DecimalText, DecimalLength DEF OfLength

\* No character, one and two.
LEMMA NoChar == <<>> \in OfLength(0)
BY DEF OfLength, Text

LEMMA OneChar == ASSUME NEW a \in 0 .. 255 PROVE <<a>> \in OfLength(1)
BY DEF OfLength, Text

LEMMA TwoChars == ASSUME NEW a \in 0 .. 255, NEW b \in 0 .. 255 PROVE <<a, b>> \in OfLength(2)
BY DEF OfLength, Text

\* The ambient temperature has five characters: sign, two digits, degrees.
LEMMA AmbientLength == ASSUME NEW t \in Int, Absolute(t) < 100 PROVE ambientText(t) \in OfLength(5)
<1>1. PICK n \in ThreeDigits : n = Absolute(t) /\ n < 100
    BY DEF Absolute, ThreeDigits
<1>2. PICK c \in 0 .. 255 : c = IF t < 0 THEN Minus ELSE Blank
    BY DEF Minus, Blank
<1>3. <<c>> \in OfLength(1)
    BY OneChar
<1>4. PICK k \in {1, 2} : Decimal(n) \in OfLength(k)
    <2>1. Digits(n) \in {1, 2}
        BY <1>1 DEF Digits
    <2> QED BY <2>1, NumberLength
<1>5. <<c>> \o Decimal(n) \in OfLength(1 + k)
    <2>1. 1 \in Nat /\ k \in Nat
        OBVIOUS
    <2> QED BY <1>3, <1>4, <2>1, JoinLength
<1>6. PICK r : r = Right(<<c>> \o Decimal(n), 3)
    OBVIOUS
<1>7. r \in OfLength(3)
    <2>1. PICK m \in Nat : m = 1 + k
        OBVIOUS
    <2>2. PICK w \in Nat : w = 3
        OBVIOUS
    <2>3. Right(<<c>> \o Decimal(n), w) \in OfLength(IF m < w THEN w ELSE m)
        BY <1>5, <2>1, FieldLength
    <2>4. (IF m < w THEN w ELSE m) = 3
        BY <2>1, <2>2
    <2> QED BY <1>6, <2>2, <2>3, <2>4
<1>8. <<Degree, 67>> \in OfLength(2)
    <2>1. PICK d \in 0 .. 255, e \in 0 .. 255 : d = Degree /\ e = 67
        BY DEF Degree
    <2>2. <<d, e>> \in OfLength(2)
        BY TwoChars
    <2> QED BY <2>1, <2>2
<1>9. PICK p \in Nat, q \in Nat : p = 3 /\ q = 2 /\ p + q = 5
    OBVIOUS
<1>10. r \o <<Degree, 67>> \in OfLength(p + q)
    BY <1>7, <1>8, <1>9, JoinLength
<1>11. ambientText(t) = r \o <<Degree, 67>>
    BY <1>1, <1>2, <1>6 DEF ambientText
<1> QED BY <1>9, <1>10, <1>11

\* The temperature of a vessel has five to seven.
LEMMA VesselLength ==
    ASSUME NEW t \in Int, Absolute(t) \div 10 \in ThreeDigits PROVE \E n \in 5 .. 7 : vesselText(t) \in OfLength(n)
<1>0. PICK sign : sign = IF t < 0 THEN <<Minus>> ELSE <<>>
    OBVIOUS
<1>1. PICK i \in {0, 1} : sign \in OfLength(i)
    <2>1. PICK d \in 0 .. 255 : d = Minus
        BY DEF Minus
    <2>2. <<d>> \in OfLength(1)
        BY OneChar
    <2> QED BY <1>0, <2>1, <2>2, NoChar
<1>2. PICK c \in 0 .. 255 : c = 48 + (Absolute(t) % 10)
    BY DEF Absolute
<1>3. <<46, c>> \in OfLength(2)
    <2>1. PICK d \in 0 .. 255 : d = 46
        OBVIOUS
    <2>2. <<d, c>> \in OfLength(2)
        BY TwoChars
    <2> QED BY <2>1, <2>2
<1>4. PICK u \in 0 .. 255 : u = Degree
    BY DEF Degree
<1>5. <<u>> \in OfLength(1)
    BY OneChar
<1>6. PICK j \in {1, 2, 3} : Decimal(Absolute(t) \div 10) \in OfLength(j)
    BY NumberLength
<1>7. PICK whole : whole = Decimal(Absolute(t) \div 10)
    OBVIOUS
<1>8. PICK m \in Nat : m = i + j
    OBVIOUS
<1>9. sign \o whole \in OfLength(m)
    <2>1. i \in Nat /\ j \in Nat
        OBVIOUS
    <2> QED BY <1>1, <1>6, <1>7, <1>8, <2>1, JoinLength
<1>10. PICK k \in Nat : k = m + 2
    OBVIOUS
<1>11. (sign \o whole) \o <<46, c>> \in OfLength(k)
    <2>1. 2 \in Nat
        OBVIOUS
    <2> QED BY <1>3, <1>9, <1>10, <2>1, JoinLength
<1>12. PICK w \in Nat : w = 4
    OBVIOUS
<1>13. PICK n \in Nat : n = IF k < w THEN w ELSE k
    OBVIOUS
<1>14. Right((sign \o whole) \o <<46, c>>, w) \in OfLength(n)
    BY <1>11, <1>13, FieldLength
<1>15. PICK p \in 5 .. 7 : p = n + 1
    BY <1>8, <1>10, <1>12, <1>13
<1>16. Right((sign \o whole) \o <<46, c>>, w) \o <<u>> \in OfLength(p)
    <2>1. 1 \in Nat
        OBVIOUS
    <2> QED BY <1>5, <1>14, <1>15, <2>1, JoinLength
<1>17. vesselText(t) = Right((sign \o whole) \o <<46, c>>, w) \o <<u>>
    BY <1>0, <1>2, <1>4, <1>7, <1>12 DEF vesselText
<1> QED BY <1>16, <1>17

\* Two numbers of two digits and their units have six.
LEMMA PairLength ==
    ASSUME NEW a \in TwoDigits, NEW b \in TwoDigits, NEW u \in 0 .. 255, NEW v \in 0 .. 255
    PROVE  Pair(a, u, b, v) \in OfLength(6)
<1> a \in ThreeDigits /\ b \in ThreeDigits /\ a < 100 /\ b < 100
    BY DEF TwoDigits
<1>1. <<u>> \in OfLength(1) /\ <<v>> \in OfLength(1)
    BY OneChar
<1>2. PICK k \in {1, 2} : Decimal(a) \in OfLength(k)
    <2>1. Digits(a) \in {1, 2}
        BY DEF Digits, ThreeDigits
    <2> QED BY <2>1, NumberLength
<1>3. PICK i \in Nat, j \in Nat : i = 2 /\ j = 1
    OBVIOUS
<1>4. Right(Decimal(a), i) \in OfLength(i)
    <2>1. k \in Nat /\ (IF k < i THEN i ELSE k) = i
        BY <1>3
    <2>2. Right(Decimal(a), i) \in OfLength(IF k < i THEN i ELSE k)
        BY <1>2, <2>1, FieldLength
    <2> QED BY <2>1, <2>2
<1>5. Zeros(b) \in OfLength(i)
    BY <1>3, ZerosText, ZerosLength DEF OfLength
<1>6. Right(Decimal(a), i) \o <<u>> \in OfLength(i + j)
    BY <1>1, <1>3, <1>4, JoinLength
<1>7. (Right(Decimal(a), i) \o <<u>>) \o Zeros(b) \in OfLength((i + j) + i)
    <2>1. i + j \in Nat
        OBVIOUS
    <2> QED BY <1>5, <1>6, <2>1, JoinLength
<1>8. ((Right(Decimal(a), i) \o <<u>>) \o Zeros(b)) \o <<v>> \in OfLength(((i + j) + i) + j)
    <2>1. (i + j) + i \in Nat
        OBVIOUS
    <2> QED BY <1>1, <1>3, <1>7, <2>1, JoinLength
<1>9. ((i + j) + i) + j = 6
    BY <1>3
<1>10. Pair(a, u, b, v) = ((Right(Decimal(a), i) \o <<u>>) \o Zeros(b)) \o <<v>>
    BY <1>3 DEF Pair
<1> QED BY <1>8, <1>9, <1>10

\* A time of less than a hundred days has six.
LEMMA RemainingLength ==
    ASSUME NEW type, NEW secs \in Nat, Days(secs) < 100 PROVE remainingText(type, secs) \in OfLength(6)
<1>1. CASE type = "serve" \/ secs = 0
    <2>1. [i \in 1 .. 6 |-> Blank] \in [1 .. 6 -> 0 .. 255] /\ 6 \in Nat
        BY DEF Blank
    <2>2. [i \in 1 .. 6 |-> Blank] \in OfLength(6)
        BY <2>1, Sequence DEF OfLength, Text
    <2> QED BY <1>1, <2>2, SMT DEF remainingText
<1>2. CASE ~(type = "serve" \/ secs = 0) /\ secs >= 86400
    <2>1. PICK a \in TwoDigits : a = secs \div 86400
        BY SMT DEF TwoDigits, ThreeDigits, Days
    <2>2. PICK d \in Nat : d = secs \div 3600
        BY SMT
    <2>3. PICK b \in TwoDigits : b = d % 24
        BY SMT DEF TwoDigits, ThreeDigits
    <2>4. PICK u \in 0 .. 255, v \in 0 .. 255 : u = 100 /\ v = 104
        BY SMT
    <2>5. remainingText(type, secs) = Pair(a, u, b, v)
        BY <1>2, <2>1, <2>2, <2>3, <2>4, SMT DEF remainingText
    <2>6. Pair(a, u, b, v) \in OfLength(6)
        BY PairLength
    <2> QED BY <2>5, <2>6
<1>3. CASE ~(type = "serve" \/ secs = 0) /\ secs < 86400 /\ secs >= 3600
    <2>1. PICK a \in TwoDigits : a = secs \div 3600
        BY <1>3, SMT DEF TwoDigits, ThreeDigits
    <2>2. PICK d \in Nat : d = secs \div 60
        BY SMT
    <2>3. PICK b \in TwoDigits : b = d % 60
        BY SMT DEF TwoDigits, ThreeDigits
    <2>4. PICK u \in 0 .. 255, v \in 0 .. 255 : u = 104 /\ v = 109
        BY SMT
    <2>5. remainingText(type, secs) = Pair(a, u, b, v)
        BY <1>3, <2>1, <2>2, <2>3, <2>4, SMT DEF remainingText
    <2>6. Pair(a, u, b, v) \in OfLength(6)
        BY PairLength
    <2> QED BY <2>5, <2>6
<1>4. CASE ~(type = "serve" \/ secs = 0) /\ secs < 3600
    <2>1. PICK a \in TwoDigits : a = secs \div 60
        BY <1>4, SMT DEF TwoDigits, ThreeDigits
    <2>2. PICK d \in Nat : d = secs
        BY SMT
    <2>3. PICK b \in TwoDigits : b = d % 60
        BY SMT DEF TwoDigits, ThreeDigits
    <2>4. PICK u \in 0 .. 255, v \in 0 .. 255 : u = 109 /\ v = 115
        BY SMT
    <2>5. remainingText(type, secs) = Pair(a, u, b, v)
        BY <1>4, <2>1, <2>2, <2>3, <2>4, SMT DEF remainingText
    <2>6. Pair(a, u, b, v) \in OfLength(6)
        BY PairLength
    <2> QED BY <2>5, <2>6
<1> QED BY <1>1, <1>2, <1>3, <1>4, SMT

(***************************************************************************)
(* The cells that an update writes.                                        *)
(***************************************************************************)
\* The cells of calls in a row.
LEMMA CellsConcat ==
    ASSUME NEW D \in Seq(Texts), NEW E \in Seq(Texts)
    PROVE  D \o E \in Seq(Texts) /\ CellsOf(D \o E) = CellsOf(D) \cup CellsOf(E)
<1>1. PICK n \in Nat, k \in Nat : n = Len(D) /\ k = Len(E)
    OBVIOUS
<1>2. PICK u : u = D \o E
    OBVIOUS
<1>3. /\ u \in Seq(Texts) /\ Len(u) = n + k /\ \A i \in 1 .. n : u[i] = D[i]
      /\ \A i \in n + 1 .. n + k : u[i] = E[i - n]
    BY <1>1, <1>2, Concat
<1>4. DOMAIN u = 1 .. n + k /\ DOMAIN D = 1 .. n /\ DOMAIN E = 1 .. k
    BY <1>1, <1>3
<1>5. ASSUME NEW x \in CellsOf(u) PROVE x \in CellsOf(D) \cup CellsOf(E)
    <2>1. PICK i \in 1 .. n + k : x \in Cells(u[i])
        BY <1>4 DEF CellsOf
    <2>2. CASE i <= n
        <3>1. i \in DOMAIN D /\ u[i] = D[i]
            BY <1>3, <1>4, <2>2
        <3> QED BY <2>1, <3>1 DEF CellsOf
    <2>3. CASE i > n
        <3>1. i - n \in DOMAIN E /\ u[i] = E[i - n]
            BY <1>3, <1>4, <2>3
        <3> QED BY <2>1, <3>1 DEF CellsOf
    <2> QED BY <2>2, <2>3
<1>6. ASSUME NEW x \in CellsOf(D) PROVE x \in CellsOf(u)
    <2>1. PICK i \in 1 .. n : x \in Cells(D[i])
        BY <1>4 DEF CellsOf
    <2>2. i \in DOMAIN u /\ u[i] = D[i]
        BY <1>3, <1>4
    <2> QED BY <2>1, <2>2 DEF CellsOf
<1>7. ASSUME NEW x \in CellsOf(E) PROVE x \in CellsOf(u)
    <2>1. PICK i \in 1 .. k : x \in Cells(E[i])
        BY <1>4 DEF CellsOf
    <2>2. PICK j \in n + 1 .. n + k : j = n + i /\ j - n = i
        OBVIOUS
    <2>3. j \in DOMAIN u /\ u[j] = E[i]
        BY <1>3, <1>4, <2>2
    <2> QED BY <2>1, <2>3 DEF CellsOf
<1> QED BY <1>2, <1>3, <1>5, <1>6, <1>7

\* The cells of one call.
LEMMA CellsOne == ASSUME NEW b \in Texts PROVE <<b>> \in Seq(Texts) /\ CellsOf(<<b>>) = Cells(b)
<1>1. PICK D : D = <<b>>
    OBVIOUS
<1>2. D \in Seq(Texts) /\ DOMAIN D = {1} /\ D[1] = b
    BY <1>1
<1>3. CellsOf(D) = Cells(b)
    BY <1>2, Zenon DEF CellsOf
<1> QED BY <1>1, <1>2, <1>3

\* The same of two calls,
LEMMA CellsTwo ==
    ASSUME NEW b \in Texts, NEW c \in Texts
    PROVE  <<b, c>> \in Seq(Texts) /\ CellsOf(<<b, c>>) = Cells(b) \cup Cells(c)
<1>1. PICK D : D = <<b, c>>
    OBVIOUS
<1>2. D \in Seq(Texts) /\ DOMAIN D = {1, 2} /\ D[1] = b /\ D[2] = c
    BY <1>1
<1>3. ASSUME NEW x PROVE x \in UNION {Cells(D[k]) : k \in {1, 2}} <=> x \in Cells(D[1]) \/ x \in Cells(D[2])
    BY Zenon
<1> QED BY <1>1, <1>2, <1>3 DEF CellsOf

\* and of four.
LEMMA CellsFour ==
    ASSUME NEW b \in Texts, NEW c \in Texts, NEW d \in Texts, NEW e \in Texts
    PROVE  /\ <<b, c, d, e>> \in Seq(Texts)
           /\ CellsOf(<<b, c, d, e>>) = Cells(b) \cup Cells(c) \cup Cells(d) \cup Cells(e)
<1>1. PICK D : D = <<b, c, d, e>>
    OBVIOUS
<1>2. D \in Seq(Texts) /\ DOMAIN D = {1, 2, 3, 4} /\ D[1] = b /\ D[2] = c /\ D[3] = d /\ D[4] = e
    BY <1>1
<1>3. ASSUME NEW x
      PROVE  x \in UNION {Cells(D[k]) : k \in {1, 2, 3, 4}}
             <=> x \in Cells(D[1]) \/ x \in Cells(D[2]) \/ x \in Cells(D[3]) \/ x \in Cells(D[4])
    BY Zenon
<1> QED BY <1>1, <1>2, <1>3 DEF CellsOf

\* An update begins with these,
HeadOf(s) == <<printAt(0, 0, time),
               IF s.ambient = NoReading THEN printAt(16, 0, <<45, 45, Degree, 67>>)
                                        ELSE printAt(15, 0, ambientText(s.ambient))>>
\* clears the lines for another session,
Clearing(s, new) == IF s.idx # 0 /\ new THEN <<clearLine(2), clearLine(3)>> ELSE <<>>
\* and ends with these.
NamesOf(session) ==
    <<printAt(0, 2, <<71>> \o Decimal(session.gyle) \o Padding(Decimal(session.gyle), 3, Blank)),
      printAt(0, 3, nameText(session.name))>>
StateOf(session, s) == IF s.active THEN DrawActive(session, s) ELSE <<printAt(5, 2, startsIn)>>
TailOf(s) == IF s.idx = 0 THEN <<printAt(5, 2, noSessions)>>
             ELSE NamesOf(Sessions[s.idx]) \o StateOf(Sessions[s.idx], s)

\* The cells that an update writes without clearing.
HeadCells == From(0, 5) \cup From(15, 5)
TailCells(s) == IF s.idx = 0 THEN From(25, 11)
                ELSE From(20, 4) \cup From(84, Fitting(Sessions[s.idx].name))
                     \cup (IF s.active THEN From(25, 15) ELSE From(25, 9))
ClearCells == From(20, 20) \cup From(84, 20)

\* The addresses of NotOverwritten.
NotOver == {15, 26, 33}

\* A text of a length that fits, at a place.
LEMMA PrintAtPlace ==
    ASSUME NEW x \in 0 .. 19, NEW y \in {0, 2, 3}, NEW n \in Nat, NEW text \in OfLength(n), n <= 20 - x
    PROVE  /\ printAt(x, y, text) \in Texts
           /\ Cells(printAt(x, y, text)) = From(Address(x, y), n)
<1>1. text \in Text /\ Len(text) = n
    BY DEF OfLength
<1>2. OnScreen(x, y) /\ x \in Int /\ y \in Int
    BY DEF OnScreen, Width, Height
<1>3. Sent(text, x) = n
    BY <1>1 DEF Sent, Width
<1>4. PICK a \in Nat : a = Address(x, y) /\ (a + n <= 40 \/ (a >= 64 /\ a + n <= 104))
    BY DEF Address
<1>5. Line(a, n) = From(a, n)
    BY <1>4, LineInRow
<1> QED BY <1>1, <1>2, <1>3, <1>4, <1>5, PrintCells

\* The first calls: the time and the ambient temperature.
LEMMA HeadWrites ==
    ASSUME ScreenAssumption, ShortTexts, NEW s, Found(s)
    PROVE  /\ HeadOf(s) \in Seq(Texts)
           /\ \A a \in DDRAM \ NotOver : a \in CellsOf(HeadOf(s)) <=> a \in HeadCells
<1>1. PICK b : b = printAt(0, 0, time)
    OBVIOUS
<1>2. PICK c : c = IF s.ambient = NoReading THEN printAt(16, 0, <<45, 45, Degree, 67>>)
                                        ELSE printAt(15, 0, ambientText(s.ambient))
    OBVIOUS
<1>3. b \in Texts /\ Cells(b) = From(0, 5)
    <2>1. PICK n \in Nat : n = 5
        OBVIOUS
    <2>2. time \in OfLength(n)
        BY <2>1 DEF time, OfLength, Text
    <2>3. PICK x \in 0 .. 19, y \in {0, 2, 3} : x = 0 /\ y = 0 /\ n <= 20 - x
        BY <2>1
    <2>4. printAt(x, y, time) \in Texts /\ Cells(printAt(x, y, time)) = From(Address(x, y), n)
        BY <2>2, <2>3, PrintAtPlace
    <2>5. Address(x, y) = 0
        BY <2>3 DEF Address
    <2> QED BY <1>1, <2>1, <2>3, <2>4, <2>5
<1>4. c \in Texts /\ (Cells(c) = From(16, 4) \/ Cells(c) = From(15, 5))
    <2>1. CASE s.ambient = NoReading
        <3>1. PICK n \in Nat : n = 4
            OBVIOUS
        <3>2. PICK t : t = <<45, 45, Degree, 67>>
            OBVIOUS
        <3>3. t \in OfLength(n)
            BY <3>1, <3>2 DEF Degree, OfLength, Text
        <3>4. PICK x \in 0 .. 19, y \in {0, 2, 3} : x = 16 /\ y = 0 /\ n <= 20 - x
            BY <3>1
        <3>5. printAt(x, y, t) \in Texts /\ Cells(printAt(x, y, t)) = From(Address(x, y), n)
            BY <3>3, <3>4, PrintAtPlace
        <3>6. Address(x, y) = 16
            BY <3>4 DEF Address
        <3> QED BY <1>2, <2>1, <3>1, <3>2, <3>4, <3>5, <3>6
    <2>2. CASE s.ambient # NoReading
        <3>1. PICK n \in Nat : n = 5
            OBVIOUS
        <3>2. PICK t : t = ambientText(s.ambient)
            OBVIOUS
        <3>3. t \in OfLength(n)
            <4>1. s.ambient \in Int /\ Absolute(s.ambient) < 100
                BY <2>2, Readings, ShortReadings DEF Found
            <4> QED BY <3>1, <3>2, <4>1, AmbientLength
        <3>4. PICK x \in 0 .. 19, y \in {0, 2, 3} : x = 15 /\ y = 0 /\ n <= 20 - x
            BY <3>1
        <3>5. printAt(x, y, t) \in Texts /\ Cells(printAt(x, y, t)) = From(Address(x, y), n)
            BY <3>3, <3>4, PrintAtPlace
        <3>6. Address(x, y) = 15
            BY <3>4 DEF Address
        <3> QED BY <1>2, <2>2, <3>1, <3>2, <3>4, <3>5, <3>6
    <2> QED BY <2>1, <2>2
<1>5. HeadOf(s) = <<b, c>>
    BY <1>1, <1>2 DEF HeadOf
<1>6. HeadOf(s) \in Seq(Texts) /\ CellsOf(HeadOf(s)) = Cells(b) \cup Cells(c)
    BY <1>3, <1>4, <1>5, CellsTwo
<1>7. ASSUME NEW a \in DDRAM \ NotOver PROVE a \in Cells(b) \cup Cells(c) <=> a \in HeadCells
    <2>1. a \in Int /\ a # 15
        BY DEF DDRAM, NotOver
    <2> QED BY <1>3, <1>4, <2>1 DEF HeadCells, From
<1> QED BY <1>6, <1>7

\* The texts of a session: its number and its name.
LEMMA NamesWrite ==
    ASSUME ScreenAssumption, NEW i \in DOMAIN Sessions
    PROVE  /\ NamesOf(Sessions[i]) \in Seq(Texts)
           /\ CellsOf(NamesOf(Sessions[i])) = From(20, 4) \cup From(84, Fitting(Sessions[i].name))
<1>1. PICK session : session = Sessions[i]
    OBVIOUS
<1>2. session.gyle \in ThreeDigits /\ session.name \in Text
    BY <1>1, SessionFields
<1>3. PICK gyle : gyle = <<71>> \o Decimal(session.gyle) \o Padding(Decimal(session.gyle), 3, Blank)
    OBVIOUS
<1>4. gyle \in OfLength(4)
    <2>1. PICK k \in {1, 2, 3} : Decimal(session.gyle) \in OfLength(k)
        BY <1>2, NumberLength
    <2>2. PICK w \in Nat, c \in 0 .. 255 : w = 3 /\ c = Blank
        BY DEF Blank
    <2>3. PICK p \in Text : p = Padding(Decimal(session.gyle), w, c)
        BY <2>1, PaddingText DEF OfLength
    <2>4. Len(p) = IF k < w THEN w - k ELSE 0
        BY <2>1, <2>3, PaddingLength DEF OfLength
    <2>5. PICK j \in Nat : j = 3 - k /\ p \in OfLength(j)
        BY <2>2, <2>3, <2>4 DEF OfLength
    <2>6. PICK o \in Nat, g \in 0 .. 255 : o = 1 /\ g = 71
        OBVIOUS
    <2>7. <<g>> \in OfLength(o)
        BY <2>6, OneChar
    <2>8. k \in Nat /\ o + k \in Nat /\ (o + k) + j = 4
        BY <2>5, <2>6
    <2>9. <<g>> \o Decimal(session.gyle) \in OfLength(o + k)
        BY <2>1, <2>7, <2>8, JoinLength
    <2>10. (<<g>> \o Decimal(session.gyle)) \o p \in OfLength((o + k) + j)
        BY <2>5, <2>8, <2>9, JoinLength
    <2> QED BY <1>3, <2>2, <2>3, <2>6, <2>8, <2>10
<1>5. PICK b : b = printAt(0, 2, gyle)
    OBVIOUS
<1>6. b \in Texts /\ Cells(b) = From(20, 4)
    <2>1. PICK x \in 0 .. 19, y \in {0, 2, 3}, n \in Nat : x = 0 /\ y = 2 /\ n = 4 /\ n <= 20 - x
        OBVIOUS
    <2>2. gyle \in OfLength(n)
        BY <1>4, <2>1
    <2>3. printAt(x, y, gyle) \in Texts /\ Cells(printAt(x, y, gyle)) = From(Address(x, y), n)
        BY <2>1, <2>2, PrintAtPlace
    <2>4. Address(x, y) = 20
        BY <2>1 DEF Address
    <2> QED BY <1>5, <2>1, <2>3, <2>4
<1>7. PICK c : c = printAt(0, 3, nameText(session.name))
    OBVIOUS
<1>8. PICK m \in Nat : m = Fitting(session.name) /\ m <= 20
    BY <1>2 DEF Text, Fitting
<1>9. c \in Texts /\ Cells(c) = From(84, m)
    <2>1. PICK x \in 0 .. 19, y \in {0, 2, 3} : x = 0 /\ y = 3 /\ m <= 20 - x
        BY <1>8
    <2>2. nameText(session.name) \in OfLength(m)
        BY <1>2, <1>8, NameText DEF OfLength
    <2>3. /\ printAt(x, y, nameText(session.name)) \in Texts
          /\ Cells(printAt(x, y, nameText(session.name))) = From(Address(x, y), m)
        BY <2>1, <2>2, PrintAtPlace
    <2>4. Address(x, y) = 84
        BY <2>1 DEF Address
    <2> QED BY <1>7, <2>1, <2>3, <2>4
<1>10. NamesOf(session) = <<b, c>>
    BY <1>3, <1>5, <1>7, Zenon DEF NamesOf
<1>11. NamesOf(session) \in Seq(Texts) /\ CellsOf(NamesOf(session)) = Cells(b) \cup Cells(c)
    BY <1>6, <1>9, <1>10, CellsTwo
<1> QED BY <1>1, <1>6, <1>8, <1>9, <1>11

\* What is known of a session: that it starts later, or its temperatures.
LEMMA StateWrites ==
    ASSUME ScreenAssumption, ShortTexts, NEW s, Found(s), s.idx # 0
    PROVE  /\ StateOf(Sessions[s.idx], s) \in Seq(Texts)
           /\ \A a \in DDRAM \ NotOver : a \in CellsOf(StateOf(Sessions[s.idx], s))
                                         <=> a \in (IF s.active THEN From(25, 15) ELSE From(25, 9))
<1>1. PICK session : session = Sessions[s.idx]
    OBVIOUS
<1>2. session.type \in {"ferment", "condition", "serve"}
    BY <1>1, SessionFields DEF Found
<1>3. CASE ~s.active
    <2>1. PICK x \in 0 .. 19, y \in {0, 2, 3}, n \in Nat : x = 5 /\ y = 2 /\ n = 9 /\ n <= 20 - x
        OBVIOUS
    <2>2. startsIn \in OfLength(n)
        BY <2>1 DEF startsIn, OfLength, Text
    <2>3. PICK b : b = printAt(x, y, startsIn)
        OBVIOUS
    <2>4. b \in Texts /\ Cells(b) = From(Address(x, y), n)
        BY <2>1, <2>2, <2>3, PrintAtPlace
    <2>5. Address(x, y) = 25
        BY <2>1 DEF Address
    <2>6. StateOf(session, s) = <<b>>
        BY <1>3, <2>1, <2>3 DEF StateOf
    <2>7. StateOf(session, s) \in Seq(Texts) /\ CellsOf(StateOf(session, s)) = From(25, 9)
        BY <2>1, <2>4, <2>5, <2>6, CellsOne
    <2> QED BY <1>1, <1>3, <2>7
<1>4. CASE s.active
    <2>1. s.control \in 0 .. 255 /\ s.vessel \in Int /\ (s.vessel = NoReading \/ Absolute(s.vessel) \div 10 \in ThreeDigits)
        BY <1>4, Readings DEF Found
    <2>2. s.remaining \in Nat /\ Days(s.remaining) < 100
        BY <1>4, Readings, ShortReadings DEF Found
    <2>3. PICK b : b = putAt(5, 2, getSessionTypeIndicator(session.type))
        OBVIOUS
    <2>4. b \in Texts /\ Cells(b) = From(25, 1)
        <3>1. PICK x \in Int, y \in Int : x = 5 /\ y = 2 /\ OnScreen(x, y) /\ Address(x, y) = 25
            BY DEF OnScreen, Width, Height, Address
        <3>2. PICK c \in 0 .. 255 : c = getSessionTypeIndicator(session.type)
            BY <1>2 DEF getSessionTypeIndicator
        <3>3. putAt(x, y, c) \in Texts /\ Cells(putAt(x, y, c)) = Line(Address(x, y), 1)
            BY <3>1, PutCells
        <3>4. PICK k \in Nat, n \in Nat : k = 25 /\ n = 1 /\ k + n <= 40
            OBVIOUS
        <3>5. Line(k, n) = From(k, n)
            BY <3>4, LineInRow
        <3> QED BY <2>3, <3>1, <3>2, <3>3, <3>4, <3>5
    <2>5. PICK c : c = putAt(7, 2, s.control)
        OBVIOUS
    <2>6. c \in Texts /\ Cells(c) = From(27, 1)
        <3>1. PICK x \in Int, y \in Int : x = 7 /\ y = 2 /\ OnScreen(x, y) /\ Address(x, y) = 27
            BY DEF OnScreen, Width, Height, Address
        <3>2. putAt(x, y, s.control) \in Texts /\ Cells(putAt(x, y, s.control)) = Line(Address(x, y), 1)
            BY <2>1, <3>1, PutCells
        <3>3. PICK k \in Nat, n \in Nat : k = 27 /\ n = 1 /\ k + n <= 40
            OBVIOUS
        <3>4. Line(k, n) = From(k, n)
            BY <3>3, LineInRow
        <3> QED BY <2>5, <3>1, <3>2, <3>3, <3>4
    <2>7. PICK t : t = IF s.vessel = NoReading THEN <<45, 45, 46, 45, Degree>> ELSE vesselText(s.vessel)
        OBVIOUS
    <2>8. PICK n \in 5 .. 7 : t \in OfLength(n)
        <3>1. CASE s.vessel = NoReading
            <4>1. <<45, 45, 46, 45, Degree>> \in OfLength(5)
                BY DEF Degree, OfLength, Text
            <4> QED BY <2>7, <3>1, <4>1
        <3>2. CASE s.vessel # NoReading
            <4>1. \E n \in 5 .. 7 : vesselText(s.vessel) \in OfLength(n)
                BY <2>1, <3>2, VesselLength
            <4> QED BY <2>7, <3>2, <4>1
        <3> QED BY <3>1, <3>2
    <2>9. PICK d : d = printAt(8, 2, t)
        OBVIOUS
    <2>10. d \in Texts /\ Cells(d) = From(28, n)
        <3>1. PICK x \in 0 .. 19, y \in {0, 2, 3} : x = 8 /\ y = 2 /\ n \in Nat /\ n <= 20 - x
            OBVIOUS
        <3>2. printAt(x, y, t) \in Texts /\ Cells(printAt(x, y, t)) = From(Address(x, y), n)
            BY <2>8, <3>1, PrintAtPlace
        <3>3. Address(x, y) = 28
            BY <3>1 DEF Address
        <3> QED BY <2>9, <3>1, <3>2, <3>3
    <2>11. PICK r : r = remainingText(session.type, s.remaining)
        OBVIOUS
    <2>12. PICK e : e = printAt(14, 2, r)
        OBVIOUS
    <2>13. e \in Texts /\ Cells(e) = From(34, 6)
        <3>1. PICK x \in 0 .. 19, y \in {0, 2, 3}, k \in Nat : x = 14 /\ y = 2 /\ k = 6 /\ k <= 20 - x
            OBVIOUS
        <3>2. r \in OfLength(k)
            BY <2>2, <2>11, <3>1, RemainingLength
        <3>3. printAt(x, y, r) \in Texts /\ Cells(printAt(x, y, r)) = From(Address(x, y), k)
            BY <3>1, <3>2, PrintAtPlace
        <3>4. Address(x, y) = 34
            BY <3>1 DEF Address
        <3> QED BY <2>12, <3>1, <3>3, <3>4
    <2>14. StateOf(session, s) = <<b, c, d, e>>
        BY <1>4, <2>3, <2>5, <2>7, <2>9, <2>11, <2>12 DEF StateOf, DrawActive
    <2>15. /\ StateOf(session, s) \in Seq(Texts)
           /\ CellsOf(StateOf(session, s)) = Cells(b) \cup Cells(c) \cup Cells(d) \cup Cells(e)
        BY <2>4, <2>6, <2>10, <2>13, <2>14, CellsFour
    <2>16. ASSUME NEW a \in DDRAM \ NotOver
           PROVE  a \in CellsOf(StateOf(session, s)) <=> a \in From(25, 15)
        <3>1. a \in Int /\ a # 26 /\ a # 33
            BY DEF DDRAM, NotOver
        <3>2. a \in CellsOf(StateOf(session, s)) <=> a \in From(25, 1) \/ a \in From(27, 1) \/ a \in From(28, n) \/ a \in From(34, 6)
            BY <2>4, <2>6, <2>10, <2>13, <2>15
        <3> QED BY <3>1, <3>2 DEF From
    <2> QED BY <1>1, <1>4, <2>15, <2>16
<1> QED BY <1>3, <1>4

\* All calls after the clearing.
LEMMA TailWrites ==
    ASSUME ScreenAssumption, ShortTexts, NEW s, Found(s)
    PROVE  /\ TailOf(s) \in Seq(Texts)
           /\ \A a \in DDRAM \ NotOver : a \in CellsOf(TailOf(s)) <=> a \in TailCells(s)
<1>1. CASE s.idx = 0
    <2>1. PICK x \in 0 .. 19, y \in {0, 2, 3}, n \in Nat : x = 5 /\ y = 2 /\ n = 11 /\ n <= 20 - x
        OBVIOUS
    <2>2. noSessions \in OfLength(n)
        BY <2>1 DEF noSessions, OfLength, Text
    <2>3. PICK b : b = printAt(x, y, noSessions)
        OBVIOUS
    <2>4. b \in Texts /\ Cells(b) = From(Address(x, y), n)
        BY <2>1, <2>2, <2>3, PrintAtPlace
    <2>5. Address(x, y) = 25
        BY <2>1 DEF Address
    <2>6. TailOf(s) = <<b>>
        BY <1>1, <2>1, <2>3 DEF TailOf
    <2>7. TailOf(s) \in Seq(Texts) /\ CellsOf(TailOf(s)) = From(25, 11)
        BY <2>1, <2>4, <2>5, <2>6, CellsOne
    <2> QED BY <1>1, <2>7 DEF TailCells
<1>2. CASE s.idx # 0
    <2>1. PICK names, state : names = NamesOf(Sessions[s.idx]) /\ state = StateOf(Sessions[s.idx], s)
        OBVIOUS
    <2>2. /\ names \in Seq(Texts)
          /\ CellsOf(names) = From(20, 4) \cup From(84, Fitting(Sessions[s.idx].name))
        BY <1>2, <2>1, NamesWrite DEF Found
    <2>3. /\ state \in Seq(Texts)
          /\ \A a \in DDRAM \ NotOver : a \in CellsOf(state) <=> a \in (IF s.active THEN From(25, 15) ELSE From(25, 9))
        BY <1>2, <2>1, StateWrites
    <2>4. TailOf(s) = names \o state
        BY <1>2, <2>1 DEF TailOf
    <2>5. TailOf(s) \in Seq(Texts) /\ CellsOf(TailOf(s)) = CellsOf(names) \cup CellsOf(state)
        BY <2>2, <2>3, <2>4, CellsConcat
    <2>6. TailCells(s) = From(20, 4) \cup From(84, Fitting(Sessions[s.idx].name))
                         \cup (IF s.active THEN From(25, 15) ELSE From(25, 9))
        BY <1>2 DEF TailCells
    <2>7. ASSUME NEW a \in DDRAM \ NotOver PROVE a \in CellsOf(TailOf(s)) <=> a \in TailCells(s)
        BY <2>2, <2>3, <2>5, <2>6
    <2> QED BY <2>5, <2>7
<1> QED BY <1>1, <1>2

(***************************************************************************)
(* Lines that are cleared.                                                 *)
(***************************************************************************)
\* The controller after the address and n blanks from a.
Blanked(s, a, n) == /\ s \in Drawable /\ ~s.cg /\ s.addr = Along(a, n)
                    /\ \A x \in Line(a, n) : s.ddram[x] = Blank

\* One more blank.
LEMMA BlankNext ==
    ASSUME NEW a \in DDRAM, NEW n \in 0 .. 20, NEW s, Blanked(s, a, n), NEW byte \in Byte, byte.rs, byte.data = Blank
    PROVE  Blanked(Latch(s, byte), a, n + 1)
<1>1. PICK u : u = Latch(s, byte)
    OBVIOUS
<1>2. PICK x \in DDRAM : x = Along(a, n) /\ Towards(x, TRUE) = Along(a, n + 1)
    <2>1. n \in 0 .. 21 /\ n <= 20
        OBVIOUS
    <2> QED BY <2>1, AlongStep
<1>3. s \in Drawable /\ ~s.cg /\ s.addr = x /\ s.addr \in DDRAM /\ \A y \in Line(a, n) : s.ddram[y] = Blank
    BY <1>2 DEF Blanked
<1>4. u \in Drawable /\ ~u.cg /\ u.addr = Towards(x, TRUE) /\ u.ddram = [s.ddram EXCEPT ![x] = Blank]
    <2>1. /\ Latch(s, byte) \in Drawable /\ ~Latch(s, byte).cg
          /\ Latch(s, byte).addr = Towards(s.addr, TRUE)
          /\ Latch(s, byte).ddram = [s.ddram EXCEPT ![s.addr] = byte.data]
        BY <1>3, CharTaken
    <2> QED BY <1>1, <1>3, <2>1
<1>5. DOMAIN s.ddram = DDRAM
    BY <1>3 DEF Drawable, LcdType
<1>6. Line(a, n + 1) = Line(a, n) \cup {x}
    BY <1>2, LineStep
<1>7. Line(a, n) \subseteq DDRAM
    <2> SUFFICES ASSUME NEW i \in Nat, i < n PROVE Along(a, i) \in DDRAM
        BY DEF Line
    <2>1. i \in 0 .. 21
        OBVIOUS
    <2> QED BY <2>1, AlongStep
<1>8. \A y \in Line(a, n + 1) : u.ddram[y] = Blank
    BY <1>3, <1>4, <1>5, <1>6, <1>7
<1> QED BY <1>1, <1>2, <1>4, <1>8 DEF Blanked

\* A text of blanks leaves its cells blank.
LEMMA BlankText ==
    ASSUME NEW b \in Texts, NEW l \in Drawable, \A i \in 2 .. Len(b) : b[i].data = Blank
    PROVE  \A x \in Cells(b) : After(l, b).ddram[x] = Blank
<1>1. PICK a \in DDRAM : b[1].data = 128 + a
    BY DEF Texts
<1>2. PICK n \in 0 .. 21 : Len(b) = n + 1
    BY DEF Texts
<1>3. b \in Seq(Byte) /\ ~b[1].rs
    BY DEF Texts
<1>4. \A i \in 2 .. n + 1 : b[i].rs /\ b[i].data = Blank
    BY <1>2 DEF Texts
<1> DEFINE Stage(i) == {s \in Drawable : IF i = 0 THEN s = l ELSE Blanked(s, a, i - 1)}
           G == [i \in 0 .. n + 1 |-> Stage(i)]
<1>5. l \in G[0]
    OBVIOUS
<1>6. ASSUME NEW i \in 1 .. n + 1, NEW s \in G[i - 1] PROVE Latch(s, b[i]) \in G[i]
    <2>1. i - 1 \in 0 .. n + 1 /\ i \in 0 .. n + 1
        OBVIOUS
    <2>2. G[i - 1] = Stage(i - 1) /\ G[i] = Stage(i)
        BY <2>1
    <2>3. b[i] \in Byte
        <3> HIDE DEF G
        <3>1. i \in 1 .. Len(b)
            BY <1>2
        <3> QED BY <1>3, <3>1, ElementOfSeq
    <2>4. Blanked(Latch(s, b[i]), a, i - 1)
        <3>1. CASE i = 1
            <4>1. s = l
                BY <1>6, <2>2, <3>1
            <4>2. b[1] \in Byte /\ ~b[1].rs /\ b[1].data = 128 + a
                BY <1>1, <1>3, <2>3, <3>1
            <4> HIDE DEF G
            <4>3. PICK u : u = Latch(l, b[1])
                OBVIOUS
            <4>4. u \in Drawable /\ ~u.cg /\ u.addr = a
                BY <4>2, <4>3, AddressTaken
            <4>5. Line(a, 0) = {} /\ Along(a, 0) = a
                <5>1. 0 \in Nat /\ 0 \in 0 .. 21
                    OBVIOUS
                <5> QED BY <5>1, LineStep, AlongStep
            <4>6. Blanked(u, a, 0)
                BY <4>4, <4>5 DEF Blanked
            <4>7. i - 1 = 0
                BY <3>1
            <4> QED BY <3>1, <4>1, <4>3, <4>6, <4>7
        <3>2. CASE i \in 2 .. n + 1
            <4>1. Blanked(s, a, i - 2)
                <5>1. i - 1 # 0 /\ i - 1 - 1 = i - 2
                    BY <3>2
                <5> QED BY <1>6, <2>2, <5>1
            <4> HIDE DEF G
            <4>2. PICK k \in 0 .. 20 : k = i - 2 /\ k + 1 = i - 1
                BY <3>2
            <4>3. b[i].rs /\ b[i].data = Blank
                BY <1>4, <3>2
            <4>4. Blanked(s, a, k)
                BY <4>1, <4>2
            <4>5. Blanked(Latch(s, b[i]), a, k + 1)
                BY <2>3, <4>3, <4>4, BlankNext
            <4> QED BY <4>2, <4>5
        <3> QED BY <3>1, <3>2
    <2>5. Latch(s, b[i]) \in Drawable
        BY <2>4 DEF Blanked
    <2>6. Latch(s, b[i]) \in Stage(i)
        BY <2>4, <2>5
    <2> QED BY <2>2, <2>6
<1>7. G[n + 1] = Stage(n + 1)
    OBVIOUS
<1> HIDE DEF G
<1>8. n + 1 \in Nat
    OBVIOUS
<1>9. After(l, b) \in G[n + 1]
    BY <1>2, <1>5, <1>6, <1>8, AfterEach
<1>10. Blanked(After(l, b), a, n)
    BY <1>7, <1>9
<1>11. Cells(b) = Line(a, n)
    <2>1. b[1].data - 128 = a /\ Len(b) - 1 = n
        BY <1>1, <1>2 DEF DDRAM
    <2> QED BY <2>1 DEF Cells
<1> QED BY <1>10, <1>11 DEF Blanked

\* Twenty blanks.
Blanks == [i \in 1 .. Width |-> Blank]

\* A line of the two that are cleared.
LEMMA ClearLineWrites ==
    ASSUME NEW y \in {2, 3}
    PROVE  /\ clearLine(y) \in Texts
           /\ Cells(clearLine(y)) = IF y = 2 THEN From(20, 20) ELSE From(84, 20)
           /\ \A l \in Drawable : \A a \in Cells(clearLine(y)) : After(l, clearLine(y)).ddram[a] = Blank
<1>1. PICK x \in 0 .. 19, n \in Nat : x = 0 /\ n = 20 /\ n <= 20 - x
    OBVIOUS
<1>2. Blanks \in OfLength(n) /\ \A i \in 1 .. 20 : Blanks[i] = Blank
    <2>1. Blanks \in [1 .. n -> 0 .. 255]
        BY <1>1 DEF Blanks, Width, Blank
    <2>2. Blanks \in Seq(0 .. 255) /\ Len(Blanks) = n
        BY <2>1, Sequence
    <2> QED BY <2>2 DEF OfLength, Text, Blanks, Width
<1>3. PICK text : text = Blanks
    OBVIOUS
<1>4. PICK b : b = clearLine(y)
    OBVIOUS
<1>5. b = printAt(x, y, text)
    BY <1>1, <1>3, <1>4 DEF clearLine, Blanks
<1>6. b \in Texts /\ Cells(b) = From(Address(x, y), n)
    BY <1>1, <1>2, <1>3, <1>5, PrintAtPlace
<1>7. Address(x, y) = IF y = 2 THEN 20 ELSE 84
    BY <1>1 DEF Address
<1>8. ASSUME NEW i \in 2 .. Len(b) PROVE b[i].data = Blank
    <2>1. text \in Text /\ Len(text) = n
        BY <1>2, <1>3 DEF OfLength
    <2>2. OnScreen(x, y) /\ x \in Int /\ y \in Int /\ Len(text) <= Width - x
        BY <1>1, <2>1 DEF OnScreen, Width, Height
    <2>3. \A j \in 2 .. 1 + Len(text) : b[j].data = text[j - 1]
        BY <1>5, <2>1, <2>2, PrintCells
    <2>4. Len(b) = 1 + Len(text)
        <3>1. PICK c \in 128 .. 255 : c = SET_DDRAM_ADDR + Address(x, y)
            BY <1>7 DEF SET_DDRAM_ADDR
        <3>2. b = writeCommand(c) \o Data(text)
            BY <1>5, <2>2, <3>1 DEF printAt, setCursorPos
        <3>3. BytesOf(b, c, text)
            BY <2>1, <3>2, CallBytes, Zenon
        <3> QED BY <3>3 DEF BytesOf
    <2>5. PICK j \in 1 .. 20 : j = i - 1
        BY <1>1, <2>1, <2>4
    <2>6. b[i].data = text[j]
        BY <2>3, <2>4, <2>5
    <2> QED BY <1>2, <1>3, <2>5, <2>6
<1>9. ASSUME NEW l \in Drawable PROVE \A a \in Cells(b) : After(l, b).ddram[a] = Blank
    BY <1>6, <1>8, BlankText
<1> QED BY <1>1, <1>4, <1>6, <1>7, <1>9

\* Two calls come to what the second leaves of the first.
LEMMA FinishTwo == ASSUME NEW l, NEW b, NEW c PROVE Finish(l, <<b, c>>) = After(After(l, b), c)
<1>0. PICK D : D = <<b, c>>
    OBVIOUS
<1>1. PICK n \in Nat : n = 2
    OBVIOUS
<1>2. Len(D) = n /\ D[1] = b /\ D[2] = c
    BY <1>0, <1>1
<1>3. PICK f : Screens(l, D, n, f) /\ Finish(l, D) = f[n]
    BY <1>2, FinishIsLast
<1>4. f[0] = l /\ \A i \in 1 .. n : f[i] = After(f[i - 1], D[i])
    BY <1>3, ScreensStep
<1>5. PICK i \in 1 .. n, j \in 1 .. n : i = 1 /\ j = 2 /\ i - 1 = 0 /\ j - 1 = i /\ j = n
    BY <1>1
<1>6. f[i] = After(l, b) /\ f[j] = After(f[i], c)
    BY <1>2, <1>4, <1>5
<1> QED BY <1>0, <1>1, <1>3, <1>5, <1>6

\* Both lines.
ClearBoth == <<clearLine(2), clearLine(3)>>

\* They are blank when both calls are made.
LEMMA ClearWrites ==
    /\ ClearBoth \in Seq(Texts) /\ CellsOf(ClearBoth) = ClearCells
    /\ \A l \in Drawable : \A a \in ClearCells : Finish(l, ClearBoth).ddram[a] = Blank
<1>1. PICK y \in {2, 3}, z \in {2, 3} : y = 2 /\ z = 3
    OBVIOUS
<1>2. PICK b, c : b = clearLine(y) /\ c = clearLine(z)
    OBVIOUS
<1>3. /\ b \in Texts /\ Cells(b) = From(20, 20)
      /\ \A l \in Drawable : \A a \in Cells(b) : After(l, b).ddram[a] = Blank
    BY <1>1, <1>2, ClearLineWrites
<1>4. /\ c \in Texts /\ Cells(c) = From(84, 20)
      /\ \A l \in Drawable : \A a \in Cells(c) : After(l, c).ddram[a] = Blank
    BY <1>1, <1>2, ClearLineWrites
<1>5. ClearBoth = <<b, c>>
    BY <1>1, <1>2 DEF ClearBoth
<1>6. ClearBoth \in Seq(Texts) /\ CellsOf(ClearBoth) = ClearCells
    BY <1>3, <1>4, <1>5, CellsTwo DEF ClearCells
<1>7. ASSUME NEW l \in Drawable, NEW a \in ClearCells PROVE Finish(l, ClearBoth).ddram[a] = Blank
    <2>1. PICK m : m = After(l, b)
        OBVIOUS
    <2>2. PICK k : k = After(m, c)
        OBVIOUS
    <2>3. Finish(l, ClearBoth) = k
        BY <1>5, <2>1, <2>2, FinishTwo
    <2>4. Overwritten(l, l, m, m, Cells(b))
        BY <1>3, <2>1, TextOverwrites
    <2>5. m \in Drawable
        BY <2>4 DEF Overwritten
    <2>6. Overwritten(m, m, k, k, Cells(c))
        BY <1>4, <2>2, <2>5, TextOverwrites
    <2>7. CASE a \in Cells(c)
        BY <1>4, <2>2, <2>3, <2>5, <2>7
    <2>8. CASE a \notin Cells(c)
        <3>1. a \in Cells(b)
            BY <1>3, <1>4, <2>8 DEF ClearCells
        <3>2. a \in DDRAM
            BY <1>3, <3>1 DEF From, DDRAM
        <3>3. k.ddram[a] = m.ddram[a]
            BY <2>6, <2>8, <3>2 DEF Overwritten
        <3>4. m.ddram[a] = Blank
            BY <1>3, <2>1, <3>1
        <3> QED BY <2>3, <3>3, <3>4
    <2> QED BY <2>7, <2>8
<1> QED BY <1>6, <1>7

(***************************************************************************)
(* What an update leaves.                                                  *)
(***************************************************************************)
\* The two lines are cleared, or nothing is.
LEMMA ClearingCells ==
    ASSUME NEW s, NEW new \in BOOLEAN
    PROVE  /\ Clearing(s, new) \in Seq(Texts)
           /\ s.idx # 0 /\ new => Clearing(s, new) = ClearBoth
           /\ ~(s.idx # 0 /\ new) => Clearing(s, new) = <<>>
BY ClearWrites DEF Clearing, ClearBoth

\* An update makes its calls in three parts.
LEMMA DrawParts ==
    ASSUME ScreenAssumption, ShortTexts, NEW s, Found(s), NEW new \in BOOLEAN, NEW l
    PROVE  /\ Draw(s, new) \in Seq(Texts)
           /\ Finish(l, Draw(s, new)) = Finish(Finish(Finish(l, HeadOf(s)), Clearing(s, new)), TailOf(s))
<1>1. PICK H \in Seq(Texts) : H = HeadOf(s)
    BY HeadWrites
<1>2. PICK K \in Seq(Texts) : K = Clearing(s, new)
    BY ClearingCells
<1>3. PICK T \in Seq(Texts) : T = TailOf(s)
    BY TailWrites
<1>4. PICK m : m = Finish(l, H)
    OBVIOUS
<1>5. CASE s.idx = 0
    <2>1. Draw(s, new) = H \o T
        BY <1>1, <1>3, <1>5 DEF Draw, HeadOf, TailOf
    <2>2. H \o T \in Seq(Texts)
        BY CellsConcat
    <2>3. Finish(l, H \o T) = Finish(m, T)
        BY <1>4, FinishConcat
    <2>4. K = <<>>
        BY <1>2, <1>5, ClearingCells
    <2>5. Finish(m, K) = m
        BY <2>4, FinishNone
    <2> QED BY <1>1, <1>2, <1>3, <1>4, <2>1, <2>2, <2>3, <2>5
<1>6. CASE s.idx # 0
    <2>1. PICK N \in Seq(Texts) : N = NamesOf(Sessions[s.idx])
        BY <1>6, NamesWrite DEF Found
    <2>2. PICK S \in Seq(Texts) : S = StateOf(Sessions[s.idx], s)
        BY <1>6, StateWrites
    <2>3. DrawSession(s, new) = (K \o N) \o S
        BY <1>2, <1>6, <2>1, <2>2, Zenon DEF DrawSession, Clearing, NamesOf, StateOf
    <2>4. Draw(s, new) = H \o ((K \o N) \o S)
        BY <1>1, <1>6, <2>3, Zenon DEF Draw, HeadOf
    <2>5. PICK P \in Seq(Texts) : P = K \o N
        BY CellsConcat
    <2>6. PICK Q \in Seq(Texts) : Q = P \o S
        BY CellsConcat
    <2>7. H \o Q \in Seq(Texts)
        BY CellsConcat
    <2>8. Finish(l, H \o Q) = Finish(m, Q)
        BY <1>4, FinishConcat
    <2>9. Finish(m, Q) = Finish(Finish(m, P), S)
        BY <2>6, FinishConcat
    <2>10. Finish(m, P) = Finish(Finish(m, K), N)
        BY <2>5, FinishConcat
    <2>11. T = N \o S
        BY <1>3, <1>6, <2>1, <2>2, Zenon DEF TailOf
    <2>12. PICK k : k = Finish(m, K)
        OBVIOUS
    <2>13. Finish(k, T) = Finish(Finish(k, N), S)
        BY <2>11, FinishConcat
    <2>14. Draw(s, new) = H \o Q
        BY <2>4, <2>5, <2>6
    <2> QED BY <1>1, <1>2, <1>3, <1>4, <2>7, <2>8, <2>9, <2>10, <2>12, <2>13, <2>14
<1> QED BY <1>5, <1>6

\* An empty screen, and what an update draws on it.
Empty == [PowerOn EXCEPT !.lines = 2]
Fresh(s) == Finish(Empty, Draw(s, TRUE)).ddram

\* It can be drawn on.
LEMMA EmptyScreen == Empty \in Drawable /\ \A a \in DDRAM : Empty.ddram[a] = Blank
<1>1. PICK d \in [DDRAM -> 0 .. 255], f \in [1 .. 64 -> 0 .. 31] :
          d = [a \in DDRAM |-> Blank] /\ f = [i \in 1 .. 64 |-> 0]
    <2>1. [a \in DDRAM |-> Blank] \in [DDRAM -> 0 .. 255] /\ [i \in 1 .. 64 |-> 0] \in [1 .. 64 -> 0 .. 31]
        BY DEF Blank
    <2> QED BY <2>1
<1>2. Empty = [bits |-> 8, half |-> NoHalf, lines |-> 2, on |-> FALSE, forward |-> TRUE,
               follow |-> FALSE, shift |-> 0, cg |-> FALSE, addr |-> 0, ddram |-> d, font |-> f]
    <2>1. PowerOn = [bits |-> 8, half |-> NoHalf, lines |-> 1, on |-> FALSE, forward |-> TRUE,
                     follow |-> FALSE, shift |-> 0, cg |-> FALSE, addr |-> 0, ddram |-> d, font |-> f]
        BY <1>1, Zenon DEF PowerOn
    <2>2. PICK p : p = PowerOn
        OBVIOUS
    <2>3. Empty = [p EXCEPT !.lines = 2]
        BY <2>2 DEF Empty
    <2> QED BY <2>1, <2>2, <2>3
<1>3. Empty \in LcdType
    BY <1>2 DEF LcdType
<1>4. TextReady(Empty) /\ Empty.ddram = d
    BY <1>2 DEF TextReady, EightBits
<1> QED BY <1>1, <1>3, <1>4 DEF Drawable

\* An update draws in these cells only.
LEMMA FreshBlank ==
    ASSUME ScreenAssumption, ShortTexts, NEW s, Found(s), NEW a \in DDRAM \ NotOver,
           a \notin HeadCells, a \notin TailCells(s)
    PROVE  Fresh(s)[a] = Blank
<1>1. PICK H \in Seq(Texts), K \in Seq(Texts), T \in Seq(Texts) :
          H = HeadOf(s) /\ K = Clearing(s, TRUE) /\ T = TailOf(s)
    BY HeadWrites, ClearingCells, TailWrites
<1>2. PICK x, y, z : x = Finish(Empty, H) /\ y = Finish(x, K) /\ z = Finish(y, T)
    OBVIOUS
<1>3. Fresh(s) = z.ddram
    BY <1>1, <1>2, DrawParts DEF Fresh
<1>4. Overwritten(Empty, Empty, x, x, CellsOf(H))
    BY <1>2, EmptyScreen, TextsOverwrite
<1>5. x \in Drawable
    BY <1>4 DEF Overwritten
<1>6. Overwritten(x, x, y, y, CellsOf(K))
    BY <1>2, <1>5, TextsOverwrite
<1>7. y \in Drawable
    BY <1>6 DEF Overwritten
<1>8. Overwritten(y, y, z, z, CellsOf(T))
    BY <1>2, <1>7, TextsOverwrite
<1>9. a \notin CellsOf(H)
    BY <1>1, HeadWrites
<1>10. a \notin CellsOf(T)
    BY <1>1, TailWrites
<1>11. x.ddram[a] = Blank
    BY <1>4, <1>9, EmptyScreen DEF Overwritten
<1>12. y.ddram[a] = Blank
    <2>1. CASE s.idx = 0
        <3>1. K = <<>>
            BY <1>1, <2>1, ClearingCells
        <3> QED BY <1>2, <1>11, <3>1, FinishNone
    <2>2. CASE s.idx # 0
        <3>1. K = ClearBoth
            BY <1>1, <2>2, ClearingCells
        <3>2. CASE a \in ClearCells
            BY <1>2, <1>5, <3>1, <3>2, ClearWrites
        <3>3. CASE a \notin ClearCells
            BY <1>6, <1>11, <3>1, <3>3, ClearWrites DEF Overwritten
        <3> QED BY <3>2, <3>3
    <2> QED BY <2>1, <2>2
<1> QED BY <1>3, <1>8, <1>10, <1>12 DEF Overwritten

\* An update draws on a screen what it draws on an empty one, in the cells that it writes or
\* clears, and where the screen is empty.
LEMMA DrawAgree ==
    ASSUME ScreenAssumption, ShortTexts, NEW s, Found(s), NEW new \in BOOLEAN, NEW l \in Drawable,
           NEW a \in DDRAM \ NotOver,
           \/ a \in HeadCells \/ a \in TailCells(s)
           \/ new /\ s.idx # 0 /\ a \in ClearCells
           \/ l.ddram[a] = Blank
    PROVE  Finish(l, Draw(s, new)).ddram[a] = Fresh(s)[a]
<1>1. PICK H \in Seq(Texts), K \in Seq(Texts), J \in Seq(Texts), T \in Seq(Texts) :
          H = HeadOf(s) /\ K = Clearing(s, new) /\ J = Clearing(s, TRUE) /\ T = TailOf(s)
    BY HeadWrites, ClearingCells, TailWrites
<1>2. PICK x, y, z : x = Finish(Empty, H) /\ y = Finish(x, J) /\ z = Finish(y, T)
    OBVIOUS
<1>3. PICK p, q, r : p = Finish(l, H) /\ q = Finish(p, K) /\ r = Finish(q, T)
    OBVIOUS
<1>4. Fresh(s) = z.ddram /\ Finish(l, Draw(s, new)) = r
    BY <1>1, <1>2, <1>3, DrawParts DEF Fresh
<1>5. Overwritten(l, Empty, p, x, CellsOf(H))
    BY <1>2, <1>3, EmptyScreen, TextsOverwrite
<1>6. x \in Drawable /\ p \in Drawable
    BY <1>5 DEF Overwritten
<1>7. Overwritten(x, x, y, y, CellsOf(J)) /\ Overwritten(p, p, q, q, CellsOf(K))
    BY <1>2, <1>3, <1>6, TextsOverwrite
<1>8. y \in Drawable /\ q \in Drawable
    BY <1>7 DEF Overwritten
<1>9. Overwritten(q, y, r, z, CellsOf(T))
    BY <1>2, <1>3, <1>8, TextsOverwrite
<1>10. CASE a \in CellsOf(T)
    BY <1>4, <1>9, <1>10 DEF Overwritten
<1>11. CASE a \notin CellsOf(T)
    <2>1. a \in CellsOf(H) <=> a \in HeadCells
        BY <1>1, HeadWrites
    <2>2. a \notin TailCells(s)
        BY <1>1, <1>11, TailWrites
    <2>3. IF a \in HeadCells THEN p.ddram[a] = x.ddram[a] ELSE p.ddram[a] = l.ddram[a] /\ x.ddram[a] = Blank
        BY <1>5, <2>1, EmptyScreen DEF Overwritten
    <2>4. a \in HeadCells => a \notin ClearCells
        BY DEF HeadCells, ClearCells, From
    <2>5. q.ddram[a] = y.ddram[a]
        <3>1. CASE s.idx = 0
            <4>1. K = <<>> /\ J = <<>>
                BY <1>1, <3>1, ClearingCells
            <4>2. q = p /\ y = x
                BY <1>2, <1>3, <4>1, FinishNone
            <4> QED BY <2>2, <2>3, <3>1, <4>2
        <3>2. CASE s.idx # 0 /\ ~new
            <4>1. K = <<>> /\ J = ClearBoth
                BY <1>1, <3>2, ClearingCells
            <4>2. q = p
                BY <1>3, <4>1, FinishNone
            <4>3. IF a \in ClearCells THEN y.ddram[a] = Blank ELSE y.ddram[a] = x.ddram[a]
                BY <1>2, <1>6, <1>7, <4>1, ClearWrites DEF Overwritten
            <4> QED BY <2>2, <2>3, <2>4, <3>2, <4>2, <4>3
        <3>3. CASE s.idx # 0 /\ new
            <4>1. K = ClearBoth /\ J = ClearBoth
                BY <1>1, <3>3, ClearingCells
            <4>2. IF a \in ClearCells THEN y.ddram[a] = Blank ELSE y.ddram[a] = x.ddram[a]
                BY <1>2, <1>6, <1>7, <4>1, ClearWrites DEF Overwritten
            <4>3. IF a \in ClearCells THEN q.ddram[a] = Blank ELSE q.ddram[a] = p.ddram[a]
                BY <1>3, <1>6, <1>7, <4>1, ClearWrites DEF Overwritten
            <4> QED BY <2>2, <2>3, <4>2, <4>3
        <3> QED BY <3>1, <3>2, <3>3
    <2> QED BY <1>4, <1>9, <1>11, <2>5 DEF Overwritten
<1> QED BY <1>10, <1>11

(***************************************************************************)
(* The screen.                                                             *)
(***************************************************************************)
\* While init() is pending the controller may be in any state; otherwise it is ready, and
\* is sent texts only.
Controller == /\ lcd \in LcdType
              /\ calls = <<init>> \/ (calls \in Seq(TextCalls) /\ Ready(lcd))
\* Where the manager and the display are.
Places == /\ proc \in {"init", "running", "stopping"} /\ currentIdx \in 0 .. Len(Sessions)
          /\ listed \cup begun \subseteq DOMAIN Sessions
\* The invariant of the screen.
ScreenInv == Controller /\ Places

\* The program starts with the invariant.
LEMMA ScreenInit == ASSUME ScreenAssumption, Init PROVE ScreenInv
<1>1. PowerOn \in LcdType
    <2>1. [a \in DDRAM |-> Blank] \in [DDRAM -> 0 .. 255] /\ [i \in 1 .. 64 |-> 0] \in [1 .. 64 -> 0 .. 31]
        BY DEF Blank
    <2> QED BY <2>1 DEF PowerOn, LcdType
<1> QED BY <1>1, SessionPlaces DEF Init, ScreenInv, Controller, Places

\* A call is made.
LEMMA CallStep == ASSUME ScreenInv, MakeCall PROVE ScreenInv'
<1>1. Places'
    BY DEF MakeCall, ScreenInv, Places
<1>2. CASE calls = <<init>>
    <2>1. Head(calls) = init /\ Tail(calls) = <<>>
        BY <1>2
    <2>2. After(lcd, init) \in LcdType /\ Ready(After(lcd, init))
        <3>1. Len(init) = 67 /\ 67 \in 0 .. 67
            BY InitBytes
        <3> QED BY <3>1, InitReaches DEF ScreenInv, Controller
    <2>3. lcd' \in LcdType /\ Ready(lcd)' /\ calls' = <<>>
        BY <2>1, <2>2 DEF MakeCall, Ready
    <2> QED BY <1>1, <2>3 DEF ScreenInv, Controller
<1>3. CASE calls \in Seq(TextCalls) /\ Ready(lcd)
    <2>1. PICK b \in TextCalls : b = Head(calls)
        BY <1>3, HeadTailProperties DEF MakeCall
    <2>2. b \in Seq(Byte) /\ Len(b) \in 0 .. Len(b)
        BY DEF TextCalls
    <2>3. After(lcd, b) \in LcdType /\ Ready(After(lcd, b))
        BY <1>3, <2>2, TextKeepsReady DEF ScreenInv, Controller
    <2>4. lcd' \in LcdType /\ Ready(lcd')
        BY <2>1, <2>3 DEF MakeCall
    <2>5. calls' \in Seq(TextCalls)
        BY <1>3, HeadTailProperties DEF MakeCall
    <2> QED BY <1>1, <2>4, <2>5 DEF ScreenInv, Controller
<1> QED BY <1>2, <1>3 DEF ScreenInv, Controller

\* While no call is pending the controller is ready.
LEMMA IdleReady == ASSUME ScreenInv, calls = <<>> PROVE lcd \in LcdType /\ Ready(lcd)
<1>1. calls # <<init>>
    OBVIOUS
<1> QED BY <1>1 DEF ScreenInv, Controller

\* An update sees a session that was listed; of one that is not active it knows whether
\* its remaining time has been drawn.
LEMMA UpdateSees ==
    ASSUME ScreenAssumption, ScreenInv, Update
    PROVE  /\ Found(seen') /\ seen'.idx \in 0 .. Len(Sessions) /\ (seen'.idx = 0 <=> listed' = {})
           /\ seen'.idx # 0 /\ ~seen'.active => (seen'.over <=> seen'.idx = seen.idx /\ TimeDrawn)
<1>1. DOMAIN Sessions = 1 .. Len(Sessions) /\ Len(Sessions) \in Nat
    BY SessionPlaces
<1>2. listed' \subseteq DOMAIN Sessions /\ begun \subseteq DOMAIN Sessions
    BY DEF Update, ScreenInv, Places
<1>3. PICK ambient \in Ambients :
      \/ /\ listed' = {}
         /\ seen' = [idx |-> 0, ambient |-> ambient]
      \/ \E idx \in listed' \ begun :
            seen' = [idx |-> idx, active |-> FALSE, ambient |-> ambient,
                     over |-> idx = seen.idx /\ TimeDrawn]
      \/ \E idx \in listed' \cap begun, vessel \in Vessels,
            remaining \in Remaining, control \in Controls :
            seen' = [idx |-> idx, active |-> TRUE, ambient |-> ambient,
                     vessel |-> vessel, remaining |-> remaining, control |-> control]
    BY DEF Update
<1>4. CASE listed' = {} /\ seen' = [idx |-> 0, ambient |-> ambient]
    BY <1>1, <1>4 DEF Found
<1>5. CASE \E idx \in listed' \ begun :
              seen' = [idx |-> idx, active |-> FALSE, ambient |-> ambient, over |-> idx = seen.idx /\ TimeDrawn]
    <2>1. PICK idx \in listed' \ begun, over \in BOOLEAN :
              /\ over <=> idx = seen.idx /\ TimeDrawn
              /\ seen' = [idx |-> idx, active |-> FALSE, ambient |-> ambient, over |-> over]
        BY <1>5
    <2>2. seen'.idx = idx /\ seen'.active = FALSE /\ seen'.ambient = ambient /\ seen'.over = over
        BY <2>1
    <2>3. Found(seen') /\ seen'.idx \in 1 .. Len(Sessions) /\ listed' # {}
        BY <1>1, <1>2, <2>2 DEF Found
    <2> QED BY <1>1, <2>1, <2>2, <2>3
<1>6. CASE \E idx \in listed' \cap begun, vessel \in Vessels, remaining \in Remaining, control \in Controls :
              seen' = [idx |-> idx, active |-> TRUE, ambient |-> ambient,
                       vessel |-> vessel, remaining |-> remaining, control |-> control]
    BY <1>1, <1>2, <1>6 DEF Found
<1> QED BY <1>3, <1>4, <1>5, <1>6

\* An update is drawn.
LEMMA UpdateStep == ASSUME ScreenAssumption, ScreenInv, Update PROVE ScreenInv'
<1>1. Ready(lcd) /\ lcd \in LcdType
    BY IdleReady DEF Update
<1>2. listed' \subseteq DOMAIN Sessions /\ begun \subseteq DOMAIN Sessions
    BY DEF Update, ScreenInv, Places
<1>3. Found(seen') /\ seen'.idx \in 0 .. Len(Sessions)
    BY UpdateSees
<1>4. calls' \in Seq(TextCalls)
    BY <1>3, DrawCalls DEF Update
<1>5. Controller'
    BY <1>1, <1>4 DEF Update, Controller
<1>6. Places'
    BY <1>2, <1>3 DEF Update, Places
<1> QED BY <1>5, <1>6 DEF ScreenInv

\* The display says that the program ends.
LEMMA StopStep == ASSUME ScreenInv, Stop PROVE ScreenInv'
<1>1. Ready(lcd) /\ lcd \in LcdType
    <2>1. calls # <<init>>
        BY DEF Stop
    <2> QED BY <2>1 DEF ScreenInv, Controller
<1>2. calls' \in Seq(TextCalls)
    <2>1. printAt(3, 1, shuttingDown) \in TextCalls
        BY FixedTexts, PrintCall
    <2> QED BY <2>1, ClearCall DEF Stop
<1> QED BY <1>1, <1>2 DEF Stop, ScreenInv, Controller, Places

\* The program is killed, and started again.
LEMMA RestartStep == ASSUME ScreenAssumption, ScreenInv, Restart PROVE ScreenInv'
<1>1. ASSUME NEW l \in LcdType, Boot(l), UNCHANGED begun PROVE ScreenInv'
    BY <1>1, SessionPlaces DEF Boot, ScreenInv, Controller, Places
<1>2. CASE calls = <<>> /\ Boot(lcd) /\ UNCHANGED begun
    BY <1>1, <1>2 DEF ScreenInv, Controller
<1>3. CASE calls # <<>>
    <2>1. PICK sent \in KillAt, high \in 0 .. 1 :
            /\ sent + high <= Len(Head(calls))
            /\ Boot(Construct(After(lcd, SubSeq(Head(calls), 1, sent)),
                              SubSeq(Head(calls), sent + 1, sent + high)))
        BY <1>3 DEF Restart
    <2>2. PICK b : b = Head(calls)
        OBVIOUS
    <2>3. b \in Seq(Byte) /\ sent \in Nat /\ sent <= Len(b)
        <3>1. CASE calls = <<init>>
            BY <2>1, <2>2, <3>1, InitLength, Readings
        <3>2. CASE calls \in Seq(TextCalls)
            <4>1. b \in TextCalls
                BY <1>3, <2>2, <3>2, HeadTailProperties
            <4> QED BY <2>1, <2>2, <4>1, Readings DEF TextCalls
        <3> QED BY <3>1, <3>2 DEF ScreenInv, Controller
    <2>4. PICK bytes : bytes = SubSeq(b, 1, sent)
        OBVIOUS
    <2>5. Len(bytes) = sent /\ \A i \in 1 .. sent : bytes[i] = b[i]
        BY <2>3, <2>4
    <2>6. After(lcd, bytes) \in LcdType
        <3>1. CASE calls = <<init>>
            <4>1. b = init /\ sent \in 0 .. 67
                <5>1. b = init
                    BY <2>2, <3>1
                <5> QED BY <2>3, <5>1, InitLength
            <4> QED BY <2>5, <4>1, InitReaches DEF ScreenInv, Controller
        <3>2. CASE calls \in Seq(TextCalls) /\ Ready(lcd)
            <4>1. b \in TextCalls /\ sent \in 0 .. Len(b)
                BY <1>3, <2>2, <2>3, <3>2, HeadTailProperties
            <4> QED BY <2>5, <3>2, <4>1, TextKeepsReady DEF ScreenInv, Controller
        <3> QED BY <3>1, <3>2 DEF ScreenInv, Controller
    <2>7. SubSeq(b, sent + 1, sent + high) \in [1 .. high -> Byte]
        <3>1. \A i \in sent + 1 .. sent + high : b[i] \in Byte
            BY <2>1, <2>2, <2>3, ElementOfSeq
        <3>2. PICK m \in Int, k \in Int : m = sent + 1 /\ k = sent + high
            BY <2>3
        <3>3. SubSeq(b, m, k) \in Seq(Byte) /\ Len(SubSeq(b, m, k)) = IF m <= k THEN k - m + 1 ELSE 0
            BY <3>1, <3>2, SubSeqProperties
        <3>4. Len(SubSeq(b, m, k)) = high
            BY <2>3, <3>2, <3>3
        <3> QED BY <3>2, <3>3, <3>4, LenProperties
    <2>8. Construct(After(lcd, bytes), SubSeq(b, sent + 1, sent + high)) \in LcdType
        <3>1. high \in Nat
            OBVIOUS
        <3> QED BY <2>6, <2>7, <3>1, ConstructType
    <2>9. UNCHANGED begun
        BY <1>3 DEF Restart
    <2> QED BY <1>1, <2>1, <2>2, <2>4, <2>8, <2>9
<1> QED BY <1>2, <1>3 DEF Restart

\* Every step of the screen keeps the invariant.
LEMMA ScreenStep == ASSUME ScreenAssumption, ScreenInv, [Next]_vars PROVE ScreenInv'
<1>1. CASE SessionStarts \/ ClockSetBack
    BY <1>1 DEF SessionStarts, ClockSetBack, ScreenInv, Controller, Places
<1>2. CASE UNCHANGED vars
    BY <1>2 DEF vars, ScreenInv, Controller, Places
<1> QED BY <1>1, <1>2, CallStep, UpdateStep, StopStep, RestartStep DEF Next

\* The controller, the program and the sessions that it draws always have their types,
\* wherever the program is killed (lcd.cc, display.cc).
THEOREM ScreenTypeCorrect == ASSUME ScreenAssumption PROVE Spec => []TypeOK
<1>1. Init => ScreenInv
    BY ScreenInit
<1>2. ScreenInv /\ [Next]_vars => ScreenInv'
    BY ScreenStep
<1>3. ScreenInv => TypeOK
    BY DEF ScreenInv, Controller, Places, LcdType, TypeOK
<1> QED BY <1>1, <1>2, <1>3, PTL DEF Spec

\* After a call the controller takes whole bytes, has two lines, is on, moves to the
\* right and has the symbols, wherever the programs before were killed (LCD::init()).
THEOREM Recovers == ASSUME ScreenAssumption PROVE Spec => []InitRecovers
<1>1. Init => ScreenInv
    BY ScreenInit
<1>2. ScreenInv /\ [Next]_vars => ScreenInv'
    BY ScreenStep
<1>3. ScreenInv => InitRecovers
    <2> SUFFICES ASSUME ScreenInv, calls = <<>> PROVE InitRecovers
        BY DEF InitRecovers
    <2>1. lcd \in LcdType /\ Ready(lcd)
        <3>1. calls # <<init>>
            OBVIOUS
        <3> QED BY <3>1 DEF ScreenInv, Controller
    <2>2. SubSeq(lcd.font, 1, Len(charData)) = charData
        <3>1. lcd.font \in [1 .. 64 -> 0 .. 31] /\ \A j \in 1 .. 56 : lcd.font[j] = charData[j]
            BY <2>1 DEF LcdType, Ready
        <3>2. charData \in Seq(0 .. 31) /\ Len(charData) = 56
            <4>1. charData = [j \in 1 .. 56 |-> charData[j]]
                BY CharData DEF charData
            <4>2. charData \in [1 .. 56 -> 0 .. 31]
                BY <4>1, CharData
            <4>3. PICK T : T = 0 .. 31
                OBVIOUS
            <4>4. charData \in [1 .. 56 -> T]
                BY <4>2, <4>3
            <4>5. charData \in Seq(T) /\ Len(charData) = 56
                BY <4>4, Sequence
            <4> QED BY <4>3, <4>5
        <3>3. PICK f : f = SubSeq(lcd.font, 1, 56)
            OBVIOUS
        <3>4. f \in Seq(0 .. 31) /\ Len(f) = 56 /\ \A j \in 1 .. 56 : f[j] = lcd.font[j]
            <4>1. ASSUME NEW j \in 1 .. 56 PROVE lcd.font[j] \in 0 .. 31
                <5>1. j \in 1 .. 64
                    OBVIOUS
                <5> QED BY <3>1, <5>1
            <4> QED BY <3>3, <4>1, SubSeqProperties
        <3>5. f = charData
            <4>1. \A j \in 1 .. Len(f) : f[j] = charData[j]
                BY <3>1, <3>4
            <4>2. f \in Seq(0 .. 31) /\ charData \in Seq(0 .. 31) /\ Len(f) = Len(charData)
                BY <3>2, <3>4
            <4> QED BY <4>1, <4>2, SeqEqual
        <3> QED BY <3>2, <3>3, <3>5
    <2> QED BY <2>1, <2>2 DEF InitRecovers, Ready, EightBits, Unshifted
<1> QED BY <1>1, <1>2, <1>3, PTL DEF Spec


(***************************************************************************)
(* What is on the screen between two updates.                              *)
(***************************************************************************)
\* The addresses of LeftOver(s): the remaining time's are 34 to 39.
TimeLeft(s) == s.idx # 0 /\ ~s.active /\ s.over
LeftAt(s)   == NotOver \cup (IF TimeLeft(s) THEN From(34, 6) ELSE {})

\* When the calls are made the screen is what an empty one would be.
Shows(l, D, s) == \A a \in DDRAM \ LeftAt(s) : Finish(l, D).ddram[a] = Fresh(s)[a]

\* A program that has started has an empty screen; from its first update to the end the
\* calls that are to be made complete what was seen last.
DrawnFirst == proc = "init" => currentIdx = 0 /\ (calls = <<init>> \/ (calls = <<>> /\ AllBlank(lcd)))
DrawnLater == proc = "running" =>
    /\ lcd \in Drawable /\ calls \in Seq(Texts) /\ Shows(lcd, calls, seen)
    /\ currentIdx = seen.idx /\ Found(seen) /\ (seen.idx = 0 <=> listed = {})
Drawn == DrawnFirst /\ DrawnLater

\* A controller that is ready can be drawn on.
LEMMA ReadyDrawable == ASSUME NEW l \in LcdType, Ready(l) PROVE l \in Drawable
BY DEF Ready, Drawable, TextReady, Unshifted

\* The cells of a session are in the lines that are cleared for another one.
LEMMA TailInClear ==
    ASSUME NEW s, s.idx # 0, NEW a \in TailCells(s) PROVE a \in ClearCells
<1>1. PICK name : name = Sessions[s.idx].name
    OBVIOUS
<1>2. a \in From(20, 4) \/ a \in From(84, Fitting(name)) \/ a \in From(25, 15) \/ a \in From(25, 9)
    BY <1>1 DEF TailCells
<1>3. ASSUME a \in From(84, Fitting(name)) PROVE a \in From(84, 20)
    <2>1. CASE Len(name) <= 20
        BY <1>3, <2>1 DEF Fitting, From
    <2>2. CASE ~(Len(name) <= 20)
        BY <1>3, <2>2 DEF Fitting
    <2> QED BY <2>1, <2>2
<1> QED BY <1>2, <1>3 DEF ClearCells, From

\* The same session is drawn in no fewer cells later, but for its remaining time.
LEMMA TailGrows ==
    ASSUME NEW s, NEW t, s.idx = t.idx, NEW a \in TailCells(s),
           a \in From(34, 6) => (~t.active => ~s.active)
    PROVE  a \in TailCells(t)
<1>1. ASSUME a \in From(25, 9) PROVE a \in From(25, 15)
    BY <1>1 DEF From
<1>2. ASSUME a \in From(25, 15) PROVE a \in From(25, 9) \/ a \in From(34, 6)
    BY <1>2 DEF From
<1> QED BY <1>1, <1>2 DEF TailCells

\* The remaining time is drawn for an active session, and in a line that is cleared.
LEMMA TimeCells ==
    ASSUME NEW a \in From(34, 6)
    PROVE  a \in ClearCells /\ \A s : s.idx # 0 /\ s.active => a \in TailCells(s)
<1>1. a \in From(20, 20) /\ a \in From(25, 15)
    BY DEF From
<1> QED BY <1>1 DEF ClearCells, TailCells

\* The program starts with them.
LEMMA DrawnInit == Init => Drawn
BY DEF Init, Drawn, DrawnFirst, DrawnLater

\* A call is made.
LEMMA DrawnCall == ASSUME ScreenInv, Drawn, MakeCall PROVE Drawn'
<1>1. CASE proc = "init"
    <2>1. calls = <<init>>
        BY <1>1 DEF Drawn, DrawnFirst, MakeCall
    <2>2. Head(calls) = init /\ Tail(calls) = <<>>
        BY <2>1
    <2>3. AllBlank(After(lcd, init))
        <3>1. Len(init) = 67 /\ 67 \in 0 .. 67
            BY InitBytes
        <3> QED BY <3>1, InitReaches DEF ScreenInv, Controller
    <2>4. calls' = <<>> /\ lcd' = After(lcd, init) /\ proc' = "init" /\ currentIdx' = currentIdx
        BY <1>1, <2>2 DEF MakeCall
    <2> QED BY <1>1, <2>3, <2>4 DEF Drawn, DrawnFirst, DrawnLater, AllBlank
<1>2. CASE proc = "running"
    <2>1. lcd \in Drawable /\ calls \in Seq(Texts) /\ Shows(lcd, calls, seen)
        BY <1>2 DEF Drawn, DrawnLater
    <2>2. PICK b \in Texts, D \in Seq(Texts) : b = Head(calls) /\ D = Tail(calls)
        BY <2>1, FinishFirst DEF MakeCall
    <2>3. lcd' = After(lcd, b) /\ calls' = D
        BY <2>2 DEF MakeCall
    <2>4. After(lcd, b) \in Drawable
        BY <2>1, TextOverwrites DEF Overwritten
    <2>5. Finish(lcd, calls) = Finish(After(lcd, b), D)
        BY <2>1, <2>2, FinishFirst DEF MakeCall
    <2>6. Shows(lcd', calls', seen)
        BY <2>1, <2>3, <2>5 DEF Shows
    <2> QED BY <1>2, <2>3, <2>4, <2>6 DEF MakeCall, Drawn, DrawnFirst, DrawnLater
<1>3. CASE proc \notin {"init", "running"}
    BY <1>3 DEF MakeCall, Drawn, DrawnFirst, DrawnLater
<1> QED BY <1>1, <1>2, <1>3

\* An update writes over all that the one before it, or the start, has left.
LEMMA UpdateShows ==
    ASSUME ScreenAssumption, ShortTexts, ScreenInv, Drawn, Update, NEW s, s = seen',
           NEW a \in DDRAM \ LeftAt(s)
    PROVE  Finish(lcd, Draw(s, s.idx # currentIdx)).ddram[a] = Fresh(s)[a]
<1>1. /\ Found(s) /\ (s.idx = 0 <=> listed' = {})
      /\ s.idx # 0 /\ ~s.active => (s.over <=> s.idx = seen.idx /\ TimeDrawn)
    BY UpdateSees
<1>2. lcd \in Drawable
    BY IdleReady, ReadyDrawable DEF Update
<1>3. PICK new \in BOOLEAN : new = (s.idx # currentIdx)
    OBVIOUS
<1>4. \/ a \in HeadCells \/ a \in TailCells(s)
      \/ new /\ s.idx # 0 /\ a \in ClearCells
      \/ lcd.ddram[a] = Blank
    <2>1. CASE proc = "init"
        <3>1. AllBlank(lcd)
            BY <2>1 DEF Drawn, DrawnFirst, Update
        <3> QED BY <3>1 DEF AllBlank
    <2>2. CASE proc = "running"
        <3>1. Shows(lcd, <<>>, seen) /\ Found(seen) /\ currentIdx = seen.idx /\ (seen.idx = 0 <=> listed = {})
            BY <2>2 DEF Drawn, DrawnLater, Update
        <3>2. a \notin LeftAt(seen) => lcd.ddram[a] = Fresh(seen)[a]
            BY <3>1, FinishNone DEF Shows
        <3>3. a \notin NotOver
            BY DEF LeftAt
        <3>4. SUFFICES ASSUME a \notin HeadCells, a \notin TailCells(s), ~(new /\ s.idx # 0 /\ a \in ClearCells)
                       PROVE  a \notin LeftAt(seen) /\ a \notin TailCells(seen)
            BY <3>1, <3>2, <3>3, FreshBlank
        <3>5. seen.idx = 0 <=> s.idx = 0
            BY <1>1, <2>2, <3>1 DEF Update
        <3>6. CASE s.idx = seen.idx
            <4>1. ASSUME a \in From(34, 6), s.idx # 0 PROVE ~s.active /\ ~seen.active /\ ~TimeLeft(seen)
                <5>1. ~s.active
                    BY <3>4, <4>1, TimeCells
                <5>2. ~s.over
                    BY <4>1, <5>1 DEF LeftAt, TimeLeft
                <5>3. ~TimeDrawn
                    BY <1>1, <3>6, <4>1, <5>1, <5>2
                <5> QED BY <3>6, <4>1, <5>1, <5>3 DEF TimeDrawn, TimeLeft
            <4>2. a \notin LeftAt(seen)
                BY <3>3, <3>6, <4>1 DEF LeftAt, TimeLeft
            <4>3. a \notin TailCells(seen)
                <5>1. CASE s.idx = 0
                    BY <3>4, <3>6, <5>1 DEF TailCells
                <5>2. CASE s.idx # 0
                    BY <3>4, <3>6, <4>1, <5>2, TailGrows
                <5> QED BY <5>1, <5>2
            <4> QED BY <4>2, <4>3
        <3>7. CASE s.idx # seen.idx
            <4>1. seen.idx # 0 /\ s.idx # 0
                BY <3>5, <3>7
            <4>2. a \notin ClearCells
                BY <1>3, <3>1, <3>4, <3>7, <4>1
            <4>3. a \notin From(34, 6)
                BY <4>2, TimeCells
            <4> QED BY <3>3, <4>1, <4>2, <4>3, TailInClear DEF LeftAt
        <3> QED BY <3>6, <3>7
    <2> QED BY <2>1, <2>2 DEF Update
<1>5. Finish(lcd, Draw(s, new)).ddram[a] = Fresh(s)[a]
    <2>1. a \notin NotOver
        BY DEF LeftAt
    <2> QED BY <1>1, <1>2, <1>4, <2>1, DrawAgree
<1> QED BY <1>3, <1>5

\* An update is drawn.
LEMMA DrawnUpdate == ASSUME ScreenAssumption, ShortTexts, ScreenInv, Drawn, Update PROVE Drawn'
<1>1. PICK s : s = seen'
    OBVIOUS
<1>2. Found(s) /\ (s.idx = 0 <=> listed' = {})
    BY <1>1, UpdateSees
<1>3. lcd \in Drawable
    BY IdleReady, ReadyDrawable DEF Update
<1>4. PICK new \in BOOLEAN : new = (s.idx # currentIdx)
    OBVIOUS
<1>5. calls' = Draw(s, new) /\ currentIdx' = s.idx /\ lcd' = lcd /\ begun' = begun /\ proc' = "running"
    BY <1>1, <1>4 DEF Update
<1>6. Draw(s, new) \in Seq(Texts)
    BY <1>2, DrawParts
<1>7. Shows(lcd, Draw(s, new), s)
    BY <1>1, <1>4, UpdateShows DEF Shows
<1>8. Shows(lcd', calls', seen')
    BY <1>1, <1>5, <1>7
<1> QED BY <1>1, <1>2, <1>3, <1>5, <1>6, <1>8 DEF Drawn, DrawnFirst, DrawnLater

\* Every step of the screen keeps them.
LEMMA DrawnStep == ASSUME ScreenAssumption, ShortTexts, ScreenInv, Drawn, [Next]_vars PROVE Drawn'
<1>1. CASE Stop
    BY <1>1 DEF Stop, Drawn, DrawnFirst, DrawnLater
<1>2. CASE Restart
    BY <1>2 DEF Restart, Boot, Drawn, DrawnFirst, DrawnLater
<1>3. CASE SessionStarts \/ ClockSetBack
    BY <1>3 DEF SessionStarts, ClockSetBack, Drawn, DrawnFirst, DrawnLater
<1>4. CASE UNCHANGED vars
    BY <1>4 DEF vars, Drawn, DrawnFirst, DrawnLater, AllBlank
<1> QED BY <1>1, <1>2, <1>3, <1>4, DrawnCall, DrawnUpdate DEF Next

\* display.cc:180: of whatever sessions, readings and kills, between two updates the screen
\* is what the last one would draw on an empty screen, but for three cells, and six more
\* where the clock was set back before the start of the session that is drawn.
THEOREM DrawnAfresh == ASSUME ScreenAssumption, ShortTexts PROVE Spec => []LooksAsDrawnAfresh
<1>1. Init => ScreenInv /\ Drawn
    BY ScreenInit, DrawnInit
<1>2. ScreenInv /\ Drawn /\ [Next]_vars => ScreenInv' /\ Drawn'
    BY ScreenStep, DrawnStep
<1>3. ScreenInv /\ Drawn => LooksAsDrawnAfresh
    <2> SUFFICES ASSUME Drawn, calls = <<>>, proc = "running" PROVE LooksAsDrawnAfresh
        BY DEF LooksAsDrawnAfresh
    <2>1. \A a \in DDRAM \ LeftAt(seen) : lcd.ddram[a] = Fresh(seen)[a]
        <3>1. Shows(lcd, <<>>, seen)
            BY DEF Drawn, DrawnLater
        <3> QED BY <3>1, FinishNone DEF Shows
    <2>2. ASSUME NEW x \in 0 .. Width - 1, NEW y \in 0 .. Height - 1, <<x, y>> \notin LeftOver(seen)
          PROVE  Address(x, y) \in DDRAM \ LeftAt(seen)
        <3>1. Address(x, y) \in DDRAM \ NotOver
            BY <2>2 DEF Width, Height, NotOverwritten, LeftOver, Address, DDRAM, NotOver
        <3>2. ASSUME TimeLeft(seen), Address(x, y) \in From(34, 6) PROVE FALSE
            <4>1. x \in 14 .. 19 /\ y = 2
                BY <3>2 DEF Width, Height, Address, From
            <4> QED BY <2>2, <3>2, <4>1 DEF LeftOver, TimeLeft
        <3> QED BY <3>1, <3>2 DEF LeftAt
    <2>3. \A x \in 0 .. Width - 1, y \in 0 .. Height - 1 :
              <<x, y>> \notin LeftOver(seen) => Cell(lcd, x, y) = Cell(Finish(Empty, Draw(seen, TRUE)), x, y)
        BY <2>1, <2>2 DEF Cell, Fresh
    <2> QED BY <2>3, Zenon DEF LooksAsDrawnAfresh, Empty
<1> QED BY <1>1, <1>2, <1>3, PTL DEF Spec

(***************************************************************************)
(* The statements of SQLite: of a client's statement object, of            *)
(* updateSessionList() and of the logs' writers, whatever call fails.      *)
(***************************************************************************)
\* The names that a statement may have looked up.
NameLists == {<<>>} \cup {Columns[q] : q \in Query}

\* The types in full: what the records are made of.
DatabaseTypes ==
    /\ db \in {"closed", "open", "broken"}
    /\ stmt \in [query : Query \cup {Database!NoQuery}, row : Nat, names : NameLists, firstStepDone : BOOLEAN]
    /\ stmt.query # Database!NoQuery => stmt.row <= Rows[stmt.query]
    /\ list \in [at : {"idle", "listing", "returned"}, todo : SUBSET Session,
                 ok : BOOLEAN, err : BOOLEAN]
    /\ sessions \subseteq Session /\ wanted \subseteq Session
    /\ log \in {"idle", "prepared", "bound"} /\ errors \in 0 .. MaxErrors /\ handles \in Int

\* The names that a statement has looked up are those of its query.
NamesOfQuery == stmt.names # <<>> => stmt.query # Database!NoQuery /\ stmt.names = Columns[stmt.query]

\* While the list is read, a session that is not in it yet is still to come.
ListSoFar == list.at = "listing" => wanted \subseteq sessions \cup list.todo

\* The invariant of the statements and the list.
DatabaseInv == /\ DatabaseTypes /\ NamesOfQuery /\ ListSoFar
               /\ Database!NothingLeaks /\ Database!ListedOrError /\ Database!ColumnIsTheOneNamed

\* The initial state: nothing is open, nothing is listed.
LEMMA DatabaseInit ==
    ASSUME Database!DatabaseAssumption
    PROVE  Database!Init => DatabaseInv
BY DEF Database!DatabaseAssumption, Database!Init, DatabaseInv, DatabaseTypes, NamesOfQuery, ListSoFar,
       Database!NothingLeaks,
    Database!ListedOrError, Database!ColumnIsTheOneNamed, Database!NewStmt, Database!NoList, Database!NoAnswer, NameLists

\* errors never leaves its bounds: a call that fails takes one of those left.
LEMMA ErrorsType ==
    ASSUME Database!DatabaseAssumption, errors \in 0 .. MaxErrors, Database!Fails \/ Database!Succeeds
    PROVE  errors' \in 0 .. MaxErrors
BY DEF Database!DatabaseAssumption, Database!Fails, Database!Succeeds

\* A statement's row, names and flag change, and its query stays (stepWrapper(), reset()).
LEMMA StmtFields ==
    ASSUME NEW Q, NEW R, NEW N, NEW F, NEW r \in R, NEW n \in N, NEW f \in F,
           NEW s \in [query : Q, row : R, names : N, firstStepDone : F],
           NEW t, \/ t = [s EXCEPT !.row = r, !.firstStepDone = f, !.names = n]
                  \/ t = [s EXCEPT !.row = r, !.names = n, !.firstStepDone = f]
                  \/ t = [s EXCEPT !.row = r] /\ n = s.names
    PROVE  /\ t \in [query : Q, row : R, names : N, firstStepDone : F]
           /\ t.query = s.query /\ t.row = r /\ t.names = n
<1>1. CASE t = [s EXCEPT !.row = r, !.firstStepDone = f, !.names = n]
    BY <1>1
<1>2. CASE t = [s EXCEPT !.row = r, !.names = n, !.firstStepDone = f]
    BY <1>2
<1>3. CASE t = [s EXCEPT !.row = r] /\ n = s.names
    BY <1>3
<1> QED BY <1>1, <1>2, <1>3

\* A column that is looked up by its name in a statement's names is that column (column()).
LEMMA ColumnStep ==
    ASSUME DatabaseInv, Database!Column
    PROVE  Database!ColumnIsTheOneNamed'
<1>1. PICK q \in Query, i \in 1 .. 2 :
        LET asked  == Columns[q][i]
            places == {p \in DOMAIN stmt.names : stmt.names[p] = asked}
        IN  row' = IF places = {} \/ stmt.row = 0 THEN [Database!NoAnswer EXCEPT !.asked = asked]
                      ELSE [asked |-> asked, query |-> stmt.query, row |-> stmt.row,
                            name |-> Columns[stmt.query][CHOOSE p \in places : TRUE]]
    BY DEF Database!Column
<1> DEFINE asked == Columns[q][i]
           places == {p \in DOMAIN stmt.names : stmt.names[p] = asked}
<1>2. CASE places = {} \/ stmt.row = 0
    <2>1. row'.query = Database!NoQuery
        BY <1>1, <1>2 DEF Database!NoAnswer
    <2> QED BY <2>1 DEF Database!ColumnIsTheOneNamed
<1>3. CASE ~(places = {} \/ stmt.row = 0)
    <2>1. PICK p0 : p0 \in places
        BY <1>3
    <2>2. (CHOOSE p \in places : TRUE) \in places
        BY <2>1
    <2>3. stmt.names # <<>>
        BY <2>1
    <2>4. stmt.names = Columns[stmt.query]
        BY <2>3 DEF DatabaseInv, NamesOfQuery
    <2>5. Columns[stmt.query][CHOOSE p \in places : TRUE] = asked
        BY <2>2, <2>4
    <2>6. row'.name = Columns[stmt.query][CHOOSE p \in places : TRUE] /\ row'.asked = asked
        BY <1>1, <1>3
    <2> QED BY <2>5, <2>6 DEF Database!ColumnIsTheOneNamed
<1> QED BY <1>2, <1>3

\* Every call keeps the invariant.
LEMMA DatabaseStep ==
    ASSUME Database!DatabaseAssumption
    PROVE  DatabaseInv /\ [Database!Next]_(Database!vars) => DatabaseInv'
<1> SUFFICES ASSUME DatabaseInv, [Database!Next]_(Database!vars) PROVE DatabaseInv'
    OBVIOUS
<1> USE DEF Database!DatabaseAssumption, DatabaseInv, Database!NothingLeaks
<1>1. CASE Database!Open \/ Database!Close
    BY <1>1 DEF Database!Open, Database!Close, Database!Fails, Database!Succeeds, DatabaseTypes,
           NamesOfQuery, ListSoFar, Database!ListedOrError, Database!ColumnIsTheOneNamed
<1>2. CASE Database!Prepare
    <2>1. UNCHANGED <<db, row, list, sessions, wanted, log>>
        BY <1>2 DEF Database!Prepare
    <2>2. PICK q \in Query :
            \/ UNCHANGED <<stmt, handles, errors>>
            \/ /\ Database!Succeeds /\ stmt' = [Database!NewStmt EXCEPT !.query = q]
               /\ handles' = handles + (IF stmt.query = Database!NoQuery THEN 1 ELSE 0)
            \/ /\ Database!Fails \/ UNCHANGED errors
               /\ stmt' = Database!Finalise(stmt)
               /\ handles' = handles - (IF stmt.query = Database!NoQuery THEN 0 ELSE 1)
        BY <1>2 DEF Database!Prepare
    <2>3. errors' \in 0 .. MaxErrors
        BY <2>2, ErrorsType DEF DatabaseTypes, Database!Succeeds, Database!Fails
    <2>4. /\ stmt' \in [query : Query \cup {Database!NoQuery}, row : Nat, names : NameLists,
                       firstStepDone : BOOLEAN]
          /\ stmt'.query # Database!NoQuery => stmt'.row <= Rows[stmt'.query]
          /\ stmt'.names # <<>> => stmt'.query # Database!NoQuery /\ stmt'.names = Columns[stmt'.query]
        <3>1. CASE UNCHANGED stmt
            BY <3>1 DEF DatabaseTypes, NamesOfQuery
        <3>2. CASE stmt' = Database!NewStmt
            BY <3>2 DEF Database!NewStmt, NameLists
        <3>3. CASE stmt' = [Database!NewStmt EXCEPT !.query = q]
            <4>1. Database!NewStmt \in [query : Query \cup {Database!NoQuery}, row : Nat, names : NameLists,
                              firstStepDone : BOOLEAN]
                BY DEF Database!NewStmt, NameLists
            <4>2. Database!NewStmt.row = 0 /\ Database!NewStmt.names = <<>>
                BY DEF Database!NewStmt
            <4> QED BY <3>3, <4>1, <4>2
        <3> QED BY <2>2, <3>1, <3>2, <3>3 DEF Database!Finalise
    <2>5. Database!NothingLeaks'
        BY <2>1, <2>2 DEF DatabaseTypes, Database!NewStmt, Database!Finalise
    <2>6. DatabaseTypes' /\ NamesOfQuery'
        BY <2>1, <2>3, <2>4, <2>5 DEF DatabaseTypes, NamesOfQuery
    <2> QED BY <2>1, <2>5, <2>6 DEF ListSoFar, Database!ListedOrError, Database!ColumnIsTheOneNamed
<1>3. CASE Database!Step
    <2>1. /\ stmt.query # Database!NoQuery /\ (Database!Succeeds \/ Database!Fails)
          /\ UNCHANGED <<db, handles, row, list, sessions, wanted, log>>
        BY <1>3 DEF Database!Step
    <2>2. PICK r \in 0 .. Rows[stmt.query] : stmt' = Database!StepTo(stmt, r)
        BY <1>3 DEF Database!Step, DatabaseTypes
    <2>3. errors' \in 0 .. MaxErrors
        BY <2>1, ErrorsType DEF DatabaseTypes
    <2>4. stmt.names \in NameLists /\ stmt.firstStepDone \in BOOLEAN /\ Columns[stmt.query] \in NameLists
        BY <2>1 DEF DatabaseTypes, NameLists
    <2>5. /\ stmt' \in [query : Query \cup {Database!NoQuery}, row : Nat, names : NameLists,
                       firstStepDone : BOOLEAN]
          /\ stmt'.query = stmt.query /\ stmt'.row = r
          /\ stmt'.names = stmt.names \/ stmt'.names = Columns[stmt.query]
        <3> DEFINE n == IF r > 0 /\ ~stmt.firstStepDone THEN Columns[stmt.query] ELSE stmt.names
                   f == stmt.firstStepDone \/ r > 0
        <3>1. stmt' = [stmt EXCEPT !.row = r, !.firstStepDone = f, !.names = n]
            BY <2>2, Zenon DEF Database!StepTo
        <3>2. f \in BOOLEAN /\ r \in Nat
            BY <2>1 DEF DatabaseTypes
        <3>3. n \in NameLists /\ (n = stmt.names \/ n = Columns[stmt.query])
            BY <2>4
        <3>4. stmt \in [query : Query \cup {Database!NoQuery}, row : Nat, names : NameLists,
                       firstStepDone : BOOLEAN]
            BY DEF DatabaseTypes
        <3> HIDE DEF n, f
        <3> QED BY <3>1, <3>2, <3>3, <3>4, StmtFields
    <2>6. r \in Nat /\ r <= Rows[stmt.query]
        BY <2>1 DEF DatabaseTypes
    <2>7. DatabaseTypes'
        BY <2>1, <2>3, <2>5, <2>6 DEF DatabaseTypes
    <2>8. NamesOfQuery'
        BY <2>1, <2>5 DEF NamesOfQuery
    <2> QED BY <2>1, <2>5, <2>7, <2>8 DEF ListSoFar, Database!ListedOrError, Database!ColumnIsTheOneNamed
<1>4. CASE Database!Reset
    <2>1. UNCHANGED <<db, handles, row, list, sessions, wanted, log>>
        BY <1>4 DEF Database!Reset
    <2>2. errors' \in 0 .. MaxErrors
        BY <1>4, ErrorsType DEF Database!Reset, DatabaseTypes
    <2>3. /\ stmt' \in [query : Query \cup {Database!NoQuery}, row : Nat, names : NameLists,
                       firstStepDone : BOOLEAN]
          /\ stmt'.query = stmt.query /\ stmt'.row = 0
          /\ stmt'.names = stmt.names \/ stmt'.names = <<>>
        <3>1. stmt \in [query : Query \cup {Database!NoQuery}, row : Nat, names : NameLists,
                       firstStepDone : BOOLEAN]
            BY DEF DatabaseTypes
        <3>2. stmt.names \in NameLists /\ <<>> \in NameLists /\ FALSE \in BOOLEAN /\ 0 \in Nat
            BY <3>1 DEF NameLists
        <3>3. CASE stmt' = [stmt EXCEPT !.row = 0, !.names = <<>>, !.firstStepDone = FALSE]
            BY <3>1, <3>2, <3>3, StmtFields
        <3>4. CASE stmt' = [stmt EXCEPT !.row = 0]
            BY <3>1, <3>2, <3>4, StmtFields
        <3> QED BY <1>4, <3>3, <3>4 DEF Database!Reset
    <2>4. DatabaseTypes' /\ NamesOfQuery' /\ stmt'.query = stmt.query
        BY <2>1, <2>2, <2>3 DEF DatabaseTypes, NamesOfQuery
    <2> QED BY <2>1, <2>4 DEF ListSoFar, Database!ListedOrError, Database!ColumnIsTheOneNamed
<1>5. CASE Database!Column
    <2>1. Database!ColumnIsTheOneNamed'
        BY <1>5, ColumnStep
    <2> QED BY <1>5, <2>1 DEF Database!Column, DatabaseTypes, NamesOfQuery, ListSoFar, Database!ListedOrError
<1>6. CASE Database!Destruct
    BY <1>6 DEF Database!Destruct, Database!Finalise, Database!NewStmt, NameLists, DatabaseTypes,
           NamesOfQuery, ListSoFar, Database!ListedOrError, Database!ColumnIsTheOneNamed
<1>7. CASE Database!ListPrepare
    <2>1. UNCHANGED <<db, stmt, row, sessions, wanted, log>> /\ list.at # "listing"
        BY <1>7 DEF Database!ListPrepare
    <2>2. errors' \in 0 .. MaxErrors
        BY <1>7, ErrorsType DEF Database!ListPrepare, DatabaseTypes, Database!Fails, Database!Succeeds
    <2>3. CASE /\ list' = [at |-> "listing", todo |-> wanted, ok |-> FALSE, err |-> FALSE]
               /\ handles' = handles + 1
        BY <2>1, <2>2, <2>3 DEF DatabaseTypes, NamesOfQuery, ListSoFar, Database!ListedOrError, Database!ColumnIsTheOneNamed
    <2>4. CASE /\ list' = [at |-> "returned", todo |-> {}, ok |-> FALSE, err |-> TRUE]
               /\ UNCHANGED handles
        BY <2>1, <2>2, <2>4 DEF DatabaseTypes, NamesOfQuery, ListSoFar, Database!ListedOrError, Database!ColumnIsTheOneNamed
    <2> QED BY <1>7, <2>3, <2>4 DEF Database!ListPrepare
<1>8. CASE Database!ListStep
    <2>1. list.at = "listing" /\ (Database!Succeeds \/ Database!Fails) /\ UNCHANGED <<db, stmt, row, wanted, log>>
        BY <1>8 DEF Database!ListStep
    <2>2. CASE \E id \in list.todo : /\ sessions' = sessions \cup {id}
                                     /\ list' = [list EXCEPT !.todo = @ \ {id}]
                                     /\ UNCHANGED handles
        <3>1. PICK id \in list.todo : /\ sessions' = sessions \cup {id}
                                      /\ list' = [list EXCEPT !.todo = @ \ {id}]
                                      /\ UNCHANGED handles
            BY <2>2
        <3>2. list' = [at |-> "listing", todo |-> list.todo \ {id}, ok |-> list.ok, err |-> list.err]
            BY <2>1, <3>1 DEF DatabaseTypes
        <3>3. errors' \in 0 .. MaxErrors
            BY <2>1, ErrorsType DEF DatabaseTypes
        <3>4. list.todo \subseteq Session /\ list'.todo = list.todo \ {id}
            BY <3>2 DEF DatabaseTypes
        <3>5. DatabaseTypes'
            BY <2>1, <3>1, <3>2, <3>3, <3>4 DEF DatabaseTypes
        <3>6. ListSoFar'
            BY <2>1, <3>1, <3>4 DEF ListSoFar
        <3> QED BY <2>1, <3>1, <3>2, <3>5, <3>6 DEF DatabaseTypes, NamesOfQuery, Database!ListedOrError,
               Database!ColumnIsTheOneNamed
    <2>3. CASE (\/ Database!Return(FALSE, TRUE)
                \/ list.todo = {} /\ Database!Return(TRUE, FALSE)
                \/ Database!Return(TRUE, TRUE)) /\ UNCHANGED sessions
        <3>1. /\ handles' = handles - 1 /\ UNCHANGED sessions
              /\ list'.at = "returned" /\ list'.todo = {}
              /\ list' \in [at : {"idle", "listing", "returned"}, todo : SUBSET Session,
                            ok : BOOLEAN, err : BOOLEAN]
              /\ ~list'.err => list'.ok /\ list.todo = {}
            <4>1. CASE Database!Return(FALSE, TRUE)
                BY <2>3, <4>1 DEF Database!Return
            <4>2. CASE list.todo = {} /\ Database!Return(TRUE, FALSE)
                BY <2>3, <4>2 DEF Database!Return
            <4>3. CASE Database!Return(TRUE, TRUE)
                BY <2>3, <4>3 DEF Database!Return
            <4> QED BY <2>3, <4>1, <4>2, <4>3
        <3>2. errors' \in 0 .. MaxErrors
            BY <2>1, ErrorsType DEF DatabaseTypes
        <3>3. DatabaseTypes'
            BY <2>1, <3>1, <3>2 DEF DatabaseTypes
        <3>4. Database!ListedOrError'
            BY <2>1, <3>1 DEF ListSoFar, Database!ListedOrError
        <3>5. Database!NothingLeaks'
            BY <2>1, <3>1 DEF DatabaseTypes
        <3> QED BY <2>1, <3>1, <3>3, <3>4, <3>5 DEF NamesOfQuery, ListSoFar, Database!ColumnIsTheOneNamed
    <2> QED BY <1>8, <2>2, <2>3 DEF Database!ListStep
<1>9. CASE Database!Schedule
    BY <1>9 DEF Database!Schedule, Database!NoList, DatabaseTypes, NamesOfQuery, ListSoFar,
           Database!ListedOrError, Database!ColumnIsTheOneNamed
<1>10. CASE Database!LogPrepare \/ Database!LogBind \/ Database!LogExecute
    BY <1>10 DEF Database!LogPrepare, Database!LogBind, Database!LogExecute, Database!LogTo,
           Database!Fails, Database!Succeeds, DatabaseTypes, NamesOfQuery,
        ListSoFar, Database!ListedOrError, Database!ColumnIsTheOneNamed
<1>11. CASE UNCHANGED Database!vars
    BY <1>11 DEF Database!vars, DatabaseTypes, NamesOfQuery, ListSoFar, Database!ListedOrError, Database!ColumnIsTheOneNamed
<1> QED BY <1>1, <1>2, <1>3, <1>4, <1>5, <1>6, <1>7, <1>8, <1>9, <1>10, <1>11 DEF Database!Next

\* The strengthened invariant holds for ever.
LEMMA DatabaseHolds ==
    ASSUME Database!DatabaseAssumption
    PROVE  Database!Spec => []DatabaseInv
BY DatabaseInit, DatabaseStep, PTL DEF Database!Spec

\* The state of the connection, the statements and the list always has its type (class
\* SQLiteStmt, updateSessionList()).
THEOREM DatabaseTypeCorrect ==
    ASSUME Database!DatabaseAssumption
    PROVE  Database!Spec => []Database!TypeOK
<1>1. DatabaseInv => Database!TypeOK
    BY DEF Database!DatabaseAssumption, DatabaseInv, DatabaseTypes, Database!TypeOK, Database!NothingLeaks
<1> QED BY DatabaseHolds, <1>1, PTL

\* Whatever fails, each statement of SQLite is finalised once (prepare(), finalise(),
\* and the ends of the functions that have a statement).
THEOREM FinalisedOnce ==
    ASSUME Database!DatabaseAssumption
    PROVE  Database!Spec => []Database!NothingLeaks
<1>1. DatabaseInv => Database!NothingLeaks
    BY DEF DatabaseInv
<1> QED BY DatabaseHolds, <1>1, PTL

\* A column that is read by its name is the column of that name, or NULL, for any queries
\* and any sequence of calls on one statement (column(), getColumnNames()).
THEOREM ColumnsAreNamed ==
    ASSUME Database!DatabaseAssumption
    PROVE  Database!Spec => []Database!ColumnIsTheOneNamed
<1>1. DatabaseInv => Database!ColumnIsTheOneNamed
    BY DEF DatabaseInv
<1> QED BY DatabaseHolds, <1>1, PTL

\* A list that was read without an error has all active sessions (updateSessionList()).
THEOREM ListIsComplete ==
    ASSUME Database!DatabaseAssumption
    PROVE  Database!Spec => []Database!ListedOrError
<1>1. DatabaseInv => Database!ListedOrError
    BY DEF DatabaseInv
<1> QED BY DatabaseHolds, <1>1, PTL

(***************************************************************************)
(* The sensors, the screen and the database together.                      *)
(***************************************************************************)
\* A behaviour of them is one of the sensors, one of the screen and one of the database.
THEOREM EachPart == ManagerSpec => Sensor!Spec /\ Spec /\ Database!Spec
<1>1. ManagerInit => Sensor!Init /\ Init /\ Database!Init
    BY DEF ManagerInit
<1>2. [ManagerNext]_allVars => [Sensor!Next]_(Sensor!vars)
    BY DEF ManagerNext, OnlySensor, OnlyScreen, OnlyDatabase, allVars, sensorVars, Sensor!vars
<1>3. [ManagerNext]_allVars => [Next]_vars
    BY DEF ManagerNext, OnlySensor, OnlyScreen, OnlyDatabase, allVars
<1>4. [ManagerNext]_allVars => [Database!Next]_(Database!vars)
    BY DEF ManagerNext, OnlySensor, OnlyScreen, OnlyDatabase, allVars, dbVars, Database!vars
<1> QED BY <1>1, <1>2, <1>3, <1>4, PTL DEF ManagerSpec, Sensor!Spec, Spec, Database!Spec

\* Every variable of the three has its type.
THEOREM ManagerTypeCorrect == ManagerSpec => []ManagerTypeOK
BY EachPart, SensorTypeCorrect, ScreenTypeCorrect, DatabaseTypeCorrect, ManagerAssumption, PTL DEF ManagerTypeOK

\* tempsensor.cc:149: whatever is read, the average lies between the readings.
THEOREM AverageStaysBetween == ManagerSpec => []AverageWithinSamples
BY EachPart, AverageIsBetween, PTL DEF AverageWithinSamples

\* lcd.cc:208: wherever the program is killed, the next one finds a controller that takes
\* what it sends.
THEOREM DisplayRecovers == ManagerSpec => []InitRecovers
BY EachPart, Recovers, ManagerAssumption, PTL

\* display.cc:180: with readings that fit, nothing of another session is left on the screen.
THEOREM ManagerDrawnAfresh == ASSUME ShortTexts PROVE ManagerSpec => []LooksAsDrawnAfresh
BY EachPart, DrawnAfresh, ManagerAssumption, PTL

\* sqlitestmt.cc:245: a column is found by its name in every query.
THEOREM NamesAreKept == ManagerSpec => []ColumnIsTheOneNamed
BY EachPart, ColumnsAreNamed, ManagerAssumption, PTL DEF ColumnIsTheOneNamed

\* sqlite.cc:86, sqlitestmt.cc:260: no statement is lost or finalised twice.
THEOREM NoStatementLeaks == ManagerSpec => []NothingLeaks
BY EachPart, FinalisedOnce, ManagerAssumption, PTL DEF NothingLeaks

\* sessionmanager.cc:74: all active sessions are listed, or an error is given.
THEOREM NoSessionMissed == ManagerSpec => []ListedOrError
BY EachPart, ListIsComplete, ManagerAssumption, PTL DEF ListedOrError
=============================================================================
