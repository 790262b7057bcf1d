-------------------------- MODULE ShiftReg_proofs --------------------------
(***************************************************************************)
(* The shift register implements the output port, for every width of the   *)
(* bytes, any number of threads and all requests.                          *)
(***************************************************************************)
EXTENDS ShiftReg, TLAPS

\* A thread between its lock and its return owns the lock, and has made its
\* word from the one that is output; the bytes it has sent are in the stages.
Writing(t) ==
  /\ pc[t] \in {"locked", "high", "strobe"} =>
       /\ boot = "done"
       /\ lock = t
       /\ ~Port!OutOfRange(request[t])
       /\ val[t] = Port!Apply(request[t], currentVal)
  /\ pc[t] = "high"   => near = LowByte(val[t])
  /\ pc[t] = "strobe" => near = HighByte(val[t]) /\ far = LowByte(val[t])

\* The boot is not over.
Booting ==
  /\ ready <=> boot = "done"
  /\ boot # "done" => lock = NoThread /\ \A t \in Threads : pc[t] = "idle"
  /\ boot \in {"high", "strobe"} => near = {}
  /\ boot = "strobe" => far = {}

\* After the boot, the latch has the value the program remembers.
ValueKnown == boot = "done" => latch = currentVal

\* The inductive invariant.
IInv ==
  /\ Booting
  /\ ValueKnown
  /\ \A t \in Threads : Writing(t)

-----------------------------------------------------------------------------
\* Two bytes hold all bits of a word, and the strobe puts them back together.
LEMMA WordOfBytes ==
  ASSUME NEW v \in SUBSET Bits
  PROVE  Word(HighByte(v), LowByte(v)) = v
<1> USE BusAssumption
<1>1. \A b \in v : b \in 0 .. 2 * ByteBits - 1
  BY DEF Bits, Port!Bits, LenBits
<1>2. ASSUME NEW b \in v PROVE b \in Word(HighByte(v), LowByte(v))
  <2>1. CASE b < ByteBits
    BY <1>1, <2>1 DEF Word, LowByte
  <2>2. CASE b >= ByteBits
    <3>1. b - ByteBits \in 0 .. ByteBits - 1 /\ b = (b - ByteBits) + ByteBits
      BY <1>1, <2>2
    <3>2. b - ByteBits \in HighByte(v)
      BY <3>1 DEF HighByte
    <3> QED BY <3>1, <3>2 DEF Word
  <2> QED BY <1>1, <2>1, <2>2
<1>3. ASSUME NEW b \in Word(HighByte(v), LowByte(v)) PROVE b \in v
  BY <1>3 DEF Word, HighByte, LowByte
<1> QED BY <1>2, <1>3

\* The types of the bytes that are sent.
LEMMA BytesType ==
  /\ \A v : LowByte(v) \in Byte /\ HighByte(v) \in Byte
  /\ {} \in Byte
  /\ \A n, f \in Byte : Word(n, f) \in SUBSET Bits
<1> USE BusAssumption
<1>1. \A v : LowByte(v) \in Byte /\ HighByte(v) \in Byte
  BY DEF LowByte, HighByte, Byte
<1>2. ASSUME NEW n \in Byte, NEW f \in Byte PROVE Word(n, f) \in SUBSET Bits
  <2>1. n \subseteq 0 .. ByteBits - 1 /\ f \subseteq 0 .. ByteBits - 1
    BY DEF Byte
  <2>2. f \subseteq 0 .. 2 * ByteBits - 1
    BY <2>1
  <2>3. {b + ByteBits : b \in n} \subseteq 0 .. 2 * ByteBits - 1
    BY <2>1
  <2> QED BY <2>2, <2>3 DEF Word, Bits, Port!Bits, LenBits
<1> QED BY <1>1, <1>2 DEF Byte

\* The types of what the threads ask for.
LEMMA RequestTypes ==
  ASSUME NEW r \in Requests
  PROVE  /\ r.op \in {"set", "clear", "toggle", "isSet", "|=", "&=", "^="}
         /\ r.bit \in Nat
         /\ r.mask \in SUBSET Bits
  BY BusAssumption DEF Port!RequestType, Port!BitOps, Port!WordOps, Bits

\* A request that is not out of range makes a word of a word.
LEMMA ApplyType ==
  ASSUME NEW r \in Requests, ~Port!OutOfRange(r), NEW v \in SUBSET Bits
  PROVE  Port!Apply(r, v) \in SUBSET Bits
<1>1. r.op \in {"set", "clear", "toggle"} => r.bit \in Bits
  BY RequestTypes, BusAssumption DEF Port!OutOfRange, Port!BitOps, Bits, Port!Bits, LenBits
<1>2. /\ r.op = "set"    => Port!Apply(r, v) = v \cup {r.bit}
      /\ r.op = "clear"  => Port!Apply(r, v) = v \ {r.bit}
      /\ r.op = "toggle" => Port!Apply(r, v) = IF r.bit \in v THEN v \ {r.bit} ELSE v \cup {r.bit}
      /\ r.op = "isSet"  => Port!Apply(r, v) = v
      /\ r.op = "|="     => Port!Apply(r, v) = v \cup r.mask
      /\ r.op = "&="     => Port!Apply(r, v) = v \cap r.mask
      /\ r.op = "^="     => Port!Apply(r, v) = (v \ r.mask) \cup (r.mask \ v)
  BY Zenon DEF Port!Apply
<1> QED BY <1>1, <1>2, RequestTypes

\* The types of what the calls return.
LEMMA ResultTypes ==
  ASSUME NEW r \in Requests, NEW ok \in BOOLEAN, NEW v \in SUBSET Bits
  PROVE  Port!Result(r, ok, v) \in Port!ResultType
<1>1. (r.op \in Port!BitOps /\ ok /\ (r.op = "isSet" => r.bit \in v)) \in BOOLEAN
  OBVIOUS
<1>2. (IF r.op \in Port!WordOps THEN v ELSE {}) \in SUBSET Bits
  OBVIOUS
<1> QED BY <1>1, <1>2, Zenon DEF Port!Result, Port!ResultType, Bits

\* The state of the register always has its type.
THEOREM TypeCorrect == Spec => []TypeOK
<1>1. Init => TypeOK
  <2> SUFFICES ASSUME Init PROVE TypeOK
    OBVIOUS
  <2>1. pc \in [Threads -> PC] /\ val \in [Threads -> SUBSET Bits]
    BY DEF Init, PC
  <2>2. result \in [Threads -> Port!ResultType]
    BY DEF Init, Port!NoResult, Port!ResultType
  <2> QED BY <2>1, <2>2 DEF Init, TypeOK
<1>2. TypeOK /\ [Next]_vars => TypeOK'
  <2> SUFFICES ASSUME TypeOK, [Next]_vars PROVE TypeOK'
    OBVIOUS
  <2> USE BytesType DEF TypeOK, PC, Shift, ShiftFails, bus
  <2>1. CASE InitByte \/ InitFails
    BY <2>1 DEF InitByte, InitFails
  <2>2. CASE InitStrobe
    BY <2>2 DEF InitStrobe
  <2>3. CASE Restart
    BY <2>3 DEF Restart, Port!NoResult, Port!ResultType
  <2>4. ASSUME NEW t \in Threads, Access(t) PROVE TypeOK'
    <3>1. ASSUME NEW r \in Requests, Call(t, r) PROVE TypeOK'
      BY <3>1 DEF Call
    <3>2. ASSUME NEW ok \in BOOLEAN, NEW v \in SUBSET Bits, Answer(t, ok, v)
          PROVE  pc' \in [Threads -> PC] /\ result' \in [Threads -> Port!ResultType]
      BY <3>2, ResultTypes DEF Answer
    <3>3. CASE Reject(t)
      BY <3>3, <3>2 DEF Reject
    <3>4. CASE Lock(t)
      BY <3>4, ApplyType DEF Lock
    <3>5. CASE IsSet(t)
      BY <3>5, <3>2 DEF IsSet
    <3>6. CASE SendLow(t)
      BY <3>6 DEF SendLow
    <3>7. CASE SendHigh(t)
      BY <3>7 DEF SendHigh
    <3>8. CASE SendFails(t)
      <4>1. near' \in Byte /\ far' \in Byte
        BY <3>8 DEF SendFails
      <4> QED BY <4>1, <3>8, <3>2 DEF SendFails
    <3>9. CASE Strobe(t)
      BY <3>9, <3>2 DEF Strobe
    <3>10. CASE Return(t)
      BY <3>10 DEF Return, Port!NoResult, Port!ResultType
    <3>11. CASE AdcRead(t)
      BY <3>11 DEF AdcRead
    <3> QED
      BY <2>4, <3>1, <3>3, <3>4, <3>5, <3>6, <3>7, <3>8, <3>9, <3>10, <3>11 DEF Access
  <2>5. CASE UNCHANGED vars
    BY <2>5 DEF vars
  <2> QED BY <2>1, <2>2, <2>3, <2>4, <2>5 DEF Next
<1> QED BY <1>1, <1>2, PTL DEF Spec

-----------------------------------------------------------------------------
\* A step of one thread leaves what is said of the others as it is.
LEMMA OthersUntouched ==
  ASSUME TypeOK, IInv,
         NEW t \in Threads, NEW s \in Threads, s # t, boot = "done",
         pc'[s] = pc[s], val'[s] = val[s], request'[s] = request[s], boot' = boot,
         lock = s => lock' = s,
         lock = s => UNCHANGED <<near, far, currentVal>>
  PROVE  Writing(s)'
<1>1. Writing(s)
  BY DEF IInv
<1>2. CASE pc[s] \in {"locked", "high", "strobe"}
  <2>1. lock = s /\ lock' = s /\ near' = near /\ far' = far /\ currentVal' = currentVal
    BY <1>1, <1>2 DEF Writing
  <2>2. Port!OutOfRange(request[s])' <=> Port!OutOfRange(request[s])
    BY DEF Port!OutOfRange, LenBits
  <2>3. Port!Apply(request[s], currentVal)' = Port!Apply(request[s], currentVal)
    BY <2>1, Zenon DEF Port!Apply
  <2>4. LowByte(val[s])' = LowByte(val[s]) /\ HighByte(val[s])' = HighByte(val[s])
    BY DEF LowByte, HighByte
  <2> QED BY <1>1, <2>1, <2>2, <2>3, <2>4 DEF Writing
<1>3. CASE pc[s] \notin {"locked", "high", "strobe"}
  BY <1>3 DEF Writing
<1> QED BY <1>2, <1>3

\* The initial state has the invariant.
LEMMA InitInv == Init => IInv
  BY DEF Init, IInv, Booting, ValueKnown, Writing

\* Every step keeps the invariant.
LEMMA NextInv == TypeOK /\ IInv /\ [Next]_vars => IInv'
<1> SUFFICES ASSUME TypeOK, IInv, [Next]_vars PROVE IInv'
  OBVIOUS
<1>0. Booting /\ ValueKnown
  BY DEF IInv
<1>1. ASSUME \A t \in Threads : pc'[t] = "idle" PROVE \A t \in Threads : Writing(t)'
  BY <1>1 DEF Writing
<1>2. CASE InitByte
  BY <1>0, <1>1, <1>2 DEF InitByte, IInv, Booting, ValueKnown, Shift
<1>3. CASE InitFails
  BY <1>0, <1>1, <1>3 DEF InitFails, IInv, Booting, ValueKnown
<1>4. CASE InitStrobe
  <2>1. Word({}, {}) = {}
    BY DEF Word
  <2> QED BY <2>1, <1>0, <1>1, <1>4 DEF InitStrobe, IInv, Booting, ValueKnown
<1>5. CASE Restart
  <2>1. \A t \in Threads : pc'[t] = "idle"
    BY <1>5 DEF Restart
  <2> QED BY <2>1, <1>1, <1>5 DEF Restart, IInv, Booting, ValueKnown
<1>6. ASSUME NEW t \in Threads, Access(t) PROVE IInv'
  <2>0. /\ boot = "done" /\ boot' = boot /\ ready' = ready /\ ready
        /\ Writing(t)
    BY <1>6, <1>0 DEF IInv, Booting, Access, Call, Reject, Lock, IsSet, SendLow, SendHigh,
       SendFails, Strobe, Return, AdcRead
  <2>1. Booting'
    BY <2>0, <1>0 DEF Booting
  <2>2. ASSUME \A s \in Threads \ {t} :
                 /\ pc'[s] = pc[s] /\ val'[s] = val[s] /\ request'[s] = request[s]
                 /\ lock = s => lock' = s
                 /\ lock = s => UNCHANGED <<near, far, currentVal>>
        PROVE  \A s \in Threads \ {t} : Writing(s)'
    BY <2>0, <2>2, OthersUntouched
  <2>3. ASSUME NEW r \in Requests, Call(t, r) PROVE IInv'
    BY <2>0, <2>1, <2>2, <2>3, <1>0 DEF Call, IInv, ValueKnown, Writing, TypeOK
  <2>4. CASE Reject(t)
    BY <2>0, <2>1, <2>2, <2>4, <1>0 DEF Reject, Answer, IInv, ValueKnown, Writing, TypeOK
  <2>5. CASE Lock(t)
    <3>1. /\ pc' = [pc EXCEPT ![t] = "locked"] /\ lock = NoThread /\ lock' = t
          /\ val' = [val EXCEPT ![t] = Port!Apply(request[t], currentVal)]
          /\ ~Port!OutOfRange(request[t])
          /\ UNCHANGED <<currentVal, near, far, latch, request>>
      BY <2>5 DEF Lock
    <3>2. Writing(t)'
      <4>1. Port!OutOfRange(request[t])' <=> Port!OutOfRange(request[t])
        BY <3>1 DEF Port!OutOfRange
      <4>2. Port!Apply(request[t], currentVal)' = Port!Apply(request[t], currentVal)
        BY <3>1, Zenon DEF Port!Apply
      <4> QED BY <3>1, <4>1, <4>2, <2>0 DEF Writing, TypeOK
    <3>3. \A s \in Threads \ {t} : Writing(s)'
      BY <2>2, <3>1, BusAssumption DEF TypeOK
    <3> QED BY <3>1, <3>2, <3>3, <2>0, <2>1, <1>0 DEF IInv, ValueKnown
  <2>6. CASE IsSet(t)
    BY <2>0, <2>1, <2>2, <2>6, <1>0 DEF IsSet, Answer, IInv, ValueKnown, Writing, TypeOK
  <2>7. ASSUME /\ lock = t /\ lock' = t
               /\ pc' = [pc EXCEPT ![t] = "high"] \/ pc' = [pc EXCEPT ![t] = "strobe"]
               /\ UNCHANGED <<currentVal, latch, request, val>>
               /\ ~Port!OutOfRange(request[t])
               /\ val[t] = Port!Apply(request[t], currentVal)
               /\ pc'[t] = "high"   => near' = LowByte(val[t])
               /\ pc'[t] = "strobe" => near' = HighByte(val[t]) /\ far' = LowByte(val[t])
        PROVE  IInv'
    <3>1. Writing(t)'
      <4>1. Port!OutOfRange(request[t])' <=> Port!OutOfRange(request[t])
        BY <2>7 DEF Port!OutOfRange
      <4>2. Port!Apply(request[t], currentVal)' = Port!Apply(request[t], currentVal)
        BY <2>7, Zenon DEF Port!Apply
      <4>3. LowByte(val[t])' = LowByte(val[t]) /\ HighByte(val[t])' = HighByte(val[t])
        BY <2>7 DEF LowByte, HighByte
      <4> QED BY <2>7, <4>1, <4>2, <4>3, <2>0 DEF Writing
    <3>2. \A s \in Threads \ {t} : Writing(s)'
      BY <2>2, <2>7 DEF TypeOK
    <3> QED BY <3>1, <3>2, <2>7, <2>0, <2>1, <1>0 DEF IInv, ValueKnown
  <2>8. CASE SendLow(t)
    BY <2>0, <2>7, <2>8 DEF SendLow, Shift, Writing, TypeOK
  <2>9. CASE SendHigh(t)
    BY <2>0, <2>7, <2>9 DEF SendHigh, Shift, Writing, TypeOK
  <2>10. CASE SendFails(t)
    BY <2>0, <2>1, <2>2, <2>10, <1>0 DEF SendFails, Answer, IInv, ValueKnown, Writing, TypeOK
  <2>11. CASE Strobe(t)
    <3>1. Word(near, far) = val[t]
      BY <2>0, <2>11, WordOfBytes DEF Strobe, Writing, TypeOK
    <3> QED
      BY <2>0, <2>1, <2>2, <2>11, <3>1, <1>0 DEF Strobe, Answer, IInv, ValueKnown, Writing, TypeOK
  <2>12. CASE Return(t)
    BY <2>0, <2>1, <2>2, <2>12, <1>0 DEF Return, IInv, ValueKnown, Writing, TypeOK
  <2>13. CASE AdcRead(t)
    BY <2>0, <2>1, <2>13, <1>0, OneThreadDrivesBus DEF AdcRead, IInv, ValueKnown, Writing
  <2> QED
    BY <1>6, <2>3, <2>4, <2>5, <2>6, <2>8, <2>9, <2>10, <2>11, <2>12, <2>13 DEF Access
<1>7. CASE UNCHANGED vars
  <2>1. \A t \in Threads : Writing(t)'
    BY <1>7, Zenon DEF vars, IInv, Writing, Port!OutOfRange, Port!Apply, LowByte, HighByte, LenBits
  <2> QED BY <2>1, <1>7, <1>0 DEF vars, IInv, Booting, ValueKnown
<1> QED BY <1>2, <1>3, <1>4, <1>5, <1>6, <1>7 DEF Next

\* The invariant holds throughout.
LEMMA Invariance == Spec => []IInv
<1> QED BY InitInv, NextInv, TypeCorrect, PTL DEF Spec

\* The word the program believes is output is the word on the pins: the pins
\* only change at a strobe, which follows two bytes sent without interruption.
THEOREM OutputIsKnown == Spec => []OutputKnown
<1>1. IInv => OutputKnown
  BY DEF IInv, Booting, ValueKnown, OutputKnown
<1> QED BY <1>1, Invariance, PTL
-----------------------------------------------------------------------------
\* Where each thread is, for the specification of one at a time.
status == [t \in Threads |-> Status(pc[t])]

\* The status of a thread is that of its place.
LEMMA StatusIs ==
  /\ Status("idle") = "idle" /\ Status("return") = "done"
  /\ \A where \in {"called", "locked", "high", "strobe"} : Status(where) = "pending"
  BY Zenon DEF Status

\* When a thread moves on, so does its status, and no other.
LEMMA StatusMoves ==
  ASSUME TypeOK, NEW t \in Threads, NEW where, pc' = [pc EXCEPT ![t] = where]
  PROVE  status' = [status EXCEPT ![t] = Status(where)]
  BY DEF TypeOK, status

\* A call that answers is the port's, as it succeeds or as it fails.
LEMMA AnswerFinishes ==
  ASSUME TypeOK, NEW t \in Threads, pc[t] \in {"called", "locked", "high", "strobe"},
         NEW ok, NEW v, Answer(t, ok, v), v = latch',
         UNCHANGED <<boot, request>>
  PROVE  Port!Finish(t, ok)
<1>1. status' = [status EXCEPT ![t] = "done"]
  BY StatusMoves, StatusIs DEF Answer
<1>2. status[t] = "pending"
  BY StatusIs DEF status
<1> QED BY <1>1, <1>2 DEF Port!Finish, Answer, status

\* Every step of the register is a step of the port or leaves it as it is.
LEMMA StepRefines ==
  ASSUME TypeOK, IInv, [Next]_vars
  PROVE  [Port!Next]_(Port!portVars)
<1>0. Booting /\ ValueKnown
  BY DEF IInv
<1>1. CASE InitByte \/ InitFails
  BY <1>1 DEF InitByte, InitFails, Port!portVars
<1>2. CASE InitStrobe
  <2>1. latch' = {}
    BY <1>0, <1>2 DEF InitStrobe, Booting, Word
  <2> QED BY <1>2, <2>1 DEF InitStrobe, Port!Next, Port!Start
<1>3. CASE Restart
  <2>1. status' = [t \in Threads |-> "idle"]
    BY <1>3, StatusIs DEF Restart, status
  <2> QED BY <1>3, <2>1 DEF Restart, Port!Next, Port!Die, status
<1>4. ASSUME NEW t \in Threads, Access(t) PROVE [Port!Next]_(Port!portVars)
  <2>0. Writing(t)
    BY DEF IInv
  <2>1. ASSUME Port!Succeed(t) \/ Port!Fail(t) PROVE Port!Next
    BY <2>1 DEF Port!Next
  <2>2. ASSUME NEW where \in {"locked", "high", "strobe"},
               pc[t] \in {"called", "locked", "high"},
               pc' = [pc EXCEPT ![t] = where],
               UNCHANGED <<boot, latch, request, result>>
        PROVE  UNCHANGED Port!portVars
    <3>1. status' = [status EXCEPT ![t] = "pending"]
      <4>1. status' = [status EXCEPT ![t] = Status(where)]
        BY <2>2, StatusMoves
      <4>2. Status(where) = "pending"
        BY <2>2, StatusIs
      <4> QED BY <4>1, <4>2, Zenon
    <3>2. status[t] = "pending" /\ status = [s \in Threads |-> status[s]]
      BY <2>2, StatusIs DEF status
    <3>3. status' = status
      BY <3>1, <3>2
    <3> QED BY <2>2, <3>3 DEF Port!portVars, status
  <2>3. ASSUME NEW r \in Requests, Call(t, r) PROVE Port!Next
    <3>1. status[t] = "idle" /\ status' = [status EXCEPT ![t] = "pending"]
      <4>1. pc[t] = "idle" /\ pc' = [pc EXCEPT ![t] = "called"]
        BY <2>3 DEF Call
      <4>2. status' = [status EXCEPT ![t] = Status("called")]
        BY <4>1, StatusMoves
      <4>3. Status("called") = "pending" /\ status[t] = "idle"
        BY <4>1, StatusIs DEF status
      <4> QED BY <4>2, <4>3, Zenon
    <3> QED BY <2>3, <3>1 DEF Call, Port!Next, Port!Call, status
  <2>4. CASE Reject(t)
    <3>1. Answer(t, FALSE, latch')
      <4>1. request[t].op \notin Port!WordOps
        BY <2>4 DEF Reject, Port!OutOfRange, Port!BitOps, Port!WordOps
      <4>2. Port!Result(request[t], FALSE, {}) = Port!Result(request[t], FALSE, latch')
        BY <4>1, Zenon DEF Port!Result
      <4> QED BY <2>4, <4>2 DEF Reject, Answer
    <3>2. Port!Finish(t, FALSE)
      BY <2>4, <3>1, AnswerFinishes DEF Reject
    <3> QED BY <2>4, <3>2, <2>1 DEF Reject, Port!Fail
  <2>5. CASE Lock(t)
    BY <2>5, <2>2 DEF Lock
  <2>6. CASE IsSet(t)
    <3>1. boot = "done" /\ currentVal = latch /\ ~Port!OutOfRange(request[t])
      BY <2>0, <2>6, <1>0 DEF IsSet, Writing, ValueKnown
    <3>2. Port!Finish(t, TRUE)
      BY <2>6, <3>1, AnswerFinishes DEF IsSet
    <3>3. Port!Apply(request[t], latch) = latch
      BY <2>6, Zenon DEF IsSet, Port!Apply
    <3> QED BY <2>6, <3>1, <3>2, <3>3, <2>1 DEF IsSet, Port!Succeed
  <2>7. CASE SendLow(t)
    BY <2>7, <2>2 DEF SendLow
  <2>8. CASE SendHigh(t)
    BY <2>8, <2>2 DEF SendHigh
  <2>9. CASE SendFails(t)
    <3>1. boot = "done" /\ currentVal = latch
      BY <2>0, <2>9, <1>0 DEF SendFails, Writing, ValueKnown
    <3>2. Port!Finish(t, FALSE)
      BY <2>9, <3>1, AnswerFinishes DEF SendFails
    <3> QED BY <2>9, <3>2, <2>1 DEF SendFails, Port!Fail
  <2>10. CASE Strobe(t)
    <3>1. currentVal = latch /\ ~Port!OutOfRange(request[t])
          /\ val[t] = Port!Apply(request[t], latch)
      BY <2>0, <2>10, <1>0 DEF Strobe, Writing, ValueKnown
    <3>2. latch' = val[t]
      BY <2>0, <2>10, WordOfBytes DEF Strobe, Writing, TypeOK
    <3>3. Port!Finish(t, TRUE)
      BY <2>10, <3>2, AnswerFinishes DEF Strobe
    <3> QED BY <3>1, <3>2, <3>3, <2>1 DEF Port!Succeed
  <2>11. CASE Return(t)
    <3>1. status[t] = "done" /\ status' = [status EXCEPT ![t] = "idle"]
      BY <2>11, StatusMoves, StatusIs DEF Return, status
    <3> QED BY <2>11, <3>1 DEF Return, Port!Next, Port!Return, Port!NoResult, status
  <2>12. CASE AdcRead(t)
    BY <2>12 DEF AdcRead, Port!portVars
  <2> QED
    BY <1>4, <2>3, <2>4, <2>5, <2>6, <2>7, <2>8, <2>9, <2>10, <2>11, <2>12 DEF Access
<1>5. CASE UNCHANGED vars
  BY <1>5 DEF vars, Port!portVars
<1> QED BY <1>1, <1>2, <1>3, <1>4, <1>5 DEF Next

\* The shift register is an output port: each call takes effect on the pins at
\* one instant, the strobe, or not at all, and its caller is told which.
THEOREM Refinement == Spec => ImplementsPort
<1>1. Init => Port!Init
  BY StatusIs DEF Init, Port!Init, Bits
<1>2. TypeOK /\ IInv /\ [Next]_vars => [Port!Next]_(Port!portVars)
  BY StepRefines
<1> QED BY <1>1, <1>2, TypeCorrect, Invariance, PTL DEF Spec, Port!Spec, ImplementsPort

=============================================================================
