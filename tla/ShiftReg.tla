------------------------------ MODULE ShiftReg ------------------------------
(***************************************************************************)
(* The pair of 74xx595 shift registers that drive the effectors and the    *)
(* LCD backlight (peripherals/shiftreg.cc), on the SPI bus they share with *)
(* the ADC (peripherals/spiport.cc, peripherals/adc.cc).                   *)
(*                                                                         *)
(* A word is the set of its bits that are 1.  The registers are chained:   *)
(* a byte sent on the bus goes into the near register and pushes what was  *)
(* there into the far one, and a strobe of RCLK copies both to the output  *)
(* pins.  Nothing selects the registers: the bytes of an ADC transfer run  *)
(* through them too, and do no harm unless RCLK is strobed.                *)
(*                                                                         *)
(* innerLock_ is left out: write() is only ever called with lock_ held.    *)
(***************************************************************************)
EXTENDS Integers

CONSTANTS
  Threads,    \* the threads that use the bus
  ByteBits,   \* bits in a byte: 8
  Requests,   \* calls made of the register, see RequestType in OutputPort
  AdcReads,   \* whether the threads read the ADC too
  NoThread    \* holder of a free lock

LenBits == 2 * ByteBits

VARIABLES
  ready,      \* ready_
  currentVal, \* currentVal_
  near, far,  \* contents of the two shift stages
  latch,      \* the output pins
  lock,       \* holder of lock_
  pc,         \* pc[t]: where thread t is
  request,    \* request[t]: arguments of t's call
  val,        \* val[t]: the word t's call is writing
  result,     \* result[t]: what t's call returns
  boot        \* what init() does next: "off" (nothing sent), "high", "strobe";
              \* or how it ended: "done", "failed"

vars == <<ready, currentVal, near, far, latch, lock, pc, request, val, result, boot>>
bus  == <<near, far>>

\* What the caller can tell of where a thread is.
Status(where) ==
  CASE where = "idle"   -> "idle"
    [] where = "return" -> "done"
    [] OTHER            -> "pending"

Port == INSTANCE OutputPort WITH
          up     <- boot = "done",
          out    <- latch,
          status <- [t \in Threads |-> Status(pc[t])]

Bits  == Port!Bits
Byte  == SUBSET (0 .. ByteBits - 1)

ASSUME BusAssumption ==
  /\ ByteBits \in Nat
  /\ Requests \subseteq Port!RequestType
  /\ NoThread \notin Threads
  /\ AdcReads \in BOOLEAN

\* ADC and ShiftReg each have a lock of their own, so the bus itself is not
\* protected: it is the program that reads the ADC and drives the outputs from
\* the same thread, the session manager's.
ASSUME OneThreadDrivesBus ==
  AdcReads => \A s, t \in Threads : s = t

\* A mutant of the next definition: the whole word is sent as one byte.
LowByte_NotTruncated(v) == v

\* uint16_t to uint8_t, and >> 8
LowByte(v)  == v \cap 0 .. ByteBits - 1
HighByte(v) == {b \in 0 .. ByteBits - 1 : b + ByteBits \in v}

\* The word on the pins once n and f have been strobed out of the stages.
Word(n, f) == f \cup {b + ByteBits : b \in n}

-----------------------------------------------------------------------------
\* SPIPort::transmitByte(): the byte is shifted in.
Shift(byte) ==
  /\ near' = byte
  /\ far'  = near

\* The ioctl fails, before or after the byte has gone out.
ShiftFails(byte) == Shift(byte) \/ UNCHANGED bus

Init ==
  /\ ready = FALSE
  /\ currentVal \in SUBSET Bits          \* not initialised by the constructor
  /\ near \in Byte /\ far \in Byte
  /\ latch \in SUBSET Bits
  /\ lock = NoThread
  /\ pc      = [t \in Threads |-> "idle"]
  /\ request \in [Threads -> Requests]
  /\ val     = [t \in Threads |-> {}]
  /\ result  = [t \in Threads |-> Port!NoResult]
  /\ boot = "off"

-----------------------------------------------------------------------------
\* ShiftReg::init(): no lock, but no other thread uses the register yet.  When
\* it fails the program ends.
InitByte ==
  /\ \/ boot = "off"  /\ boot' = "high"
     \/ boot = "high" /\ boot' = "strobe"
  /\ Shift({})
  /\ UNCHANGED <<ready, currentVal, latch, lock, pc, request, val, result>>

InitFails ==
  /\ boot \in {"off", "high"}
  /\ boot' = "failed"
  /\ ShiftFails({})
  /\ UNCHANGED <<ready, currentVal, latch, lock, pc, request, val, result>>

InitStrobe ==
  /\ boot = "strobe"
  /\ latch' = Word(near, far)
  /\ ready' = TRUE
  /\ currentVal' = {}
  /\ boot' = "done"
  /\ UNCHANGED <<near, far, lock, pc, request, val, result>>

-----------------------------------------------------------------------------
Call(t, r) ==
  /\ boot = "done"
  /\ pc[t] = "idle"
  /\ pc' = [pc EXCEPT ![t] = "called"]
  /\ request' = [request EXCEPT ![t] = r]
  /\ UNCHANGED <<ready, currentVal, near, far, latch, lock, val, result, boot>>

\* t is about to return, with the result its call has on word v.
Answer(t, ok, v) ==
  /\ pc' = [pc EXCEPT ![t] = "return"]
  /\ result' = [result EXCEPT ![t] = Port!Result(request[t], ok, v)]

\* set(), clear(), toggle(), isSet(): bit >= SR_LEN_BITS
Reject(t) ==
  /\ pc[t] = "called"
  /\ Port!OutOfRange(request[t])
  /\ Answer(t, FALSE, {})
  /\ UNCHANGED <<ready, currentVal, near, far, latch, lock, request, val, boot>>

\* A mutant of the next definition: the word is made without taking the lock.
Lock_Shared(t) ==
  /\ pc[t] = "called"
  /\ ~Port!OutOfRange(request[t])
  /\ val' = [val EXCEPT ![t] = Port!Apply(request[t], currentVal)]
  /\ pc' = [pc EXCEPT ![t] = "locked"]
  /\ UNCHANGED <<ready, currentVal, near, far, latch, lock, request, result, boot>>

\* lock_ is taken, and the word to write made from currentVal_.
Lock(t) ==
  /\ pc[t] = "called"
  /\ ~Port!OutOfRange(request[t])
  /\ lock = NoThread
  /\ lock' = t
  /\ val' = [val EXCEPT ![t] = Port!Apply(request[t], currentVal)]
  /\ pc' = [pc EXCEPT ![t] = "locked"]
  /\ UNCHANGED <<ready, currentVal, near, far, latch, request, result, boot>>

\* isSet() looks at currentVal_ and nothing else.
IsSet(t) ==
  /\ pc[t] = "locked"
  /\ request[t].op = "isSet"
  /\ Answer(t, TRUE, currentVal)
  /\ UNCHANGED <<ready, currentVal, near, far, latch, lock, request, val, boot>>

\* write(): the low byte, then the high byte ...
SendLow(t) ==
  /\ pc[t] = "locked"
  /\ request[t].op # "isSet"
  /\ ready
  /\ Shift(LowByte(val[t]))
  /\ pc' = [pc EXCEPT ![t] = "high"]
  /\ UNCHANGED <<ready, currentVal, latch, lock, request, val, result, boot>>

SendHigh(t) ==
  /\ pc[t] = "high"
  /\ Shift(HighByte(val[t]))
  /\ pc' = [pc EXCEPT ![t] = "strobe"]
  /\ UNCHANGED <<ready, currentVal, latch, lock, request, val, result, boot>>

\* A mutant of the next definition: currentVal_ is set before the bytes are sent.
SendFails_ValueFirst(t) ==
  /\ pc[t] \in {"locked", "high"}
  /\ request[t].op # "isSet"
  /\ currentVal' = val[t]
  /\ Answer(t, FALSE, currentVal)
  /\ UNCHANGED <<ready, near, far, latch, lock, request, val, boot>>

\* ... either of which may fail: currentVal_ stays and RCLK is not strobed.
SendFails(t) ==
  /\ \/ /\ pc[t] = "locked"
        /\ request[t].op # "isSet"
        /\ IF ready THEN ShiftFails(LowByte(val[t])) ELSE UNCHANGED bus
     \/ /\ pc[t] = "high"
        /\ ShiftFails(HighByte(val[t]))
  /\ Answer(t, FALSE, currentVal)
  /\ UNCHANGED <<ready, currentVal, latch, lock, request, val, boot>>

Strobe(t) ==
  /\ pc[t] = "strobe"
  /\ currentVal' = val[t]
  /\ latch' = Word(near, far)
  /\ Answer(t, TRUE, currentVal')
  /\ UNCHANGED <<ready, near, far, lock, request, val, boot>>

\* The lock_guard is destroyed, with the call's local variables.
Return(t) ==
  /\ pc[t] = "return"
  /\ pc' = [pc EXCEPT ![t] = "idle"]
  /\ lock' = IF lock = t THEN NoThread ELSE lock
  /\ val' = [val EXCEPT ![t] = {}]
  /\ result' = [result EXCEPT ![t] = Port!NoResult]
  /\ UNCHANGED <<ready, currentVal, near, far, latch, request, boot>>

\* A mutant of the next definition: the ADC is read between the bytes of a write too, as
\* another thread would.
AdcRead_Anytime(t) ==
  /\ AdcReads
  /\ boot = "done"
  /\ near' \in Byte /\ far' \in Byte
  /\ UNCHANGED <<ready, currentVal, latch, lock, pc, request, val, result, boot>>

\* ADC::read(): three bytes on the same bus; the last two end in the stages.
AdcRead(t) ==
  /\ AdcReads
  /\ boot = "done"
  /\ pc[t] = "idle"
  /\ near' \in Byte /\ far' \in Byte
  /\ UNCHANGED <<ready, currentVal, latch, lock, pc, request, val, result, boot>>

\* The process is killed and started again; pins and stages keep their bits.
Restart ==
  /\ boot' = "off"
  /\ ready' = FALSE
  /\ currentVal' \in SUBSET Bits
  /\ lock' = NoThread
  /\ pc' = [t \in Threads |-> "idle"]
  /\ val' = [t \in Threads |-> {}]
  /\ result' = [t \in Threads |-> Port!NoResult]
  /\ UNCHANGED <<near, far, latch, request>>

Access(t) ==
  \/ \E r \in Requests : Call(t, r)
  \/ Reject(t) \/ Lock(t) \/ IsSet(t) \/ SendLow(t) \/ SendHigh(t)
  \/ SendFails(t) \/ Strobe(t) \/ Return(t) \/ AdcRead(t)

Next == InitByte \/ InitFails \/ InitStrobe \/ Restart \/ \E t \in Threads : Access(t)

Spec == Init /\ [][Next]_vars

-----------------------------------------------------------------------------
PC == {"idle", "called", "locked", "high", "strobe", "return"}

TypeOK ==
  /\ ready \in BOOLEAN
  /\ currentVal \in SUBSET Bits
  /\ near \in Byte /\ far \in Byte
  /\ latch \in SUBSET Bits
  /\ lock \in Threads \cup {NoThread}
  /\ pc \in [Threads -> PC]
  /\ request \in [Threads -> Requests]
  /\ val \in [Threads -> SUBSET Bits]
  /\ result \in [Threads -> Port!ResultType]
  /\ boot \in {"off", "high", "strobe", "done", "failed"}

\* Whenever no call is at work on the register, the word the program believes
\* is output (currentVal_) is the word on the pins: in spite of writes that
\* fail half-way, of ADC transfers that run through the stages, of restarts.
OutputKnown == ready /\ lock = NoThread => latch = currentVal

\* Every call takes effect on the pins at one instant, on the bits that were
\* there at that instant, and reports what it did: one that fails changed
\* nothing, and no concurrent call is lost.
ImplementsPort == Port!Spec

=============================================================================
