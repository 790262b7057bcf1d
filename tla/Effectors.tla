------------------------------ MODULE Effectors ------------------------------
(***************************************************************************)
(* The heaters and coolers (peripherals/effector.cc, defaulteffector.cc).  *)
(* Each drives one output of the shift register; what a call of the        *)
(* register does to the outputs is OutputPort's: all of it, or nothing.    *)
(*                                                                         *)
(* Which output that is the database says, and nothing keeps it from       *)
(* giving one to several effectors, of this session or of others.          *)
(***************************************************************************)
EXTENDS Integers

CONSTANTS
  Effector,   \* the effectors of the session
  Wirings,    \* what the database may have: their channels, and the outputs of
              \* the effectors of other sessions
  MaxFaults   \* bound on the number of writes that fail

EffectorBitOffset == 8      \* EFFECTOR_BIT_OFFSET
LenBits           == 16     \* SR_LEN_BITS

ASSUME EffectorAssumption ==
  /\ Wirings \subseteq [channel : [Effector -> Nat], others : SUBSET (0 .. LenBits - 1)]
  /\ MaxFaults \in Nat

VARIABLES
  channel,    \* channel[e]: channel_
  others,     \* the outputs of other sessions' effectors
  fitted,     \* effectors the database has; the others are DefaultEffectors
  enabled,    \* enabled_: not application.disable_effectors
  state,      \* state[e]: state_
  latch,      \* outputs that are on
  stuck,      \* stuck[e]: the last call on e was to switch it off, and failed
  faults      \* number of writes that have failed

effectorVars == <<channel, others, fitted, enabled, state, latch, stuck, faults>>

Bit(e) == EffectorBitOffset + channel[e]
On(e)  == e \in fitted /\ Bit(e) \in latch

\* No other session has the effector's output, and no other effector at all.
Ours(e)  == Bit(e) \notin others
Alone(e) == Ours(e) /\ \A f \in fitted \ {e} : channel[f] # channel[e]

EffectorsInit ==
  /\ \E w \in Wirings : channel = w.channel /\ others = w.others
  /\ fitted \in SUBSET Effector
  /\ enabled \in BOOLEAN
  /\ state = [e \in Effector |-> FALSE]
  /\ latch = {}                       \* ShiftReg::init() has succeeded
  /\ stuck = [e \in Effector |-> FALSE]
  /\ faults = 0

EffectorsTypeOK ==
  /\ [channel |-> channel, others |-> others] \in Wirings
  /\ fitted \in SUBSET Effector
  /\ enabled \in BOOLEAN
  /\ state \in [Effector -> BOOLEAN]
  /\ latch \subseteq others \cup {Bit(e) : e \in Effector}
  /\ stuck \in [Effector -> BOOLEAN]
  /\ faults \in 0 .. MaxFaults

-----------------------------------------------------------------------------
\* DefaultEffector::activate(): nothing, successfully.
ActivateDefault(e) ==
  /\ e \notin fitted
  /\ UNCHANGED effectorVars

\* Effector::activate(): the output first, if effectors are enabled, ...
ActivateOk(e, on) ==
  /\ e \in fitted
  /\ enabled => Bit(e) < LenBits
  /\ latch' = IF ~enabled THEN latch
              ELSE IF on THEN latch \cup {Bit(e)} ELSE latch \ {Bit(e)}
  /\ state' = [state EXCEPT ![e] = on]
  /\ stuck' = [stuck EXCEPT ![e] = FALSE]
  /\ UNCHANGED <<channel, others, fitted, enabled, faults>>

\* A mutant of the next definition: state_ is set before the output is written.
ActivateFails_StateFirst(e, on) ==
  /\ e \in fitted
  /\ enabled
  /\ \/ Bit(e) < LenBits /\ faults < MaxFaults /\ faults' = faults + 1
     \/ Bit(e) >= LenBits /\ UNCHANGED faults
  /\ state' = [state EXCEPT ![e] = on]
  /\ stuck' = [stuck EXCEPT ![e] = ~on]
  /\ UNCHANGED <<channel, others, fitted, enabled, latch>>

\* ... and if that fails, on the bus or because there is no such bit, state_
\* stays as it is.
ActivateFails(e, on) ==
  /\ e \in fitted
  /\ enabled
  /\ \/ /\ Bit(e) < LenBits
        /\ faults < MaxFaults
        /\ faults' = faults + 1
     \/ /\ Bit(e) >= LenBits
        /\ UNCHANGED faults
  /\ stuck' = [stuck EXCEPT ![e] = ~on]
  /\ UNCHANGED <<channel, others, fitted, enabled, state, latch>>

\* The call activate(on) of effector e, with result ok.
Activate(e, on, ok) ==
  \/ ok /\ (ActivateDefault(e) \/ ActivateOk(e, on))
  \/ ~ok /\ ActivateFails(e, on)

\* The thread runs other sessions, which switch their own outputs.
ActivateOthers ==
  /\ enabled
  /\ latch' \in {(latch \ others) \cup on : on \in SUBSET others}
  /\ UNCHANGED <<channel, others, fitted, enabled, state, stuck, faults>>

=============================================================================
