----------------------------- MODULE OutputPort -----------------------------
(***************************************************************************)
(* What the rest of brewctl may assume of the shift register: a set of     *)
(* output bits, changed by calls that take effect at one instant or not    *)
(* at all.  ShiftReg.tla implements it, byte by byte, over the SPI bus;    *)
(* Session.tla uses it.                                                    *)
(***************************************************************************)
EXTENDS Integers

CONSTANTS
  Threads,      \* the threads that call the port
  LenBits,      \* number of output bits, SR_LEN_BITS in the source
  Requests      \* the calls that may be made, see RequestType

Bits == 0 .. LenBits - 1

BitOps  == {"set", "clear", "toggle", "isSet"}   \* these name one bit ...
WordOps == {"|=", "&=", "^="}                    \* ... these a whole word

RequestType ==
  [op : BitOps, bit : Nat, mask : {{}}] \cup
  [op : WordOps, bit : {0}, mask : SUBSET Bits]

OutOfRange(r) == r.op \in BitOps /\ r.bit >= LenBits

\* The word that is to be output when request r is made of the word v.
Apply(r, v) ==
  CASE r.op = "set"    -> v \cup {r.bit}
    [] r.op = "clear"  -> v \ {r.bit}
    [] r.op = "toggle" -> IF r.bit \in v THEN v \ {r.bit} ELSE v \cup {r.bit}
    [] r.op = "isSet"  -> v
    [] r.op = "|="     -> v \cup r.mask
    [] r.op = "&="     -> v \cap r.mask
    [] r.op = "^="     -> (v \ r.mask) \cup (r.mask \ v)

\* What the caller gets: a flag from a bit operation, the word that is output
\* afterwards from a word operation.
Result(r, ok, v) ==
  [ok  |-> r.op \in BitOps /\ ok /\ (r.op = "isSet" => r.bit \in v),
   val |-> IF r.op \in WordOps THEN v ELSE {}]

NoResult   == [ok |-> FALSE, val |-> {}]
ResultType == [ok : BOOLEAN, val : SUBSET Bits]

-----------------------------------------------------------------------------
VARIABLES
  up,       \* init() has succeeded since the program was started
  out,      \* the bits that are on
  status,   \* status[t]: "idle", "pending" (called) or "done" (about to return)
  request,  \* request[t]: the call t last made
  result    \* result[t]: what that call returns

portVars == <<up, out, status, request, result>>

Init ==
  /\ up = FALSE
  /\ out \in SUBSET Bits           \* the outputs keep what a dead program left
  /\ status  = [t \in Threads |-> "idle"]
  /\ request \in [Threads -> Requests]
  /\ result  = [t \in Threads |-> NoResult]

\* Starting up switches every output off, or fails and changes none.
Start ==
  /\ ~up
  /\ up' = TRUE
  /\ out' = {}
  /\ UNCHANGED <<status, request, result>>

Call(t, r) ==
  /\ up
  /\ status[t] = "idle"
  /\ status'  = [status EXCEPT ![t] = "pending"]
  /\ request' = [request EXCEPT ![t] = r]
  /\ UNCHANGED <<up, out, result>>

Finish(t, ok) ==
  /\ status[t] = "pending"
  /\ status' = [status EXCEPT ![t] = "done"]
  /\ result' = [result EXCEPT ![t] = Result(request[t], ok, out')]
  /\ UNCHANGED <<up, request>>

\* The call takes effect, on the outputs as they are at that instant ...
Succeed(t) ==
  /\ ~OutOfRange(request[t])
  /\ out' = Apply(request[t], out)
  /\ Finish(t, TRUE)

\* ... or it fails, and the outputs are as they were.
Fail(t) ==
  /\ out' = out
  /\ Finish(t, FALSE)

Return(t) ==
  /\ status[t] = "done"
  /\ status' = [status EXCEPT ![t] = "idle"]
  /\ result' = [result EXCEPT ![t] = NoResult]
  /\ UNCHANGED <<up, out, request>>

\* The program dies; the outputs stay as they are.
Die ==
  /\ up' = FALSE
  /\ status' = [t \in Threads |-> "idle"]
  /\ result' = [t \in Threads |-> NoResult]
  /\ UNCHANGED <<out, request>>

Next ==
  \/ Start
  \/ \E t \in Threads :
       \/ \E r \in Requests : Call(t, r)
       \/ Succeed(t)
       \/ Fail(t)
       \/ Return(t)
  \/ Die

Spec == Init /\ [][Next]_portVars

=============================================================================
