----------------------------- MODULE MCShiftReg -----------------------------
(* Small instances of ShiftReg: bytes of one or two bits. *)
EXTENDS ShiftReg

Bit(o, b)  == [op |-> o, bit |-> b, mask |-> {}]
Word1(o, m) == [op |-> o, bit |-> 0, mask |-> m]

\* One-bit bytes: the register has bits 0 and 1, and bit 2 is out of range.
SmallRequests ==
  {Bit("set", 0), Bit("clear", 1), Bit("toggle", 1), Bit("set", 2), Bit("isSet", 1),
   Word1("|=", {1}), Word1("&=", {0}), Word1("^=", {0, 1})}

\* Two-bit bytes, the calls brewctl makes: bit 0 is the backlight, bits 2 and 3
\* are effectors.
ProgramRequests == {Bit(o, b) : o \in {"set", "clear"}, b \in {0, 2, 3}}

=============================================================================
