-------------------------------- MODULE Lcd ---------------------------------
(* peripherals/lcd.cc as operators: the bytes that each call of class LCD      *)
(* sends, and what the controller, an HD44780, makes of a byte. A killed       *)
(* program leaves the pins, and the controller, as they are.                   *)
EXTENDS Integers, Sequences

Width == 20
Height == 4
Blank == 32

\* Commands and their arguments.
CLEAR == 1
HOME == 2
ENTRY_MODE_SET == 4
DISPLAY_CONTROL == 8
SHIFT == 16
FUNCTION_SET == 32
SET_CGRAM_ADDR == 64
SET_DDRAM_ADDR == 128
INCREMENT == 2
DISP_ENABLE == 4
DATA_LEN == 16
NUM_LINES == 8

charData == <<4, 4, 14, 14, 31, 31, 0, 0,      0, 31, 31, 14, 14, 4, 4, 0,
              4, 14, 31, 0, 4, 14, 31, 0,      31, 14, 4, 0, 31, 14, 4, 0,
              2, 6, 14, 30, 14, 6, 2, 0,       8, 12, 14, 15, 14, 12, 8, 0,
              31, 0, 14, 0, 4, 4, 4, 0>>

(***************************************************************************)
(* The controller. half is the first half of a byte that comes in two; cg  *)
(* tells whether addr is one of the symbols' memory.                       *)
(***************************************************************************)
NoHalf == -1
DDRAM == 0 .. 39 \cup 64 .. 103
PowerOn == [bits |-> 8, half |-> NoHalf, lines |-> 1, on |-> FALSE, forward |-> TRUE,
            follow |-> FALSE, shift |-> 0, cg |-> FALSE, addr |-> 0,
            ddram |-> [a \in DDRAM |-> Blank], font |-> [i \in 1 .. 64 |-> 0]]

Has(c, arg) == (c \div arg) % 2 = 1
Towards(a, forward) ==
    IF forward THEN CASE a = 39 -> 64 [] a = 103 -> 0 [] OTHER -> (a + 1) % 128
               ELSE CASE a = 64 -> 39 [] a = 0 -> 103 [] OTHER -> a - 1
Shifted(l, right) == [l EXCEPT !.shift = (@ + (IF right THEN 39 ELSE 1)) % 40]

Instruct(l, c) ==
    CASE c >= SET_DDRAM_ADDR -> [l EXCEPT !.addr = c - SET_DDRAM_ADDR, !.cg = FALSE]
      [] c \in 64 .. 127 -> [l EXCEPT !.addr = c - SET_CGRAM_ADDR, !.cg = TRUE]
      [] c \in 32 .. 63 -> [l EXCEPT !.bits = IF Has(c, DATA_LEN) THEN 8 ELSE 4,
                                     !.lines = IF Has(c, NUM_LINES) THEN 2 ELSE 1]
      [] c \in 16 .. 31 -> IF Has(c, 8) THEN Shifted(l, Has(c, 4))
                           ELSE [l EXCEPT !.addr = Towards(@, Has(c, 4))]
      [] c \in 8 .. 15 -> [l EXCEPT !.on = Has(c, DISP_ENABLE)]
      [] c \in 4 .. 7 -> [l EXCEPT !.forward = Has(c, INCREMENT), !.follow = Has(c, 1)]
      [] c \in 2 .. 3 -> [l EXCEPT !.addr = 0, !.cg = FALSE, !.shift = 0]
      [] c = CLEAR -> [l EXCEPT !.ddram = [a \in DDRAM |-> Blank], !.addr = 0, !.cg = FALSE,
                                !.shift = 0, !.forward = TRUE]
      [] c = 0 -> l

Store(l, data) ==
    IF l.cg THEN [l EXCEPT !.font = [@ EXCEPT ![(l.addr % 64) + 1] = data],
                           !.addr = (@ + (IF l.forward THEN 1 ELSE 63)) % 64]
    ELSE LET r == IF l.follow THEN Shifted(l, ~l.forward) ELSE l
         IN  [r EXCEPT !.addr = Towards(@, l.forward),
                       !.ddram = IF l.addr \in DDRAM THEN [@ EXCEPT ![l.addr] = data] ELSE @]

\* The falling edge of E: eight bits, or one half of them, are taken from the bus.
Latch(l, byte) ==
    IF l.bits = 4 /\ l.half = NoHalf THEN [l EXCEPT !.half = byte.data \div 16]
    ELSE LET data == IF l.bits = 4 THEN 16 * l.half + byte.data \div 16 ELSE byte.data
             r    == [l EXCEPT !.half = NoHalf]
         IN  IF byte.rs THEN Store(r, data) ELSE Instruct(r, data)

After(l, bytes) ==
    LET after[i \in 0 .. Len(bytes)] == IF i = 0 THEN l ELSE Latch(after[i - 1], bytes[i])
    IN  after[Len(bytes)]

(***************************************************************************)
(* LCD: what each call sends.                                              *)
(***************************************************************************)
writeCommand(cmd) == <<[rs |-> FALSE, data |-> cmd]>>
Commands(cmds) == [i \in DOMAIN cmds |-> [rs |-> FALSE, data |-> cmds[i]]]
Data(text)     == [i \in DOMAIN text |-> [rs |-> TRUE, data |-> text[i]]]

\* The constructor lets RS fall, then E: if E was high, what is on the bus is
\* taken for a command.
Construct(l, raised) == After(l, [i \in DOMAIN raised |-> [rs |-> FALSE, data |-> raised[i].data]])

initCommands == <<FUNCTION_SET + DATA_LEN + NUM_LINES, DISPLAY_CONTROL, CLEAR,
                  ENTRY_MODE_SET + INCREMENT, SET_DDRAM_ADDR, DISPLAY_CONTROL + DISP_ENABLE>>

\* Mutant: the function is set once, not three times.
init_Once == Commands(<<FUNCTION_SET + DATA_LEN>> \o initCommands \o <<HOME, SET_CGRAM_ADDR>>)
             \o Data(charData)

init == Commands([i \in 1 .. 3 |-> FUNCTION_SET + DATA_LEN] \o initCommands
                 \o <<HOME, SET_CGRAM_ADDR>>)
        \o Data(charData)

clear == writeCommand(CLEAR)

Address(x, y) == x + (IF y \in {2, 3} THEN 20 ELSE 0) + (IF y \in {1, 3} THEN 64 ELSE 0)
OnScreen(x, y) == x \in 0 .. Width - 1 /\ y \in 0 .. Height - 1
setCursorPos(x, y) == writeCommand(SET_DDRAM_ADDR + Address(x, y))

\* vsnprintf() returns the length of the text, however much of it is in the buffer:
\* a text that is one character too long is ended by the buffer's 0. (What comes
\* after that is undefined; no text of the display is longer.)
printAt(x, y, text) ==
    IF ~OnScreen(x, y) THEN <<>>
    ELSE setCursorPos(x, y)
         \o Data(IF Len(text) <= Width - x THEN text ELSE SubSeq(text, 1, Width - x) \o <<0>>)

putAt(x, y, c) == IF OnScreen(x, y) THEN setCursorPos(x, y) \o Data(<<c>>) ELSE <<>>

clearLine(y) == printAt(0, y, [i \in 1 .. Width |-> Blank])

Cell(l, x, y) == l.ddram[Address(x, y)]
=============================================================================
