------------------------------- MODULE Screen -------------------------------
(* application/display.cc: what the session manager's thread draws on the LCD. *)
(* An action is one call of class LCD. The program may be killed at any byte   *)
(* of it, and started again.                                                   *)
EXTENDS Lcd

CONSTANTS
    Sessions,   \* the sessions, in order: [gyle, name, type]
    Ambients,   \* ambient temperatures, in whole degrees, or NoReading
    Vessels,    \* vessels' temperatures, in tenths of a degree, or NoReading
    Remaining,  \* remaining times, in seconds
    Controls,   \* what getTempControlIndicator() returns
    KillAt      \* bound: after how many bytes of a call the program may be killed

VARIABLES
    lcd,        \* the controller
    calls,      \* calls of class LCD that the program is still to make
    proc,       \* "init", "running" or "stopping"
    currentIdx, \* the session that was drawn last; 0 when there is none
    listed,     \* the sessions that the session manager has read at its start
    begun,      \* sessions whose start has come, by the clock
    seen        \* what the last update found

NoReading == 9999

\* What the formats are for: numbers of at most three digits before the point.
Absolute(n) == IF n < 0 THEN -n ELSE n
ThreeDigits == {n \in Nat : n < 1000}
ScreenAssumption ==
    /\ Sessions \in Seq([gyle : ThreeDigits, name : Seq(0 .. 255), type : {"ferment", "condition", "serve"}])
    /\ \A t \in Ambients : t \in Int /\ (t = NoReading \/ Absolute(t) \in ThreeDigits)
    /\ \A t \in Vessels : t \in Int /\ (t = NoReading \/ Absolute(t) \div 10 \in ThreeDigits)
    /\ \A secs \in Remaining : secs \in Nat /\ secs \div 86400 \in ThreeDigits
    /\ Controls \subseteq 0 .. 255 /\ KillAt \subseteq Nat

\* Numbers whose texts keep to the cells that are for them: two digits of a degree of the
\* ambient temperature, and of days.
ShortTexts == /\ \A t \in Ambients : t = NoReading \/ Absolute(t) < 100
              /\ \A secs \in Remaining : secs \div 86400 < 100

vars == <<lcd, calls, proc, currentIdx, listed, begun, seen>>

NothingSeen == [idx |-> 0]

(***************************************************************************)
(* printf()'s formats.                                                     *)
(***************************************************************************)
Decimal(n) == IF n < 10 THEN <<48 + n>>
              ELSE IF n < 100 THEN <<48 + n \div 10, 48 + (n % 10)>>
              ELSE <<48 + n \div 100, 48 + ((n \div 10) % 10), 48 + (n % 10)>>
Padding(text, width, c) == IF Len(text) < width THEN [i \in 1 .. width - Len(text) |-> c] ELSE <<>>
Right(text, width) == Padding(text, width, Blank) \o text
Zeros(n) == Padding(Decimal(n), 2, 48) \o Decimal(n)
Degree == 223
Minus  == 45

ambientText(t) ==       \* "% 3d\xdf""C"
    Right(<<IF t < 0 THEN Minus ELSE Blank>> \o Decimal(Absolute(t)), 3) \o <<Degree, 67>>
vesselText(t) ==        \* "%4.1lf\xdf"
    Right((IF t < 0 THEN <<Minus>> ELSE <<>>) \o Decimal(Absolute(t) \div 10)
          \o <<46, 48 + (Absolute(t) % 10)>>, 4) \o <<Degree>>
Pair(a, unitA, b, unitB) == Right(Decimal(a), 2) \o <<unitA>> \o Zeros(b) \o <<unitB>>
nameText(name) ==       \* "%.20s"
    IF Len(name) <= 20 THEN name ELSE SubSeq(name, 1, 20)
remainingText(type, secs) ==
    IF type = "serve" \/ secs = 0 THEN [i \in 1 .. 6 |-> Blank]
    ELSE IF secs >= 86400 THEN Pair(secs \div 86400, 100, (secs \div 3600) % 24, 104)
    ELSE IF secs >= 3600 THEN Pair(secs \div 3600, 104, (secs \div 60) % 60, 109)
    ELSE Pair(secs \div 60, 109, secs % 60, 115)

getSessionTypeIndicator(type) == CASE type = "ferment" -> 70 [] type = "condition" -> 67
                                   [] type = "serve" -> 83
startsIn   == <<83, 116, 97, 114, 116, 115, 32, 105, 110>>         \* "Starts in"
noSessions == <<78, 111, 32, 115, 101, 115, 115, 105, 111, 110, 115>>
shuttingDown == <<83, 104, 117, 116, 116, 105, 110, 103, 32, 100, 111, 119, 110, 46>>
time == <<49, 50, 58, 51, 52>>      \* "%H:%M"

(***************************************************************************)
(* displayDefault(): the calls it makes, of what it has found.             *)
(***************************************************************************)
DrawActive(session, s) ==
    <<putAt(5, 2, getSessionTypeIndicator(session.type)),
      putAt(7, 2, s.control),
      printAt(8, 2, IF s.vessel = NoReading THEN <<45, 45, 46, 45, Degree>> ELSE vesselText(s.vessel)),
      printAt(14, 2, remainingText(session.type, s.remaining))>>

\* Mutant: only one of the two lines is cleared.
DrawSession_OneLine(s, new) ==
    LET session == Sessions[s.idx]
    IN  (IF new THEN <<clearLine(2)>> ELSE <<>>)
        \o <<printAt(0, 2, <<71>> \o Decimal(session.gyle) \o Padding(Decimal(session.gyle), 3, Blank)),
             printAt(0, 3, nameText(session.name))>>
        \o (IF s.active THEN DrawActive(session, s) ELSE <<printAt(5, 2, startsIn)>>)

DrawSession(s, new) ==
    LET session == Sessions[s.idx]
    IN  (IF new THEN <<clearLine(2), clearLine(3)>> ELSE <<>>)
        \o <<printAt(0, 2, <<71>> \o Decimal(session.gyle) \o Padding(Decimal(session.gyle), 3, Blank)),
             printAt(0, 3, nameText(session.name))>>
        \o (IF s.active THEN DrawActive(session, s) ELSE <<printAt(5, 2, startsIn)>>)

Draw(s, new) ==
    <<printAt(0, 0, time),
      IF s.ambient = NoReading THEN printAt(16, 0, <<45, 45, Degree, 67>>)
                               ELSE printAt(15, 0, ambientText(s.ambient))>>
    \o (IF s.idx = 0 THEN <<printAt(5, 2, noSessions)>> ELSE DrawSession(s, new))

(***************************************************************************)
(* The program.                                                            *)
(***************************************************************************)
Boot(l) == /\ lcd' = l /\ calls' = <<init>> /\ proc' = "init" /\ currentIdx' = 0
           /\ listed' = {} /\ seen' = NothingSeen

Init == /\ lcd = PowerOn /\ calls = <<init>> /\ proc = "init" /\ currentIdx = 0
        /\ listed = {} /\ begun = {} /\ seen = NothingSeen

MakeCall == /\ calls # <<>>
            /\ lcd' = After(lcd, Head(calls)) /\ calls' = Tail(calls)
            /\ UNCHANGED <<proc, currentIdx, listed, begun, seen>>

\* The session that was drawn last has had its remaining time drawn, and nothing has been
\* cleared since.
TimeDrawn == seen.idx # 0 /\ (seen.active \/ seen.over)

\* update(), displayDefault(): which session's turn it is depends on the clock.
Update ==
    /\ calls = <<>> /\ proc \in {"init", "running"} /\ proc' = "running"
    /\ IF proc = "init" THEN listed' \in SUBSET DOMAIN Sessions ELSE UNCHANGED listed
    /\ \E ambient \in Ambients :
          \/ /\ listed' = {}
             /\ seen' = [idx |-> 0, ambient |-> ambient]
          \/ \E idx \in listed' \ begun :
                seen' = [idx |-> idx, active |-> FALSE, ambient |-> ambient,
                         over |-> idx = seen.idx /\ TimeDrawn]
          \/ \E idx \in listed' \cap begun, vessel \in Vessels,
                remaining \in Remaining, control \in Controls :
                seen' = [idx |-> idx, active |-> TRUE, ambient |-> ambient,
                         vessel |-> vessel, remaining |-> remaining, control |-> control]
    /\ calls' = Draw(seen', seen'.idx # currentIdx)
    /\ currentIdx' = seen'.idx
    /\ UNCHANGED <<lcd, begun>>

\* notifyShutdown(), stop()
Stop == /\ calls = <<>> /\ proc = "running" /\ proc' = "stopping"
        /\ calls' = <<clear, printAt(3, 1, shuttingDown), clear>>
        /\ UNCHANGED <<lcd, currentIdx, listed, begun, seen>>

\* The program is killed when some bytes of a call are sent, maybe while E is high
\* for the next one, and another one is started: the constructor of class LCD.
Restart ==
    \/ /\ calls = <<>> /\ Boot(lcd)
       /\ UNCHANGED begun
    \/ /\ calls # <<>>
       /\ \E sent \in KillAt, high \in 0 .. 1 :
            /\ sent + high <= Len(Head(calls))
            /\ Boot(Construct(After(lcd, SubSeq(Head(calls), 1, sent)),
                              SubSeq(Head(calls), sent + 1, sent + high)))
       /\ UNCHANGED begun

SessionStarts == /\ calls = <<>> /\ proc = "running"
                 /\ \E i \in listed \ begun : begun' = begun \cup {i}
                 /\ UNCHANGED <<lcd, calls, proc, currentIdx, listed, seen>>

\* The clock is set back, before a session's start.
ClockSetBack == /\ calls = <<>> /\ proc = "running"
                /\ \E i \in listed \cap begun : begun' = begun \ {i}
                /\ UNCHANGED <<lcd, calls, proc, currentIdx, listed, seen>>

Next == MakeCall \/ Update \/ Stop \/ Restart \/ SessionStarts \/ ClockSetBack
Spec == Init /\ [][Next]_vars

(***************************************************************************)
(* Properties.                                                             *)
(***************************************************************************)
TypeOK ==
    /\ lcd.bits \in {4, 8} /\ lcd.half \in 0 .. 15 \cup {NoHalf} /\ lcd.lines \in {1, 2}
    /\ lcd.on \in BOOLEAN /\ lcd.forward \in BOOLEAN /\ lcd.follow \in BOOLEAN
    /\ lcd.shift \in 0 .. 39 /\ lcd.cg \in BOOLEAN /\ lcd.addr \in 0 .. 127
    /\ lcd.ddram \in [DDRAM -> 0 .. 255] /\ lcd.font \in [1 .. 64 -> 0 .. 31]
    /\ proc \in {"init", "running", "stopping"} /\ currentIdx \in 0 .. Len(Sessions)
    /\ listed \cup begun \subseteq DOMAIN Sessions

\* lcd.cc:208: init() has the controller take bytes, two lines, from left to right, with
\* the symbols defined, whatever the program that was killed had sent last: a half
\* of a byte, or a character that is taken for a command.
InitRecovers ==
    calls = <<>> =>
        /\ lcd.bits = 8 /\ lcd.half = NoHalf /\ lcd.lines = 2 /\ lcd.on
        /\ lcd.forward /\ ~lcd.follow /\ lcd.shift = 0
        /\ SubSeq(lcd.font, 1, Len(charData)) = charData

\* Some texts are shorter than others at the same place, and leave the end of what
\* was there: of "Starts in", of a vessel's and of an ambient temperature.
NotOverwritten == {<<6, 2>>, <<13, 2>>, <<15, 0>>}

\* "Starts in" leaves the remaining time, where the clock was set back while the session
\* was the one that is drawn.
LeftOver(s) == NotOverwritten \cup (IF s.idx # 0 /\ ~s.active /\ s.over
                                    THEN {<<x, 2>> : x \in 14 .. 19} ELSE {})

\* What the controller comes to when the calls of D are made.
Finish(l, D) ==
    LET after[i \in 0 .. Len(D)] == IF i = 0 THEN l ELSE After(after[i - 1], D[i])
    IN  after[Len(D)]

\* display.cc:180: between two updates the screen is what the last one would draw on an
\* empty screen, in all but three cells, and after the clock was set back six more;
\* nothing of another session is left.
LooksAsDrawnAfresh ==
    calls = <<>> /\ proc = "running" =>
        LET empty == [PowerOn EXCEPT !.lines = 2]
            fresh == Finish(empty, Draw(seen, TRUE))
        IN  \A x \in 0 .. Width - 1, y \in 0 .. Height - 1 :
                <<x, y>> \notin LeftOver(seen) => Cell(lcd, x, y) = Cell(fresh, x, y)

\* lcd.cc:333: printAt() writes text at a place of one line; display.cc writes
\* nothing into the second line before it shuts down.
StaysInItsLine ==
    calls = <<>> /\ proc = "running" => \A x \in 0 .. Width - 1 : Cell(lcd, x, 1) = Blank
=============================================================================
