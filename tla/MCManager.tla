----------------------------- MODULE MCManager ------------------------------
(* What the session manager works with, for two sessions and a few texts.      *)
EXTENDS Manager

CONSTANTS Days      \* the remaining times of sessions: so many days, 7 hours

\* Two queries with the same names in another order.
TwoQueries == {"forward", "backward"}
TheirColumns == [q \in TwoQueries |-> IF q = "forward" THEN <<"id", "type">> ELSE <<"type", "id">>]
TheirRows == [q \in TwoQueries |-> IF q = "forward" THEN 2 ELSE 1]

Letters(n, c) == [i \in 1 .. n |-> c]
SomeSessions == <<[gyle |-> 7, name |-> Letters(21, 97), type |-> "ferment"],
                  [gyle |-> 123, name |-> Letters(3, 98), type |-> "serve"]>>
SomeAmbients == {9999, -10}
SomeVessels  == {185, -2731}
SomeTimes    == {0} \cup {25200 + 86400 * d : d \in Days}
SomePlaces   == 0 .. 10 \cup {12, 14, 16, 18, 21, 42}

\* With fewer than a hundred days the readings fit.
ASSUME DaysFit == (\A d \in Days : d < 100) => ShortTexts
=============================================================================
