----------------------------- MODULE MCServices -----------------------------
(* The services, with requests that URLs are hard to make of.                  *)
EXTENDS Services

\* Requests whose arguments are made of the characters that URLs are cut at; "k" is
\* the name that is asked for.
Hash == 35
Percent == 37
Ampersand == 38
Slash == 47
Colon == 58
EqualsSign == 61
Question == 63
KeyArg == <<107>>
Names  == {<<>>, KeyArg, KeyArg \o <<EqualsSign>>, <<Ampersand, Colon, Slash, Slash>>, <<Percent, 107>>}
Values == {<<>>, <<Hash, Question>>, <<Ampersand>> \o KeyArg, KeyArg \o <<EqualsSign>>}
ArgLists == {<<>>} \cup {<<<<n, v>>>> : n \in Names, v \in Values}
                   \cup {<<<<n, v>>, <<m, <<>>>>>> : n, m \in Names, v \in Values}
SomeRequests == [method : {"GET", "BREW"}, path : {<<Slash, 111>>, <<Slash>>, <<Slash, 120>>},
                 args : ArgLists]
=============================================================================
