-------------------------------- MODULE Url ---------------------------------
(* util/url.cc: taking a URL apart, and percent-decoding its arguments. A      *)
(* string is a sequence of character codes.                                    *)
EXTENDS Integers, Sequences, FiniteSetsExt

Hash == 35
Percent == 37
Ampersand == 38
Slash == 47
Colon == 58
EqualsSign == 61
Question == 63

\* FoldLeft() of SequencesExt enumerates all sets of places.
Accumulate(op(_, _), base, s) ==
    LET acc[i \in 0 .. Len(s)] == IF i = 0 THEN base ELSE op(acc[i - 1], s[i])
    IN  acc[Len(s)]

NoPort == -1       \* NO_PORT_SPECIFIED

\* find_first_of(): where one of the characters chars first is; npos is the place
\* after the end, which makes substr() and erase() mean the same.
FindFirst(s, chars) ==
    LET places == {i \in DOMAIN s : s[i] \in chars}
    IN  IF places = {} THEN Len(s) + 1 ELSE Min(places)

Before(s, i) == SubSeq(s, 1, i - 1)
From(s, i)   == SubSeq(s, i, Len(s))

\* What the protocol's "://" leaves; it is looked for in all of the URL.
ProtocolEnd(url) ==
    LET places == {i \in 1 .. Len(url) - 2 : SubSeq(url, i, i + 2) = <<Colon, Slash, Slash>>}
    IN  IF places = {} THEN 0 ELSE Min(places) + 2

\* strtoul(): the number that the leading digits spell.
IsDigit(c) == c \in 48 .. 57
Number(s) ==
    LET digits == Before(s, FindFirst(s, {c \in 0 .. 255 : ~IsDigit(c)}))
    IN  Accumulate(LAMBDA n, c : 10 * n + (c - 48), 0, digits)

\* erase(0, npos + 1) erases nothing: an address without a port is read as one.
Port(host) ==
    LET colon == FindFirst(host, {Colon})
        digits == IF colon > Len(host) THEN host ELSE From(host, colon + 1)
    IN  IF digits = <<>> THEN NoPort ELSE Number(digits)

(***************************************************************************)
(* decode(): a '%' begins a sequence wherever it is; val is a byte.        *)
(***************************************************************************)
HexValue(c) ==
    IF IsDigit(c) THEN c - 48
    ELSE IF c \in 97 .. 102 THEN c - 87
    ELSE IF c \in 65 .. 70 THEN c - 55
    ELSE -1

DecodeStep(d, c) ==
    IF c = Percent THEN [d EXCEPT !.seq = 1]
    ELSE IF d.seq = 0 THEN [d EXCEPT !.ret = Append(@, c)]
    ELSE LET bad == d.bad \/ HexValue(c) = -1
             sum == d.val + (IF HexValue(c) = -1 THEN 0 ELSE HexValue(c))
             val == (IF d.seq = 1 THEN sum * 16 ELSE sum) % 256
         IN  IF d.seq = 2
             THEN [ret |-> IF bad THEN d.ret ELSE Append(d.ret, val),
                   val |-> 0, seq |-> 0, bad |-> FALSE]
             ELSE [d EXCEPT !.val = val, !.seq = 2, !.bad = bad]

Decode(str) ==
    Accumulate(DecodeStep, [ret |-> <<>>, val |-> 0, seq |-> 0, bad |-> FALSE], str).ret

\* Mutant: the query is decoded before it is cut.
Args_DecodeFirst(query) ==
    LET q == Decode(query)
        starts == {i \in DOMAIN q : i = 1 \/ q[i - 1] = Ampersand}
        var(i) == LET rest == From(q, i) IN Before(rest, FindFirst(rest, {Ampersand}))
    IN  [n \in {Before(var(i), FindFirst(var(i), {EqualsSign})) : i \in starts} |-> <<>>]

\* The arguments of a query: a later one replaces an earlier one of the same name.
Args(query) ==
    LET starts   == {i \in DOMAIN query : i = 1 \/ query[i - 1] = Ampersand}
        var(i)   == LET rest == From(query, i) IN Before(rest, FindFirst(rest, {Ampersand}))
        equals(i) == FindFirst(var(i), {EqualsSign})
        name(i)  == Decode(Before(var(i), equals(i)))
        last(n)  == Max({i \in starts : name(i) = n})
    IN  [n \in {name(i) : i \in starts} |-> Decode(From(var(last(n)), equals(last(n)) + 1))]

ParseURL(url) ==
    LET rest   == From(url, ProtocolEnd(url) + 1)
        first  == FindFirst(rest, {Slash, Question, Hash})
        host   == Before(rest, first)
        local  == From(rest, first)
        hash   == FindFirst(local, {Hash})
        noHash == Before(local, hash)
        query  == FindFirst(noHash, {Question})
    IN  [protocol |-> Before(url, ProtocolEnd(url) - 2),
         address  |-> Before(host, FindFirst(host, {Colon})),
         port     |-> Port(host),
         path     |-> Before(noHash, query),
         anchor   |-> From(local, hash + 1),
         args     |-> Args(From(noHash, query + 1))]
=============================================================================
