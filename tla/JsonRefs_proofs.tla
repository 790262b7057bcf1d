--------------------------- MODULE JsonRefs_proofs ---------------------------
(* Proofs about the references of the JSON values, for any number of values,   *)
(* wrappers and keys, and whatever clients do with them.                       *)
EXTENDS JsonRefs, FiniteSetTheorems, TLAPS

\* How often a call is on the stack.
Times(c, s) == Cardinality({i \in DOMAIN s : s[i] = c})
\* One when it is so, and zero otherwise.
One(b) == IF b THEN 1 ELSE 0

\* The maps from some of the keys to members of T.
Partial(T) == UNION {[K -> T] : K \in SUBSET Key}
\* The C++ objects around the C library's.
Wraps == [jobj : Value \cup {NULL}, map : Partial(Wrapper), alive : BOOLEAN,
          kind : {"none", "element", "container"}]
\* The calls of the destructors and assignments that are still to be made.
StackCalls == {Put(v) : v \in Value} \cup {Delete(w) : w \in Wrapper} \cup {DecRef(w) : w \in Wrapper}

\* The types of the variables; what is not alive is as at the start.
Types == /\ refs \in [Value -> 0 .. 2] /\ items \in [Value -> Partial(Value)]
         /\ wrap \in [Wrapper -> Wraps] /\ owned \subseteq Wrapper /\ stack \in Seq(StackCalls)
         /\ made \in [values : 0 .. MaxValue, wrappers : 0 .. MaxWrapper]
         /\ orphans \subseteq Value /\ parsed \subseteq Value
         /\ \A w \in Wrapper : wrap[w].alive \/ wrap[w] = Dead

\* A wrapper is the one of a value; a value is in another; a wrapper has another one.
Is(w, v)     == wrap[w].alive /\ wrap[w].jobj = v
In(p, k, v)  == k \in DOMAIN items[p] /\ items[p][k] = v
\* A wrapper has another in its map under the key.
Has(u, k, w) == wrap[u].alive /\ k \in DOMAIN wrap[u].map /\ wrap[u].map[k] = w

\* The children that fromPtr() makes: their wrappers have the reference of the parent's
\* value.
Shared == {v \in parsed : v - 1 \in parsed}

\* A wrapper is about to be freed.
Doomed(w) == Times(Delete(w), stack) > 0 \/ Times(DecRef(w), stack) > 0

\* What has not been made yet is nowhere.
Fresh == /\ \A v \in Value : v > made.values =>
                /\ refs[v] = 0 /\ items[v] = NoItems /\ v \notin orphans /\ v \notin parsed
                /\ \A w \in Wrapper : ~Is(w, v)
                /\ \A p \in Value, k \in Key : ~In(p, k, v)
         /\ \A w \in Wrapper : w > made.wrappers =>
                /\ ~wrap[w].alive /\ w \notin owned
                /\ \A u \in Wrapper, k \in Key : ~Has(u, k, w)

\* A value has one wrapper, and is in one other at most; so is a wrapper.
OneEach ==
    /\ \A v \in Value, w, u \in Wrapper : Is(w, v) /\ Is(u, v) => w = u
    /\ \A v \in Value, p, q \in Value, k, l \in Key : In(p, k, v) /\ In(q, l, v) => p = q /\ k = l
    /\ \A w, u, x \in Wrapper, k, l \in Key : Has(u, k, w) /\ Has(x, l, w) => u = x /\ k = l
    /\ \A v \in orphans, w \in Wrapper : ~Is(w, v)

\* What is in something is owned.
Owned ==
    /\ \A v, p \in Value, k \in Key, w \in Wrapper : Is(w, v) /\ In(p, k, v) => w \in owned
    /\ \A u, w \in Wrapper, k \in Key : Has(u, k, w) => w \in owned \/ ~wrap[w].alive
    /\ \A w \in Wrapper, k \in Key : ~Has(w, k, w)

\* Another wrapper has such a child's; only such a child is freed twice.
SharedOnes ==
    /\ freedTwice \subseteq Shared
    /\ \A v \in Shared, w \in Wrapper : Is(w, v) => w \in owned

\* The references of a value: its wrapper's, that of the value that it is in, the one
\* that nobody will give up, and those that are about to be given up.
InLive(v) == \E p \in Value, k \in Key : refs[p] > 0 /\ In(p, k, v)
\* Some wrapper is around the value.
HasOne(v) == \E w \in Wrapper : Is(w, v)
\* The count of every other value is the number of its owners and of the calls to come.
Counted == \A v \in Value \ Shared :
    refs[v] = One(HasOne(v)) + One(InLive(v)) + One(v \in orphans) + Times(Put(v), stack)

\* As long as a wrapper is not about to be freed, those that it has are there, and are
\* those of the values that its own has.
Agree == \A u \in Wrapper : wrap[u].alive /\ ~Doomed(u) =>
    /\ \A w \in Wrapper, k \in Key : Has(u, k, w) => wrap[w].alive /\ ~Doomed(w)
    /\ \A v \in Value \ parsed, k \in Key : Is(u, v) =>
          /\ (\E w \in Wrapper : Has(u, k, w)) <=> (\E x \in Value : In(v, k, x))
          /\ \A w \in Wrapper, x \in Value : Has(u, k, w) /\ In(v, k, x) => Is(w, x)

\* The inductive invariant.
IInv == Types /\ Fresh /\ OneEach /\ Owned /\ SharedOnes /\ Counted /\ Agree

\* How often a call is in a sequence is a number, and 0 only if it is not in it.
LEMMA TimesType ==
    ASSUME NEW C, NEW s \in Seq(C), NEW c
    PROVE  /\ IsFiniteSet({i \in DOMAIN s : s[i] = c})
           /\ Times(c, s) \in Nat
           /\ Times(c, s) = 0 <=> \A i \in DOMAIN s : s[i] # c
<1> DEFINE T == {i \in DOMAIN s : s[i] = c}
<1>1. Len(s) \in Nat /\ DOMAIN s = 1 .. Len(s)
    OBVIOUS
<1>2. IsFiniteSet(1 .. Len(s))
    BY <1>1, FS_Interval
<1>3. T \in SUBSET (1 .. Len(s))
    BY <1>1
<1> HIDE DEF T
<1>4. IsFiniteSet(T)
    BY <1>2, <1>3, FS_Subset
<1>5. Cardinality(T) \in Nat
    BY <1>4, FS_CardinalityType
<1>6. Cardinality(T) = 0 <=> T = {}
    BY <1>4, FS_EmptySet
<1> QED BY <1>4, <1>5, <1>6 DEF T, Times

\* In two sequences one after the other it is as often as in both.
LEMMA TimesConcat ==
    ASSUME NEW C, NEW s \in Seq(C), NEW t \in Seq(C), NEW c
    PROVE  Times(c, s \o t) = Times(c, s) + Times(c, t)
<1> DEFINE A == {i \in DOMAIN s : s[i] = c}
           B == {i \in DOMAIN t : t[i] = c}
           D == {Len(s) + i : i \in B}
           f == [i \in B |-> Len(s) + i]
<1>1. /\ Len(s) \in Nat /\ DOMAIN s = 1 .. Len(s) /\ Len(t) \in Nat /\ DOMAIN t = 1 .. Len(t)
      /\ Len(s \o t) = Len(s) + Len(t) /\ DOMAIN (s \o t) = 1 .. Len(s) + Len(t)
      /\ \A i \in 1 .. Len(s) + Len(t) : (s \o t)[i] = IF i <= Len(s) THEN s[i] ELSE t[i - Len(s)]
    OBVIOUS
<1>2. {i \in DOMAIN (s \o t) : (s \o t)[i] = c} = A \cup D
    <2>1. \A i \in DOMAIN (s \o t) : (s \o t)[i] = c => i \in A \cup D
        <3> SUFFICES ASSUME NEW i \in 1 .. Len(s) + Len(t), (s \o t)[i] = c PROVE i \in A \cup D
            BY <1>1
        <3>1. CASE i <= Len(s)
            BY <1>1, <3>1
        <3>2. CASE i > Len(s)
            <4>1. i - Len(s) \in B /\ i = Len(s) + (i - Len(s))
                BY <1>1, <3>2
            <4> QED BY <4>1
        <3> QED BY <1>1, <3>1, <3>2
    <2>2. \A i \in A : i \in DOMAIN (s \o t) /\ (s \o t)[i] = c
        BY <1>1
    <2>3. \A i \in B : Len(s) + i \in DOMAIN (s \o t) /\ (s \o t)[Len(s) + i] = c
        BY <1>1
    <2> QED BY <2>1, <2>2, <2>3
<1>3. IsFiniteSet(A) /\ IsFiniteSet(B) /\ Cardinality(A) \in Nat /\ Cardinality(B) \in Nat
    BY TimesType DEF Times
<1>4. IsFiniteSet(D) /\ Cardinality(D) = Cardinality(B)
    <2>1. f \in Bijection(B, D)
        <3>1. f \in Injection(B, D)
            BY <1>1 DEF Injection, IsInjective
        <3>2. f \in Surjection(B, D)
            BY <1>1 DEF Surjection
        <3> QED BY <3>1, <3>2 DEF Bijection
    <2>2. ExistsBijection(B, D)
        BY <2>1 DEF ExistsBijection
    <2> HIDE DEF B, D
    <2> QED BY <1>3, <2>2, FS_Bijection
<1>5. A \cap D = {}
    BY <1>1
<1> HIDE DEF A, B, D
<1>6. Cardinality(A \cup D) = Cardinality(A) + Cardinality(D)
    <2>1. Cardinality(A \cup D) = Cardinality(A) + Cardinality(D) - Cardinality(A \cap D)
        BY <1>3, <1>4, FS_Union
    <2>2. Cardinality(A \cap D) = 0
        BY <1>5, FS_EmptySet
    <2> QED BY <1>3, <1>4, <2>1, <2>2
<1> QED BY <1>2, <1>4, <1>6 DEF Times, A, B

\* A stack of one call has it once.
LEMMA TimesOne ==
    ASSUME NEW C, NEW d \in C, NEW c
    PROVE  Times(c, <<d>>) = One(c = d)
<1>1. {i \in DOMAIN <<d>> : <<d>>[i] = c} = IF c = d THEN {1} ELSE {}
    OBVIOUS
<1> QED BY <1>1, FS_EmptySet, FS_Singleton DEF Times, One

\* Taking the first call off takes one of it.
LEMMA TimesHead ==
    ASSUME NEW C, NEW s \in Seq(C), s # <<>>, NEW c
    PROVE  /\ s = <<Head(s)>> \o Tail(s) /\ Head(s) \in C /\ Tail(s) \in Seq(C)
           /\ Times(c, s) = One(c = Head(s)) + Times(c, Tail(s))
<1>1. s = <<Head(s)>> \o Tail(s) /\ Head(s) \in C /\ Tail(s) \in Seq(C) /\ <<Head(s)>> \in Seq(C)
    OBVIOUS
<1>2. Times(c, <<Head(s)>> \o Tail(s)) = Times(c, <<Head(s)>>) + Times(c, Tail(s))
    BY <1>1, TimesConcat
<1>3. Times(c, <<Head(s)>>) = One(c = Head(s))
    BY <1>1, TimesOne
<1> QED BY <1>1, <1>2, <1>3

\* A sequence of the members of a finite set has each of them once.
LEMMA TimesSetToSeqs ==
    ASSUME NEW S, IsFiniteSet(S), NEW s \in SetToSeqs(S), NEW c
    PROVE  s \in Seq(S) /\ Times(c, s) = One(c \in S)
<1> DEFINE n == Cardinality(S)
<1>1. n \in Nat
    BY FS_CardinalityType
<1>2. s \in [1 .. n -> S] /\ \A i, j \in 1 .. n : i # j => s[i] # s[j]
    BY DEF SetToSeqs
<1>3. IsFiniteSet(1 .. n) /\ Cardinality(1 .. n) = n
    BY <1>1, FS_Interval
<1>4. s \in Injection(1 .. n, S)
    BY <1>2 DEF Injection, IsInjective
<1>5. s \in Surjection(1 .. n, S)
    <2> HIDE DEF n
    <2> QED BY <1>3, <1>4, FS_Injection DEF n
<1>6. \A x \in S : \E i \in 1 .. n : s[i] = x
    BY <1>5 DEF Surjection
<1> HIDE DEF n
<1>7. s \in Seq(S) /\ DOMAIN s = 1 .. n
    BY <1>1, <1>2
<1>8. CASE c \in S
    <2>1. PICK k \in 1 .. n : s[k] = c
        BY <1>6, <1>8
    <2>2. {i \in DOMAIN s : s[i] = c} = {k}
        BY <1>2, <1>7, <2>1
    <2> QED BY <1>7, <1>8, <2>2, FS_Singleton DEF Times, One
<1>9. CASE c \notin S
    <2>1. {i \in DOMAIN s : s[i] = c} = {}
        BY <1>2, <1>7, <1>9
    <2> QED BY <1>7, <1>9, <2>1, FS_EmptySet DEF Times, One
<1> QED BY <1>8, <1>9

\* Calls are the same only if they are of the same kind and of the same thing.
LEMMA CallsDiffer ==
    /\ \A v, x : Put(v) = Put(x) <=> v = x
    /\ \A v, x : Delete(v) = Delete(x) <=> v = x
    /\ \A v, x : DecRef(v) = DecRef(x) <=> v = x
    /\ \A v, x : Put(v) # Delete(x) /\ Put(v) # DecRef(x) /\ Delete(v) # DecRef(x)
BY DEF Put, Delete, DecRef

\* The kinds of call differ.
LEMMA CallsKinds ==
    ASSUME NEW c \in StackCalls
    PROVE  /\ c.call = "put" => c.of \in Value /\ c = Put(c.of)
           /\ c.call = "delete" => c.of \in Wrapper /\ c = Delete(c.of)
           /\ c.call = "decRef" => c.of \in Wrapper /\ c = DecRef(c.of)
BY DEF StackCalls, Put, Delete, DecRef

\* The empty map is a map.
LEMMA PartialNone == \A T : NoItems \in Partial(T) /\ DOMAIN NoItems = {}
<1>1. DOMAIN NoItems = {}
    BY DEF NoItems
<1>2. \A T : NoItems \in [{} -> T]
    BY DEF NoItems
<1> QED BY <1>1, <1>2 DEF Partial

\* The keys of a map, and what it has under each.
LEMMA PartialMap ==
    ASSUME NEW T, NEW f \in Partial(T)
    PROVE  DOMAIN f \subseteq Key /\ \A k \in DOMAIN f : k \in Key /\ f[k] \in T
BY DEF Partial

\* A map with one more entry is a map.
LEMMA PartialWith ==
    ASSUME NEW T, NEW f \in Partial(T), NEW k \in Key, NEW x \in T
    PROVE  With(f, k, x) \in Partial(T)
<1>1. DOMAIN f \cup {k} \in SUBSET Key /\ \A i \in DOMAIN f : f[i] \in T
    BY PartialMap
<1>2. With(f, k, x) \in [DOMAIN f \cup {k} -> T]
    BY <1>1 DEF With
<1> QED BY <1>1, <1>2 DEF Partial

\* The empty stack has no call.
LEMMA NoCalls == \A c : Times(c, <<>>) = 0
<1>1. \A c : {i \in DOMAIN <<>> : <<>>[i] = c} = {}
    OBVIOUS
<1> QED BY <1>1, FS_EmptySet DEF Times

\* The values, the wrappers and the keys are finitely many.
LEMMA FiniteTypes ==
    ASSUME JsonRefsAssumption
    PROVE  IsFiniteSet(Value) /\ IsFiniteSet(Wrapper)
BY FS_Interval DEF JsonRefsAssumption, Value, Wrapper

\* The calls that free what an object had are one for each of its items.
LEMMA PutCalls ==
    ASSUME JsonRefsAssumption, NEW f \in Partial(Value), NEW calls \in Calls(Put, f)
    PROVE  /\ calls \in Seq(StackCalls)
           /\ \A v : Times(Put(v), calls) = One(\E k \in DOMAIN f : f[k] = v)
           /\ \A w : Times(Delete(w), calls) = 0 /\ Times(DecRef(w), calls) = 0
<1> DEFINE all == {Put(v) : v \in Value}
           S   == {Put(f[k]) : k \in DOMAIN f}
           g   == [v \in Value |-> Put(v)]
<1>1. IsFiniteSet(S)
    <2>1. g \in Surjection(Value, all)
        BY DEF Surjection
    <2>2. IsFiniteSet(all)
        BY <2>1, FiniteTypes, FS_Surjection
    <2>3. S \in SUBSET all
        BY PartialMap
    <2> HIDE DEF S, all
    <2> QED BY <2>2, <2>3, FS_Subset
<1>2. calls \in SetToSeqs(S)
    BY DEF Calls
<1>3. S \subseteq StackCalls
    BY PartialMap DEF StackCalls
<1>4. \A v : Put(v) \in S <=> \E k \in DOMAIN f : f[k] = v
    BY CallsDiffer
<1>5. \A w : Delete(w) \notin S /\ DecRef(w) \notin S
    BY CallsDiffer
<1> HIDE DEF S
<1>6. calls \in Seq(S) /\ \A c : Times(c, calls) = One(c \in S)
    BY <1>1, <1>2, TimesSetToSeqs
<1> QED BY <1>3, <1>4, <1>5, <1>6 DEF One

\* The destructor's calls are one for each wrapper that the one has.
LEMMA DeleteCalls ==
    ASSUME JsonRefsAssumption, NEW f \in Partial(Wrapper), NEW calls \in Calls(Delete, f)
    PROVE  /\ calls \in Seq(StackCalls)
           /\ \A w : Times(Delete(w), calls) = One(\E k \in DOMAIN f : f[k] = w)
           /\ \A w : Times(Put(w), calls) = 0 /\ Times(DecRef(w), calls) = 0
<1> DEFINE all == {Delete(w) : w \in Wrapper}
           S   == {Delete(f[k]) : k \in DOMAIN f}
           g   == [w \in Wrapper |-> Delete(w)]
<1>1. IsFiniteSet(S)
    <2>1. g \in Surjection(Wrapper, all)
        BY DEF Surjection
    <2>2. IsFiniteSet(all)
        BY <2>1, FiniteTypes, FS_Surjection
    <2>3. S \in SUBSET all
        BY PartialMap
    <2> HIDE DEF S, all
    <2> QED BY <2>2, <2>3, FS_Subset
<1>2. calls \in SetToSeqs(S)
    BY DEF Calls
<1>3. S \subseteq StackCalls
    BY PartialMap DEF StackCalls
<1>4. \A w : Delete(w) \in S <=> \E k \in DOMAIN f : f[k] = w
    BY CallsDiffer
<1>5. \A w : Put(w) \notin S /\ DecRef(w) \notin S
    BY CallsDiffer
<1> HIDE DEF S
<1>6. calls \in Seq(S) /\ \A c : Times(c, calls) = One(c \in S)
    BY <1>1, <1>2, TimesSetToSeqs
<1> QED BY <1>3, <1>4, <1>5, <1>6 DEF One

\* The initial state has the invariant.
LEMMA InitInv == ASSUME JsonRefsAssumption, Init PROVE IInv
<1>1. Types
    <2>1. stack \in Seq(StackCalls) /\ refs \in [Value -> 0 .. 2]
        BY DEF Init
    <2>2. items \in [Value -> Partial(Value)]
        BY PartialNone DEF Init
    <2>3. wrap \in [Wrapper -> Wraps] /\ \A w \in Wrapper : wrap[w] = Dead
        BY PartialNone DEF Init, Dead, Wraps
    <2> QED BY <2>1, <2>2, <2>3 DEF Init, Types, JsonRefsAssumption
<1>2. /\ \A w \in Wrapper : ~wrap[w].alive
      /\ \A v \in Value : refs[v] = 0 /\ items[v] = NoItems
      /\ orphans = {} /\ parsed = {} /\ owned = {} /\ freedTwice = {} /\ stack = <<>>
    BY DEF Init, Dead
<1>3. /\ \A w \in Wrapper, v \in Value : ~Is(w, v)
      /\ \A p, v \in Value, k \in Key : ~In(p, k, v)
      /\ \A u, w \in Wrapper, k \in Key : ~Has(u, k, w)
    BY <1>2, PartialNone DEF Is, In, Has
<1>4. Fresh /\ OneEach /\ Owned /\ SharedOnes /\ Agree
    BY <1>2, <1>3 DEF Fresh, OneEach, Owned, SharedOnes, Shared, Agree
<1>5. Counted
    BY <1>2, <1>3, NoCalls DEF Counted, One, HasOne, InLive
<1> QED BY <1>1, <1>4, <1>5 DEF IInv

\* Making a new value and its wrapper keeps it.
LEMMA ConstructInv == ASSUME JsonRefsAssumption, IInv, Construct PROVE IInv'
<1> USE DEF IInv
<1>1. PICK n \in Value, m \in Wrapper :
          /\ n = v1 /\ m = w1 /\ n = made.values + 1 /\ m = made.wrappers + 1
          /\ made' = [values |-> n, wrappers |-> m] /\ made \in [values : Nat, wrappers : Nat]
    BY DEF Construct, Make, v1, w1, Types, JsonRefsAssumption, Value, Wrapper
<1>2. PICK kind \in {"element", "container"} :
          /\ refs' = [refs EXCEPT ![n] = 1]
          /\ wrap' = [wrap EXCEPT ![m] = Live(n, NoItems, kind)]
    BY <1>1 DEF Construct
<1>3. UNCHANGED <<items, owned, stack, orphans, parsed, freedTwice>> /\ stack = <<>>
    BY DEF Construct, Idle
<1>4. /\ \A v \in Value : refs'[v] = IF v = n THEN 1 ELSE refs[v]
      /\ \A w \in Wrapper : wrap'[w] = IF w = m THEN Live(n, NoItems, kind) ELSE wrap[w]
    BY <1>1, <1>2 DEF Types
<1>5. Types'
    <2>1. Live(n, NoItems, kind) \in Wraps /\ Live(n, NoItems, kind).alive
        BY <1>1, PartialNone DEF Live, Wraps
    <2>2. made' \in [values : 0 .. MaxValue, wrappers : 0 .. MaxWrapper]
        BY <1>1 DEF Value, Wrapper
    <2>3. refs' \in [Value -> 0 .. 2] /\ wrap' \in [Wrapper -> Wraps]
        BY <1>1, <1>2, <2>1 DEF Types
    <2> QED BY <1>3, <1>4, <2>1, <2>2, <2>3 DEF Types
<1>6. refs[n] = 0 /\ items[n] = NoItems /\ n \notin orphans /\ n \notin parsed /\ n \notin Shared
      /\ (\A w \in Wrapper : ~Is(w, n)) /\ (\A p \in Value, k \in Key : ~In(p, k, n))
      /\ ~wrap[m].alive /\ m \notin owned /\ (\A u \in Wrapper, k \in Key : ~Has(u, k, m))
    BY <1>1 DEF Fresh, Shared
<1>7. /\ \A w \in Wrapper, v \in Value : Is(w, v)' <=> Is(w, v) \/ (w = m /\ v = n)
      /\ \A p, v \in Value, k \in Key : In(p, k, v)' <=> In(p, k, v)
      /\ \A u, w \in Wrapper, k \in Key : Has(u, k, w)' <=> Has(u, k, w)
    BY <1>3, <1>4, <1>6, PartialNone DEF Is, In, Has, Live
<1>8. \A w \in Wrapper : wrap'[w].alive <=> wrap[w].alive \/ w = m
    BY <1>4 DEF Live
<1>9. Fresh'
    BY <1>1, <1>3, <1>4, <1>6, <1>7, <1>8 DEF Fresh, Value, Wrapper
<1>10. OneEach'
    BY <1>3, <1>6, <1>7 DEF OneEach, Types
<1>11. Owned'
    BY <1>3, <1>6, <1>7, <1>8 DEF Owned
<1>12. SharedOnes'
    BY <1>3, <1>4, <1>6, <1>7 DEF SharedOnes, Shared, Types
<1>13. Counted'
    <2>1. \A v \in Value : v # n => (HasOne(v)' <=> HasOne(v)) /\ (InLive(v)' <=> InLive(v)) 
        BY <1>1, <1>4, <1>6, <1>7, PartialNone DEF HasOne, InLive, In
    <2>2. HasOne(n)' /\ ~InLive(n)'
        BY <1>1, <1>6, <1>7 DEF HasOne, InLive
    <2>3. \A c : Times(c, stack) = 0 /\ Times(c, stack)' = 0
        BY <1>3, NoCalls
    <2>4. Shared' = Shared
        BY <1>3 DEF Shared
    <2> SUFFICES ASSUME NEW v \in Value \ Shared
                 PROVE  refs'[v] = One(HasOne(v)') + One(InLive(v)') + One(v \in orphans) + Times(Put(v), stack)
        BY <1>3, <2>4 DEF Counted, One
    <2>5. CASE v = n
        BY <1>4, <1>6, <2>2, <2>3, <2>5 DEF One
    <2>6. CASE v # n
        <3>1. refs[v] = One(HasOne(v)) + One(InLive(v)) + One(v \in orphans) + Times(Put(v), stack)
            BY DEF Counted
        <3> QED BY <1>4, <2>1, <2>6, <3>1 DEF One
    <2> QED BY <2>5, <2>6
<1>14. Agree'
    <2>1. \A w : ~Doomed(w) /\ ~Doomed(w)'
        BY <1>3, NoCalls DEF Doomed
    <2> SUFFICES ASSUME NEW u \in Wrapper, wrap'[u].alive
                 PROVE  /\ \A c \in Wrapper, k \in Key : Has(u, k, c)' => wrap'[c].alive
                        /\ \A v \in Value \ parsed, k \in Key : Is(u, v)' =>
                             /\ (\E c \in Wrapper : Has(u, k, c)') <=> (\E y \in Value : In(v, k, y)')
                             /\ \A c \in Wrapper, y \in Value : Has(u, k, c)' /\ In(v, k, y)' => Is(c, y)'
        BY <1>3, <2>1 DEF Agree
    <2>2. CASE u = m
        <3>1. \A c \in Wrapper, k \in Key : ~Has(u, k, c)'
            BY <1>6, <1>7, <2>2 DEF Has
        <3>2. \A v \in Value : Is(u, v)' => v = n
            BY <1>6, <1>7, <2>2 DEF Is
        <3>3. \A k \in Key, y \in Value : ~In(n, k, y)'
            BY <1>1, <1>6, <1>7, PartialNone DEF In
        <3> QED BY <3>1, <3>2, <3>3
    <2>3. CASE u # m
        BY <1>7, <1>8, <2>1, <2>3 DEF Agree
    <2> QED BY <2>2, <2>3
<1> QED BY <1>5, <1>9, <1>10, <1>11, <1>12, <1>13, <1>14

\* Putting one into another keeps it.
LEMMA AddInv == ASSUME JsonRefsAssumption, IInv, Add PROVE IInv'
<1> USE DEF IInv
<1>1. PICK w \in Containers, val \in Roots, key \in Key, o \in Value, x \in Value :
        LET old  == IF key \in DOMAIN wrap[w].map THEN {wrap[w].map[key]} ELSE {}
            gone == IF key \in DOMAIN items[o] THEN <<Put(items[o][key])>> ELSE <<>>
        IN  /\ o = wrap[w].jobj /\ x = wrap[val].jobj /\ w # val /\ refs[o] > 0
            /\ refs' = [refs EXCEPT ![x] = @ + 1]
            /\ wrap' = [u \in Wrapper |->
                          IF u \in old THEN Dead
                          ELSE IF u = w THEN [wrap[w] EXCEPT !.map = With(@, key, val)]
                          ELSE wrap[u]]
            /\ items' = [items EXCEPT ![o] = With(@, key, x)]
            /\ owned' = owned \cup {val}
            /\ stack' = (IF old = {} THEN <<>>
                         ELSE LET j == wrap[wrap[w].map[key]].jobj
                              IN  IF j = NULL THEN <<>> ELSE <<Put(j)>>) \o gone
    <2>1. PICK w \in Containers, val \in Roots, key \in Key :
        LET old  == IF key \in DOMAIN wrap[w].map THEN {wrap[w].map[key]} ELSE {}
            o    == wrap[w].jobj
            gone == IF key \in DOMAIN items[o] THEN <<Put(items[o][key])>> ELSE <<>>
        IN  /\ HasValue(w) /\ HasValue(val) /\ w # val /\ refs[o] > 0
            /\ refs' = [refs EXCEPT ![wrap[val].jobj] = @ + 1]
            /\ wrap' = [u \in Wrapper |->
                          IF u \in old THEN Dead
                          ELSE IF u = w THEN [wrap[w] EXCEPT !.map = With(@, key, val)]
                          ELSE wrap[u]]
            /\ items' = [items EXCEPT ![o] = With(@, key, wrap[val].jobj)]
            /\ owned' = owned \cup {val}
            /\ stack' = (IF old = {} THEN <<>>
                         ELSE LET j == wrap[wrap[w].map[key]].jobj
                              IN  IF j = NULL THEN <<>> ELSE <<Put(j)>>) \o gone
        BY DEF Add
    <2>2. wrap[w].jobj \in Value /\ wrap[val].jobj \in Value
        BY <2>1 DEF HasValue, Containers, Roots, Types, Wraps
    <2> QED BY <2>1, <2>2
<1>2. UNCHANGED <<made, orphans, parsed, freedTwice>> /\ stack = <<>>
    BY DEF Add, Idle
<1>3. /\ w \in Wrapper /\ wrap[w].alive /\ wrap[w].kind = "container" /\ Is(w, o)
      /\ val \in Wrapper /\ wrap[val].alive /\ val \notin owned /\ Is(val, x) /\ w # val
    BY <1>1 DEF Containers, Roots, Is
<1>4. wrap[w].map \in Partial(Wrapper) /\ items[o] \in Partial(Value)
    BY <1>3 DEF Types, Wraps
<1>5. \A u \in Wrapper : Has(w, key, u) <=> key \in DOMAIN wrap[w].map /\ u = wrap[w].map[key]
    BY <1>3 DEF Has
<1>6. ~Has(w, key, w) /\ ~Has(w, key, val)
    BY <1>3 DEF Owned
<1>7. /\ \A u \in Wrapper : wrap'[u] = IF Has(w, key, u) THEN Dead
                                     ELSE IF u = w THEN [wrap[w] EXCEPT !.map = With(@, key, val)]
                                     ELSE wrap[u]
      /\ \A v \in Value : refs'[v] = IF v = x THEN refs[v] + 1 ELSE refs[v]
      /\ \A p \in Value : items'[p] = IF p = o THEN With(items[p], key, x) ELSE items[p]
    BY <1>1, <1>5 DEF Types
<1>8. /\ \A u \in Wrapper : wrap'[u].alive <=> wrap[u].alive /\ ~Has(w, key, u)
      /\ \A u \in Wrapper : wrap'[u].alive => wrap'[u].kind = wrap[u].kind
      /\ \A u \in Wrapper, v \in Value : Is(u, v)' <=> Is(u, v) /\ ~Has(w, key, u)
    <2>1. \A u \in Wrapper : wrap[u] \in Wraps
        BY DEF Types
    <2>2. [wrap[w] EXCEPT !.map = With(@, key, val)].alive = wrap[w].alive
          /\ [wrap[w] EXCEPT !.map = With(@, key, val)].kind = wrap[w].kind
          /\ [wrap[w] EXCEPT !.map = With(@, key, val)].jobj = wrap[w].jobj
        BY <1>3, <2>1 DEF Wraps
    <2>3. Dead.alive = FALSE
        BY DEF Dead
    <2>4. \A u \in Wrapper : wrap'[u].alive <=> wrap[u].alive /\ ~Has(w, key, u)
        BY <1>3, <1>7, <2>2, <2>3
    <2>5. \A u \in Wrapper : wrap'[u].alive => wrap'[u].kind = wrap[u].kind /\ wrap'[u].jobj = wrap[u].jobj
        BY <1>3, <1>7, <2>2, <2>3
    <2> QED BY <2>4, <2>5 DEF Is
<1>9. \A u, c \in Wrapper, k \in Key : Has(u, k, c)' <=>
          IF u = w /\ k = key THEN c = val ELSE Has(u, k, c) /\ ~Has(w, key, u)
    <2>1. \A u \in Wrapper : wrap[u] \in Wraps
        BY DEF Types
    <2>2. [wrap[w] EXCEPT !.map = With(@, key, val)].map = With(wrap[w].map, key, val)
        BY <1>3, <2>1 DEF Wraps
    <2>3. wrap'[w].map = With(wrap[w].map, key, val) /\ wrap'[w].alive
        BY <1>3, <1>6, <1>7, <1>8, <2>2
    <2>4. /\ DOMAIN wrap'[w].map = DOMAIN wrap[w].map \cup {key}
          /\ wrap'[w].map[key] = val
          /\ \A i \in DOMAIN wrap[w].map : i # key => wrap'[w].map[i] = wrap[w].map[i]
        <3>1. /\ DOMAIN With(wrap[w].map, key, val) = DOMAIN wrap[w].map \cup {key}
              /\ With(wrap[w].map, key, val)[key] = val
              /\ \A i \in DOMAIN wrap[w].map : i # key => With(wrap[w].map, key, val)[i] = wrap[w].map[i]
            BY DEF With
        <3> QED BY <2>3, <3>1
    <2>5. \A c \in Wrapper, k \in Key : Has(w, k, c)' <=> IF k = key THEN c = val ELSE Has(w, k, c)
        BY <1>3, <2>3, <2>4 DEF Has
    <2>6. \A u, c \in Wrapper, k \in Key : u # w => (Has(u, k, c)' <=> Has(u, k, c) /\ ~Has(w, key, u))
        BY <1>7, <1>8 DEF Has
    <2> QED BY <1>6, <2>5, <2>6
<1>10. \A p, v \in Value, k \in Key : In(p, k, v)' <=> IF p = o /\ k = key THEN v = x ELSE In(p, k, v)
    <2>1. /\ DOMAIN items'[o] = DOMAIN items[o] \cup {key}
          /\ items'[o][key] = x /\ \A i \in DOMAIN items[o] : i # key => items'[o][i] = items[o][i]
        <3>1. /\ DOMAIN With(items[o], key, x) = DOMAIN items[o] \cup {key}
              /\ With(items[o], key, x)[key] = x
              /\ \A i \in DOMAIN items[o] : i # key => With(items[o], key, x)[i] = items[o][i]
            BY DEF With
        <3> QED BY <1>7, <3>1
    <2> QED BY <1>7, <2>1 DEF In
<1>11. /\ x \notin Shared /\ refs[o] > 0 /\ refs[x] = 1
       /\ \A p \in Value, k \in Key : ~In(p, k, x)
    <2>1. x \notin Shared
        BY <1>3 DEF SharedOnes
    <2>2. \A p \in Value, k \in Key : ~In(p, k, x)
        BY <1>3 DEF Owned
    <2>3. x \notin orphans /\ ~InLive(x) /\ HasOne(x)
        BY <1>3, <2>2 DEF OneEach, InLive, HasOne
    <2>4. Times(Put(x), stack) = 0
        BY <1>2, NoCalls
    <2>5. refs[x] = 1
        BY <2>1, <2>3, <2>4 DEF Counted, One
    <2> QED BY <1>1, <2>1, <2>2, <2>5
<1>12. /\ stack' \in Seq(StackCalls)
       /\ \A v \in Value : Times(Put(v), stack') = One(\E u \in Wrapper : Has(w, key, u) /\ Is(u, v)) + One(In(o, key, v))
       /\ \A u : Times(Delete(u), stack') = 0 /\ Times(DecRef(u), stack') = 0
    <2> DEFINE gone == IF key \in DOMAIN items[o] THEN <<Put(items[o][key])>> ELSE <<>>
               j    == wrap[wrap[w].map[key]].jobj
               mine == IF key \in DOMAIN wrap[w].map /\ j # NULL THEN <<Put(j)>> ELSE <<>>
    <2>1. stack' = mine \o gone
        BY <1>1
    <2>2. key \in DOMAIN items[o] => items[o][key] \in Value
        BY <1>4, PartialMap
    <2>3. gone \in Seq(StackCalls)
        <3>1. key \in DOMAIN items[o] => Put(items[o][key]) \in StackCalls
            BY <2>2 DEF StackCalls
        <3> QED BY <3>1
    <2>4. key \in DOMAIN wrap[w].map => wrap[w].map[key] \in Wrapper /\ j \in Value \cup {NULL}
        BY <1>4, PartialMap DEF Types, Wraps
    <2>5. mine \in Seq(StackCalls)
        <3>1. key \in DOMAIN wrap[w].map /\ j # NULL => Put(j) \in StackCalls
            BY <2>4 DEF StackCalls
        <3> QED BY <3>1
    <2>6. \A v \in Value : Times(Put(v), gone) = One(In(o, key, v))
        <3>1. CASE key \in DOMAIN items[o]
            <4>1. gone = <<Put(items[o][key])>> /\ Put(items[o][key]) \in StackCalls
                BY <2>2, <3>1 DEF StackCalls
            <4>2. \A c : Times(c, gone) = One(c = Put(items[o][key]))
                BY <4>1, TimesOne
            <4> QED BY <3>1, <4>2, CallsDiffer DEF In, One
        <3>2. CASE key \notin DOMAIN items[o]
            BY <3>2, NoCalls DEF In, One
        <3> QED BY <3>1, <3>2
    <2>7. \A v \in Value : Times(Put(v), mine) = One(\E u \in Wrapper : Has(w, key, u) /\ Is(u, v))
        <3>1. CASE key \in DOMAIN wrap[w].map /\ j # NULL
            <4>1. mine = <<Put(j)>> /\ Put(j) \in StackCalls
                BY <2>4, <3>1 DEF StackCalls
            <4>2. \A c : Times(c, mine) = One(c = Put(j))
                BY <4>1, TimesOne
            <4>3. wrap[wrap[w].map[key]].alive
                BY <2>4, <3>1 DEF Types, Dead
            <4>4. \A v \in Value : (\E u \in Wrapper : Has(w, key, u) /\ Is(u, v)) <=> v = j
                BY <1>5, <2>4, <3>1, <4>3 DEF Is
            <4> QED BY <4>2, <4>4, CallsDiffer DEF One
        <3>2. CASE ~(key \in DOMAIN wrap[w].map /\ j # NULL)
            <4>1. \A v \in Value : ~ \E u \in Wrapper : Has(w, key, u) /\ Is(u, v)
                BY <1>5, <3>2 DEF Is, Value, NULL
            <4> QED BY <3>2, <4>1, NoCalls DEF One
        <3> QED BY <3>1, <3>2
    <2>8. \A u : /\ Times(Delete(u), mine) = 0 /\ Times(DecRef(u), mine) = 0
                 /\ Times(Delete(u), gone) = 0 /\ Times(DecRef(u), gone) = 0
        <3>1. \A v, u : v \in Value => Times(Delete(u), <<Put(v)>>) = 0 /\ Times(DecRef(u), <<Put(v)>>) = 0
            <4> SUFFICES ASSUME NEW v \in Value, NEW u
                         PROVE  Times(Delete(u), <<Put(v)>>) = 0 /\ Times(DecRef(u), <<Put(v)>>) = 0
                OBVIOUS
            <4>1. Put(v) \in StackCalls
                BY DEF StackCalls
            <4>2. \A c : Times(c, <<Put(v)>>) = One(c = Put(v))
                BY <4>1, TimesOne
            <4> QED BY <4>2, CallsDiffer DEF One
        <3> QED BY <2>2, <2>4, <3>1, NoCalls
    <2> HIDE DEF mine, gone
    <2>9. \A c : Times(c, stack') = Times(c, mine) + Times(c, gone)
        BY <2>1, <2>3, <2>5, TimesConcat
    <2>10. stack' \in Seq(StackCalls)
        BY <2>1, <2>3, <2>5
    <2>11. \A v \in Value : Times(Put(v), stack') = One(\E u \in Wrapper : Has(w, key, u) /\ Is(u, v)) + One(In(o, key, v))
        BY <2>6, <2>7, <2>9
    <2>12. \A u : Times(Delete(u), stack') = 0 /\ Times(DecRef(u), stack') = 0
        BY <2>8, <2>9
    <2> QED BY <2>10, <2>11, <2>12
<1>13. Types'
    <2>1. With(items[o], key, x) \in Partial(Value) /\ With(wrap[w].map, key, val) \in Partial(Wrapper)
        BY <1>3, <1>4, PartialWith
    <2>2. items' \in [Value -> Partial(Value)]
        BY <1>1, <2>1 DEF Types
    <2>3. refs' \in [Value -> 0 .. 2]
        BY <1>1, <1>11 DEF Types
    <2>4. Dead \in Wraps
        BY PartialNone DEF Dead, Wraps
    <2>5. [wrap[w] EXCEPT !.map = With(@, key, val)] \in Wraps
        BY <1>3, <2>1 DEF Types, Wraps
    <2>6. wrap' \in [Wrapper -> Wraps]
        BY <1>1, <2>4, <2>5 DEF Types
    <2>7. \A u \in Wrapper : wrap'[u].alive \/ wrap'[u] = Dead
        BY <1>3, <1>6, <1>7, <1>8 DEF Types
    <2> QED BY <1>1, <1>2, <1>3, <1>12, <2>2, <2>3, <2>6, <2>7 DEF Types
<1>14. Fresh'
    BY <1>1, <1>2, <1>3, <1>7, <1>8, <1>9, <1>10 DEF Fresh, Types
<1>15. OneEach'
    <2>1. \A u \in Wrapper, k \in Key : ~Has(u, k, val)
        BY <1>3 DEF Owned
    <2> QED BY <1>2, <1>8, <1>9, <1>10, <1>11, <2>1 DEF OneEach, Types
<1>16. Owned'
    BY <1>1, <1>3, <1>6, <1>8, <1>9, <1>10 DEF Owned, OneEach
<1>17. SharedOnes'
    <2>1. Shared' = Shared /\ Shared \subseteq Value
        BY <1>2 DEF Shared, Types
    <2>2. \A v \in Shared, u \in Wrapper : Is(u, v)' => u \in owned'
        BY <1>1, <1>8, <2>1 DEF SharedOnes
    <2> QED BY <1>2, <2>1, <2>2 DEF SharedOnes
<1>18. Counted'
    <2>1. Shared' = Shared
        BY <1>2 DEF Shared
    <2> SUFFICES ASSUME NEW v \in Value \ Shared
                 PROVE  refs'[v] = One(HasOne(v)') + One(InLive(v)') + One(v \in orphans) + Times(Put(v), stack')
        BY <1>2, <2>1 DEF Counted, One
    <2>2. refs[v] = One(HasOne(v)) + One(InLive(v)) + One(v \in orphans)
        BY <1>2, NoCalls DEF Counted, One
    <2>3. \A p \in Value : refs'[p] > 0 <=> refs[p] > 0
        BY <1>7, <1>11 DEF Types
    <2>4. One(HasOne(v)) = One(HasOne(v)') + One(\E u \in Wrapper : Has(w, key, u) /\ Is(u, v))
        BY <1>8 DEF HasOne, One, OneEach
    <2>5. CASE v = x
        <3>1. ~InLive(v) /\ ~In(o, key, v)
            BY <1>11, <2>5 DEF InLive
        <3>2. InLive(v)'
            BY <1>10, <1>11, <2>3, <2>5 DEF InLive
        <3> QED BY <1>7, <1>12, <2>2, <2>4, <2>5, <3>1, <3>2 DEF One
    <2>6. CASE v # x
        <3>1. One(InLive(v)) = One(InLive(v)') + One(In(o, key, v))
            BY <1>10, <1>11, <2>3, <2>6 DEF InLive, One, OneEach
        <3> QED BY <1>7, <1>12, <2>2, <2>4, <2>6, <3>1 DEF One
    <2> QED BY <2>5, <2>6
<1>19. Agree'
    <2>1. \A u : ~Doomed(u) /\ ~Doomed(u)'
        BY <1>2, <1>12, NoCalls DEF Doomed
    <2> SUFFICES ASSUME NEW u \in Wrapper, wrap'[u].alive
                 PROVE  /\ \A c \in Wrapper, k \in Key : Has(u, k, c)' => wrap'[c].alive
                        /\ \A v \in Value \ parsed, k \in Key : Is(u, v)' =>
                             /\ (\E c \in Wrapper : Has(u, k, c)') <=> (\E y \in Value : In(v, k, y)')
                             /\ \A c \in Wrapper, y \in Value : Has(u, k, c)' /\ In(v, k, y)' => Is(c, y)'
        BY <1>2, <2>1 DEF Agree
    <2>2. wrap[u].alive /\ ~Has(w, key, u)
        BY <1>8
    <2>3. \A c \in Wrapper, k \in Key : Has(u, k, c)' => wrap'[c].alive
        BY <1>3, <1>6, <1>8, <1>9, <2>1, <2>2 DEF Agree, OneEach
    <2>4. ASSUME NEW v \in Value \ parsed, NEW k \in Key, Is(u, v)'
          PROVE  /\ (\E c \in Wrapper : Has(u, k, c)') <=> (\E y \in Value : In(v, k, y)')
                 /\ \A c \in Wrapper, y \in Value : Has(u, k, c)' /\ In(v, k, y)' => Is(c, y)'
        <3>1. Is(u, v) /\ (u = w <=> v = o)
            BY <1>3, <1>8, <2>4 DEF OneEach, Is
        <3>2. CASE u = w /\ k = key
            BY <1>3, <1>6, <1>8, <1>9, <1>10, <3>1, <3>2
        <3>3. CASE ~(u = w /\ k = key)
            <4>1. /\ \A c \in Wrapper : Has(u, k, c)' <=> Has(u, k, c)
                  /\ \A y \in Value : In(v, k, y)' <=> In(v, k, y)
                BY <1>9, <1>10, <2>2, <3>1, <3>3
            <4>2. \A c \in Wrapper : Has(u, k, c) => ~Has(w, key, c)
                BY <1>3, <3>3 DEF OneEach
            <4> QED BY <1>8, <2>1, <2>2, <3>1, <4>1, <4>2 DEF Agree
        <3> QED BY <3>2, <3>3
    <2> QED BY <2>3, <2>4
<1> QED BY <1>13, <1>14, <1>15, <1>16, <1>17, <1>18, <1>19

\* The move constructor keeps it.
LEMMA MoveConstructInv == ASSUME JsonRefsAssumption, IInv, MoveConstruct PROVE IInv'
<1> USE DEF IInv
<1>1. PICK m \in Wrapper, w \in Containers \cap Roots :
          /\ m = made.wrappers + 1 /\ made' = [values |-> made.values, wrappers |-> m]
          /\ wrap' = [wrap EXCEPT ![m] = wrap[w], ![w].jobj = NULL, ![w].map = NoItems]
          /\ made \in [values : Nat, wrappers : Nat]
    <2>1. made \in [values : Nat, wrappers : Nat]
        BY DEF Types, JsonRefsAssumption
    <2>2. w1 \in Wrapper /\ made' = [values |-> made.values, wrappers |-> w1]
        BY <2>1 DEF MoveConstruct, Make, w1, JsonRefsAssumption, Wrapper
    <2>3. PICK w \in Containers \cap Roots :
            wrap' = [wrap EXCEPT ![w1] = wrap[w], ![w].jobj = NULL, ![w].map = NoItems]
        BY DEF MoveConstruct
    <2> QED BY <2>1, <2>2, <2>3 DEF w1
<1>2. UNCHANGED <<refs, items, owned, stack, orphans, parsed, freedTwice>> /\ stack = <<>>
    BY DEF MoveConstruct, Idle
<1>3. /\ ~wrap[m].alive /\ m \notin owned /\ (\A u \in Wrapper, k \in Key : ~Has(u, k, m))
      /\ \A v \in Value : ~Is(m, v)
    BY <1>1 DEF Fresh, Is
<1>4. w \in Wrapper /\ wrap[w].alive /\ wrap[w].kind = "container" /\ w \notin owned /\ w # m
    BY <1>1, <1>3 DEF Containers, Roots
<1>5. /\ \A u \in Wrapper : u # w /\ u # m => wrap'[u] = wrap[u]
      /\ wrap'[m] = wrap[w]
      /\ wrap'[w] \in Wraps /\ wrap'[w].jobj = NULL /\ wrap'[w].map = NoItems
      /\ wrap'[w].alive /\ wrap'[w].kind = "container"
    <2>1. wrap[w] \in Wraps
        BY <1>4 DEF Types
    <2>2. wrap'[w] = [wrap[w] EXCEPT !.jobj = NULL, !.map = NoItems]
        BY <1>1, <1>4 DEF Types
    <2>3. wrap'[m] = wrap[w] /\ \A u \in Wrapper : u # w /\ u # m => wrap'[u] = wrap[u]
        BY <1>1, <1>4 DEF Types
    <2>4. NoItems \in Partial(Wrapper)
        BY PartialNone
    <2> QED BY <1>4, <2>1, <2>2, <2>3, <2>4 DEF Wraps
<1>6. /\ \A u \in Wrapper : wrap'[u].alive <=> wrap[u].alive \/ u = m
      /\ \A u \in Wrapper : wrap'[u].kind = wrap[u].kind \/ u = m
      /\ \A u \in Wrapper, v \in Value : Is(u, v)' <=> IF u = m THEN Is(w, v) ELSE u # w /\ Is(u, v)
      /\ \A p, v \in Value, k \in Key : In(p, k, v)' <=> In(p, k, v)
      /\ \A u, c \in Wrapper, k \in Key : Has(u, k, c)' <=> IF u = m THEN Has(w, k, c) ELSE u # w /\ Has(u, k, c)
    <2>1. \A v \in Value : v # NULL
        BY DEF Value, NULL
    <2> QED BY <1>2, <1>3, <1>4, <1>5, <2>1, PartialNone DEF Is, In, Has
<1>7. Types'
    <2>1. wrap' \in [Wrapper -> Wraps]
        <3>1. wrap' = [u \in Wrapper |-> wrap'[u]]
            BY <1>1 DEF Types
        <3>2. \A u \in Wrapper : wrap'[u] \in Wraps
            BY <1>4, <1>5 DEF Types
        <3> QED BY <3>1, <3>2
    <2>2. \A u \in Wrapper : wrap'[u].alive \/ wrap'[u] = Dead
        BY <1>4, <1>5 DEF Types
    <2>3. made' \in [values : 0 .. MaxValue, wrappers : 0 .. MaxWrapper]
        BY <1>1 DEF Types, Wrapper
    <2> QED BY <1>2, <2>1, <2>2, <2>3 DEF Types
<1>8. Fresh'
    <2>1. made'.values = made.values /\ \A u \in Wrapper : u > made'.wrappers => u > made.wrappers /\ u # m /\ u # w
        BY <1>1, <1>4 DEF Fresh, Wrapper
    <2>2. \A u \in Wrapper, k \in Key, c \in Wrapper : c > made'.wrappers => ~Has(u, k, c)'
        BY <1>4, <1>6, <2>1 DEF Fresh
    <2>3. \A v \in Value, u \in Wrapper : v > made'.values => ~Is(u, v)'
        BY <1>4, <1>6, <2>1 DEF Fresh
    <2>4. \A c \in Wrapper : c > made'.wrappers => ~wrap'[c].alive /\ c \notin owned'
        BY <1>2, <1>6, <2>1 DEF Fresh
    <2>5. \A v \in Value : v > made'.values =>
            /\ refs'[v] = 0 /\ items'[v] = NoItems /\ v \notin orphans' /\ v \notin parsed'
            /\ \A p \in Value, k \in Key : ~In(p, k, v)'
        BY <1>2, <1>6, <2>1 DEF Fresh
    <2> QED BY <2>2, <2>3, <2>4, <2>5 DEF Fresh
<1>9. OneEach'
    BY <1>2, <1>3, <1>4, <1>6 DEF OneEach, Types
<1>10. Owned'
    BY <1>2, <1>3, <1>4, <1>6 DEF Owned
<1>11. SharedOnes'
    <2>1. Shared' = Shared /\ Shared \subseteq Value
        BY <1>2 DEF Shared, Types
    <2>2. \A v \in Shared, u \in Wrapper : Is(u, v)' => Is(u, v) /\ u # m
        BY <1>4, <1>6, <2>1 DEF SharedOnes
    <2> QED BY <1>2, <1>6, <2>1, <2>2 DEF SharedOnes
<1>12. Counted'
    <2>1. \A v \in Value : (HasOne(v)' <=> HasOne(v)) /\ (InLive(v)' <=> InLive(v))
        BY <1>2, <1>3, <1>4, <1>6 DEF HasOne, InLive
    <2> QED BY <1>2, <2>1 DEF Counted, One, Shared
<1>13. Agree'
    <2>1. \A u : ~Doomed(u) /\ ~Doomed(u)'
        BY <1>2, NoCalls DEF Doomed
    <2> SUFFICES ASSUME NEW u \in Wrapper, wrap'[u].alive
                 PROVE  /\ \A c \in Wrapper, k \in Key : Has(u, k, c)' => wrap'[c].alive
                        /\ \A v \in Value \ parsed, k \in Key : Is(u, v)' =>
                             /\ (\E c \in Wrapper : Has(u, k, c)') <=> (\E y \in Value : In(v, k, y)')
                             /\ \A c \in Wrapper, y \in Value : Has(u, k, c)' /\ In(v, k, y)' => Is(c, y)'
        BY <1>2, <2>1 DEF Agree
    <2>2. \A c \in Wrapper, k \in Key : Has(u, k, c)' => wrap'[c].alive
        BY <1>4, <1>6, <2>1 DEF Agree
    <2>3. ASSUME NEW v \in Value \ parsed, NEW k \in Key, Is(u, v)'
          PROVE  /\ (\E c \in Wrapper : Has(u, k, c)') <=> (\E y \in Value : In(v, k, y)')
                 /\ \A c \in Wrapper, y \in Value : Has(u, k, c)' /\ In(v, k, y)' => Is(c, y)'
        <3>1. PICK t \in Wrapper : /\ t = (IF u = m THEN w ELSE u) /\ wrap[t].alive /\ Is(t, v)
                                   /\ \A c \in Wrapper : Has(u, k, c)' <=> Has(t, k, c)
            BY <1>4, <1>6, <2>3
        <3>2. /\ (\E c \in Wrapper : Has(t, k, c)) <=> (\E y \in Value : In(v, k, y))
              /\ \A c \in Wrapper, y \in Value : Has(t, k, c) /\ In(v, k, y) => Is(c, y)
            BY <2>1, <3>1 DEF Agree
        <3>3. \A c \in Wrapper : Has(t, k, c) => c # m /\ c # w
            BY <1>3, <1>4, <3>1 DEF Owned
        <3> QED BY <1>6, <3>1, <3>2, <3>3
    <2> QED BY <2>2, <2>3
<1> QED BY <1>7, <1>8, <1>9, <1>10, <1>11, <1>12, <1>13

\* The move assignment keeps it.
LEMMA MoveAssignInv == ASSUME JsonRefsAssumption, IInv, MoveAssign PROVE IInv'
<1> USE DEF IInv
<1>1. PICK w \in Containers \cap Roots, rhs \in Containers \cap Roots :
        /\ w # rhs
        /\ wrap' = [wrap EXCEPT ![w].jobj = wrap[rhs].jobj, ![w].map = wrap[rhs].map,
                                ![rhs].jobj = NULL, ![rhs].map = wrap[w].map]
        /\ orphans' = orphans \cup ({wrap[w].jobj} \ {NULL})
    BY DEF MoveAssign
<1>2. UNCHANGED <<refs, items, owned, stack, made, parsed, freedTwice>> /\ stack = <<>>
    BY DEF MoveAssign, Idle
<1>3. /\ w \in Wrapper /\ wrap[w].alive /\ wrap[w].kind = "container" /\ w \notin owned /\ wrap[w] \in Wraps
      /\ rhs \in Wrapper /\ wrap[rhs].alive /\ wrap[rhs].kind = "container" /\ rhs \notin owned /\ wrap[rhs] \in Wraps
    BY <1>1 DEF Containers, Roots, Types
<1>4. /\ \A u \in Wrapper : u # w /\ u # rhs => wrap'[u] = wrap[u]
      /\ wrap'[w] = [wrap[w] EXCEPT !.jobj = wrap[rhs].jobj, !.map = wrap[rhs].map]
      /\ wrap'[rhs] = [wrap[rhs] EXCEPT !.jobj = NULL, !.map = wrap[w].map]
    BY <1>1, <1>3 DEF Types
<1>5. /\ wrap'[w] \in Wraps /\ wrap'[w].jobj = wrap[rhs].jobj /\ wrap'[w].map = wrap[rhs].map
      /\ wrap'[w].alive /\ wrap'[w].kind = "container"
    <2>1. wrap[rhs].map \in Partial(Wrapper) /\ wrap[rhs].jobj \in Value \cup {NULL}
        BY <1>3 DEF Wraps
    <2>2. PICK r \in Wraps, j \in Value \cup {NULL}, f \in Partial(Wrapper) :
            r = wrap[w] /\ j = wrap[rhs].jobj /\ f = wrap[rhs].map
        BY <1>3, <2>1
    <2>3. wrap'[w] = [r EXCEPT !.jobj = j, !.map = f]
        BY <1>4, <2>2
    <2>4. /\ wrap'[w] \in Wraps /\ wrap'[w].jobj = j /\ wrap'[w].map = f
          /\ wrap'[w].alive = r.alive /\ wrap'[w].kind = r.kind
        BY <2>3 DEF Wraps
    <2> QED BY <1>3, <2>2, <2>4
<1>6. /\ wrap'[rhs] \in Wraps /\ wrap'[rhs].jobj = NULL /\ wrap'[rhs].map = wrap[w].map
      /\ wrap'[rhs].alive /\ wrap'[rhs].kind = "container"
    <2>1. /\ wrap[rhs] \in [jobj : Value \cup {NULL}, map : Partial(Wrapper), alive : BOOLEAN,
                            kind : {"none", "element", "container"}]
          /\ wrap[w].map \in Partial(Wrapper)
        BY <1>3 DEF Wraps
    <2>2. NULL \in Value \cup {NULL}
        OBVIOUS
    <2> QED BY <1>3, <1>4, <2>1, <2>2 DEF Wraps
<1>7. /\ \A u \in Wrapper : wrap'[u].alive <=> wrap[u].alive
      /\ \A u \in Wrapper : wrap'[u].kind = wrap[u].kind
      /\ \A u \in Wrapper, v \in Value : Is(u, v)' <=> IF u = w THEN Is(rhs, v) ELSE u # rhs /\ Is(u, v)
      /\ \A p, v \in Value, k \in Key : In(p, k, v)' <=> In(p, k, v)
      /\ \A u, c \in Wrapper, k \in Key : Has(u, k, c)' <=>
            IF u = w THEN Has(rhs, k, c) ELSE IF u = rhs THEN Has(w, k, c) ELSE Has(u, k, c)
      /\ \A v \in Value : v \in orphans' <=> v \in orphans \/ Is(w, v)
    <2>1. \A v \in Value : v # NULL
        BY DEF Value, NULL
    <2>2. /\ \A u \in Wrapper : wrap'[u].alive <=> wrap[u].alive
          /\ \A u \in Wrapper : wrap'[u].kind = wrap[u].kind
        BY <1>3, <1>4, <1>5, <1>6
    <2>3. \A u \in Wrapper, v \in Value : Is(u, v)' <=> IF u = w THEN Is(rhs, v) ELSE u # rhs /\ Is(u, v)
        BY <1>3, <1>4, <1>5, <1>6, <2>1 DEF Is
    <2>4. \A p, v \in Value, k \in Key : In(p, k, v)' <=> In(p, k, v)
        BY <1>2 DEF In
    <2>5. \A u, c \in Wrapper, k \in Key : Has(u, k, c)' <=>
            IF u = w THEN Has(rhs, k, c) ELSE IF u = rhs THEN Has(w, k, c) ELSE Has(u, k, c)
        BY <1>3, <1>4, <1>5, <1>6 DEF Has
    <2>6. \A v \in Value : v \in orphans' <=> v \in orphans \/ Is(w, v)
        BY <1>1, <1>3, <2>1 DEF Is
    <2> QED BY <2>2, <2>3, <2>4, <2>5, <2>6
<1>8. Types'
    <2>1. wrap' \in [Wrapper -> Wraps]
        <3>1. wrap' = [u \in Wrapper |-> wrap'[u]]
            BY <1>1 DEF Types
        <3>2. \A u \in Wrapper : wrap'[u] \in Wraps
            BY <1>4, <1>5, <1>6 DEF Types
        <3> QED BY <3>1, <3>2
    <2>2. \A u \in Wrapper : wrap'[u].alive \/ wrap'[u] = Dead
        BY <1>4, <1>5, <1>6 DEF Types
    <2>3. orphans' \subseteq Value
        BY <1>1, <1>3 DEF Types, Wraps
    <2> QED BY <1>2, <2>1, <2>2, <2>3 DEF Types
<1>9. Fresh'
    BY <1>2, <1>3, <1>7 DEF Fresh, Types
<1>10. OneEach'
    <2>1. orphans \subseteq Value /\ orphans' \subseteq Value
        BY <1>8 DEF Types
    <2> QED BY <1>1, <1>3, <1>7, <2>1 DEF OneEach
<1>11. Owned'
    BY <1>2, <1>3, <1>7 DEF Owned
<1>12. SharedOnes'
    <2>1. Shared' = Shared /\ Shared \subseteq Value
        BY <1>2 DEF Shared, Types
    <2>2. \A v \in Shared, u \in Wrapper : Is(u, v)' => Is(u, v)
        BY <1>3, <1>7, <2>1 DEF SharedOnes
    <2> QED BY <1>2, <1>7, <2>1, <2>2 DEF SharedOnes
<1>13. Counted'
    <2>1. \A v \in Value : InLive(v)' <=> InLive(v)
        BY <1>2, <1>7 DEF InLive
    <2>2. \A v \in Value : One(HasOne(v)') + One((v \in orphans)') = One(HasOne(v)) + One(v \in orphans)
        <3> SUFFICES ASSUME NEW v \in Value
                     PROVE  One(HasOne(v)') + One((v \in orphans)') = One(HasOne(v)) + One(v \in orphans)
            OBVIOUS
        <3>1. CASE Is(w, v)
            <4>1. v \notin orphans /\ HasOne(v)
                BY <1>3, <3>1 DEF OneEach, HasOne
            <4>2. v \in orphans' /\ ~HasOne(v)'
                BY <1>1, <1>3, <1>7, <3>1 DEF OneEach, HasOne
            <4> QED BY <4>1, <4>2 DEF One
        <3>2. CASE ~Is(w, v)
            <4>1. HasOne(v)' <=> HasOne(v)
                BY <1>1, <1>3, <1>7, <3>2 DEF HasOne
            <4> QED BY <1>7, <3>2, <4>1 DEF One
        <3> QED BY <3>1, <3>2
    <2>3. Shared' = Shared
        BY <1>2 DEF Shared
    <2> SUFFICES ASSUME NEW v \in Value \ Shared
                 PROVE  refs[v] = One(HasOne(v)') + One(InLive(v)') + One((v \in orphans)') + Times(Put(v), stack)
        BY <1>2, <2>3 DEF Counted, One
    <2>4. refs[v] = One(HasOne(v)) + One(InLive(v)) + One(v \in orphans) + Times(Put(v), stack)
        BY DEF Counted
    <2>5. Times(Put(v), stack) = 0
        BY <1>2, NoCalls
    <2> QED BY <2>1, <2>2, <2>4, <2>5 DEF One
<1>14. Agree'
    <2>1. \A u : ~Doomed(u) /\ ~Doomed(u)'
        BY <1>2, NoCalls DEF Doomed
    <2> SUFFICES ASSUME NEW u \in Wrapper, wrap'[u].alive
                 PROVE  /\ \A c \in Wrapper, k \in Key : Has(u, k, c)' => wrap'[c].alive
                        /\ \A v \in Value \ parsed, k \in Key : Is(u, v)' =>
                             /\ (\E c \in Wrapper : Has(u, k, c)') <=> (\E y \in Value : In(v, k, y)')
                             /\ \A c \in Wrapper, y \in Value : Has(u, k, c)' /\ In(v, k, y)' => Is(c, y)'
        BY <1>2, <2>1 DEF Agree
    <2>2. \A c \in Wrapper, k \in Key : Has(u, k, c)' => wrap'[c].alive
        BY <1>3, <1>7, <2>1 DEF Agree
    <2>3. ASSUME NEW v \in Value \ parsed, NEW k \in Key, Is(u, v)'
          PROVE  /\ (\E c \in Wrapper : Has(u, k, c)') <=> (\E y \in Value : In(v, k, y)')
                 /\ \A c \in Wrapper, y \in Value : Has(u, k, c)' /\ In(v, k, y)' => Is(c, y)'
        <3>1. PICK t \in Wrapper : /\ t = (IF u = w THEN rhs ELSE u) /\ wrap[t].alive /\ Is(t, v)
                                   /\ \A c \in Wrapper : Has(u, k, c)' <=> Has(t, k, c)
            BY <1>3, <1>7, <2>3
        <3>2. /\ (\E c \in Wrapper : Has(t, k, c)) <=> (\E y \in Value : In(v, k, y))
              /\ \A c \in Wrapper, y \in Value : Has(t, k, c) /\ In(v, k, y) => Is(c, y)
            BY <2>1, <3>1 DEF Agree
        <3>3. \A c \in Wrapper : Has(t, k, c) => c # w /\ c # rhs
            BY <1>3, <3>1 DEF Owned
        <3> QED BY <1>7, <3>1, <3>2, <3>3
    <2> QED BY <2>2, <2>3
<1> QED BY <1>8, <1>9, <1>10, <1>11, <1>12, <1>13, <1>14

\* Freeing an object that a caller owns keeps it.
LEMMA DestroyInv == ASSUME JsonRefsAssumption, IInv, Destroy PROVE IInv'
<1> USE DEF IInv
<1>1. PICK w \in Roots : stack' = <<Delete(w)>>
    BY DEF Destroy
<1>2. UNCHANGED <<refs, items, wrap, owned, made, orphans, parsed, freedTwice>> /\ stack = <<>>
    BY DEF Destroy, Idle
<1>3. w \in Wrapper /\ wrap[w].alive /\ w \notin owned
    BY DEF Roots
<1>4. /\ Delete(w) \in StackCalls
      /\ \A v : Times(Put(v), stack') = 0
      /\ \A u : Times(Delete(u), stack') = One(u = w) /\ Times(DecRef(u), stack') = 0
    <2>1. Delete(w) \in StackCalls
        BY <1>3 DEF StackCalls
    <2>2. \A c : Times(c, <<Delete(w)>>) = One(c = Delete(w))
        BY <2>1, TimesOne
    <2> QED BY <1>1, <2>1, <2>2, CallsDiffer DEF One
<1>5. Types'
    BY <1>1, <1>2, <1>4 DEF Types
<1>6. Fresh' /\ OneEach' /\ Owned' /\ SharedOnes'
    BY <1>2 DEF Fresh, OneEach, Owned, SharedOnes, Shared, Is, In, Has
<1>7. Counted'
    <2>1. \A v \in Value : Times(Put(v), stack) = 0
        BY <1>2, NoCalls
    <2>2. \A v \in Value : (HasOne(v)' <=> HasOne(v)) /\ (InLive(v)' <=> InLive(v))
        BY <1>2 DEF HasOne, InLive, Is, In
    <2> QED BY <1>2, <1>4, <2>1, <2>2 DEF Counted, One, Shared
<1>8. Agree'
    <2>1. \A u : ~Doomed(u) /\ (Doomed(u)' <=> u = w)
        BY <1>2, <1>4, NoCalls DEF Doomed, One
    <2>2. \A u \in Wrapper, k \in Key : ~Has(u, k, w)
        BY <1>3 DEF Owned
    <2> QED BY <1>2, <2>1, <2>2 DEF Agree, Is, In, Has
<1> QED BY <1>5, <1>6, <1>7, <1>8

\* The first call of the stack, and the others.
LEMMA FirstCall ==
    ASSUME Types, ~Idle
    PROVE  /\ Head(stack) \in StackCalls /\ Tail(stack) \in Seq(StackCalls)
           /\ \A c : Times(c, stack) = One(c = Head(stack)) + Times(c, Tail(stack))
           /\ \A c : Times(c, Tail(stack)) \in Nat
BY TimesHead, TimesType DEF Types, Idle

\* The destructor of an object or an array keeps it.
LEMMA RunDeleteInv == ASSUME JsonRefsAssumption, IInv, RunDelete PROVE IInv'
<1> USE DEF IInv
<1>1. PICK w \in Wrapper : Head(stack) = Delete(w) /\ w = Head(stack).of
    BY FirstCall, CallsKinds DEF RunDelete
<1>2. PICK calls \in Calls(Delete, wrap[w].map) : stack' = calls \o <<DecRef(w)>> \o Tail(stack)
    BY <1>1 DEF RunDelete
<1>3. UNCHANGED <<refs, items, wrap, owned, made, orphans, parsed, freedTwice>> /\ ~Idle
    BY DEF RunDelete
<1>4. wrap[w].map \in Partial(Wrapper) /\ DecRef(w) \in StackCalls
    BY DEF Types, Wraps, StackCalls
<1>5. /\ calls \in Seq(StackCalls)
      /\ \A u : Times(Delete(u), calls) = One(\E k \in DOMAIN wrap[w].map : wrap[w].map[k] = u)
      /\ \A u : Times(Put(u), calls) = 0 /\ Times(DecRef(u), calls) = 0
    BY <1>4, DeleteCalls
<1>6. /\ stack' \in Seq(StackCalls)
      /\ \A c : Times(c, stack') = Times(c, calls) + One(c = DecRef(w)) + Times(c, Tail(stack))
    <2>1. Tail(stack) \in Seq(StackCalls) /\ <<DecRef(w)>> \in Seq(StackCalls)
        BY <1>3, <1>4, FirstCall
    <2>2. \A c : Times(c, <<DecRef(w)>>) = One(c = DecRef(w))
        BY <1>4, TimesOne
    <2>3. (calls \o <<DecRef(w)>>) \in Seq(StackCalls)
        BY <1>5, <2>1
    <2>4. \A c : Times(c, calls \o <<DecRef(w)>>) = Times(c, calls) + Times(c, <<DecRef(w)>>)
        BY <1>5, <2>1, TimesConcat
    <2>5. \A c : Times(c, (calls \o <<DecRef(w)>>) \o Tail(stack)) = Times(c, calls \o <<DecRef(w)>>) + Times(c, Tail(stack))
        BY <2>1, <2>3, TimesConcat
    <2>6. stack' = (calls \o <<DecRef(w)>>) \o Tail(stack)
        BY <1>2
    <2>7. stack' \in Seq(StackCalls)
        BY <2>1, <2>3, <2>6
    <2>8. \A c : Times(c, stack') = Times(c, (calls \o <<DecRef(w)>>) \o Tail(stack))
        BY <2>6
    <2> QED BY <2>2, <2>4, <2>5, <2>7, <2>8
<1>7. \A v : Times(Put(v), stack') = Times(Put(v), stack)
    <2> SUFFICES ASSUME NEW v PROVE Times(Put(v), stack') = Times(Put(v), stack)
        OBVIOUS
    <2>1. Times(Put(v), stack') = 0 + 0 + Times(Put(v), Tail(stack))
        BY <1>5, <1>6, CallsDiffer DEF One
    <2>2. Times(Put(v), stack) = 0 + Times(Put(v), Tail(stack))
        BY <1>1, <1>3, FirstCall, CallsDiffer DEF One
    <2> QED BY <2>1, <2>2
<1>8. \A u \in Wrapper : Doomed(u)' <=> Doomed(u) \/ \E k \in Key : Has(w, k, u)
    <2> SUFFICES ASSUME NEW u \in Wrapper PROVE Doomed(u)' <=> Doomed(u) \/ \E k \in Key : Has(w, k, u)
        OBVIOUS
    <2>1. (\E k \in Key : Has(w, k, u)) <=> \E k \in DOMAIN wrap[w].map : wrap[w].map[k] = u
        <3>1. ~wrap[w].alive => DOMAIN wrap[w].map = {}
            BY PartialNone DEF Types, Dead
        <3>2. \A k \in DOMAIN wrap[w].map : k \in Key
            BY <1>4, PartialMap
        <3> QED BY <3>1, <3>2 DEF Has
    <2>2. Times(Delete(u), stack') = One(\E k \in Key : Has(w, k, u)) + Times(Delete(u), Tail(stack))
        BY <1>3, <1>5, <1>6, <2>1, CallsDiffer, FirstCall DEF One
    <2>3. Times(DecRef(u), stack') = One(u = w) + Times(DecRef(u), Tail(stack))
        BY <1>3, <1>5, <1>6, CallsDiffer, FirstCall DEF One
    <2>4. Times(Delete(u), stack) = One(u = w) + Times(Delete(u), Tail(stack))
        BY <1>1, <1>3, CallsDiffer, FirstCall DEF One
    <2>5. Times(DecRef(u), stack) = Times(DecRef(u), Tail(stack))
        BY <1>1, <1>3, CallsDiffer, FirstCall DEF One
    <2>6. Times(DecRef(u), Tail(stack)) \in Nat /\ Times(Delete(u), Tail(stack)) \in Nat
        BY <1>3, FirstCall
    <2> QED BY <2>2, <2>3, <2>4, <2>5, <2>6 DEF Doomed, One
<1>9. Types'
    BY <1>3, <1>6 DEF Types
<1>10. Fresh' /\ OneEach' /\ Owned' /\ SharedOnes'
    BY <1>3 DEF Fresh, OneEach, Owned, SharedOnes, Shared, Is, In, Has
<1>11. Counted'
    <2>1. \A v \in Value : (HasOne(v)' <=> HasOne(v)) /\ (InLive(v)' <=> InLive(v))
        BY <1>3 DEF HasOne, InLive, Is, In
    <2> QED BY <1>3, <1>7, <2>1 DEF Counted, One, Shared
<1>12. Agree'
    <2>1. Doomed(w)
        <3>1. Times(Delete(w), stack) = 1 + Times(Delete(w), Tail(stack)) /\ Times(Delete(w), Tail(stack)) \in Nat
            BY <1>1, <1>3, FirstCall DEF One
        <3> QED BY <3>1 DEF Doomed
    <2>2. /\ \A u \in Wrapper, v \in Value : Is(u, v)' <=> Is(u, v)
          /\ \A p, v \in Value, k \in Key : In(p, k, v)' <=> In(p, k, v)
          /\ \A u, c \in Wrapper, k \in Key : Has(u, k, c)' <=> Has(u, k, c)
        BY <1>3 DEF Is, In, Has
    <2>3. \A u, c \in Wrapper, k, l \in Key : Has(u, k, c) /\ Has(w, l, c) => u = w
        BY DEF OneEach
    <2> QED BY <1>3, <1>8, <2>1, <2>2, <2>3 DEF Agree
<1> QED BY <1>9, <1>10, <1>11, <1>12

\* Giving up the reference of a wrapper, and the wrapper, keeps it.
LEMMA RunDecRefInv == ASSUME JsonRefsAssumption, IInv, RunDecRef PROVE IInv'
<1> USE DEF IInv
<1>1. PICK w \in Wrapper : Head(stack) = DecRef(w) /\ w = Head(stack).of
    BY FirstCall, CallsKinds DEF RunDecRef
<1>2. /\ stack' = (IF HasValue(w) THEN <<Put(wrap[w].jobj)>> ELSE <<>>) \o Tail(stack)
      /\ wrap' = [wrap EXCEPT ![w] = Dead] /\ owned' = owned \ {w}
    BY <1>1 DEF RunDecRef
<1>3. UNCHANGED <<refs, items, made, orphans, parsed, freedTwice>> /\ ~Idle
    BY DEF RunDecRef
<1>4. /\ stack' \in Seq(StackCalls)
      /\ \A v \in Value : Times(Put(v), stack') = Times(Put(v), stack) + One(Is(w, v))
      /\ \A u \in Wrapper : u # w => (Doomed(u)' <=> Doomed(u))
      /\ Doomed(w)
    <2> DEFINE put == IF HasValue(w) THEN <<Put(wrap[w].jobj)>> ELSE <<>>
    <2>1. HasValue(w) => Put(wrap[w].jobj) \in StackCalls /\ wrap[w].jobj \in Value /\ wrap[w].alive
        BY DEF HasValue, StackCalls, Types, Wraps, Dead
    <2>2. put \in Seq(StackCalls)
        BY <2>1
    <2>3. \A v \in Value : Times(Put(v), put) = One(Is(w, v))
        <3>1. CASE HasValue(w)
            <4>1. \A c : Times(c, put) = One(c = Put(wrap[w].jobj))
                BY <2>1, <3>1, TimesOne
            <4> QED BY <2>1, <3>1, <4>1, CallsDiffer DEF One, Is
        <3>2. CASE ~HasValue(w)
            <4>1. \A v \in Value : ~Is(w, v)
                BY <3>2 DEF HasValue, Is, Value, NULL
            <4> QED BY <3>2, <4>1, NoCalls DEF One
        <3> QED BY <3>1, <3>2
    <2>4. \A u : Times(Delete(u), put) = 0 /\ Times(DecRef(u), put) = 0
        <3>1. CASE HasValue(w)
            <4>1. \A c : Times(c, put) = One(c = Put(wrap[w].jobj))
                BY <2>1, <3>1, TimesOne
            <4> QED BY <4>1, CallsDiffer DEF One
        <3>2. CASE ~HasValue(w)
            BY <3>2, NoCalls
        <3> QED BY <3>1, <3>2
    <2> HIDE DEF put
    <2>5. Tail(stack) \in Seq(StackCalls) /\ stack' = put \o Tail(stack)
        BY <1>2, <1>3, FirstCall DEF put
    <2>6. \A c : Times(c, stack') = Times(c, put) + Times(c, Tail(stack))
        BY <2>2, <2>5, TimesConcat
    <2>7. stack' \in Seq(StackCalls)
        BY <2>2, <2>5
    <2>8. \A v \in Value : Times(Put(v), stack') = Times(Put(v), stack) + One(Is(w, v))
        <3> SUFFICES ASSUME NEW v \in Value PROVE Times(Put(v), stack') = Times(Put(v), stack) + One(Is(w, v))
            OBVIOUS
        <3>1. Times(Put(v), stack) = Times(Put(v), Tail(stack)) /\ Times(Put(v), Tail(stack)) \in Nat
            BY <1>1, <1>3, FirstCall, CallsDiffer DEF One
        <3> QED BY <2>3, <2>6, <3>1 DEF One
    <2>9. \A u \in Wrapper : u # w => (Doomed(u)' <=> Doomed(u))
        <3> SUFFICES ASSUME NEW u \in Wrapper, u # w PROVE Doomed(u)' <=> Doomed(u)
            OBVIOUS
        <3>1. Times(Delete(u), stack) = Times(Delete(u), Tail(stack)) /\ Times(DecRef(u), stack) = Times(DecRef(u), Tail(stack))
              /\ Times(Delete(u), Tail(stack)) \in Nat /\ Times(DecRef(u), Tail(stack)) \in Nat
            BY <1>1, <1>3, FirstCall, CallsDiffer DEF One
        <3>2. Times(Delete(u), stack') = Times(Delete(u), Tail(stack)) /\ Times(DecRef(u), stack') = Times(DecRef(u), Tail(stack))
            BY <2>4, <2>6, <3>1
        <3> QED BY <3>1, <3>2 DEF Doomed
    <2>10. Doomed(w)
        <3>1. Times(DecRef(w), stack) = 1 + Times(DecRef(w), Tail(stack)) /\ Times(DecRef(w), Tail(stack)) \in Nat
            BY <1>1, <1>3, FirstCall DEF One
        <3> QED BY <3>1 DEF Doomed
    <2> QED BY <2>7, <2>8, <2>9, <2>10
<1>5. /\ \A u \in Wrapper : wrap'[u] = IF u = w THEN Dead ELSE wrap[u]
      /\ Dead \in Wraps /\ ~Dead.alive
    BY <1>2, PartialNone DEF Types, Dead, Wraps
<1>6. /\ \A u \in Wrapper : wrap'[u].alive <=> wrap[u].alive /\ u # w
      /\ \A u \in Wrapper, v \in Value : Is(u, v)' <=> Is(u, v) /\ u # w
      /\ \A p, v \in Value, k \in Key : In(p, k, v)' <=> In(p, k, v)
      /\ \A u, c \in Wrapper, k \in Key : Has(u, k, c)' <=> Has(u, k, c) /\ u # w
    BY <1>3, <1>5 DEF Is, In, Has
<1>7. Types'
    <2>1. wrap' \in [Wrapper -> Wraps]
        BY <1>2, <1>5 DEF Types
    <2> QED BY <1>2, <1>3, <1>4, <1>5, <2>1 DEF Types
<1>8. Fresh'
    BY <1>2, <1>3, <1>6 DEF Fresh
<1>9. OneEach'
    BY <1>3, <1>6 DEF OneEach, Types
<1>10. Owned'
    BY <1>2, <1>6 DEF Owned
<1>11. SharedOnes'
    <2>1. Shared' = Shared /\ Shared \subseteq Value
        BY <1>3 DEF Shared, Types
    <2>2. \A v \in Shared, u \in Wrapper : Is(u, v)' => u \in owned'
        BY <1>2, <1>5, <1>6, <2>1 DEF SharedOnes
    <2> QED BY <1>3, <2>1, <2>2 DEF SharedOnes
<1>12. Counted'
    <2>1. Shared' = Shared
        BY <1>3 DEF Shared
    <2> SUFFICES ASSUME NEW v \in Value \ Shared
                 PROVE  refs[v] = One(HasOne(v)') + One(InLive(v)') + One(v \in orphans) + Times(Put(v), stack')
        BY <1>3, <2>1 DEF Counted, One
    <2>2. InLive(v)' <=> InLive(v)
        BY <1>3, <1>6 DEF InLive
    <2>3. One(HasOne(v)) = One(HasOne(v)') + One(Is(w, v))
        BY <1>6 DEF HasOne, One, OneEach
    <2>4. refs[v] = One(HasOne(v)) + One(InLive(v)) + One(v \in orphans) + Times(Put(v), stack)
        BY DEF Counted
    <2>5. Times(Put(v), stack) \in Nat
        BY TimesType DEF Types
    <2> QED BY <1>4, <2>2, <2>3, <2>4, <2>5 DEF One
<1>13. Agree'
    BY <1>3, <1>4, <1>6 DEF Agree
<1> QED BY <1>7, <1>8, <1>9, <1>10, <1>11, <1>12, <1>13

\* The C library's release of a value keeps it.
LEMMA RunPutInv == ASSUME JsonRefsAssumption, IInv, RunPut PROVE IInv'
<1> USE DEF IInv
<1>1. PICK x \in Value : Head(stack) = Put(x) /\ x = Head(stack).of
    BY FirstCall, CallsKinds DEF RunPut
<1>2. UNCHANGED <<items, wrap, owned, made, orphans, parsed>> /\ ~Idle
    BY DEF RunPut
<1>3. /\ Tail(stack) \in Seq(StackCalls) /\ \A c : Times(c, Tail(stack)) \in Nat
      /\ \A v : Times(Put(v), stack) = One(v = x) + Times(Put(v), Tail(stack))
      /\ \A u : Times(Delete(u), stack) = Times(Delete(u), Tail(stack))
      /\ \A u : Times(DecRef(u), stack) = Times(DecRef(u), Tail(stack))
    BY <1>1, <1>2, FirstCall, CallsDiffer DEF One
<1>4. /\ \A u \in Wrapper, v \in Value : Is(u, v)' <=> Is(u, v)
      /\ \A p, v \in Value, k \in Key : In(p, k, v)' <=> In(p, k, v)
      /\ \A u, c \in Wrapper, k \in Key : Has(u, k, c)' <=> Has(u, k, c)
      /\ Shared' = Shared /\ Shared \subseteq Value
    BY <1>2 DEF Is, In, Has, Shared, Types
<1>5. refs[x] \in Nat /\ (x \in Shared \/ refs[x] > 0)
    <2>1. refs[x] \in Nat
        BY DEF Types
    <2>2. x \notin Shared => refs[x] > 0
        BY <1>3 DEF Counted, One
    <2> QED BY <2>1, <2>2
<1>6. PICK calls \in Seq(StackCalls) :
        /\ stack' = calls \o Tail(stack)
        /\ \A v : Times(Put(v), calls) = One(refs[x] = 1 /\ \E k \in DOMAIN items[x] : items[x][k] = v)
        /\ \A u : Times(Delete(u), calls) = 0 /\ Times(DecRef(u), calls) = 0
    <2>1. CASE refs[x] = 1
        <3>1. PICK calls \in Calls(Put, items[x]) : stack' = calls \o Tail(stack)
            BY <1>1, <2>1 DEF RunPut
        <3>2. items[x] \in Partial(Value)
            BY DEF Types
        <3> QED BY <2>1, <3>1, <3>2, PutCalls DEF One
    <2>2. CASE refs[x] # 1
        <3>1. stack' = Tail(stack)
            BY <1>1, <2>2 DEF RunPut
        <3>2. <<>> \in Seq(StackCalls) /\ stack' = <<>> \o Tail(stack)
            BY <1>3, <3>1
        <3>3. \A v : One(refs[x] = 1 /\ \E k \in DOMAIN items[x] : items[x][k] = v) = 0
            BY <2>2 DEF One
        <3> QED BY <3>2, <3>3, NoCalls
    <2> QED BY <2>1, <2>2
<1>7. /\ stack' \in Seq(StackCalls)
      /\ \A c : Times(c, stack') = Times(c, calls) + Times(c, Tail(stack))
    <2>1. stack' \in Seq(StackCalls)
        BY <1>3, <1>6
    <2>2. \A c : Times(c, calls \o Tail(stack)) = Times(c, calls) + Times(c, Tail(stack))
        <3>1. calls \in Seq(StackCalls) /\ Tail(stack) \in Seq(StackCalls)
            BY <1>3, <1>6
        <3> QED BY <3>1, TimesConcat
    <2> QED BY <1>6, <2>1, <2>2
<1>8. \A u : Doomed(u)' <=> Doomed(u)
    BY <1>3, <1>6, <1>7 DEF Doomed
<1>9. /\ refs' = (IF refs[x] = 0 THEN refs ELSE [refs EXCEPT ![x] = @ - 1])
      /\ freedTwice' = (IF refs[x] = 0 THEN freedTwice \cup {x} ELSE freedTwice)
    BY <1>1 DEF RunPut
<1>10. \A v \in Value : refs'[v] = IF v = x /\ refs[x] # 0 THEN refs[x] - 1 ELSE refs[v]
    BY <1>9 DEF Types
<1>11. Types'
    <2>1. refs' \in [Value -> 0 .. 2]
        BY <1>9 DEF Types
    <2> QED BY <1>2, <1>7, <2>1 DEF Types
<1>12. Fresh'
    BY <1>2, <1>4, <1>10 DEF Fresh
<1>13. OneEach' /\ Owned'
    BY <1>2, <1>4 DEF OneEach, Owned, Types
<1>14. SharedOnes'
    BY <1>2, <1>4, <1>5, <1>9 DEF SharedOnes
<1>15. Counted'
    <2> SUFFICES ASSUME NEW v \in Value \ Shared
                 PROVE  refs'[v] = One(HasOne(v)') + One(InLive(v)') + One(v \in orphans) + Times(Put(v), stack')
        BY <1>2, <1>4 DEF Counted, One
    <2>1. HasOne(v)' <=> HasOne(v)
        BY <1>4 DEF HasOne
    <2>2. refs[v] = One(HasOne(v)) + One(InLive(v)) + One(v \in orphans) + One(v = x) + Times(Put(v), Tail(stack))
        BY <1>3 DEF Counted, One
    <2>3. Times(Put(v), stack') = One(refs[x] = 1 /\ \E k \in Key : In(x, k, v)) + Times(Put(v), Tail(stack))
        <3>1. (\E k \in DOMAIN items[x] : items[x][k] = v) <=> \E k \in Key : In(x, k, v)
            <4>1. \A k \in DOMAIN items[x] : k \in Key
                BY PartialMap DEF Types
            <4> QED BY <4>1 DEF In
        <3> QED BY <1>6, <1>7, <3>1 DEF One
    <2>4. One(InLive(v)) = One(InLive(v)') + One(refs[x] = 1 /\ \E k \in Key : In(x, k, v))
        <3>1. \A p \in Value : refs'[p] > 0 <=> refs[p] > 0 /\ ~(p = x /\ refs[x] = 1)
            BY <1>5, <1>10
        <3>2. InLive(v)' <=> \E p \in Value, k \in Key : refs'[p] > 0 /\ In(p, k, v)
            BY <1>4 DEF InLive
        <3>3. \A p, q \in Value, k, l \in Key : In(p, k, v) /\ In(q, l, v) => p = q
            BY DEF OneEach
        <3>4. CASE refs[x] = 1 /\ \E k \in Key : In(x, k, v)
            <4>1. InLive(v) /\ ~InLive(v)'
                BY <3>1, <3>2, <3>3, <3>4 DEF InLive
            <4> QED BY <3>4, <4>1 DEF One
        <3>5. CASE ~(refs[x] = 1 /\ \E k \in Key : In(x, k, v))
            <4>1. InLive(v)' <=> InLive(v)
                BY <3>1, <3>2, <3>5 DEF InLive
            <4> QED BY <3>5, <4>1 DEF One
        <3> QED BY <3>4, <3>5
    <2>5. refs'[v] = refs[v] - One(v = x)
        BY <1>5, <1>10 DEF One, Types
    <2>6. Times(Put(v), Tail(stack)) \in Nat
        BY <1>3
    <2> QED BY <2>1, <2>2, <2>3, <2>4, <2>5, <2>6 DEF One
<1>16. Agree'
    BY <1>2, <1>4, <1>8 DEF Agree
<1> QED BY <1>11, <1>12, <1>13, <1>14, <1>15, <1>16
\* The fields of a live wrapper.
LEMMA LiveFields ==
    ASSUME NEW v \in Value, NEW f \in Partial(Wrapper), NEW kind \in {"element", "container"}
    PROVE  /\ Live(v, f, kind) \in Wraps /\ Live(v, f, kind).alive /\ Live(v, f, kind).jobj = v
           /\ Live(v, f, kind).map = f /\ Live(v, f, kind).kind = kind
BY DEF Live, Wraps


\* What is under the keys of a branch, moved to where it begins.
LEMMA FromBranch ==
    ASSUME NEW size \in Nat, NEW branch \in Branches(size), NEW n \in Int
    PROVE  /\ DOMAIN From(n, branch) = DOMAIN branch /\ DOMAIN branch \subseteq Key
           /\ \A k \in DOMAIN branch : branch[k] \in 1 .. size - 1 /\ From(n, branch)[k] = n + branch[k]
BY DEF Branches, From

\* It is a map, if there is room for it.
LEMMA FromPartial ==
    ASSUME NEW size \in Nat, NEW branch \in Branches(size), NEW n \in Int, NEW T,
           \A i \in 1 .. size - 1 : n + i \in T
    PROVE  From(n, branch) \in Partial(T)
<1>1. From(n, branch) \in [DOMAIN branch -> T] /\ DOMAIN branch \in SUBSET Key
    BY FromBranch DEF From
<1> QED BY <1>1 DEF Partial

\* Making the wrappers of a parsed tree keeps it.
LEMMA FromPtrInv == ASSUME JsonRefsAssumption, IInv, FromPtr PROVE IInv'
<1> USE DEF IInv
<1>a. PICK size \in Wrapper :
        \E inner \in SUBSET (0 .. size - 1), down \in [0 .. size - 1 -> Branches(size)] :
            IsTree(size, inner, down) /\ Parse(size, inner, down)
    BY DEF FromPtr
<1>1. PICK inner \in SUBSET (0 .. size - 1), down \in [0 .. size - 1 -> Branches(size)] :
            IsTree(size, inner, down) /\ Parse(size, inner, down)
    BY <1>a
<1> DEFINE Node == 0 .. size - 1
<1>2. Cardinality(inner) \in Nat \ {0} /\ size \in Nat \ {0} /\ 0 \in Node
    <2>1. size \in Nat \ {0} /\ 0 \in 0 .. size - 1
        BY DEF Wrapper
    <2>2. IsFiniteSet(0 .. size - 1)
        BY <2>1, FS_Interval
    <2>3. IsFiniteSet(inner)
        BY <2>2, FS_Subset
    <2>4. inner # {}
        BY <1>1 DEF IsTree
    <2> QED BY <2>1, <2>3, <2>4, FS_CardinalityType, FS_EmptySet
<1>b. PICK c \in Nat \ {0} : c = Cardinality(inner)
    BY <1>2
<1>c. PICK n \in Int, m \in Int :
        n = v1 /\ n = made.values + 1 /\ m = w1 /\ m = made.wrappers + 1
    <2>1. made.values \in Nat /\ made.wrappers \in Nat
        BY DEF Types, JsonRefsAssumption
    <2> QED BY <2>1 DEF v1, w1
<1>3. PICK root \in Int, last \in Int, top \in Int :
        root = n + c /\ last = root + size - 1 /\ top = m + size - 1
    BY <1>2
<1>4. /\ 1 <= n /\ n < root /\ root <= last /\ last <= MaxValue
      /\ 1 <= m /\ m <= top /\ top <= MaxWrapper /\ MaxValue \in Nat /\ MaxWrapper \in Nat
      /\ made' = [values |-> last, wrappers |-> top]
    <2>1. /\ made.values + (c + size) <= MaxValue /\ made.wrappers + size <= MaxWrapper
          /\ made' = [values |-> made.values + (c + size), wrappers |-> made.wrappers + size]
        BY <1>1, <1>b DEF Parse, Make
    <2>2. PICK i \in Nat, j \in Nat, z \in Nat \ {0} : i = made.values /\ j = made.wrappers /\ z = size
        BY <1>2 DEF Types, JsonRefsAssumption
    <2>3. n = i + 1 /\ m = j + 1 /\ last = root + z - 1 /\ top = m + z - 1
        BY <1>c, <1>3, <2>2
    <2>4. /\ 1 <= n /\ n < root /\ root <= last /\ 1 <= m /\ m <= top
          /\ last = i + (c + z) /\ top = j + z
        BY <1>3, <2>3
    <2>5. i + (c + z) <= MaxValue /\ j + z <= MaxWrapper /\ made' = [values |-> i + (c + z), wrappers |-> j + z]
        BY <2>1, <2>2
    <2> QED BY <2>4, <2>5 DEF JsonRefsAssumption
<1>5. /\ refs' = [v \in Value |-> IF v \in n .. last THEN 1 ELSE refs[v]]
      /\ items' = [v \in Value |-> IF v \in root .. last THEN From(root, down[v - root]) ELSE items[v]]
      /\ wrap' = [w \in Wrapper |->
                    IF w \notin m .. top THEN wrap[w]
                    ELSE Live(root + (w - m), From(m, down[w - m]),
                              IF w - m \in inner THEN "container" ELSE "element")]
      /\ owned' = owned \cup m + 1 .. top
      /\ orphans' = orphans \cup n .. root - 1
      /\ parsed' = parsed \cup root .. last
      /\ IsTree(size, inner, down)
    <2>1. root = v1 + Cardinality(inner) /\ last = root + size - 1 /\ top = w1 + size - 1 /\ n = v1 /\ m = w1
        BY <1>b, <1>c, <1>3
    <2> QED BY <1>1, <2>1 DEF Parse
<1>6. stack = <<>> /\ UNCHANGED <<stack, freedTwice>>
    BY DEF FromPtr, Idle
<1>7. /\ \A u : ~Doomed(u) /\ ~Doomed(u)'
      /\ \A v : Times(Put(v), stack) = 0 /\ Times(Put(v), stack') = 0
    BY <1>6, NoCalls DEF Doomed
\* What is new has not been anywhere.
<1>8. /\ \A v \in Value : v >= n => /\ refs[v] = 0 /\ items[v] = NoItems /\ v \notin orphans /\ v \notin parsed
                                    /\ (\A u \in Wrapper : ~Is(u, v)) /\ \A p \in Value, k \in Key : ~In(p, k, v)
      /\ \A d \in Wrapper : d >= m => /\ ~wrap[d].alive /\ d \notin owned
                                      /\ \A u \in Wrapper, k \in Key : ~Has(u, k, d)
    <2>1. PICK i \in Nat, j \in Nat : i = made.values /\ j = made.wrappers
        BY DEF Types, JsonRefsAssumption
    <2>2. n = i + 1 /\ m = j + 1
        BY <1>c, <2>1
    <2>3. /\ \A v \in Value : v >= n => v > i
          /\ \A u \in Wrapper : u >= m => u > j
        BY <2>2 DEF Value, Wrapper
    <2> QED BY <2>1, <2>3 DEF Fresh
<1>9. /\ \A v \in Value : v >= n => \A k \in Key, x \in Value : ~In(v, k, x)
      /\ \A d \in Wrapper : d >= m => /\ \A k \in Key, x \in Wrapper : ~Has(d, k, x)
                                      /\ \A v \in Value : ~Is(d, v)
    BY <1>8, PartialNone DEF In, Has, Is
<1> HIDE DEF IInv
\* Nodes of the tree, and where they are.
<1>10. /\ \A i \in Node : root + i \in Value /\ root + i >= root /\ root + i <= last
       /\ \A i \in Node : m + i \in Wrapper /\ m + i >= m /\ m + i <= top
       /\ \A v \in root .. last : v - root \in Node /\ root + (v - root) = v /\ v \in Value
       /\ \A w \in m .. top : w - m \in Node /\ m + (w - m) = w /\ w \in Wrapper
       /\ 1 .. size - 1 \subseteq Node
    <2>1. size \in Nat \ {0} /\ last = root + size - 1 /\ top = m + size - 1
        BY <1>2, <1>3
    <2>2. \A i \in Node : root + i \in Value /\ root + i >= root /\ root + i <= last
        BY <1>4, <2>1 DEF Value
    <2>3. \A i \in Node : m + i \in Wrapper /\ m + i >= m /\ m + i <= top
        BY <1>4, <2>1 DEF Wrapper
    <2>4. \A v \in root .. last : v - root \in Node /\ root + (v - root) = v /\ v \in Value
        BY <1>4, <2>1 DEF Value
    <2>5. \A w \in m .. top : w - m \in Node /\ m + (w - m) = w /\ w \in Wrapper
        BY <1>4, <2>1 DEF Wrapper
    <2> QED BY <2>1, <2>2, <2>3, <2>4, <2>5
<1> DEFINE Under(p, k, i) == k \in DOMAIN down[p] /\ down[p][k] = i
<1>11. /\ \A p \in Node : down[p] \in Branches(size)
       /\ \A p \in Node : \A k, i : Under(p, k, i) => k \in Key /\ i \in 1 .. size - 1 /\ i \in Node /\ p < i
       /\ \A p, q \in Node : \A k, l, i : Under(p, k, i) /\ Under(q, l, i) => p = q /\ k = l
    <2>1. \A p \in Node : down[p] \in Branches(size)
        OBVIOUS
    <2>2. ASSUME NEW p \in Node, NEW k \in DOMAIN down[p]
          PROVE  k \in Key /\ down[p][k] \in 1 .. size - 1 /\ p < down[p][k]
        <3>1. k \in Key /\ down[p][k] \in 1 .. size - 1
            BY <1>2, <2>1, FromBranch
        <3>2. p < down[p][k]
            BY <1>5 DEF IsTree
        <3> QED BY <3>1, <3>2
    <2>3. \A p, q \in Node : \A k \in DOMAIN down[p], l \in DOMAIN down[q] :
              down[p][k] = down[q][l] => p = q /\ k = l
        BY <1>5 DEF IsTree
    <2> QED BY <1>10, <2>1, <2>2, <2>3
<1>12. /\ \A v \in Value : refs'[v] = IF n <= v /\ v <= last THEN 1 ELSE refs[v]
       /\ \A v \in Value : v < root \/ v > last => items'[v] = items[v]
       /\ \A i \in Node : items'[root + i] = From(root, down[i])
       /\ \A w \in Wrapper : w < m \/ w > top => wrap'[w] = wrap[w]
       /\ \A i \in Node : wrap'[m + i] = Live(root + i, From(m, down[i]), IF i \in inner THEN "container" ELSE "element")
    <2>1. \A v \in Value : v \in Int
        BY DEF Value
    <2>2. \A w \in Wrapper : w \in Int
        BY DEF Wrapper
    <2>3. /\ \A v \in Value : refs'[v] = IF n <= v /\ v <= last THEN 1 ELSE refs[v]
          /\ \A v \in Value : v < root \/ v > last => items'[v] = items[v]
          /\ \A w \in Wrapper : w < m \/ w > top => wrap'[w] = wrap[w]
        BY <1>5, <2>1, <2>2
    <2>4. ASSUME NEW i \in Node
          PROVE  /\ items'[root + i] = From(root, down[i])
                 /\ wrap'[m + i] = Live(root + i, From(m, down[i]), IF i \in inner THEN "container" ELSE "element")
        <3>1. root + i \in Value /\ root + i \in root .. last /\ (root + i) - root = i
            BY <1>10
        <3>2. m + i \in Wrapper /\ m + i \in m .. top /\ (m + i) - m = i
            BY <1>10
        <3>3. items'[root + i] = From(root, down[i])
            BY <1>5, <3>1
        <3>4. wrap'[m + i] = Live(root + i, From(m, down[i]), IF i \in inner THEN "container" ELSE "element")
            BY <1>5, <3>2
        <3> QED BY <3>3, <3>4
    <2> QED BY <2>3, <2>4
<1>13. \A i \in Node : /\ wrap'[m + i] \in Wraps /\ wrap'[m + i].alive /\ wrap'[m + i].jobj = root + i
                       /\ wrap'[m + i].map = From(m, down[i]) /\ From(m, down[i]) \in Partial(Wrapper)
                       /\ From(root, down[i]) \in Partial(Value)
    <2> SUFFICES ASSUME NEW i \in Node
                 PROVE  /\ wrap'[m + i] \in Wraps /\ wrap'[m + i].alive /\ wrap'[m + i].jobj = root + i
                        /\ wrap'[m + i].map = From(m, down[i]) /\ From(m, down[i]) \in Partial(Wrapper)
                        /\ From(root, down[i]) \in Partial(Value)
        OBVIOUS
    <2>1. From(m, down[i]) \in Partial(Wrapper) /\ From(root, down[i]) \in Partial(Value)
        BY <1>2, <1>10, <1>11, FromPartial
    <2>2. PICK kind \in {"element", "container"} : kind = IF i \in inner THEN "container" ELSE "element"
        OBVIOUS
    <2>3. root + i \in Value
        BY <1>10
    <2>4. wrap'[m + i] = Live(root + i, From(m, down[i]), kind)
        BY <1>12, <2>2
    <2> QED BY <2>1, <2>3, <2>4, LiveFields
<1>14. /\ \A u \in Wrapper : wrap'[u].alive <=> wrap[u].alive \/ u \in m .. top
       /\ \A u \in Wrapper, v \in Value : Is(u, v)' <=> Is(u, v) \/ \E i \in Node : u = m + i /\ v = root + i
    <2> SUFFICES ASSUME NEW u \in Wrapper
                 PROVE  /\ wrap'[u].alive <=> wrap[u].alive \/ u \in m .. top
                        /\ \A v \in Value : Is(u, v)' <=> Is(u, v) \/ \E i \in Node : u = m + i /\ v = root + i
        OBVIOUS
    <2>1. CASE u \in m .. top
        <3>1. PICK j \in Node : u = m + j
            BY <1>10, <2>1
        <3>2. \A i \in Node : u = m + i => i = j
            BY <1>3, <3>1
        <3>3. wrap'[u].alive /\ wrap'[u].jobj = root + j
            BY <1>13, <3>1
        <3>4. \A v \in Value : ~Is(u, v)
            BY <1>9, <1>10, <3>1
        <3> QED BY <2>1, <3>1, <3>2, <3>3, <3>4 DEF Is
    <2>2. CASE u \notin m .. top
        <3>1. wrap'[u] = wrap[u]
            BY <1>3, <1>12, <2>2 DEF Wrapper
        <3>2. \A i \in Node : u # m + i
            BY <1>3, <1>10, <2>2
        <3> QED BY <2>2, <3>1, <3>2 DEF Is
    <2> QED BY <2>1, <2>2
<1>15. \A p, v \in Value, k \in Key :
          In(p, k, v)' <=> In(p, k, v) \/ \E a, i \in Node : p = root + a /\ v = root + i /\ Under(a, k, i)
    <2> SUFFICES ASSUME NEW p \in Value, NEW v \in Value, NEW k \in Key
                 PROVE  In(p, k, v)' <=> In(p, k, v) \/ \E a, i \in Node : p = root + a /\ v = root + i /\ Under(a, k, i)
        OBVIOUS
    <2>1. CASE p \in root .. last
        <3>1. PICK a \in Node : p = root + a
            BY <1>10, <2>1
        <3>2. \A b \in Node : p = root + b => b = a
            BY <1>3, <3>1
        <3>3. /\ DOMAIN items'[p] = DOMAIN down[a]
              /\ \A l \in DOMAIN down[a] : items'[p][l] = root + down[a][l] /\ down[a][l] \in Node
            <4>1. items'[p] = From(root, down[a]) /\ down[a] \in Branches(size)
                BY <1>11, <1>12, <3>1
            <4>2. /\ DOMAIN From(root, down[a]) = DOMAIN down[a]
                  /\ \A l \in DOMAIN down[a] : down[a][l] \in 1 .. size - 1 /\ From(root, down[a])[l] = root + down[a][l]
                BY <1>2, <1>3, <4>1, FromBranch
            <4> QED BY <1>10, <4>1, <4>2
        <3>4. ~In(p, k, v)
            <4>1. p >= n
                BY <1>3, <1>4, <2>1
            <4> QED BY <1>9, <4>1
        <3>5. In(p, k, v)' <=> k \in DOMAIN down[a] /\ v = root + down[a][k]
            BY <3>3 DEF In
        <3> QED BY <3>1, <3>2, <3>3, <3>4, <3>5
    <2>2. CASE p \notin root .. last
        <3>1. items'[p] = items[p]
            BY <1>3, <1>12, <2>2 DEF Value
        <3>2. \A a \in Node : p # root + a
            BY <1>3, <1>10, <2>2
        <3> QED BY <3>1, <3>2 DEF In
    <2> QED BY <2>1, <2>2
<1>16. \A u, d \in Wrapper, k \in Key :
          Has(u, k, d)' <=> Has(u, k, d) \/ \E a, i \in Node : u = m + a /\ d = m + i /\ Under(a, k, i)
    <2> SUFFICES ASSUME NEW u \in Wrapper, NEW d \in Wrapper, NEW k \in Key
                 PROVE  Has(u, k, d)' <=> Has(u, k, d) \/ \E a, i \in Node : u = m + a /\ d = m + i /\ Under(a, k, i)
        OBVIOUS
    <2>1. CASE u \in m .. top
        <3>1. PICK a \in Node : u = m + a
            BY <1>10, <2>1
        <3>2. \A b \in Node : u = m + b => b = a
            BY <1>3, <3>1
        <3>3. /\ wrap'[u].alive /\ DOMAIN wrap'[u].map = DOMAIN down[a]
              /\ \A l \in DOMAIN down[a] : wrap'[u].map[l] = m + down[a][l] /\ down[a][l] \in Node
            <4>1. wrap'[u].alive /\ wrap'[u].map = From(m, down[a]) /\ down[a] \in Branches(size)
                BY <1>11, <1>13, <3>1
            <4>2. /\ DOMAIN From(m, down[a]) = DOMAIN down[a]
                  /\ \A l \in DOMAIN down[a] : down[a][l] \in 1 .. size - 1 /\ From(m, down[a])[l] = m + down[a][l]
                BY <1>2, <1>3, <4>1, FromBranch
            <4> QED BY <1>10, <4>1, <4>2
        <3>4. ~Has(u, k, d)
            BY <1>9, <1>10, <3>1
        <3>5. Has(u, k, d)' <=> k \in DOMAIN down[a] /\ d = m + down[a][k]
            BY <3>3 DEF Has
        <3> QED BY <3>1, <3>2, <3>3, <3>4, <3>5
    <2>2. CASE u \notin m .. top
        <3>1. wrap'[u] = wrap[u]
            BY <1>3, <1>12, <2>2 DEF Wrapper
        <3>2. \A a \in Node : u # m + a
            BY <1>3, <1>10, <2>2
        <3> QED BY <3>1, <3>2 DEF Has
    <2> QED BY <2>1, <2>2
\* Of the new values, those that are in another one.
<1>17. /\ Shared \subseteq Value /\ \A v \in Shared : v < n
       /\ \A v \in Value : v \in Shared' <=> v \in Shared \/ (root < v /\ v <= last)
       /\ Shared' \subseteq Value
    <2>1. parsed \subseteq Value /\ \A v \in parsed : v < n
        BY <1>3, <1>8 DEF IInv, Types, Value
    <2>2. \A v \in Value : v \in parsed' <=> v \in parsed \/ (root <= v /\ v <= last)
        BY <1>5 DEF Value
    <2>3. \A v \in parsed' : v \in Value
        BY <1>5, <1>10, <2>1
    <2>4. ASSUME NEW v \in Value, v \in Shared' PROVE v \in Shared \/ (root < v /\ v <= last)
        <3>1. v \in parsed' /\ v - 1 \in parsed' /\ v - 1 \in Value /\ v \in Int
            BY <2>3, <2>4 DEF Shared, Value
        <3>2. CASE v \in parsed
            <4>1. v < n /\ v - 1 < root
                BY <1>3, <1>4, <2>1, <3>1, <3>2
            <4>2. v - 1 \in parsed
                BY <1>3, <2>2, <3>1, <4>1
            <4> QED BY <3>2, <4>2 DEF Shared
        <3>3. CASE root <= v /\ v <= last
            <4>1. v # root
                <5> SUFFICES ASSUME v = root PROVE FALSE
                    OBVIOUS
                <5>1. v - 1 < root /\ v - 1 >= n
                    BY <1>3, <1>4
                <5>2. v - 1 \in parsed
                    BY <1>3, <2>2, <3>1, <5>1
                <5> QED BY <1>3, <2>1, <3>1, <5>1, <5>2
            <4> QED BY <1>3, <3>1, <3>3, <4>1
        <3> QED BY <2>2, <3>1, <3>2, <3>3
    <2>5. ASSUME NEW v \in Value, root < v, v <= last PROVE v \in Shared'
        <3>1. v \in Int /\ v - 1 \in Int /\ root <= v - 1 /\ v - 1 <= last
            BY <1>3, <2>5 DEF Value
        <3>2. v - 1 \in Value
            BY <1>3, <1>4, <3>1 DEF Value
        <3> QED BY <1>3, <2>2, <2>5, <3>1, <3>2 DEF Shared
    <2>6. ASSUME NEW v \in Shared PROVE v \in Shared'
        BY <1>5 DEF Shared
    <2>7. Shared \subseteq parsed /\ Shared' \subseteq parsed'
        BY DEF Shared
    <2> QED BY <2>1, <2>3, <2>4, <2>5, <2>6, <2>7
<1>18. Types'
    <2>1. refs' \in [Value -> 0 .. 2]
        BY <1>5 DEF IInv, Types
    <2>2. items' \in [Value -> Partial(Value)]
        <3>1. \A v \in Value : items'[v] \in Partial(Value)
            <4> SUFFICES ASSUME NEW v \in Value PROVE items'[v] \in Partial(Value)
                OBVIOUS
            <4>1. CASE v \in root .. last
                <5>1. PICK i \in Node : v = root + i
                    BY <1>10, <4>1
                <5> QED BY <1>12, <1>13, <5>1
            <4>2. CASE v \notin root .. last
                <5>1. items'[v] = items[v]
                    BY <1>3, <1>12, <4>2 DEF Value
                <5> QED BY <5>1 DEF IInv, Types
            <4> QED BY <4>1, <4>2
        <3> QED BY <1>5, <3>1
    <2>3. \A u \in Wrapper : wrap'[u] \in Wraps /\ (wrap'[u].alive \/ wrap'[u] = Dead)
        <3> SUFFICES ASSUME NEW u \in Wrapper PROVE wrap'[u] \in Wraps /\ (wrap'[u].alive \/ wrap'[u] = Dead)
            OBVIOUS
        <3>1. CASE u \in m .. top
            <4>1. PICK i \in Node : u = m + i
                BY <1>10, <3>1
            <4> QED BY <1>13, <4>1
        <3>2. CASE u \notin m .. top
            <4>1. wrap'[u] = wrap[u]
                BY <1>3, <1>12, <3>2 DEF Wrapper
            <4> QED BY <4>1 DEF IInv, Types
        <3> QED BY <3>1, <3>2
    <2>4. wrap' \in [Wrapper -> Wraps]
        BY <1>5, <2>3
    <2>5. made' \in [values : 0 .. MaxValue, wrappers : 0 .. MaxWrapper]
        BY <1>3, <1>4
    <2>6. owned' \subseteq Wrapper
        <3>1. m + 1 .. top \subseteq Wrapper
            BY <1>3, <1>4 DEF Wrapper
        <3> QED BY <1>5, <3>1 DEF IInv, Types
    <2>7. orphans' \subseteq Value /\ parsed' \subseteq Value
        <3>1. n .. root - 1 \subseteq Value /\ root .. last \subseteq Value
            BY <1>3, <1>4 DEF Value
        <3> QED BY <1>5, <3>1 DEF IInv, Types
    <2> QED BY <1>6, <2>1, <2>2, <2>3, <2>4, <2>5, <2>6, <2>7 DEF IInv, Types
<1>19. Fresh'
    <2>1. \A v \in Value : v > made'.values => v >= n /\ v > last
        BY <1>3, <1>4 DEF Value
    <2>2. \A u \in Wrapper : u > made'.wrappers => u >= m /\ u > top
        BY <1>3, <1>4 DEF Wrapper
    <2>3. ASSUME NEW v \in Value, v > made'.values
          PROVE  /\ refs'[v] = 0 /\ items'[v] = NoItems /\ v \notin orphans' /\ v \notin parsed'
                 /\ (\A u \in Wrapper : ~Is(u, v)') /\ \A p \in Value, k \in Key : ~In(p, k, v)'
        <3>1. v >= n /\ v > last /\ v \in Int /\ \A i \in Node : v # root + i
            BY <1>3, <1>10, <2>1, <2>3 DEF Value
        <3>2. refs'[v] = 0 /\ items'[v] = NoItems
            BY <1>3, <1>8, <1>12, <3>1
        <3>3. v \notin orphans' /\ v \notin parsed'
            BY <1>3, <1>4, <1>5, <1>8, <3>1
        <3> QED BY <1>8, <1>14, <1>15, <3>1, <3>2, <3>3
    <2>4. ASSUME NEW d \in Wrapper, d > made'.wrappers
          PROVE  ~wrap'[d].alive /\ d \notin owned' /\ \A u \in Wrapper, k \in Key : ~Has(u, k, d)'
        <3>1. d >= m /\ d > top /\ d \in Int
            BY <2>2, <2>4 DEF Wrapper
        <3>a. \A i \in Node : d # m + i
            BY <1>3, <1>10, <3>1
        <3>2. ~wrap'[d].alive /\ d \notin owned'
            BY <1>3, <1>5, <1>8, <1>12, <3>1
        <3> QED BY <1>8, <1>16, <3>a, <3>1, <3>2
    <2> QED BY <2>3, <2>4 DEF Fresh
\* A node is where no value and no wrapper was.
<1>20. /\ \A i \in Node, p \in Value, k \in Key : ~In(p, k, root + i)
       /\ \A i \in Node, u \in Wrapper : ~Is(u, root + i)
       /\ \A i \in Node, x \in Value, k \in Key : ~In(root + i, k, x)
       /\ \A i \in Node, u \in Wrapper, k \in Key : ~Has(u, k, m + i)
       /\ \A i \in Node, d \in Wrapper, k \in Key : ~Has(m + i, k, d)
       /\ \A i \in Node, v \in Value : ~Is(m + i, v)
       /\ \A i \in Node : ~wrap[m + i].alive
       /\ \A i, j \in Node : (root + i = root + j => i = j) /\ (m + i = m + j => i = j)
    <2>1. \A i \in Node : root + i \in Value /\ root + i >= n /\ m + i \in Wrapper /\ m + i >= m
        BY <1>3, <1>4, <1>10
    <2>2. \A i, j \in Node : (root + i = root + j => i = j) /\ (m + i = m + j => i = j)
        BY <1>3
    <2>3. /\ \A i \in Node, p \in Value, k \in Key : ~In(p, k, root + i)
          /\ \A i \in Node, u \in Wrapper : ~Is(u, root + i)
          /\ \A i \in Node, u \in Wrapper, k \in Key : ~Has(u, k, m + i)
          /\ \A i \in Node : ~wrap[m + i].alive
        BY <1>8, <2>1
    <2>4. /\ \A i \in Node, x \in Value, k \in Key : ~In(root + i, k, x)
          /\ \A i \in Node, d \in Wrapper, k \in Key : ~Has(m + i, k, d)
          /\ \A i \in Node, v \in Value : ~Is(m + i, v)
        BY <1>9, <2>1
    <2> QED BY <2>2, <2>3, <2>4
<1>21. OneEach'
    <2>1. \A v \in Value, w, u \in Wrapper : Is(w, v)' /\ Is(u, v)' => w = u
        BY <1>14, <1>20 DEF IInv, OneEach
    <2>2. ASSUME NEW v \in Value, NEW p \in Value, NEW q \in Value, NEW k \in Key, NEW l \in Key,
                 In(p, k, v)', In(q, l, v)'
          PROVE  p = q /\ k = l
        <3>1. CASE \E i \in Node : v = root + i
            <4>1. PICK i \in Node : v = root + i
                BY <3>1
            <4>2. PICK a \in Node : p = root + a /\ Under(a, k, i)
                BY <1>15, <1>20, <2>2, <4>1
            <4>3. PICK b \in Node : q = root + b /\ Under(b, l, i)
                BY <1>15, <1>20, <2>2, <4>1
            <4> QED BY <1>11, <4>2, <4>3
        <3>2. CASE \A i \in Node : v # root + i
            BY <1>15, <2>2, <3>2 DEF IInv, OneEach
        <3> QED BY <3>1, <3>2
    <2>3. ASSUME NEW w \in Wrapper, NEW u \in Wrapper, NEW x \in Wrapper, NEW k \in Key, NEW l \in Key,
                 Has(u, k, w)', Has(x, l, w)'
          PROVE  u = x /\ k = l
        <3>1. CASE \E i \in Node : w = m + i
            <4>1. PICK i \in Node : w = m + i
                BY <3>1
            <4>2. PICK a \in Node : u = m + a /\ Under(a, k, i)
                BY <1>16, <1>20, <2>3, <4>1
            <4>3. PICK b \in Node : x = m + b /\ Under(b, l, i)
                BY <1>16, <1>20, <2>3, <4>1
            <4> QED BY <1>11, <4>2, <4>3
        <3>2. CASE \A i \in Node : w # m + i
            BY <1>16, <2>3, <3>2 DEF IInv, OneEach
        <3> QED BY <3>1, <3>2
    <2>4. ASSUME NEW v \in orphans', NEW w \in Wrapper, Is(w, v)' PROVE FALSE
        <3>1. v \in Value /\ (v \in orphans \/ (n <= v /\ v < root))
            BY <1>3, <1>5, <1>18 DEF Types
        <3>2. \A i \in Node : root + i >= n
            BY <1>3, <1>4, <1>10
        <3>3. CASE \E i \in Node : v = root + i
            <4>1. v >= root /\ v >= n
                BY <1>10, <3>2, <3>3
            <4> QED BY <1>3, <1>8, <3>1, <4>1 DEF Value
        <3>4. CASE \A i \in Node : v # root + i
            <4>1. Is(w, v)
                BY <1>14, <2>4, <3>1, <3>4
            <4> QED BY <1>8, <3>1, <4>1 DEF IInv, OneEach
        <3> QED BY <3>3, <3>4
    <2> QED BY <2>1, <2>2, <2>3, <2>4 DEF OneEach
<1>22. \A i \in 1 .. size - 1 : m + i \in owned'
    <2>1. size \in Nat \ {0} /\ top = m + size - 1
        BY <1>2, <1>3
    <2>2. \A i \in 1 .. size - 1 : m + i \in m + 1 .. top
        BY <1>3, <2>1
    <2> QED BY <1>5, <2>2
<1>23. Owned'
    <2>1. ASSUME NEW v \in Value, NEW p \in Value, NEW k \in Key, NEW w \in Wrapper, Is(w, v)', In(p, k, v)'
          PROVE  w \in owned'
        <3>1. CASE \E i \in Node : v = root + i
            <4>1. PICK i \in Node : v = root + i /\ w = m + i
                BY <1>14, <1>20, <2>1, <3>1
            <4>2. i \in 1 .. size - 1
                BY <1>11, <1>15, <1>20, <2>1, <4>1
            <4> QED BY <1>22, <4>1, <4>2
        <3>2. CASE \A i \in Node : v # root + i
            <4>1. Is(w, v) /\ In(p, k, v)
                BY <1>14, <1>15, <2>1, <3>2
            <4> QED BY <1>5, <4>1 DEF IInv, Owned
        <3> QED BY <3>1, <3>2
    <2>2. ASSUME NEW u \in Wrapper, NEW w \in Wrapper, NEW k \in Key, Has(u, k, w)'
          PROVE  w \in owned' \/ ~wrap'[w].alive
        <3>1. CASE \E i \in Node : w = m + i
            <4>1. PICK i \in 1 .. size - 1 : w = m + i
                BY <1>11, <1>16, <1>20, <2>2, <3>1
            <4> QED BY <1>22, <4>1
        <3>2. CASE \A i \in Node : w # m + i
            <4>1. Has(u, k, w)
                BY <1>16, <2>2, <3>2
            <4>2. w \notin m .. top
                BY <1>10, <3>2
            <4> QED BY <1>5, <1>14, <4>1, <4>2 DEF IInv, Owned
        <3> QED BY <3>1, <3>2
    <2>3. \A w \in Wrapper, k \in Key : ~Has(w, k, w)'
        <3> SUFFICES ASSUME NEW w \in Wrapper, NEW k \in Key, Has(w, k, w)' PROVE FALSE
            OBVIOUS
        <3>1. PICK a \in Node, i \in Node : w = m + a /\ w = m + i /\ Under(a, k, i)
            BY <1>16 DEF IInv, Owned
        <3> QED BY <1>11, <1>20, <3>1
    <2> QED BY <2>1, <2>2, <2>3 DEF Owned
<1>24. SharedOnes'
    <2>1. freedTwice' \subseteq Shared'
        BY <1>6, <1>17 DEF IInv, SharedOnes
    <2>2. ASSUME NEW v \in Shared', NEW w \in Wrapper, Is(w, v)' PROVE w \in owned'
        <3>1. v \in Value /\ (v \in Shared \/ (root < v /\ v <= last))
            BY <1>17
        <3>2. CASE Is(w, v)
            <4>1. ~(v >= n)
                BY <1>8, <3>1, <3>2
            <4>2. v \in Shared
                BY <1>3, <1>4, <3>1, <4>1 DEF Value
            <4> QED BY <1>5, <3>2, <4>2 DEF IInv, SharedOnes
        <3>3. CASE ~Is(w, v)
            <4>1. PICK i \in Node : w = m + i /\ v = root + i
                BY <1>14, <2>2, <3>1, <3>3
            <4>2. v >= n /\ v \in Int
                <5>1. v \in Int /\ v >= root
                    BY <1>10, <3>1, <4>1 DEF Value
                <5> QED BY <1>3, <1>4, <5>1
            <4>3. root < v
                BY <1>3, <1>17, <3>1, <4>2
            <4>4. i \in 1 .. size - 1
                BY <1>3, <4>1, <4>3
            <4> QED BY <1>22, <4>1, <4>4
        <3> QED BY <3>2, <3>3
    <2> QED BY <2>1, <2>2 DEF SharedOnes
<1>25. Counted'
    <2> SUFFICES ASSUME NEW v \in Value, v \notin Shared'
                 PROVE  refs'[v] = One(HasOne(v)') + One(InLive(v)') + One((v \in orphans)')
        BY <1>7 DEF Counted, One
    <2>1. v \notin Shared /\ ~(root < v /\ v <= last) /\ v \in Int
        BY <1>17 DEF Value
    <2>2. v \in orphans' <=> v \in orphans \/ (n <= v /\ v < root)
        BY <1>3, <1>5, <2>1
    <2>3. HasOne(v)' <=> HasOne(v) \/ v = root
        <3>1. \A u \in Wrapper : Is(u, v)' <=> Is(u, v) \/ (u = m /\ v = root)
            <4>1. \A i \in Node : v = root + i => i = 0 /\ v = root
                <5> SUFFICES ASSUME NEW i \in Node, v = root + i PROVE i = 0 /\ v = root
                    OBVIOUS
                <5>1. i \in Int /\ v >= root /\ v <= last
                    BY <1>2, <1>10
                <5>2. v = root
                    BY <1>3, <2>1, <5>1
                <5> QED BY <1>3, <5>1, <5>2
            <4>2. root = root + 0 /\ m = m + 0
                BY <1>3
            <4>3. \A u \in Wrapper : (\E i \in Node : u = m + i /\ v = root + i) <=> u = m /\ v = root
                BY <1>2, <4>1, <4>2
            <4> QED BY <1>14, <4>3
        <3>2. m \in Wrapper
            BY <1>2, <1>3, <1>10
        <3> QED BY <3>1, <3>2 DEF HasOne
    <2>4. InLive(v)' <=> InLive(v)
        <3>1. \A p \in Value, k \in Key : In(p, k, v)' <=> In(p, k, v)
            <4>1. \A a, i \in Node : \A k : v = root + i => ~Under(a, k, i)
                <5> SUFFICES ASSUME NEW a \in Node, NEW i \in Node, NEW k, v = root + i, Under(a, k, i) PROVE FALSE
                    OBVIOUS
                <5>1. i \in 1 .. size - 1
                    BY <1>11
                <5>2. root < v /\ v <= last
                    BY <1>3, <1>10, <5>1
                <5> QED BY <2>1, <5>2
            <4> QED BY <1>15, <4>1
        <3>2. \A p \in Value, k \in Key : In(p, k, v) => refs'[p] = refs[p]
            <4>1. \A p \in Value, k \in Key : In(p, k, v) => ~(p >= n)
                BY <1>9
            <4> QED BY <1>3, <1>12, <4>1 DEF Value
        <3> QED BY <3>1, <3>2 DEF InLive
    <2>5. refs[v] = One(HasOne(v)) + One(InLive(v)) + One(v \in orphans)
        BY <1>7, <2>1 DEF IInv, Counted, One
    <2>6. CASE v >= n /\ v <= last
        <3>1. ~HasOne(v) /\ ~InLive(v) /\ v \notin orphans /\ refs'[v] = 1
            BY <1>3, <1>8, <1>12, <2>6 DEF HasOne, InLive
        <3>2. v = root \/ v < root
            BY <1>3, <2>1, <2>6
        <3> QED BY <1>3, <2>1, <2>2, <2>3, <2>4, <2>6, <3>1, <3>2 DEF One
    <2>7. CASE ~(v >= n /\ v <= last)
        <3>1. refs'[v] = refs[v] /\ v # root /\ ~(n <= v /\ v < root)
            BY <1>3, <1>4, <1>12, <2>1, <2>7
        <3> QED BY <2>2, <2>3, <2>4, <2>5, <3>1 DEF One
    <2> QED BY <2>6, <2>7
<1>26. Agree'
    <2> SUFFICES ASSUME NEW u \in Wrapper, wrap'[u].alive
                 PROVE  /\ \A d \in Wrapper, k \in Key : Has(u, k, d)' => wrap'[d].alive
                        /\ \A v \in Value \ parsed', k \in Key : Is(u, v)' =>
                             /\ (\E d \in Wrapper : Has(u, k, d)') <=> (\E y \in Value : In(v, k, y)')
                             /\ \A d \in Wrapper, y \in Value : Has(u, k, d)' /\ In(v, k, y)' => Is(d, y)'
        BY <1>7 DEF Agree
    <2>1. CASE \E i \in Node : u = m + i
        <3>1. PICK a \in Node : u = m + a
            BY <2>1
        <3>2. \A d \in Wrapper, k \in Key : Has(u, k, d)' => wrap'[d].alive
            <4>1. \A d \in Wrapper, k \in Key : Has(u, k, d)' => \E i \in Node : d = m + i
                <5> SUFFICES ASSUME NEW d \in Wrapper, NEW k \in Key, Has(u, k, d)' PROVE \E i \in Node : d = m + i
                    OBVIOUS
                <5>1. ~Has(u, k, d)
                    BY <1>20, <3>1
                <5> QED BY <1>16, <5>1
            <4> QED BY <1>13, <4>1
        <3>3. \A v \in Value \ parsed' : ~Is(u, v)'
            <4>1. \A i \in Node : root + i \in parsed'
                BY <1>5, <1>10
            <4> QED BY <1>14, <1>20, <3>1, <4>1
        <3> QED BY <3>2, <3>3
    <2>2. CASE \A i \in Node : u # m + i
        <3>1. u \notin m .. top /\ wrap[u].alive
            BY <1>10, <1>14, <2>2
        <3>2. \A d \in Wrapper, k \in Key : Has(u, k, d)' <=> Has(u, k, d)
            BY <1>16, <2>2
        <3>3. \A v \in Value : Is(u, v)' <=> Is(u, v)
            BY <1>14, <2>2
        <3>4. \A v \in Value, k \in Key, y \in Value : Is(u, v) => (In(v, k, y)' <=> In(v, k, y))
            BY <1>15, <1>20
        <3>5. \A d \in Wrapper, k \in Key : Has(u, k, d)' => wrap'[d].alive
            BY <1>7, <1>14, <3>1, <3>2 DEF IInv, Agree
        <3>6. ASSUME NEW v \in Value \ parsed', NEW k \in Key, Is(u, v)'
              PROVE  /\ (\E d \in Wrapper : Has(u, k, d)') <=> (\E y \in Value : In(v, k, y)')
                     /\ \A d \in Wrapper, y \in Value : Has(u, k, d)' /\ In(v, k, y)' => Is(d, y)'
            <4>1. v \in Value \ parsed /\ Is(u, v)
                BY <1>5, <3>3, <3>6
            <4>2. /\ (\E d \in Wrapper : Has(u, k, d)) <=> (\E y \in Value : In(v, k, y))
                  /\ \A d \in Wrapper, y \in Value : Has(u, k, d) /\ In(v, k, y) => Is(d, y)
                BY <1>7, <3>1, <4>1 DEF IInv, Agree
            <4>3. \A d \in Wrapper, y \in Value : Is(d, y) => Is(d, y)'
                BY <1>14
            <4> QED BY <3>2, <3>4, <4>1, <4>2, <4>3
        <3> QED BY <3>5, <3>6
    <2> QED BY <2>1, <2>2
<1> QED BY <1>18, <1>19, <1>21, <1>23, <1>24, <1>25, <1>26 DEF IInv

\* Every step keeps the invariant.
LEMMA NextInv == ASSUME JsonRefsAssumption, IInv, [Next]_vars PROVE IInv'
<1>1. CASE UNCHANGED vars
    <2>1. UNCHANGED <<refs, items, wrap, owned, stack, made, orphans, parsed, freedTwice>>
        BY <1>1 DEF vars
    <2>2. \A w \in Wrapper, v \in Value : Is(w, v)' <=> Is(w, v)
        BY <2>1 DEF Is
    <2>3. \A p, v \in Value, k \in Key : In(p, k, v)' <=> In(p, k, v)
        BY <2>1 DEF In
    <2>4. \A u, w \in Wrapper, k \in Key : Has(u, k, w)' <=> Has(u, k, w)
        BY <2>1 DEF Has
    <2>5. \A w : Doomed(w)' <=> Doomed(w)
        BY <2>1 DEF Doomed
    <2>6. Shared' = Shared
        BY <2>1 DEF Shared
    <2>7. \A v \in Value : (HasOne(v)' <=> HasOne(v)) /\ (InLive(v)' <=> InLive(v))
        BY <2>1, <2>2, <2>3 DEF HasOne, InLive
    <2>8. Types'
        BY <2>1 DEF IInv, Types
    <2>9. Fresh' /\ OneEach' /\ Owned' /\ SharedOnes'
        <3>1. Fresh'
            BY <2>1, <2>2, <2>3, <2>4 DEF IInv, Fresh
        <3>2. OneEach'
            BY <2>1, <2>2, <2>3, <2>4 DEF IInv, Types, OneEach
        <3>3. Owned' /\ SharedOnes'
            BY <2>1, <2>2, <2>3, <2>4, <2>6 DEF IInv, Owned, SharedOnes, Shared, Types
        <3> QED BY <3>1, <3>2, <3>3
    <2>10. Counted'
        <3> SUFFICES ASSUME NEW v \in Value \ Shared
                     PROVE  refs'[v] = One(HasOne(v)') + One(InLive(v)') + One((v \in orphans)') + Times(Put(v), stack')
            BY <2>6 DEF Counted, One
        <3>1. refs[v] = One(HasOne(v)) + One(InLive(v)) + One(v \in orphans) + Times(Put(v), stack)
            BY DEF IInv, Counted
        <3> QED BY <2>1, <2>7, <3>1 DEF One
    <2>11. Agree'
        BY <2>1, <2>2, <2>3, <2>4, <2>5 DEF IInv, Agree
    <2> QED BY <2>8, <2>9, <2>10, <2>11 DEF IInv
<1>2. CASE Next
    BY <1>2, ConstructInv, AddInv, MoveConstructInv, MoveAssignInv, FromPtrInv, DestroyInv,
       RunDeleteInv, RunDecRefInv, RunPutInv DEF Next, Call
<1> QED BY <1>1, <1>2

\* The strengthened invariant holds of every behaviour.
THEOREM Invariant == ASSUME JsonRefsAssumption PROVE Spec => []IInv
BY InitInv, NextInv, PTL DEF Spec

\* No reference count passes two, and every pointer is to a value or to nothing
\* (object.cc:61, json.cc:90).
THEOREM TypeCorrect == ASSUME JsonRefsAssumption PROVE Spec => []TypeOK
<1>1. IInv => TypeOK
    <2> SUFFICES ASSUME IInv PROVE TypeOK
        OBVIOUS
    <2>1. \A v \in Value : items[v] \in Partial(Value)
        BY DEF IInv, Types
    <2>2. \A w \in Wrapper : wrap[w].jobj \in Value \cup {NULL} /\ wrap[w].map \in Partial(Wrapper)
        BY DEF IInv, Types, Wraps
    <2>3. freedTwice \subseteq Value
        BY DEF IInv, Types, SharedOnes, Shared
    <2>4. \A v \in Value : DOMAIN items[v] \subseteq Key
        BY <2>1, PartialMap
    <2>5. \A w \in Wrapper : DOMAIN wrap[w].map \subseteq Key
        BY <2>2, PartialMap
    <2> QED BY <2>2, <2>3, <2>4, <2>5 DEF IInv, Types, TypeOK
<1> QED BY <1>1, Invariant, PTL

\* A set that has one member at most has as many as a truth has ones.
LEMMA CardinalityOne ==
    ASSUME NEW S, \A x, y \in S : x = y
    PROVE  Cardinality(S) = One(S # {})
<1>1. CASE S = {}
    BY <1>1, FS_EmptySet DEF One
<1>2. CASE S # {}
    <2>1. PICK x \in S : TRUE
        BY <1>2
    <2>2. S = {x}
        BY <2>1
    <2> QED BY <1>2, <2>2, FS_Singleton DEF One
<1> QED BY <1>1, <1>2

\* object.cc:61, 63, json.cc:90: the references of a value that the program has made are
\* counted exactly, and only what fromPtr() was given is freed twice.
THEOREM CountsExact == ASSUME JsonRefsAssumption PROVE Spec => []RefsExact
<1>1. IInv => RefsExact
    <2> SUFFICES ASSUME IInv PROVE RefsExact
        OBVIOUS
    <2>1. freedTwice \subseteq parsed
        BY DEF IInv, SharedOnes, Shared
    <2>2. ASSUME Idle, NEW v \in Value \ parsed
          PROVE  refs[v] = Cardinality({w \in Alive : wrap[w].jobj = v})
                           + Cardinality({p \in (Value \X Key) : /\ refs[p[1]] > 0 /\ p[2] \in DOMAIN items[p[1]]
                                                                 /\ items[p[1]][p[2]] = v})
                           + Cardinality({v} \cap orphans)
        <3> DEFINE A == {w \in Alive : wrap[w].jobj = v}
                   B == {p \in (Value \X Key) : /\ refs[p[1]] > 0 /\ p[2] \in DOMAIN items[p[1]]
                                                /\ items[p[1]][p[2]] = v}
                   O == {v} \cap orphans
        <3>1. Cardinality(A) = One(HasOne(v))
            <4>1. \A w \in A : w \in Wrapper /\ Is(w, v)
                BY DEF Alive, Is
            <4>2. A # {} <=> HasOne(v)
                BY DEF Alive, Is, HasOne
            <4>3. \A w, u \in A : w = u
                BY <4>1 DEF IInv, OneEach
            <4> HIDE DEF A
            <4> QED BY <4>2, <4>3, CardinalityOne DEF One
        <3>2. Cardinality(B) = One(InLive(v))
            <4>1. \A p \in B : p = <<p[1], p[2]>> /\ p[1] \in Value /\ p[2] \in Key /\ In(p[1], p[2], v)
                BY DEF In
            <4>2. B # {} <=> InLive(v)
                <5>1. B # {} => InLive(v)
                    BY <4>1 DEF InLive
                <5>2. InLive(v) => B # {}
                    <6> SUFFICES ASSUME NEW p \in Value, NEW k \in Key, refs[p] > 0, In(p, k, v) PROVE <<p, k>> \in B
                        BY DEF InLive
                    <6> QED BY DEF In
                <5> QED BY <5>1, <5>2
            <4>3. \A p, q \in B : p = q
                BY <4>1 DEF IInv, OneEach
            <4> HIDE DEF B
            <4> QED BY <4>2, <4>3, CardinalityOne DEF One
        <3>3. Cardinality(O) = One(v \in orphans)
            <4>1. O # {} <=> v \in orphans
                OBVIOUS
            <4>2. \A x, y \in O : x = y
                OBVIOUS
            <4> HIDE DEF O
            <4> QED BY <4>1, <4>2, CardinalityOne DEF One
        <3>4. v \in Value \ Shared /\ Times(Put(v), stack) = 0
            BY <2>2, NoCalls DEF Idle, Shared
        <3>5. refs[v] = One(HasOne(v)) + One(InLive(v)) + One(v \in orphans) + 0
            BY <3>4 DEF IInv, Counted
        <3> QED BY <3>1, <3>2, <3>3, <3>5 DEF One
    <2> QED BY <2>1, <2>2 DEF RefsExact
<1> QED BY <1>1, Invariant, PTL

\* object.cc:80, array.cc:74: what get() finds is the wrapper of what json-c has under
\* the same key.
THEOREM GetFinds == ASSUME JsonRefsAssumption PROVE Spec => []TreesAgree
<1>1. IInv => TreesAgree
    <2> SUFFICES ASSUME IInv, Idle, NEW w \in Alive, HasValue(w), wrap[w].jobj \notin parsed
                 PROVE  /\ DOMAIN wrap[w].map = DOMAIN items[wrap[w].jobj]
                        /\ \A k \in DOMAIN wrap[w].map :
                             wrap[w].map[k] \in Alive /\ wrap[wrap[w].map[k]].jobj = items[wrap[w].jobj][k]
        BY DEF TreesAgree
    <2>1. \A u : ~Doomed(u)
        BY NoCalls DEF Doomed, Idle
    <2>2. PICK v \in Value \ parsed : v = wrap[w].jobj /\ w \in Wrapper /\ Is(w, v)
        BY DEF HasValue, Alive, IInv, Types, Wraps, Is
    <2>3. /\ wrap[w].map \in Partial(Wrapper) /\ items[v] \in Partial(Value)
        BY <2>2 DEF IInv, Types, Wraps
    <2>4. /\ DOMAIN wrap[w].map \subseteq Key /\ \A k \in DOMAIN wrap[w].map : wrap[w].map[k] \in Wrapper
          /\ DOMAIN items[v] \subseteq Key /\ \A k \in DOMAIN items[v] : items[v][k] \in Value
        BY <2>3, PartialMap
    <2>5. /\ \A c \in Wrapper, k \in Key : Has(w, k, c) => wrap[c].alive
          /\ \A k \in Key : (\E c \in Wrapper : Has(w, k, c)) <=> (\E x \in Value : In(v, k, x))
          /\ \A k \in Key, c \in Wrapper, x \in Value : Has(w, k, c) /\ In(v, k, x) => Is(c, x)
        BY <2>1, <2>2 DEF IInv, Agree, Is
    <2>6. \A k \in Key : k \in DOMAIN wrap[w].map <=> \E c \in Wrapper : Has(w, k, c)
        BY <2>2, <2>4 DEF Has, Is
    <2>7. \A k \in Key : k \in DOMAIN items[v] <=> \E x \in Value : In(v, k, x)
        BY <2>4 DEF In
    <2>8. DOMAIN wrap[w].map = DOMAIN items[v]
        BY <2>4, <2>5, <2>6, <2>7
    <2>9. ASSUME NEW k \in DOMAIN wrap[w].map
          PROVE  wrap[w].map[k] \in Alive /\ wrap[wrap[w].map[k]].jobj = items[v][k]
        <3>1. Has(w, k, wrap[w].map[k]) /\ In(v, k, items[v][k])
            BY <2>2, <2>4, <2>8 DEF Has, In, Is
        <3> QED BY <2>4, <2>5, <2>8, <3>1 DEF Alive, Is
    <2> QED BY <2>2, <2>8, <2>9
<1> QED BY <1>1, Invariant, PTL
=============================================================================
