------------------------------ MODULE JsonRefs ------------------------------
(* service/json/: Json, JsonElement, JsonObject and JsonArray, wrappers around *)
(* the reference-counted values of json-c. An object of a wrapper class owns   *)
(* one reference of its value, and owns the wrappers that have been added to   *)
(* it. Objects and arrays differ in their keys only: an array's are its        *)
(* places. The recursion of destructors and of json_object_put() is a stack of *)
(* calls, which no call of a client interrupts.                                *)
EXTENDS Integers, Sequences, FiniteSets, SequencesExt

CONSTANTS MaxValue, MaxWrapper, Key      \* bounds: values and wrappers ever made; keys

VARIABLES
    refs,       \* json-c: the reference count of each value
    items,      \* json-c: the values in an object or array, by key
    wrap,       \* the wrappers: jobj_, map_ or array_
    owned,      \* wrappers that are in some map_ or array_
    stack,      \* calls under way
    made,       \* how many values and wrappers have been made
    orphans,    \* values whose only pointer was overwritten
    parsed,     \* values that fromPtr() was given
    freedTwice  \* values that were put once more after they had been freed

vars == <<refs, items, wrap, owned, stack, made, orphans, parsed, freedTwice>>

JsonRefsAssumption == MaxValue \in Nat /\ MaxWrapper \in Nat

Value == 1 .. MaxValue
Wrapper == 1 .. MaxWrapper
NULL == 0
NoItems == [k \in {} |-> NULL]
Dead == [jobj |-> NULL, map |-> NoItems, alive |-> FALSE, kind |-> "none"]

Init == /\ refs = [v \in Value |-> 0] /\ items = [v \in Value |-> NoItems]
        /\ wrap = [w \in Wrapper |-> Dead] /\ owned = {} /\ stack = <<>>
        /\ made = [values |-> 0, wrappers |-> 0] /\ orphans = {} /\ parsed = {} /\ freedTwice = {}

Put(v)    == [call |-> "put", of |-> v]
Delete(w) == [call |-> "delete", of |-> w]
DecRef(w) == [call |-> "decRef", of |-> w]

Calls(op(_), f) == SetToSeqs({op(f[k]) : k \in DOMAIN f})      \* in any order
With(f, k, x)   == [i \in DOMAIN f \cup {k} |-> IF i = k THEN x ELSE f[i]]

(***************************************************************************)
(* What a client calls: constructors, add() and append(), moves, and the   *)
(* destructor of a wrapper that no other one owns.                         *)
(***************************************************************************)
Idle == stack = <<>>
Make(values, wrappers) ==
    /\ made.values + values <= MaxValue /\ made.wrappers + wrappers <= MaxWrapper
    /\ made' = [values |-> made.values + values, wrappers |-> made.wrappers + wrappers]
v1 == made.values + 1       \* the next ones
w1 == made.wrappers + 1

Live(v, map, kind) == [jobj |-> v, map |-> map, alive |-> TRUE, kind |-> kind]

Construct ==
    /\ Idle /\ Make(1, 1)
    /\ \E kind \in {"element", "container"} :
          /\ refs' = [refs EXCEPT ![v1] = 1]
          /\ wrap' = [wrap EXCEPT ![w1] = Live(v1, NoItems, kind)]
    /\ UNCHANGED <<items, owned, stack, orphans, parsed, freedTwice>>

Roots      == {w \in Wrapper : wrap[w].alive /\ w \notin owned}
Containers == {w \in Wrapper : wrap[w].alive /\ wrap[w].kind = "container"}
HasValue(w) == wrap[w].jobj # NULL

\* Mutant: what was there under the key is forgotten, its reference kept.
Add_KeepsOld ==
    /\ Idle
    /\ \E w \in Containers, val \in Roots, key \in Key :
        LET o    == wrap[w].jobj
            gone == IF key \in DOMAIN items[o] THEN <<Put(items[o][key])>> ELSE <<>>
        IN  /\ HasValue(w) /\ HasValue(val) /\ w # val /\ refs[o] > 0 /\ wrap[val].map = NoItems
            /\ refs' = [refs EXCEPT ![wrap[val].jobj] = @ + 1]
            /\ wrap' = [x \in Wrapper |->
                          IF x = w THEN [wrap[w] EXCEPT !.map = With(@, key, val)]
                          ELSE IF key \in DOMAIN wrap[w].map /\ x = wrap[w].map[key] THEN Dead
                          ELSE wrap[x]]
            /\ items' = [items EXCEPT ![o] = With(@, key, wrap[val].jobj)]
            /\ owned' = owned \cup {val}
            /\ stack' = gone
    /\ UNCHANGED <<made, orphans, parsed, freedTwice>>

\* A key that is there already has its wrapper's reference given up, then
\* json-c's own; the wrapper itself is forgotten.
Add ==
    /\ Idle
    /\ \E w \in Containers, val \in Roots, key \in Key :
        LET old  == IF key \in DOMAIN wrap[w].map THEN {wrap[w].map[key]} ELSE {}
            o    == wrap[w].jobj
            gone == IF key \in DOMAIN items[o] THEN <<Put(items[o][key])>> ELSE <<>>
        IN  /\ HasValue(w) /\ HasValue(val) /\ w # val
            /\ refs[o] > 0                      \* the value is still there
            /\ wrap[val].map = NoItems          \* val does not contain w
            /\ refs' = [refs EXCEPT ![wrap[val].jobj] = @ + 1]
            /\ wrap' = [x \in Wrapper |->
                          IF x \in old THEN Dead
                          ELSE IF x = w THEN [wrap[w] EXCEPT !.map = With(@, key, val)]
                          ELSE wrap[x]]
            /\ items' = [items EXCEPT ![o] = With(@, key, wrap[val].jobj)]
            /\ owned' = owned \cup {val}
            /\ stack' = (IF old = {} THEN <<>>
                         ELSE LET j == wrap[wrap[w].map[key]].jobj
                              IN  IF j = NULL THEN <<>> ELSE <<Put(j)>>) \o gone
    /\ UNCHANGED <<made, orphans, parsed, freedTwice>>

\* Mutant: only the value is moved.
MoveConstruct_LeavesMap ==
    /\ Idle /\ Make(0, 1)
    /\ \E w \in Containers \cap Roots :
        wrap' = [wrap EXCEPT ![w1] = [wrap[w] EXCEPT !.map = NoItems], ![w].jobj = NULL]
    /\ UNCHANGED <<refs, items, owned, stack, orphans, parsed, freedTwice>>

\* JsonObject(JsonObject&&): the value and what is in map_ change hands.
MoveConstruct ==
    /\ Idle /\ Make(0, 1)
    /\ \E w \in Containers \cap Roots :
        wrap' = [wrap EXCEPT ![w1] = wrap[w], ![w].jobj = NULL, ![w].map = NoItems]
    /\ UNCHANGED <<refs, items, owned, stack, orphans, parsed, freedTwice>>

\* operator=(JsonObject&&): the pointer is overwritten and map_ swapped; the old
\* value keeps the reference that nobody will give up.
MoveAssign ==
    /\ Idle
    /\ \E w, rhs \in Containers \cap Roots :
        /\ w # rhs
        /\ wrap' = [wrap EXCEPT ![w].jobj = wrap[rhs].jobj, ![w].map = wrap[rhs].map,
                                ![rhs].jobj = NULL, ![rhs].map = wrap[w].map]
        /\ orphans' = orphans \cup ({wrap[w].jobj} \ {NULL})
    /\ UNCHANGED <<refs, items, owned, stack, made, parsed, freedTwice>>

\* A tree of json-c's: node 0 with others in it, and more in those; down[i] are the
\* nodes in i by key, inner are the objects and arrays. A null is no value of json-c's,
\* and fromPtr() leaves it out.
IsTree(size, inner, down) ==
    /\ 0 \in inner
    /\ \A p \in 0 .. size - 1 : \A k \in DOMAIN down[p] : p \in inner /\ p < down[p][k]
    /\ \A i \in 1 .. size - 1 : \E p \in inner : \E k \in DOMAIN down[p] : down[p][k] = i
    /\ \A p, q \in inner : \A k \in DOMAIN down[p], l \in DOMAIN down[q] :
          down[p][k] = down[q][l] => p = q /\ k = l
Branches(size) == UNION {[K -> 1 .. size - 1] : K \in SUBSET Key}
From(n, branch) == [k \in DOMAIN branch |-> n + branch[k]]

\* The values and the wrappers of a tree. Each wrapper shares the reference that its
\* value's parent has; the values that new JsonObject() and new JsonArray() make are
\* overwritten.
Parse(size, inner, down) ==
    LET root == v1 + Cardinality(inner)
        last == root + size - 1
        top  == w1 + size - 1
    IN  /\ Make(Cardinality(inner) + size, size)
        /\ refs' = [v \in Value |-> IF v \in v1 .. last THEN 1 ELSE refs[v]]
        /\ items' = [v \in Value |-> IF v \in root .. last THEN From(root, down[v - root]) ELSE items[v]]
        /\ wrap' = [w \in Wrapper |->
                      IF w \notin w1 .. top THEN wrap[w]
                      ELSE Live(root + (w - w1), From(w1, down[w - w1]),
                                IF w - w1 \in inner THEN "container" ELSE "element")]
        /\ owned' = owned \cup w1 + 1 .. top
        /\ orphans' = orphans \cup v1 .. root - 1
        /\ parsed' = parsed \cup root .. last

FromPtr ==
    /\ Idle
    /\ \E size \in Wrapper : \E inner \in SUBSET (0 .. size - 1), down \in [0 .. size - 1 -> Branches(size)] :
          IsTree(size, inner, down) /\ Parse(size, inner, down)
    /\ UNCHANGED <<stack, freedTwice>>

Destroy ==
    /\ Idle
    /\ \E w \in Roots : stack' = <<Delete(w)>>
    /\ UNCHANGED <<refs, items, wrap, owned, made, orphans, parsed, freedTwice>>

(***************************************************************************)
(* The calls on the stack.                                                 *)
(***************************************************************************)
\* ~JsonObject(), ~JsonArray(): the wrappers in it first, then ~Json().
RunDelete ==
    /\ ~Idle /\ Head(stack).call = "delete"
    /\ \E calls \in Calls(Delete, wrap[Head(stack).of].map) :
            stack' = calls \o <<DecRef(Head(stack).of)>> \o Tail(stack)
    /\ UNCHANGED <<refs, items, wrap, owned, made, orphans, parsed, freedTwice>>

RunDecRef ==
    /\ ~Idle /\ Head(stack).call = "decRef"
    /\ LET w == Head(stack).of
       IN  /\ stack' = (IF HasValue(w) THEN <<Put(wrap[w].jobj)>> ELSE <<>>) \o Tail(stack)
           /\ wrap' = [wrap EXCEPT ![w] = Dead]
           /\ owned' = owned \ {w}
    /\ UNCHANGED <<refs, items, made, orphans, parsed, freedTwice>>

RunPut ==
    /\ ~Idle /\ Head(stack).call = "put"
    /\ LET v == Head(stack).of
       IN  IF refs[v] = 0
           THEN freedTwice' = freedTwice \cup {v} /\ stack' = Tail(stack) /\ UNCHANGED refs
           ELSE /\ refs' = [refs EXCEPT ![v] = @ - 1]
                /\ IF refs[v] = 1 THEN \E calls \in Calls(Put, items[v]) : stack' = calls \o Tail(stack)
                                  ELSE stack' = Tail(stack)
                /\ UNCHANGED freedTwice
    /\ UNCHANGED <<items, wrap, owned, made, orphans, parsed>>

Call == Construct \/ Add \/ MoveConstruct \/ MoveAssign \/ FromPtr \/ Destroy
Next == Call \/ RunDelete \/ RunDecRef \/ RunPut
Spec == Init /\ [][Next]_vars

TypeOK ==
    /\ refs \in [Value -> 0 .. 2]
    /\ \A v \in Value : DOMAIN items[v] \subseteq Key
    /\ \A w \in Wrapper : wrap[w].jobj \in Value \cup {NULL} /\ DOMAIN wrap[w].map \subseteq Key
    /\ owned \subseteq Wrapper
    /\ orphans \cup parsed \cup freedTwice \subseteq Value

Alive == {w \in Wrapper : wrap[w].alive}

\* object.cc:61, 63, json.cc:90: a value that the program has made has one
\* reference for its wrapper, one for each value it is in, and one more only if its
\* wrapper's pointer was overwritten; whatever is added, replaced, moved and freed.
\* Only a tree that fromPtr() was given is freed twice.
RefsExact ==
    /\ freedTwice \subseteq parsed
    /\ Idle => \A v \in Value \ parsed :
        refs[v] = Cardinality({w \in Alive : wrap[w].jobj = v})
                  + Cardinality({p \in (Value \X Key) : /\ refs[p[1]] > 0 /\ p[2] \in DOMAIN items[p[1]]
                                                        /\ items[p[1]][p[2]] = v})
                  + Cardinality({v} \cap orphans)

\* object.cc:80, array.cc:74: get() and getAt() find the wrapper of the value that
\* json-c has under the same key, but for a tree that fromPtr() was given.
TreesAgree ==
    Idle => \A w \in Alive : HasValue(w) /\ wrap[w].jobj \notin parsed =>
        /\ DOMAIN wrap[w].map = DOMAIN items[wrap[w].jobj]
        /\ \A k \in DOMAIN wrap[w].map :
              wrap[w].map[k] \in Alive /\ wrap[wrap[w].map[k]].jobj = items[wrap[w].jobj][k]
=============================================================================
